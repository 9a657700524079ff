--------------------------- MODULE MCResourceApply --------------------------
(***************************************************************************)
(* Isolated: three operations of one deployment, one of each shape of      *)
(* apply function, with session names of their own; two use one Client.    *)
(* Shared: operations on the same session name, through one Client or, as  *)
(* config.EAPIClient arranges it, through a Client each.                   *)
(***************************************************************************)
EXTENDS ResourceApply

IsolatedOp == {"varp", "rcf", "raw"}
IsolatedClient == {"c1", "c2"}
IsolatedName == {"nVarp", "nRcf", "nRaw"}
IsolatedClientOf == [o \in IsolatedOp |-> IF o = "raw" THEN "c2" ELSE "c1"]
IsolatedNameOf == [o \in IsolatedOp |->
    CASE o = "varp" -> "nVarp" [] o = "rcf" -> "nRcf" [] o = "raw" -> "nRaw"]
IsolatedKind == [o \in IsolatedOp |-> IF o = "raw" THEN "rawcli" ELSE o]
IsolatedBefore == {<<"varp", "raw">>, <<"rcf", "raw">>}
IsolatedPreloads == {{}, {"raw"}}

SharedOp == {"vlan", "varp", "raw"}
SharedClientOf == [o \in SharedOp |-> "c1"]
SharedNameOf == [o \in SharedOp |-> "n1"]
SharedKind == [o \in SharedOp |->
    CASE o = "vlan" -> "apply" [] o = "varp" -> "varp" [] o = "raw" -> "rawcli"]

TwiceOp == {"first", "second"}
TwiceClientOf == [o \in TwiceOp |-> o]
TwiceNameOf == [o \in TwiceOp |-> "n1"]
TwiceKind == [o \in TwiceOp |-> "apply"]
TwiceInOrder == {<<"first", "second">>}
TwiceAtOnce == {}

NoPreload == {{}}
=============================================================================
