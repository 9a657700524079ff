---------------------------- MODULE MCEapiClient ----------------------------
(* Users of the package that share one Client and one session name.       *)
EXTENDS EapiClient

MCOp == {"a", "b"}
MCClient == {"c1"}
MCName == {"n1"}
MCClientOf == [o \in MCOp |-> "c1"]
MCNameOf == [o \in MCOp |-> "n1"]
MCPreloads == {{}}
=============================================================================
