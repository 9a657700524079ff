------------------------- MODULE SingletonResources -------------------------
(***************************************************************************)
(* eos:l2:Varp and eos:l2:Mlag (internal/resources/l2/varp.go, mlag.go):   *)
(* one object per device.  Varp sets one line that EOS overwrites; Mlag    *)
(* negates its whole block and renders it anew.  The device shows a knob   *)
(* exactly when a line has set it.                                         *)
(***************************************************************************)
EXTENDS Naturals, EosConfig

CONSTANTS
    MacForm,        \* notations of MAC addresses, as the user may write them
    Unicast,        \* those whose first octet has an even value
    Canonical(_)    \* the colon-separated lower-case form of a notation

ASSUME MacAssumption ==
    /\ Unicast \subseteq MacForm
    /\ \A m \in MacForm : /\ Canonical(m) \in MacForm
                           /\ Canonical(Canonical(m)) = Canonical(m)

VarpObject == <<"varp", 0>>
VarpMac == <<VarpObject, "mac">>

VarpValid(args) == args.mac \in Unicast

VarpObjects(args) == {VarpObject}

\* EOS keeps one virtual MAC: the line replaces the one before
VarpBlock(args) == Rebuilds({VarpObject}, [p \in {VarpMac} |-> Canonical(args.mac)])

\* EOS takes back the line with the MAC it has, and no other
VarpRemoval(args) == Negates(VarpMac, Canonical(args.mac))

VarpRead(args, config) ==
    IF VarpMac \in DOMAIN config
    THEN Overlay(args, [mac |-> config[VarpMac]])
    ELSE Nothing

-----------------------------------------------------------------------------
MlagObject == <<"mlag", 0>>

MlagRequired == {"domainId", "localInterface", "peerLink", "peerAddress"}

MlagValid(args) ==
    /\ MlagRequired \subseteq DOMAIN args
    /\ Has(args, "primaryPriority") => args.primaryPriority \in 0 .. 32767
    /\ Has(args, "detectionDelay") => args.detectionDelay > 0
    /\ Has(args, "action") => Has(args, "detectionDelay")
    /\ \A f \in {"recoveryMlag", "recoveryNonMlag", "reloadMlag", "reloadNonMlag"} :
        Has(args, f) => args[f] \in Nat

MlagObjects(args) == {MlagObject}

\* A delay that is left out is rendered as 0.
RecoveryLine_Swapped(args) ==
    <<Or(args, "recoveryNonMlag", 0), Or(args, "recoveryMlag", 0)>>
RecoveryLine(args) ==
    <<Or(args, "recoveryMlag", 0), Or(args, "recoveryNonMlag", 0)>>

\* The lines of the block, by knob.  The heartbeat line carries its VRF, the
\* detection line its action, the recovery line both delays.
MlagLines(args) ==
    [k \in {"header"}
        \cup (DOMAIN args \cap (MlagRequired \cup
                {"heartbeat", "primaryPriority", "detectionDelay",
                 "reloadMlag", "reloadNonMlag"}))
        \cup {"recovery" : f \in DOMAIN args \cap {"recoveryMlag", "recoveryNonMlag"}}
        \cup {"shutdown" : f \in {g \in {"shutdown"} : Has(args, g) /\ args[g]}} |->
        CASE k = "header" -> "on"
          [] k = "heartbeat" -> <<args.heartbeat, Or(args, "heartbeatVrf", "")>>
          [] k = "detectionDelay" -> <<args.detectionDelay, Or(args, "action", "")>>
          [] k = "recovery" -> RecoveryLine(args)
          [] OTHER -> args[k]]

MlagBlock_NoNegate(args) == Sets(Under(MlagObject, MlagLines(args)))

MlagBlock(args) == Rebuilds({MlagObject}, Under(MlagObject, MlagLines(args)))

MlagRemoval(args) == Drops({MlagObject})

(***************************************************************************)
(* parseMlagConfig and fillState: a knob the device shows is overlaid on   *)
(* the inputs, unless its value is zero or empty; a knob the device does   *)
(* not show leaves the input as it is.  (A detection delay of 0 would be   *)
(* skipped as well: EOS takes none.)                                       *)
(***************************************************************************)
MlagFound(config) ==
    LET at(k) == config[<<MlagObject, k>>]
        shown == {k \in {"heartbeat", "detectionDelay", "recovery", "shutdown",
                         "primaryPriority", "reloadMlag", "reloadNonMlag"} \cup MlagRequired :
                    <<MlagObject, k>> \in DOMAIN config}
        parsed == {f \in shown : f \in {"primaryPriority", "reloadMlag", "reloadNonMlag"}
                                    => at(f) > 0}
    IN  [f \in (parsed \ {"recovery"})
            \cup {"heartbeatVrf" : k \in {j \in shown : j = "heartbeat" /\ at(j)[2] # ""}}
            \cup {"action" : k \in {j \in shown : j = "detectionDelay" /\ at(j)[2] # ""}}
            \cup UNION {{"recoveryMlag", "recoveryNonMlag"} : k \in shown \cap {"recovery"}} |->
            CASE f \in {"heartbeat", "detectionDelay"} -> at(f)[1]
              [] f = "heartbeatVrf" -> at("heartbeat")[2]
              [] f = "action" -> at("detectionDelay")[2]
              [] f = "recoveryMlag" -> at("recovery")[1]
              [] f = "recoveryNonMlag" -> at("recovery")[2]
              [] OTHER -> at(f)]

MlagRead(args, config) ==
    IF Exists(config, MlagObject) THEN Overlay(args, MlagFound(config)) ELSE Nothing
=============================================================================
