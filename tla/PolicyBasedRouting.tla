------------------------- MODULE PolicyBasedRouting --------------------------
(***************************************************************************)
(* eos:l3:PolicyBasedRouting (internal/resources/l3): a policy map and the *)
(* interfaces it is attached to.  The block detaches the map from the      *)
(* interfaces of the inputs, negates it, renders it anew and attaches it;  *)
(* an interface that the inputs no longer name keeps its attachment.       *)
(***************************************************************************)
EXTENDS NamedLists

PolicyMap(args) == <<"policyMap", [name |-> args.name]>>

ServicePolicy(interface) == <<"servicePolicy", [interface |-> interface]>>

Attached(args) == Items(args, "attachInterfaces")

PbrActionValid(action) ==
    Cardinality((DOMAIN action \cap {"setNexthop", "setNexthopGroup"})
                    \cup {"drop" : f \in {g \in {"drop"} : On(action, g)}}) = 1

PbrValid(args) ==
    /\ args.sequences # <<>>
    /\ \A i \in DOMAIN args.sequences :
        /\ args.sequences[i].seq \in 1 .. SeqMax
        /\ PbrActionValid(args.sequences[i].action)

\* the VRF of a next hop is a word of its line
PbrActionLine(action) ==
    IF Has(action, "setNexthop") THEN Given(action, {"setNexthop", "setNexthopVrf"})
    ELSE Overlay(Given(action, {"setNexthopGroup"}), OnOnly(action, {"drop"}))

PbrSequenceLines(args) ==
    LET sequences == BySeq([entries |-> args.sequences])
    IN  [i \in DOMAIN sequences |->
            [sequences[i] EXCEPT !.action = PbrActionLine(@)]]

PbrObjects(args) == {PolicyMap(args)} \cup {ServicePolicy(i) : i \in Attached(args)}

\* EOS keeps one such policy per interface: the line replaces the one before.
\* (The interfaces are ports, which are there.)
PbrBlock(args) ==
    LET map == Under(PolicyMap(args), [header |-> "on", sequences |-> PbrSequenceLines(args)])
        attachments == [p \in {<<ServicePolicy(i), "policy">> : i \in Attached(args)} |-> args.name]
    IN  Rebuilds(PbrObjects(args), Overlay(map, attachments))

PbrRemoval_KeepsAttachments(args) == Drops({PolicyMap(args)})

\* `no service-policy type pbr input <name>` takes back this map, and no other
PbrRemoval(args) ==
    [Drops({PolicyMap(args)}) EXCEPT
        !.negate = {<<<<ServicePolicy(i), "policy">>, args.name>> : i \in Attached(args)}]

\* Read sees the sequences of the map, not what it is attached to.
PbrRead(args, config) ==
    LET found == Shown(config, PolicyMap(args), {"sequences"})
    IN  IF ~Exists(config, PolicyMap(args)) THEN Nothing
        ELSE IF Or(found, "sequences", <<>>) = <<>> THEN args ELSE Overlay(args, found)
=============================================================================
