---------------------------- MODULE VlanResource ----------------------------
(***************************************************************************)
(* eos:l2:Vlan and eos:l2:VlanRange (internal/resources/l2/vlan.go and     *)
(* vlan_range.go): inputs, the block they render, what Read makes of the   *)
(* device.  Both blocks only add: `vlan <id>` enters or creates the VLAN,  *)
(* `name` is rendered when the input has one.                              *)
(***************************************************************************)
EXTENDS Naturals, EosConfig

CONSTANT VlanIdMax      \* 4094

ASSUME VlanIdMaxAssumption == VlanIdMax \in Nat \ {0}

VlanObject(id) == <<"vlan", id>>

\* `show vlan` reports a VLAN without a configured name under a name of the
\* device's own, VLAN and the id (external)
AutoName == "VLAN0001"
LooksAuto == {AutoName, "VLAN-blue"}

ShownName(config, id) ==
    IF <<VlanObject(id), "name">> \in DOMAIN config
    THEN config[<<VlanObject(id), "name">>] ELSE AutoName

Named(args, objects) ==
    [p \in {<<o, "header">> : o \in objects}
            \cup {<<o, "name">> : o \in {q \in objects : Has(args, "name")}} |->
        IF p[2] = "name" THEN args.name ELSE "on"]

-----------------------------------------------------------------------------
VlanValid(args) == args.id \in 1 .. VlanIdMax

VlanObjects(args) == {VlanObject(args.id)}

VlanBlock(args) == Sets(Named(args, VlanObjects(args)))

VlanRemoval(args) == Drops(VlanObjects(args))

VlanRead_NameIgnored(args, config) ==
    IF Exists(config, VlanObject(args.id)) THEN args ELSE Nothing

VlanRead_UnnamedIsMissing(args, config) ==
    IF <<VlanObject(args.id), "name">> \in DOMAIN config
    THEN Overlay(args, [name |-> ShownName(config, args.id)])
    ELSE Nothing

VlanRead(args, config) ==
    IF Exists(config, VlanObject(args.id))
    THEN Overlay(args, [name |-> ShownName(config, args.id)])
    ELSE Nothing

-----------------------------------------------------------------------------
RangeValid(args) ==
    /\ args.start \in 1 .. VlanIdMax
    /\ args.end \in 1 .. VlanIdMax
    /\ args.start <= args.end

RangeObjects(args) == {VlanObject(id) : id \in args.start .. args.end}

RangeBlock(args) == Sets(Named(args, RangeObjects(args)))

RangeRemoval_OnePast(args) ==
    Drops({VlanObject(id) : id \in args.start .. args.end + 1})

RangeRemoval(args) == Drops(RangeObjects(args))

\* Read looks at the first and the last VLAN, and at the name of the first; a
\* name that begins as the device's own do counts as none.
RangeRead(args, config) ==
    LET shown == ShownName(config, args.start)
    IN  IF ~Exists(config, VlanObject(args.start)) \/ ~Exists(config, VlanObject(args.end))
        THEN Nothing
        ELSE IF shown \in LooksAuto THEN args ELSE Overlay(args, [name |-> shown])
=============================================================================
