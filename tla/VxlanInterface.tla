--------------------------- MODULE VxlanInterface ----------------------------
(***************************************************************************)
(* eos:l2:VxlanInterface (internal/resources/l2/vxlan_interface.go).  The  *)
(* bindings of VLANs and VRFs to VNIs are rows of their own on the device: *)
(* the block sets the rows of the inputs and takes none away.  VRF names   *)
(* and VTEPs stand in their lexical order, as numbers.                     *)
(***************************************************************************)
EXTENDS Integers, Sequences, SequencesExt, EosConfig

CONSTANT VniMax         \* 16777214

ASSUME VniMaxAssumption == VniMax \in Nat

VxlanLists == {"vlanVniMap", "vrfVniMap", "floodVteps"}

VlanIds(map) == {map[i].vlanId : i \in DOMAIN map}
Vrfs(map) == {map[i].vrf : i \in DOMAIN map}

\* each VLAN and each VRF is bound once
VxlanValid(args) ==
    LET vlans == Or(args, "vlanVniMap", <<>>)
        vrfs == Or(args, "vrfVniMap", <<>>)
    IN  /\ args.id >= 1
        /\ Has(args, "udpPort") => args.udpPort \in 1 .. WordMax
        /\ \A i \in DOMAIN vlans : vlans[i].vlanId \in 1 .. 4094 /\ vlans[i].vni \in 1 .. VniMax
        /\ \A i \in DOMAIN vrfs : vrfs[i].vni \in 1 .. VniMax
        /\ \A i, j \in DOMAIN vlans : vlans[i].vlanId = vlans[j].vlanId => i = j
        /\ \A i, j \in DOMAIN vrfs : vrfs[i].vrf = vrfs[j].vrf => i = j

VxlanFields == {"description", "sourceInterface", "udpPort"}

Ascending(set) == InOrder(set, [n \in set |-> n])

VxlanLines(args) ==
    Overlay(Overlay([header |-> "on"], Given(args, VxlanFields)),
            [f \in {"floodVteps"} \cap DOMAIN args |-> Ascending(ToSet(args.floodVteps))])

\* the rows, by table and by VLAN or VRF
VxlanRows(args) ==
    LET vlans == Or(args, "vlanVniMap", <<>>)
        vrfs == Or(args, "vrfVniMap", <<>>)
        rowAt(map, field, key) == CHOOSE e \in ToSet(map) : e[field] = key
    IN  [r \in ({"vlanVniMap"} \X VlanIds(vlans)) \cup ({"vrfVniMap"} \X Vrfs(vrfs)) |->
            IF r[1] = "vlanVniMap" THEN rowAt(vlans, "vlanId", r[2]).vni
                                   ELSE rowAt(vrfs, "vrf", r[2]).vni]

\* EOS shows the rows in order of VLAN, and of VRF
VlansFound(config, object) ==
    LET ids == Ascending(ShownKeys(config, object, "vlanVniMap"))
    IN  [i \in DOMAIN ids |-> [vlanId |-> ids[i], vni |-> config[<<object, "vlanVniMap", ids[i]>>]]]

VrfsFound(config, object) ==
    LET vrfs == Ascending(ShownKeys(config, object, "vrfVniMap"))
    IN  [i \in DOMAIN vrfs |-> [vrf |-> vrfs[i], vni |-> config[<<object, "vrfVniMap", vrfs[i]>>]]]

VxlanFound(config, object) ==
    Overlay(Shown(config, object, VxlanFields \cup {"floodVteps"}),
            NonEmpty([vlanVniMap |-> VlansFound(config, object),
                      vrfVniMap |-> VrfsFound(config, object)]))

(***************************************************************************)
(* fillState appends what it found to the inputs' own slice, cut to length *)
(* 0.  Where the slice is long enough its array is written in place, and   *)
(* Read returns inputs whose first entries are those of the device.  (The  *)
(* capacity of a decoded slice is taken to be its length.)                 *)
(***************************************************************************)
WrittenOver(list, found) ==
    IF Len(found) > Len(list) THEN list
    ELSE found \o SubSeq(list, Len(found) + 1, Len(list))

VxlanInputsRead(args, found) ==
    [f \in DOMAIN args |->
        IF f \in VxlanLists \cap DOMAIN found THEN WrittenOver(args[f], found[f]) ELSE args[f]]
=============================================================================
