----------------------------- MODULE RouterBgp -------------------------------
(***************************************************************************)
(* eos:l3:RouterBgp (internal/resources/l3/router_bgp.go).  The block adds *)
(* to the one BGP instance: it has no `no` form, so a peer group, neighbor *)
(* or VRF that leaves the inputs stays on the device.  Names are numbers   *)
(* in their lexical order where the order matters.                         *)
(***************************************************************************)
EXTENDS Integers, Sequences, SequencesExt, EosConfig

BgpAddressFamilies == {"ipv4", "ipv6", "evpn"}

SendCommunity == {"standard", "extended", "large", "all"}

VrfSources == {"connected", "static", "attached-host"}

RouterBgpValid(args) ==
    /\ args.asn \in Nat \ {0}
    /\ Has(args, "maximumPaths") =>
        /\ args.maximumPaths.paths > 0
        /\ Has(args.maximumPaths, "ecmp") => args.maximumPaths.ecmp >= args.maximumPaths.paths
    /\ \A group \in Items(args, "peerGroups") :
        /\ Has(group, "sendCommunity") => group.sendCommunity \in SendCommunity
        /\ Has(group, "maximumRoutes") => group.maximumRoutes >= 0
    /\ \A n \in Items(args, "neighbors") : Has(n, "peerGroup") # Has(n, "remoteAs")
    /\ \A family \in Items(args, "addressFamilies") : family.name \in BgpAddressFamilies
    /\ \A vrf \in Items(args, "vrfs") : Items(vrf, "redistribute") \subseteq VrfSources

RouterBgpLines(args) ==
    Overlay(Overlay([header |-> "on"], Given(args, {"routerId", "maximumPaths"})),
            OnOnly(args, {"noDefaultIpv4Unicast", "bfd"}))

\* `neighbor <key> <attribute> <value>`; a peer group says so of itself
PeerGroupAttributes(group) ==
    Overlay(Overlay([peerGroup |-> ""], Without(group, {"name", "bfd"})), OnOnly(group, {"bfd"}))

NeighborAttributes(n) == Without(n, {"address"})

\* a union of functions on disjoint domains
Joined(functions) ==
    [k \in UNION {DOMAIN f : f \in functions} |-> (CHOOSE f \in functions : k \in DOMAIN f)[k]]

AttributeRows(table, key, attributes) ==
    [r \in {table} \X ({key} \X DOMAIN attributes) |-> attributes[r[2][2]]]

\* within a family a name that is deactivated is so though it is activated, too
ActivationRows(family) ==
    LET off == Items(family, "deactivate")
    IN  [r \in {"activation"} \X ({family.name} \X (Items(family, "activate") \cup off)) |->
            r[2][2] \notin off]

VrfAttributes(vrf) == Overlay([header |-> "on"], Without(vrf, {"name", "redistribute"}))

RouterBgpRows(args) ==
    Joined({AttributeRows("neighbor", g.name, PeerGroupAttributes(g)) : g \in Items(args, "peerGroups")}
        \cup {AttributeRows("neighbor", n.address, NeighborAttributes(n)) : n \in Items(args, "neighbors")}
        \cup {ActivationRows(family) : family \in Items(args, "addressFamilies")}
        \cup {AttributeRows("bgpVrf", v.name, VrfAttributes(v)) : v \in Items(args, "vrfs")}
        \cup {AttributeRows("redistribute", v.name,
                            [p \in Items(v, "redistribute") |-> TRUE])
                : v \in Items(args, "vrfs")})

(***************************************************************************)
(* Only the scalars are read, and the parser knows no VRF: a `router-id`   *)
(* line of a VRF, which stands below, is taken for that of the instance.   *)
(***************************************************************************)
RouterBgpFound(config, object) ==
    LET rows == {k \in ShownKeys(config, object, "bgpVrf") : k[2] = "routerId"}
        last == CHOOSE k \in rows : \A j \in rows : j[1] <= k[1]
    IN  Overlay(Shown(config, object, {"routerId", "maximumPaths", "noDefaultIpv4Unicast", "bfd"}),
                IF rows = {} THEN Nothing
                ELSE [routerId |-> config[<<object, "bgpVrf", last>>]])
=============================================================================
