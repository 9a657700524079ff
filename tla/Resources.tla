----------------------------- MODULE Resources ------------------------------
(***************************************************************************)
(* What the resources have in common, by kind: validate, the objects of    *)
(* the device that the inputs name, the block that apply stages, the block *)
(* of a removal, and what Read returns.                                    *)
(***************************************************************************)
EXTENDS SingletonResources, StaticRoute, RouteMap, Interfaces, VxlanInterface, Vrrp,
        L2Services, L3Services, PolicyBasedRouting, RouterBgp, RouterOspf

ListKinds == {"prefixList", "communityList", "extCommunityList", "asPathList", "routeMap"}

\* kinds of one object each, whose block adds to it
MergeKinds == {"interface", "portChannel", "vlanInterface", "loopback", "subinterface",
               "greTunnel", "vxlanInterface", "vrrp", "stp", "vrf", "bfd", "rpki", "routerBgp"}

\* kinds of one object each, whose block negates it first or is one line
RebuildKinds == {"evpnEthernetSegment", "rcf", "resilientEcmp", "routerOspf"}

OneObjectKinds == MergeKinds \cup RebuildKinds

\* kinds whose inputs are command lines
RawKinds == {"configlet", "rawCli"}

AllKinds == {"vlan", "vlanRange", "varp", "mlag", "staticRoute", "policyBasedRouting"}
                \cup ListKinds \cup OneObjectKinds \cup RawKinds

Valid(kind, args) ==
    CASE kind = "vlan" -> VlanValid(args)
      [] kind = "vlanRange" -> RangeValid(args)
      [] kind = "varp" -> VarpValid(args)
      [] kind = "mlag" -> MlagValid(args)
      [] kind = "staticRoute" -> RouteValid(args)
      [] kind = "policyBasedRouting" -> PbrValid(args)
      [] kind = "prefixList" -> PrefixListValid(args)
      [] kind = "communityList" -> CommunityListValid(args)
      [] kind = "extCommunityList" -> ExtCommunityListValid(args)
      [] kind = "asPathList" -> AsPathListValid(args)
      [] kind = "routeMap" -> RouteMapValid(args)
      [] kind = "interface" -> InterfaceValid(args)
      [] kind = "portChannel" -> PortChannelValid(args)
      [] kind = "vlanInterface" -> VlanInterfaceValid(args)
      [] kind = "loopback" -> LoopbackValid(args)
      [] kind = "subinterface" -> SubinterfaceValid(args)
      [] kind = "greTunnel" -> GreTunnelValid(args)
      [] kind = "vxlanInterface" -> VxlanValid(args)
      [] kind = "vrrp" -> VrrpValid(args)
      [] kind = "stp" -> StpValid(args)
      [] kind = "evpnEthernetSegment" -> EvpnEthernetSegmentValid(args)
      [] kind = "vrf" -> VrfValid(args)
      [] kind = "bfd" -> BfdValid(args)
      [] kind = "rpki" -> RpkiValid(args)
      [] kind = "rcf" -> RcfValid(args)
      [] kind = "resilientEcmp" -> ResilientEcmpValid(args)
      [] kind = "routerBgp" -> RouterBgpValid(args)
      [] kind = "routerOspf" -> RouterOspfValid(args)
      [] kind \in RawKinds -> args.body # Sets(Empty)

-----------------------------------------------------------------------------
\* the lines of a list on the device, and what Read finds of them
ListLines(kind, args) ==
    CASE kind = "prefixList" -> PrefixListLines(args)
      [] kind = "communityList" -> CommunityListLines(args)
      [] kind = "extCommunityList" -> ExtCommunityListLines(args)
      [] kind = "asPathList" -> AsPathListLines(args)
      [] kind = "routeMap" -> RouteMapLines(args)

ListFound(kind, args, config) ==
    CASE kind = "prefixList" -> PrefixListFound(args, config)
      [] kind = "communityList" -> CommunityListFound(args, config)
      [] kind = "extCommunityList" -> ExtCommunityListFound(args, config)
      [] kind = "asPathList" -> AsPathListFound(args, config)
      [] kind = "routeMap" -> RouteMapFound(args, config)

ListBlock(kind, args) ==
    LET object == ListObject(kind, args)
    IN  Rebuilds({object}, Under(object, ListLines(kind, args)))

ListRemoval(kind, args) == Drops({ListObject(kind, args)})

\* a list without a line is gone
ListRead(kind, args, config) ==
    LET found == ListFound(kind, args, config)
    IN  IF found = Nothing THEN Nothing ELSE Overlay(args, found)

-----------------------------------------------------------------------------
(***************************************************************************)
(* Kinds of one object.  The object is known by the fields of Identity.    *)
(***************************************************************************)
Identity(kind) ==
    CASE kind \in {"interface", "subinterface", "vrf", "rcf"} -> {"name"}
      [] kind \in {"portChannel", "greTunnel", "vxlanInterface"} -> {"id"}
      [] kind = "vlanInterface" -> {"vlanId"}
      [] kind = "loopback" -> {"number"}
      [] kind = "vrrp" -> {"interface", "vrid"}
      [] kind = "evpnEthernetSegment" -> {"parentInterface"}
      [] kind = "rpki" -> {"bgpAsn", "name"}
      [] kind = "resilientEcmp" -> {"prefix"}
      [] kind = "routerBgp" -> {"asn"}
      [] kind = "routerOspf" -> {"instance", "vrf"}
      [] kind \in {"stp", "bfd"} -> {}

Object(kind, args) == <<kind, Given(args, Identity(kind))>>

Lines(kind, args) ==
    CASE kind = "interface" -> InterfaceLines(args)
      [] kind = "portChannel" -> PortChannelLines(args)
      [] kind = "vlanInterface" -> VlanInterfaceLines(args)
      [] kind = "loopback" -> LoopbackLines(args)
      [] kind = "subinterface" -> SubinterfaceLines(args)
      [] kind = "greTunnel" -> GreTunnelLines(args)
      [] kind = "vxlanInterface" -> VxlanLines(args)
      [] kind = "vrrp" -> VrrpLines(args)
      [] kind = "stp" -> StpLines(args)
      [] kind = "evpnEthernetSegment" -> EvpnEthernetSegmentLines(args)
      [] kind = "vrf" -> VrfLines(args)
      [] kind = "bfd" -> BfdLines(args)
      [] kind = "rpki" -> RpkiLines(args)
      [] kind = "rcf" -> RcfLines(args)
      [] kind = "resilientEcmp" -> ResilientEcmpLines(args)
      [] kind = "routerBgp" -> RouterBgpLines(args)
      [] kind = "routerOspf" -> RouterOspfLines(args)

Rows(kind, args) ==
    CASE kind = "vxlanInterface" -> VxlanRows(args)
      [] kind = "vrrp" -> VrrpRows(args)
      [] kind = "routerBgp" -> RouterBgpRows(args)
      [] kind = "routerOspf" -> RouterOspfRows(args)
      [] OTHER -> Nothing

\* the fields that Read overlays on the inputs
Found(kind, args, config) ==
    LET object == Object(kind, args)
    IN  CASE kind = "interface" -> InterfaceFound(config, object)
          [] kind = "portChannel" -> PortChannelFound(config, object)
          [] kind = "vlanInterface" -> VlanInterfaceFound(config, object)
          [] kind = "loopback" -> LoopbackFound(config, object)
          [] kind = "subinterface" -> SubinterfaceFound(config, object)
          [] kind = "greTunnel" -> GreTunnelFound(config, object)
          [] kind = "vxlanInterface" -> VxlanFound(config, object)
          [] kind = "vrrp" -> VrrpFound(config, object)
          [] kind = "stp" -> StpFound(config, object)
          [] kind = "evpnEthernetSegment" -> EvpnEthernetSegmentFound(config, object)
          [] kind = "vrf" -> VrfFound(args, config)
          [] kind = "bfd" -> BfdFound(config, object)
          [] kind = "rpki" -> RpkiFound(config, object)
          [] kind = "rcf" -> RcfFound(config, object)
          [] kind = "resilientEcmp" -> ResilientEcmpFound(args, config, object)
          [] kind = "routerBgp" -> RouterBgpFound(config, object)
          [] kind = "routerOspf" -> RouterOspfFound(config, object)

\* A port, the spanning tree and BFD are always there.
Missing(kind, args, config) ==
    LET object == Object(kind, args)
    IN  CASE kind \in {"interface", "stp", "bfd"} -> FALSE
          [] kind = "vrrp" -> VrrpMissing(config, object)
          [] kind = "vrf" -> VrfMissing(args, config)
          [] kind = "rpki" -> RpkiMissing(config, object)
          [] kind = "rcf" -> RcfMissing(config, object)
          [] kind = "resilientEcmp" -> ResilientEcmpMissing(args, config, object)
          [] OTHER -> ~Exists(config, object)

\* the inputs that stay where nothing is found
Base(kind, args) ==
    IF kind \in {"interface", "portChannel"} THEN Without(args, SwitchportFields) ELSE args

\* The block and the removal enter the object that this one stands under, and
\* so create it, unless it is a port.
Entered(kind, args) ==
    LET parents == CASE kind = "vrrp" -> {args.interface}
                     [] kind = "evpnEthernetSegment" -> {args.parentInterface}
                     [] kind = "rpki" -> {<<"routerBgp", [asn |-> args.bgpAsn]>>}
                     [] OTHER -> {}
    IN  {object \in parents : object[1] # "interface"}

Headers(objects) == [p \in {<<o, "header">> : o \in objects} |-> "on"]

OneBlock(kind, args) ==
    LET object == Object(kind, args)
        set == Overlay(Overlay(Headers(Entered(kind, args)), Under(object, Lines(kind, args))),
                       RowsUnder(object, Rows(kind, args)))
    IN  IF kind \in RebuildKinds THEN Rebuilds({object}, set) ELSE Sets(set)

OneRemoval(kind, args) == Rebuilds({Object(kind, args)}, Headers(Entered(kind, args)))

OneRead(kind, args, config) ==
    IF Missing(kind, args, config) THEN Nothing
    ELSE Overlay(Base(kind, args), Found(kind, args, config))

-----------------------------------------------------------------------------
(***************************************************************************)
(* Configlet and RawCli: the body is a block of any lines.  Delete applies *)
(* the deleteBody of a RawCli, and else nothing; Read asks no device.      *)
(***************************************************************************)
Reached(block) ==
    {p[1] : p \in DOMAIN block.set} \cup block.drop \cup {n[1][1] : n \in block.negate}

RawRemoval(kind, args) ==
    IF kind = "rawCli" THEN Or(args, "deleteBody", Sets(Empty)) ELSE Sets(Empty)

RawObjects(kind, args) == Reached(args.body) \cup Reached(RawRemoval(kind, args))

-----------------------------------------------------------------------------
Objects(kind, args) ==
    CASE kind = "vlan" -> VlanObjects(args)
      [] kind = "vlanRange" -> RangeObjects(args)
      [] kind = "varp" -> VarpObjects(args)
      [] kind = "mlag" -> MlagObjects(args)
      [] kind = "staticRoute" -> RouteObjects(args)
      [] kind = "policyBasedRouting" -> PbrObjects(args)
      [] kind \in ListKinds -> {ListObject(kind, args)}
      [] kind \in OneObjectKinds -> {Object(kind, args)}
      [] kind \in RawKinds -> RawObjects(kind, args)

Block(kind, args) ==
    CASE kind = "vlan" -> VlanBlock(args)
      [] kind = "vlanRange" -> RangeBlock(args)
      [] kind = "varp" -> VarpBlock(args)
      [] kind = "mlag" -> MlagBlock(args)
      [] kind = "staticRoute" -> RouteBlock(args)
      [] kind = "policyBasedRouting" -> PbrBlock(args)
      [] kind \in ListKinds -> ListBlock(kind, args)
      [] kind \in OneObjectKinds -> OneBlock(kind, args)
      [] kind \in RawKinds -> args.body

Removal(kind, args) ==
    CASE kind = "vlan" -> VlanRemoval(args)
      [] kind = "vlanRange" -> RangeRemoval(args)
      [] kind = "varp" -> VarpRemoval(args)
      [] kind = "mlag" -> MlagRemoval(args)
      [] kind = "staticRoute" -> RouteRemoval(args)
      [] kind = "policyBasedRouting" -> PbrRemoval(args)
      [] kind \in ListKinds -> ListRemoval(kind, args)
      [] kind \in OneObjectKinds -> OneRemoval(kind, args)
      [] kind \in RawKinds -> RawRemoval(kind, args)

\* Nothing where Read returns the empty ID: the resource is gone
ReadBack(kind, args, config) ==
    CASE kind = "vlan" -> VlanRead(args, config)
      [] kind = "vlanRange" -> RangeRead(args, config)
      [] kind = "varp" -> VarpRead(args, config)
      [] kind = "mlag" -> MlagRead(args, config)
      [] kind = "staticRoute" -> RouteRead(args, config)
      [] kind = "policyBasedRouting" -> PbrRead(args, config)
      [] kind \in ListKinds -> ListRead(kind, args, config)
      [] kind \in OneObjectKinds -> OneRead(kind, args, config)
      [] kind \in RawKinds -> args

\* Read ends in a panic and answers nothing
ReadPanics(kind, args, config) ==
    kind = "evpnEthernetSegment" /\ EvpnEthernetSegmentPanics(config, Object(kind, args))

\* the inputs that Read returns beside the state
InputsRead(kind, args, config) ==
    IF kind = "vxlanInterface" THEN VxlanInputsRead(args, Found(kind, args, config)) ELSE args

\* what a fresh device holds of the inputs once they are applied
Wanted(kind, args) == Part(Exec(Empty, Block(kind, args)), Objects(kind, args))

InSync(kind, args, config) ==
    Part(config, Objects(kind, args)) = Wanted(kind, args)

\* kinds whose block replaces all there is under their objects
Rebuilt == {"varp", "mlag", "staticRoute", "policyBasedRouting"} \cup ListKinds \cup RebuildKinds
=============================================================================
