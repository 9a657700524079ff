----------------------------- MODULE DeviceLines ------------------------------
(***************************************************************************)
(* The lines that EOS shows (external): under which objects they stand,    *)
(* which values they have, and which of them an object is not without.     *)
(* They are the type of a running-config, of the blocks executed on one,   *)
(* and, with the Go types of the inputs, of what resources are made of.    *)
(* The lines of policy maps, BGP and OSPF are left open.                   *)
(***************************************************************************)
EXTENDS Resources

\* objects whose lines stand beneath a header of their own
Headed ==
    {"vlan", "mlag", "route", "policyMap", "portChannel", "vlanInterface", "loopback",
     "subinterface", "greTunnel", "vxlanInterface", "evpnEthernetSegment", "vrf", "bfd", "rpki",
     "routerBgp", "routerOspf"}

\* objects that others stand under, but for the ports
Parents == {"portChannel", "vlanInterface", "loopback", "subinterface", "greTunnel", "routerBgp"}

\* the lines that every object of a feature has if it has one at all
Core(feature) ==
    CASE feature \in Headed -> {"header"}
      [] feature = "communityList" -> {"type", "entries"}
      [] feature = "extCommunityList" -> {"listType", "entries"}
      [] OTHER -> {}

Features ==
    {"vlan", "varp", "mlag", "route", "prefixList", "communityList", "extCommunityList",
     "asPathList", "routeMap", "interface", "portChannel", "vlanInterface", "loopback",
     "subinterface", "greTunnel", "vxlanInterface", "stp", "evpnEthernetSegment", "vrf", "bfd",
     "rpki", "rcf", "resilientEcmp", "vrrp"}

RouteOptions == {"tag", "name", "metric", "track"}

Knobs(feature) ==
    CASE feature = "vlan" -> {"header", "name"}
      [] feature = "varp" -> {"mac"}
      [] feature = "mlag" ->
            {"header", "heartbeat", "detectionDelay", "recovery", "shutdown", "primaryPriority",
             "reloadMlag", "reloadNonMlag"} \cup MlagRequired
      [] feature = "route" -> {"header"} \cup RouteOptions
      [] feature = "prefixList" -> {"remark", "entries"}
      [] feature = "communityList" -> {"type", "entries"}
      [] feature = "extCommunityList" -> {"listType", "entries"}
      [] feature \in {"asPathList", "routeMap"} -> {"entries"}
      [] feature = "interface" -> InterfaceFields \cup SwitchportFields \cup {"routed"}
      [] feature = "portChannel" ->
            {"header", "routed"} \cup PortChannelFields \cup SwitchportFields
      [] feature = "vlanInterface" -> {"header"} \cup VlanInterfaceFields \cup VlanInterfaceFlags
      [] feature = "loopback" -> {"header", "shutdown"} \cup LoopbackFields
      [] feature = "subinterface" -> {"header", "shutdown"} \cup SubinterfaceFields
      [] feature = "greTunnel" -> {"header"} \cup GreTunnelFields \cup GreTunnelFlags
      [] feature = "vxlanInterface" -> {"header", "floodVteps"} \cup VxlanFields
      [] feature = "stp" -> {"stpMode", "edgePortBpduGuardDefault", "mst"}
      [] feature = "evpnEthernetSegment" ->
            {"header", "identifier", "redundancy", "routeTargetImport", "algorithm", "holdTime"}
      [] feature = "vrf" -> {"header", "description", "ipRouting", "ipv6Routing"}
      [] feature = "bfd" -> {"header", "slowTimer", "shutdown", "timers"}
      [] feature = "rpki" -> {"header", "host", "transport"} \cup RpkiFields
      [] feature = "rcf" -> {"unit"}
      [] feature = "resilientEcmp" -> {"line"}
      [] feature = "vrrp" -> {"primary", "preempt"} \cup VrrpFields

VniTables == {"vlanVniMap", "vrfVniMap"}

VrrpTables == {"secondary", "ipv6", "track"}

\* what the rows of a table are told by
RowKeys(table) ==
    CASE table = "secondary" -> {4} \X Int
      [] table = "ipv6" -> {6} \X Int
      [] OTHER -> Int

-----------------------------------------------------------------------------
IsAFunction(f) == f = [x \in DOMAIN f |-> f[x]]

IsAList(s) == s \in Seq(ToSet(s))

\* a list that EOS sorts by a number in its members
InOrderOf(s, field) ==
    /\ IsAList(s)
    /\ \A i \in DOMAIN s : field \in DOMAIN s[i] /\ s[i][field] \in Nat
    /\ \A i, j \in DOMAIN s : i < j => s[i][field] < s[j][field]

OriginShown(e) == IsAFunction(e) /\ Has(e, "origin") /\ e.origin # ""

SetClausesShown(set) ==
    /\ IsAFunction(set) /\ set # Nothing
    /\ ~Has(set, "communityAdditive") /\ ~Has(set, "extcommunityRtAdditive")
    /\ \A f \in {"community", "extcommunityRt"} : Has(set, f) =>
        set[f] = <<set[f][1], set[f][2]>> /\ set[f][2] \in BOOLEAN
    /\ Has(set, "communityNone") => set.communityNone = TRUE /\ ~Has(set, "community")

MapEntryShown(e) ==
    /\ IsAFunction(e)
    /\ Has(e, "match") => e.match # Nothing
    /\ Has(e, "set") => SetClausesShown(e.set)

MstShown(mst) ==
    /\ IsAFunction(mst)
    /\ Has(mst, "instances") => mst.instances # <<>> /\ InOrderOf(mst.instances, "id")

AlgorithmShown(line) ==
    /\ IsAFunction(line) /\ Has(line, "algorithm")
    /\ DOMAIN line \subseteq {"algorithm", "preference", "dontPreempt"}
    /\ Has(line, "dontPreempt") => line.dontPreempt = TRUE /\ Has(line, "preference")

ValueShown(feature, knob, value) ==
    /\ knob = "header" => value = "on"
    /\ knob \in {"shutdown", "routed", "ipRouting", "ipv6Routing"} => value \in BOOLEAN
    /\ knob \in {"noAutostate", "pathMtuDiscovery", "dontFragment"} => value = TRUE
    /\ knob = "switchportMode" => value \in {"access", "trunk"}
    /\ knob = "mac" => value \in {Canonical(m) : m \in MacForm}
    /\ feature = "route" /\ knob = "tag" => value # 0
    /\ feature = "asPathList" =>
        IsAFunction(value) /\ \A i \in DOMAIN value : OriginShown(value[i])
    /\ feature = "routeMap" =>
        /\ value # <<>> /\ InOrderOf(value, "seq")
        /\ \A i \in DOMAIN value : MapEntryShown(value[i])
    /\ knob = "floodVteps" =>
        value \in Seq(Int) /\ \A i, j \in DOMAIN value : i < j => value[i] < value[j]
    /\ knob = "mst" => MstShown(value)
    /\ knob = "algorithm" => AlgorithmShown(value)
    /\ knob = "timers" => IsAFunction(value) /\ DOMAIN value = BfdTimers
    /\ knob = "primary" => value \in {4} \X Int
    /\ knob = "unit" => value = <<value[1], value[2]>> /\ value[1] \in {"code", "sourceFile"}

IsRow(path) ==
    \/ path[1][1] = "vxlanInterface" /\ path[2] \in VniTables
    \/ path[1][1] = "vrrp" /\ path[2] \in VrrpTables

LineShown(path, value) ==
    LET feature == path[1][1]
    IN  feature \in Features =>
        /\ feature = "route" => path[1][5] \in 1 .. DistanceMax
        /\ IF IsRow(path) THEN path = <<path[1], path[2], path[3]>> /\ path[3] \in RowKeys(path[2])
           ELSE /\ path = <<path[1], path[2]>>
                /\ path[2] \in Knobs(feature)
                /\ ValueShown(feature, path[2], value)

Complete(lines) ==
    \A p \in DOMAIN lines : \A knob \in Core(p[1][1]) : <<p[1], knob>> \in DOMAIN lines

FewRows(lines) == IsFiniteSet({p \in DOMAIN lines : IsRow(p)})

-----------------------------------------------------------------------------
RunningConfig(config) ==
    /\ \A p \in DOMAIN config : LineShown(p, config[p]) /\ ~IsDefault(p[2], config[p])
    /\ Complete(config)
    /\ FewRows(config)

\* a block may have lines that are executed but not shown
WellFormed(block) ==
    /\ \A p \in DOMAIN block.set : LineShown(p, block.set[p])
    /\ Complete(block.set)
    /\ FewRows(block.set)
    /\ \A entry \in block.negate : entry[1][2] \notin Core(entry[1][1][1])

\* The Go types of the inputs, as far as the lines depend on them.
WellTyped(k, args) ==
    /\ \A f \in {"shutdown", "ipRouting", "ipv6Routing"} : Has(args, f) => args[f] \in BOOLEAN
    /\ k = "varp" => args.mac \in MacForm
    /\ k \in ListKinds => IsAList(args.entries)
    /\ k = "asPathList" => \A e \in Entries(args) : Has(e, "origin")
    /\ k = "routeMap" => \A e \in Entries(args) :
        /\ Has(e, "seq")
        /\ Has(e, "set") =>
            \A f \in {"communityNone", "communityAdditive", "extcommunityRtAdditive"} :
                Has(e.set, f) => e.set[f] \in BOOLEAN
    /\ k = "vxlanInterface" =>
        /\ \A f \in VxlanLists : Has(args, f) => IsAList(args[f])
        /\ Items(args, "floodVteps") \subseteq Int
        /\ \A row \in Items(args, "vrfVniMap") : row.vrf \in Int
    /\ k = "vrrp" =>
        /\ \A f \in {"virtualAddresses", "tracks"} : Has(args, f) => IsAList(args[f])
        /\ Items(args, "virtualAddresses") \subseteq {4, 6} \X Int
        /\ \A t \in Items(args, "tracks") : t.interface \in Int
    /\ k = "stp" /\ Has(args, "mst") =>
        Has(args.mst, "instances") /\ IsAList(args.mst.instances)
            /\ \A i \in Items(args.mst, "instances") : Has(i, "id")
    /\ k = "vrf" => IsAList(LongerNames(args.name))
    /\ k \in OneObjectKinds => \A object \in Entered(k, args) : object[1] \in Parents
    /\ k \in RawKinds => WellFormed(args.body) /\ WellFormed(RawRemoval(k, args))

\* fields that are booleans in Go, whatever resource has them
Flags ==
    {"shutdown", "ipRouting", "ipv6Routing", "noAutostate", "pathMtuDiscovery", "dontFragment",
     "preempt", "ordered", "noDefaultIpv4Unicast", "passiveInterfaceDefault"}

ElectionFields == {"algorithm", "preference", "dontPreempt", "holdTime"}

IsARecord(row, fields) == IsAFunction(row) /\ DOMAIN row = fields

\* The Go types of the inputs, as far as what Read returns is compared with
\* them: structs are partial functions, a mode that is empty is not given.
Decoded(k, args) ==
    /\ IsAFunction(args)
    /\ \A f \in Flags : Has(args, f) => args[f] \in BOOLEAN
    /\ k = "routerBgp" /\ Has(args, "bfd") => args.bfd \in BOOLEAN
    /\ k \in {"interface", "portChannel"} /\ Has(args, "switchportMode") =>
        args.switchportMode # ""
    /\ k \in ListKinds => Has(args, "entries")
    /\ k = "prefixList" => \A e \in Entries(args) : Has(e, "seq")
    /\ k = "asPathList" => \A e \in Entries(args) : IsAFunction(e)
    /\ k = "routeMap" => \A e \in Entries(args) :
        IsAFunction(e) /\ (Has(e, "set") => IsAFunction(e.set))
    /\ k = "policyBasedRouting" =>
        /\ Has(args, "sequences") /\ IsAList(args.sequences)
        /\ \A s \in Items(args, "sequences") : IsAFunction(s) /\ Has(s, "seq") /\ Has(s, "action")
    /\ k = "vxlanInterface" =>
        /\ \A row \in Items(args, "vlanVniMap") : IsARecord(row, {"vlanId", "vni"}) /\ row.vlanId \in Int
        /\ \A row \in Items(args, "vrfVniMap") : IsARecord(row, {"vrf", "vni"})
    /\ k = "vrrp" => \A t \in Items(args, "tracks") : IsAFunction(t) /\ Has(t, "interface")
    /\ k = "stp" /\ Has(args, "mst") =>
        IsAFunction(args.mst) /\ \A i \in Items(args.mst, "instances") : i.id \in Int
    /\ k = "evpnEthernetSegment" /\ Has(args, "designatedForwarder") =>
        LET df == args.designatedForwarder
        IN  /\ IsAFunction(df) /\ DOMAIN df \subseteq ElectionFields
            /\ Has(df, "dontPreempt") => df.dontPreempt \in BOOLEAN
=============================================================================
