------------------------ MODULE MCResourceLifecycle -------------------------
(***************************************************************************)
(* A handful of inputs of each kind, chosen for the fields that matter     *)
(* together, and the changes that other operators make.                    *)
(***************************************************************************)
EXTENDS ResourceLifecycle

\* three notations of two addresses, and a multicast one
MCMacForm == {"02:00", "0200.dot", "02:11", "01:00"}
MCUnicast == MCMacForm \ {"01:00"}
MCCanonical(m) == IF m = "0200.dot" THEN "02:00" ELSE m

Mlag == [domainId |-> "d1", localInterface |-> "Vlan4094",
         peerLink |-> "Po1", peerAddress |-> "a1"]

\* the names "rm" and "rm2" of route maps, "red" and "red2" of VRFs
MCLongerNames(name) ==
    CASE name = "rm" -> <<"rm2">> [] name = "red" -> <<"red2">> [] OTHER -> <<>>

Prefix(seq, mask) == [seq |-> seq, action |-> "permit", bits |-> 2, mask |-> mask]
PrefixList(entries) == [name |-> "pl", entries |-> entries]

Community(value) == [action |-> "permit", value |-> value]
Communities(entries) == [name |-> "cl", entries |-> entries]

ExtCommunity(value) == [action |-> "deny", value |-> value]
RouteTarget(value) == ExtCommunity(value) @@ [type |-> "rt"]

AsPath(regex, origin) == [action |-> "permit", regex |-> regex, origin |-> origin]
AsPaths(entries) == [name |-> "ap", entries |-> entries]

MapEntry(seq, rest) == [seq |-> seq, action |-> "permit"] @@ rest
Clear == MapEntry(10, [match |-> [tag |-> 1],
                       set |-> [community |-> <<"c1">>, communityAdditive |-> TRUE]])
Targets == MapEntry(20, [set |-> [extcommunityRt |-> <<"t1", "t2">>,
                                  extcommunityRtAdditive |-> TRUE], continue |-> 3])
Plain == MapEntry(20, [set |-> [community |-> <<"c1">>, extcommunityRt |-> <<"t1">>]])
Maps(entries) == [name |-> "rm", entries |-> entries]

ListInputs(k) ==
    CASE k = "prefixList" ->
            {PrefixList(<<Prefix(1, [ge |-> 2, le |-> 3])>>),
             PrefixList(<<Prefix(2, Nothing), Prefix(1, [eq |-> 2])>>) @@ [remark |-> "r"],
             PrefixList(<<Prefix(1, Nothing), Prefix(1, [le |-> 4])>>),
             PrefixList(<<Prefix(1, [eq |-> 2, ge |-> 2])>>),
             PrefixList(<<Prefix(1, [ge |-> 1])>>)}
      [] k = "communityList" ->
            {Communities(<<Community(<<"pair", 2, 0>>), Community(<<"word", "GSHUT">>)>>),
             Communities(<<Community(<<"number", NumberMax>>)>>) @@ [type |-> "standard"],
             Communities(<<Community(<<"regex", "x">>)>>) @@ [type |-> "regexp"],
             Communities(<<Community(<<"pair", HalfMax + 1, 0>>)>>)}
      [] k = "extCommunityList" ->
            {Communities(<<RouteTarget(<<"pair", 1, 1>>)>>),
             Communities(<<RouteTarget(<<"pair", 1, 1>>)>>) @@ [listType |-> "standard"],
             Communities(<<ExtCommunity(<<"regex", "x">>)>>) @@ [listType |-> "regexp"],
             Communities(<<ExtCommunity(<<"pair", 1, 1>>)>>)}
      [] k = "asPathList" ->
            {AsPaths(<<AsPath("x", ""), AsPath("y", "igp")>>),
             AsPaths(<<AsPath("x", "any")>>), AsPaths(<<>>)}
      [] k = "routeMap" ->
            {Maps(<<Clear, Targets>>), Maps(<<Targets, Clear>>), Maps(<<Plain>>),
             Maps(<<MapEntry(10, [set |-> [community |-> <<"c1">>, communityNone |-> TRUE]])>>),
             Maps(<<MapEntry(10, [set |-> [communityAdditive |-> TRUE, communityNone |-> TRUE]])>>)}

\* interfaces
Port == [name |-> "Et1"]
Channel == [id |-> 1]
Svi == [vlanId |-> 2]
Loop == [number |-> 0, ipAddress |-> "a1"]
Sub == [name |-> "Et1.2", encapsulationVlan |-> 2]
Tunnel == [id |-> 0, source |-> "Lo0"]
SviObject == <<"vlanInterface", Svi>>

InterfaceInputs(k) ==
    CASE k = "interface" ->
            {Port @@ [switchportMode |-> "trunk", trunkNativeVlan |-> 1, shutdown |-> FALSE],
             Port @@ [switchportMode |-> "trunk", trunkNativeVlan |-> 2, shutdown |-> TRUE],
             Port @@ [switchportMode |-> "routed", mtu |-> 9000,
                      channelGroup |-> [id |-> 1, mode |-> "active"]],
             Port @@ [switchportMode |-> "trunk", accessVlan |-> 2]}
      [] k = "portChannel" ->
            {Channel @@ [switchportMode |-> "access", accessVlan |-> 1, shutdown |-> FALSE],
             Channel @@ [switchportMode |-> "access", accessVlan |-> 2, shutdown |-> TRUE],
             Channel @@ [lacpFallback |-> "static", lacpFallbackTimeout |-> 5,
                         description |-> "d"],
             Channel @@ [lacpFallbackTimeout |-> 0]}
      [] k = "vlanInterface" ->
            {Svi @@ [ipAddress |-> "a1", noAutostate |-> FALSE],
             Svi @@ [ipAddressVirtual |-> "a1", vrf |-> "red", noAutostate |-> TRUE],
             Svi @@ [ipAddress |-> "a1", ipAddressVirtual |-> "a1"], [vlanId |-> 3]}
      [] k = "loopback" ->
            {Loop, Loop @@ [shutdown |-> TRUE, description |-> "d"],
             Loop @@ [shutdown |-> FALSE, ipv6Address |-> "b1"], [number |-> 0]}
      [] k = "subinterface" ->
            {Sub, Sub @@ [bfd |-> [interval |-> 300, minRx |-> 300, multiplier |-> 3],
                          shutdown |-> TRUE],
             Sub @@ [bfd |-> [interval |-> 300, minRx |-> 300, multiplier |-> 2]]}
      [] k = "greTunnel" ->
            {Tunnel, Tunnel @@ [tos |-> 0, pathMtuDiscovery |-> TRUE, dontFragment |-> FALSE,
                                key |-> 7, mode |-> "gre", shutdown |-> TRUE],
             Tunnel @@ [mtu |-> 60]}

Bind(vlan, vni) == [vlanId |-> vlan, vni |-> vni]
Track(name, rest) == [interface |-> name] @@ rest
Group == [interface |-> SviObject, vrid |-> 1]
Segment == [parentInterface |-> <<"portChannel", Channel>>]
Cache == [bgpAsn |-> 65000, name |-> "c", cacheHost |-> "h"]

OverlayInputs(k) ==
    CASE k = "vxlanInterface" ->
            {Channel @@ [vlanVniMap |-> <<Bind(1, 10), Bind(2, 20)>>, floodVteps |-> <<1, 2>>,
                         vrfVniMap |-> <<[vrf |-> 1, vni |-> 5]>>, udpPort |-> 4789],
             Channel @@ [vlanVniMap |-> <<Bind(2, 20)>>],
             Channel @@ [vlanVniMap |-> <<Bind(2, 21), Bind(1, 10)>>],
             Channel @@ [vlanVniMap |-> <<Bind(1, 10), Bind(1, 20)>>]}
      [] k = "vrrp" ->
            {Group @@ [virtualAddresses |-> <<<<6, 1>>, <<4, 2>>, <<4, 1>>>>, preempt |-> TRUE,
                       preemptDelayMinimum |-> 0,
                       tracks |-> <<Track(1, [action |-> "decrement", decrement |-> 5])>>],
             Group @@ [virtualAddresses |-> <<<<4, 1>>>>, preempt |-> FALSE,
                       tracks |-> <<Track(1, [action |-> "shutdown", decrement |-> 5])>>],
             Group @@ [preempt |-> TRUE],
             Group @@ [tracks |-> <<Track(1, [action |-> "shutdown"])>>]}
      [] k = "stp" ->
            {[stpMode |-> "mstp", edgePortBpduGuardDefault |-> FALSE,
              mst |-> [name |-> "r", instances |-> <<[id |-> 1, vlans |-> "1"]>>]],
             [stpMode |-> "rstp", edgePortBpduGuardDefault |-> TRUE],
             [mst |-> [instances |-> <<[id |-> 2, vlans |-> "2"], [id |-> 1, vlans |-> "1"]>>]],
             [stpMode |-> "pvst"]}
      [] k = "evpnEthernetSegment" ->
            {Segment @@ [identifier |-> "e", designatedForwarder |->
                [algorithm |-> "preference", preference |-> 0, dontPreempt |-> TRUE]],
             Segment @@ [redundancy |-> "single-active", designatedForwarder |->
                [algorithm |-> "hrw", dontPreempt |-> FALSE, holdTime |-> 3]],
             Segment @@ [identifier |-> "e",
                         designatedForwarder |-> [algorithm |-> "preference", holdTime |-> 3]],
             Segment @@ [designatedForwarder |-> [algorithm |-> "hrw", preference |-> 1]]}
      [] k = "rpki" ->
            {Cache, Cache @@ [transport |-> "tls", port |-> 8282],
             Cache @@ [transport |-> "tcp", vrf |-> "red", preference |-> 2],
             Cache @@ [preference |-> 11]}

Red == [name |-> "red"]
Prefix6 == [prefix |-> <<6, 1>>, capacity |-> 2, redundancy |-> 2]
Unit == [name |-> "u"]
Nexthop == [setNexthop |-> "h1"]
PbrSequence(seq, action) == [seq |-> seq, classMap |-> "c", action |-> action]
Policy(sequences) == [name |-> "pm", sequences |-> sequences]

ServiceInputs(k) ==
    CASE k = "vrf" ->
            {Red, Red @@ [ipRouting |-> TRUE, ipv6Routing |-> FALSE, description |-> "d"],
             Red @@ [ipRouting |-> FALSE, ipv6Routing |-> TRUE], [name |-> "default"]}
      [] k = "bfd" ->
            {[interval |-> 300, minRx |-> 300, multiplier |-> 3], [slowTimer |-> 2000],
             [interval |-> 500, minRx |-> 300, multiplier |-> 3, shutdown |-> TRUE],
             [interval |-> 300]}
      [] k = "rcf" ->
            {Unit @@ [code |-> "x"], Unit @@ [sourceFile |-> "f"], Unit @@ [sourceUrl |-> "x"], Unit}
      [] k = "resilientEcmp" ->
            {Prefix6, Prefix6 @@ [ipFamily |-> "ipv6", ordered |-> TRUE],
             Prefix6 @@ [ipFamily |-> "ipv6"], Prefix6 @@ [ipFamily |-> "ipv4"]}
      [] k = "policyBasedRouting" ->
            {Policy(<<PbrSequence(1, Nexthop @@ [setNexthopVrf |-> "red"])>>)
                @@ [attachInterfaces |-> <<"Et1", "Et2">>],
             Policy(<<PbrSequence(2, [drop |-> TRUE]), PbrSequence(1, Nexthop)>>)
                @@ [attachInterfaces |-> <<"Et1">>],
             Policy(<<PbrSequence(1, Nexthop),
                      PbrSequence(1, [setNexthopGroup |-> "g", drop |-> FALSE])>>),
             Policy(<<PbrSequence(1, Nexthop @@ [drop |-> TRUE])>>)}

Asn(n) == [asn |-> n]
Ospf(n) == [instance |-> n]
Area(id, rest) == [id |-> id] @@ rest

ProtocolInputs(k) ==
    CASE k = "routerBgp" ->
            {Asn(1) @@ [routerId |-> "r1", neighbors |-> <<[address |-> "a1", remoteAs |-> 2]>>,
                        addressFamilies |-> <<[name |-> "evpn", activate |-> <<"a1">>]>>],
             Asn(1) @@ [peerGroups |-> <<[name |-> "pg", remoteAs |-> 2, bfd |-> TRUE]>>,
                        neighbors |-> <<[address |-> "a1", peerGroup |-> "pg"]>>,
                        maximumPaths |-> [paths |-> 2, ecmp |-> 4]],
             Asn(1) @@ [vrfs |-> <<[name |-> 1, rd |-> "1:1", routerId |-> "r2",
                                    redistribute |-> <<"static">>]>>],
             Asn(2), Asn(1) @@ [maximumPaths |-> [paths |-> 4, ecmp |-> 2]]}
      [] k = "routerOspf" ->
            {Ospf(1) @@ [maxLsa |-> 100, shutdown |-> FALSE, passiveInterfaceDefault |-> TRUE,
                         noPassiveInterfaces |-> <<"Et1">>,
                         networks |-> <<[prefix |-> "p", area |-> <<256>>]>>],
             Ospf(1) @@ [areas |-> <<Area(<<256>>, [type |-> "stub", defaultCost |-> 5]),
                                     Area(<<0, 0, 0, 0>>, [ranges |-> <<"p">>])>>,
                         distance |-> [external |-> 120], shutdown |-> TRUE],
             Ospf(1) @@ [vrf |-> "red", redistribute |-> <<[source |-> "static"]>>,
                         timers |-> [spfDelayInitial |-> 1, spfHold |-> 2, spfMax |-> 3]],
             Ospf(1) @@ [areas |-> <<Area(<<0, 0, 0, 256>>, Nothing)>>]}
      [] k = "configlet" ->
            {[name |-> "n", body |-> VlanBlock([id |-> 1, name |-> "blue"])],
             [name |-> "n", body |-> Drops({VlanObject(1)})], [name |-> "n", body |-> Sets(Empty)]}
      [] k = "rawCli" ->
            {[name |-> "n", body |-> VlanBlock([id |-> 1])],
             [name |-> "n", body |-> VlanBlock([id |-> 2]), deleteBody |-> Drops({VlanObject(2)})],
             [name |-> "n", body |-> Sets(Empty)]}

MCInputs(k) ==
    CASE k = "vlan" -> {[id |-> 1], [id |-> 1, name |-> "blue"],
                        [id |-> 2, name |-> "red"], [id |-> 9]}
      [] k = "vlanRange" -> {[start |-> 1, end |-> 3], [start |-> 1, end |-> 3, name |-> "blue"],
                             [start |-> 2, end |-> 2, name |-> "VLAN-blue"],
                             [start |-> 3, end |-> 2]}
      [] k = "varp" -> {[mac |-> m] : m \in MacForm}
      [] k = "mlag" -> {Mlag,
                        Overlay(Mlag, [heartbeat |-> "a2", heartbeatVrf |-> "mgmt",
                                       detectionDelay |-> 5, action |-> "errdisable"]),
                        Overlay(Mlag, [heartbeat |-> "a2", reloadMlag |-> 0, shutdown |-> FALSE,
                                       recoveryMlag |-> 30, recoveryNonMlag |-> 60]),
                        Overlay(Mlag, [recoveryMlag |-> 30, shutdown |-> TRUE]),
                        Overlay(Mlag, [action |-> "errdisable"])}
      [] k = "staticRoute" -> {[prefix |-> "p", nextHop |-> "h", distance |-> 1, tag |-> 7,
                                name |-> "n"],
                               [prefix |-> "p", nextHop |-> "h", distance |-> 2, tag |-> 0],
                               [prefix |-> "p", nextHop |-> "g"],
                               [prefix |-> "p", nextHop |-> "g", distance |-> 4]}
      [] k \in ListKinds -> ListInputs(k)
      [] k \in {"interface", "portChannel", "vlanInterface", "loopback", "subinterface",
                "greTunnel"} -> InterfaceInputs(k)
      [] k \in {"vxlanInterface", "vrrp", "stp", "evpnEthernetSegment", "rpki"} -> OverlayInputs(k)
      [] k \in {"vrf", "bfd", "rcf", "resilientEcmp", "policyBasedRouting"} -> ServiceInputs(k)
      [] k \in {"routerBgp", "routerOspf"} \cup RawKinds -> ProtocolInputs(k)

Knob(object, knob, value) == Sets([p \in {<<object, knob>>} |-> value])

\* another list, an entry fewer or more, the whole list gone
ListDrifts(k) ==
    CASE k = "prefixList" ->
            {Knob(<<k, "pl">>, "remark", "q"), Knob(<<k, "pl">>, "entries", <<Prefix(2, Nothing)>>),
             Negates(<<<<k, "pl">>, "remark">>, "r"),
             Negates(<<<<k, "pl">>, "entries">>, <<Prefix(1, [eq |-> 2]), Prefix(2, Nothing)>>),
             ListRemoval(k, [name |-> "pl"])}
      [] k = "communityList" ->
            {ListBlock(k, Communities(<<Community(<<"word", "internet">>)>>)),
             ListBlock(k, Communities(<<Community(<<"number", NumberMax>>)>>)
                              @@ [type |-> "regexp"]),
             ListRemoval(k, [name |-> "cl"])}
      [] k = "extCommunityList" ->
            {ListBlock(k, Communities(<<ExtCommunity(<<"pair", 1, 1>>) @@ [type |-> "soo"]>>)),
             ListRemoval(k, [name |-> "cl"]),
             ListBlock(k, [name |-> "other", entries |-> <<RouteTarget(<<"pair", 1, 1>>)>>])}
      [] k = "asPathList" ->
            {ListBlock(k, AsPaths(<<AsPath("x", "igp")>>)), ListRemoval(k, [name |-> "ap"])}
      [] k = "routeMap" ->
            {ListBlock(k, Maps(<<Clear>>)), ListRemoval(k, [name |-> "rm"]),
             ListBlock(k, [name |-> "rm2", entries |-> <<Targets>>])}

\* a line of an object that is entered for it
Line(object, knob, value) ==
    Sets([p \in {<<object, "header">>, <<object, knob>>} |->
            IF p[2] = "header" THEN "on" ELSE value])

Row(object, table, key, value) ==
    Sets([p \in {<<object, "header">>, <<object, table, key>>} |->
            IF p[2] = "header" THEN "on" ELSE value])

\* a line added, a line changed or gone, the object or its parent gone
OneDrifts(k) ==
    LET args == CHOOSE a \in MCInputs(k) : TRUE
        object == Object(k, args)
    IN  CASE k = "interface" ->
                {Knob(object, "routed", TRUE), Negates(<<object, "mtu">>, 9000)}
          [] k = "portChannel" ->
                {Line(object, "switchportMode", "trunk"), Line(object, "lacpFallbackTimeout", 6),
                 Drops({object})}
          [] k \in {"vlanInterface", "subinterface", "greTunnel"} ->
                {Line(object, "description", "x"), Line(object, "mtu", 1500), Drops({object})}
          [] k = "loopback" ->
                {Line(object, "shutdown", TRUE), Negates(<<object, "ipAddress">>, "a1"),
                 Drops({object})}
          [] k = "vxlanInterface" ->
                {Row(object, "vlanVniMap", 1, 30), Drops({object})}
          [] k = "vrrp" ->
                {Drops({SviObject}),
                 Sets([p \in {<<object, "secondary", <<4, 1>>>>} |-> "on"]),
                 Knob(object, "preempt", FALSE)}
          [] k = "stp" ->
                {Knob(object, "stpMode", "rstp"), Knob(object, "mst", [revision |-> 1]),
                 Negates(<<object, "edgePortBpduGuardDefault">>, TRUE)}
          [] k = "evpnEthernetSegment" ->
                {Line(object, "holdTime", 5), Line(object, "algorithm", [algorithm |-> "modulus"]),
                 Drops({args.parentInterface})}
          [] k = "rpki" ->
                {Line(object, "transport", "tls"), Negates(<<object, "preference">>, 2),
                 Drops({Parent(object)})}
          [] k = "vrf" ->
                {Line(object, "ipv6Routing", TRUE), Drops({object}),
                 Line(VrfObject("red2"), "description", "e")}
          [] k = "bfd" ->
                {Line(object, "slowTimer", 3000), Drops({object})}
          [] k = "rcf" ->
                {Knob(object, "unit", <<"code", "y">>), Drops({object})}
          [] k = "resilientEcmp" ->
                {Knob(object, "line", [capacity |-> 2, redundancy |-> 1]), Drops({object})}
          [] k = "routerBgp" ->
                {Row(object, "neighbor", <<"a2", "remoteAs">>, 3), Drops({object})}
          [] k = "routerOspf" ->
                {Line(object, "routerId", "r9"), Drops({object})}

MCDrifts(k) ==
    CASE k = "vlan" -> {Drops({VlanObject(1)}), Knob(VlanObject(1), "header", "on"),
                        Negates(<<VlanObject(1), "name">>, "blue"),
                        VlanBlock([id |-> 3, name |-> "red"])}
      [] k = "vlanRange" -> {Drops({VlanObject(2)}), Drops({VlanObject(1)}),
                             VlanBlock([id |-> 4, name |-> "red"]),
                             VlanBlock([id |-> 2, name |-> "red"])}
      [] k = "varp" -> {VarpBlock([mac |-> "02:11"]), Drops({VarpObject}),
                        VlanBlock([id |-> 3])}
      [] k = "mlag" -> {MlagRemoval(Mlag), MlagBlock(Mlag), Line(MlagObject, "reloadMlag", 0),
                        MlagBlock(Overlay(Mlag, [heartbeat |-> "a3", recoveryMlag |-> 0,
                                                 recoveryNonMlag |-> 9]))}
      [] k = "staticRoute" -> {RouteRemoval([prefix |-> "p", nextHop |-> "h"]),
                               RouteBlock([prefix |-> "p", nextHop |-> "h", tag |-> 9]),
                               RouteBlock([prefix |-> "p", nextHop |-> "h", distance |-> 2, tag |-> 9]),
                               RouteBlock([prefix |-> "p", nextHop |-> "h", distance |-> 3])}
      [] k \in ListKinds -> ListDrifts(k)
      [] k = "policyBasedRouting" ->
            {PbrBlock([name |-> "other", sequences |-> <<PbrSequence(1, Nexthop)>>,
                       attachInterfaces |-> <<"Et2">>]),
             Negates(<<ServicePolicy("Et1"), "policy">>, "pm"), Drops({PolicyMap([name |-> "pm"])})}
      [] k \in OneObjectKinds -> OneDrifts(k)
      [] k \in RawKinds -> {Drops({VlanObject(1)}), VlanBlock([id |-> 2, name |-> "red"])}
=============================================================================
