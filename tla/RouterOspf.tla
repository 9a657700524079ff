----------------------------- MODULE RouterOspf ------------------------------
(***************************************************************************)
(* eos:l3:RouterOspf (internal/resources/l3/router_ospf.go).  The block    *)
(* negates the process and renders it anew; Read looks at five of its      *)
(* scalars.  An area is written as a number, <<n>>, or as a dotted quad.   *)
(***************************************************************************)
EXTENDS Integers, Sequences, SequencesExt, EosConfig

OspfSources == {"connected", "static", "bgp", "isis"}

\* the octets of a number of 32 bits, high one first
CanonicalArea(area) ==
    IF Len(area) = 4 THEN area ELSE [i \in 1 .. 4 |-> (area[1] \div 256 ^ (4 - i)) % 256]

AreaIdValid(area) ==
    \/ Len(area) = 1 /\ area[1] >= 0
    \/ Len(area) = 4 /\ \A i \in 1 .. 4 : area[i] \in 0 .. 255

AreaTypes == {"normal", "stub", "stub-no-summary", "nssa", "nssa-default-information-originate"}

AreaValid(area) ==
    /\ AreaIdValid(area.id)
    /\ Has(area, "type") => area.type \in AreaTypes
    /\ Has(area, "defaultCost") => area.defaultCost \in 1 .. WordMax
    /\ Has(area, "nssaMetricType") => area.nssaMetricType \in {1, 2}

OspfScalarsValid(args) ==
    /\ args.instance \in 1 .. WordMax
    /\ Has(args, "maximumPaths") => args.maximumPaths \in 1 .. 128
    /\ \A f \in {"maxLsa", "autoCostReferenceBandwidth"} : Has(args, f) => args[f] > 0

OspfTailValid(args) ==
    /\ LET info == Or(args, "defaultInformationOriginate", Nothing)
       IN  Has(info, "metricType") => info.metricType \in {1, 2}
    /\ LET distance == Or(args, "distance", Nothing)
       IN  \A f \in DOMAIN distance : distance[f] \in 1 .. 255
    /\ Has(args, "logAdjacencyChanges") => args.logAdjacencyChanges \in {"on", "off", "detail"}
    /\ LET timers == Or(args, "timers", Nothing) IN \A f \in DOMAIN timers : timers[f] > 0

RouterOspfValid(args) ==
    /\ OspfScalarsValid(args)
    /\ \A n \in Items(args, "networks") : AreaIdValid(n.area)
    /\ \A area \in Items(args, "areas") : AreaValid(area)
    /\ \A r \in Items(args, "redistribute") : r.source \in OspfSources
    /\ OspfTailValid(args)

-----------------------------------------------------------------------------
\* The SPF timers are one line, which needs all three of them.
SpfTimers == {"spfDelayInitial", "spfHold", "spfMax"}

TimerLines(timers) ==
    Overlay(Given(timers, {"outDelay", "pacingFlood"}),
            IF SpfTimers \subseteq DOMAIN timers THEN [spf |-> Given(timers, SpfTimers)] ELSE Nothing)

RouterOspfLines(args) ==
    LET given == Given(args, {"routerId", "shutdown", "autoCostReferenceBandwidth", "maxLsa",
                              "maximumPaths", "logAdjacencyChanges",
                              "defaultInformationOriginate"})
        flags == OnOnly(args, {"passiveInterfaceDefault", "gracefulRestartHelper"})
    IN  Overlay(Overlay(Overlay([header |-> "on"], given), flags),
                TimerLines(Or(args, "timers", Nothing)))

\* a normal area has no line of its type; one word of NSSA carries options
AreaTypeLine(area) ==
    IF area.type = "nssa-default-information-originate"
    THEN Overlay(Given(area, {"type", "nssaMetric", "nssaMetricType"}), OnOnly(area, {"nssaOnly"}))
    ELSE Given(area, {"type"})

TypedAreas(args) == {a \in Items(args, "areas") : Or(a, "type", "normal") # "normal"}

\* The lines there may be many of, by what EOS tells them apart with.  (Inputs
\* that give two values for one of them are left aside.)
RouterOspfRows(args) ==
    LET distance == Or(args, "distance", Nothing)
        costed == {a \in Items(args, "areas") : Has(a, "defaultCost")}
        keys == [distance |-> DOMAIN distance,
                 passive |-> Items(args, "noPassiveInterfaces") \cup Items(args, "passiveInterfaces"),
                 redistribute |-> {r.source : r \in Items(args, "redistribute")},
                 areaType |-> {CanonicalArea(a.id) : a \in TypedAreas(args)},
                 areaCost |-> {CanonicalArea(a.id) : a \in costed},
                 areaRange |-> UNION {{CanonicalArea(a.id)} \X Items(a, "ranges") :
                                        a \in Items(args, "areas")},
                 network |-> {n.prefix : n \in Items(args, "networks")},
                 summary |-> Items(args, "summaryAddresses")]
        value(table, key) ==
            CASE table = "distance" -> distance[key]
              [] table = "passive" -> key \in Items(args, "passiveInterfaces")
              [] table = "redistribute" ->
                    Or(CHOOSE r \in Items(args, "redistribute") : r.source = key, "routeMap", "")
              [] table = "areaType" -> AreaTypeLine(CHOOSE a \in TypedAreas(args) : CanonicalArea(a.id) = key)
              [] table = "areaCost" -> (CHOOSE a \in costed : CanonicalArea(a.id) = key).defaultCost
              [] table = "network" ->
                    CanonicalArea((CHOOSE n \in Items(args, "networks") : n.prefix = key).area)
              [] table \in {"areaRange", "summary"} -> "on"
    IN  [r \in UNION {{t} \X keys[t] : t \in DOMAIN keys} |-> value(r[1], r[2])]

RouterOspfFound(config, object) ==
    Shown(config, object,
          {"routerId", "shutdown", "maxLsa", "maximumPaths", "passiveInterfaceDefault"})
=============================================================================
