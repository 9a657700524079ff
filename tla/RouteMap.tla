------------------------------ MODULE RouteMap ------------------------------
(***************************************************************************)
(* eos:l3:RouteMap (internal/resources/l3/route_map.go).  An entry has its *)
(* seq and action, and may have match and set clauses and a continue.      *)
(* Clauses are a partial function from the fields of RouteMapMatch and     *)
(* RouteMapSet.                                                            *)
(***************************************************************************)
EXTENDS NamedLists

MapObject(name) == <<"routeMap", name>>

Protocols == {"connected", "static", "isis", "ospf", "bgp", "rip"}

MatchValid(match) ==
    /\ \A f \in {"tag", "metric", "localPreference"} : Has(match, f) => match[f] >= 0
    /\ Has(match, "sourceProtocol") => match.sourceProtocol \in Protocols

\* Formats of next hops, metrics and origins are left to the inputs.
SetValid(set) ==
    /\ ~(On(set, "communityAdditive") /\ On(set, "communityNone"))
    /\ \A f \in {"tag", "localPreference"} : Has(set, f) => set[f] >= 0

MapEntryValid(e) ==
    /\ e.seq \in 0 .. SeqMax
    /\ e.action \in Actions
    /\ Has(e, "continue") => e.continue \in 0 .. SeqMax
    /\ Has(e, "match") => MatchValid(e.match)
    /\ Has(e, "set") => SetValid(e.set)

RouteMapValid(args) ==
    /\ args.entries # <<>>
    /\ \A e \in Entries(args) : MapEntryValid(e)
    /\ UniqueSeqs(args)

-----------------------------------------------------------------------------
(***************************************************************************)
(* Rendering.  Each match clause is a line.  `set community none` is       *)
(* rendered instead of the communities; additive is a word of the lines of *)
(* the communities and of the route targets.                               *)
(***************************************************************************)
SetLines(set) ==
    LET rendered == {f \in DOMAIN set :
            /\ f \notin {"communityAdditive", "extcommunityRtAdditive"}
            /\ f = "communityNone" => On(set, f)
            /\ f = "community" => ~On(set, "communityNone")}
    IN  [f \in rendered |->
            CASE f = "community" -> <<set[f], On(set, "communityAdditive")>>
              [] f = "extcommunityRt" -> <<set[f], On(set, "extcommunityRtAdditive")>>
              [] OTHER -> set[f]]

\* match and set are there when one of their clauses is
MapEntryLines(e) ==
    [k \in {j \in DOMAIN e : /\ j = "match" => e.match # Nothing
                             /\ j = "set" => SetLines(e.set) # Nothing} |->
        IF k = "set" THEN SetLines(e.set) ELSE e[k]]

RouteMapLines(args) ==
    [entries |-> [i \in DOMAIN BySeq(args) |-> MapEntryLines(BySeq(args)[i])]]

-----------------------------------------------------------------------------
(***************************************************************************)
(* Parsing.  The device shows every route map whose name begins with the   *)
(* one asked for (`section route-map <name>`, in order of name).  The      *)
(* header of another map does not end the entry that is being read: the    *)
(* clauses under it are taken for clauses of the last entry of this map.   *)
(***************************************************************************)
SetFound(lines) ==
    LET additive(flag, f) == {flag : g \in {h \in DOMAIN lines \cap {f} : lines[h][2]}}
    IN  [f \in DOMAIN lines \cup additive("communityAdditive", "community")
                            \cup additive("extcommunityRtAdditive", "extcommunityRt") |->
            CASE f \in {"communityAdditive", "extcommunityRtAdditive"} -> TRUE
              [] f \in {"community", "extcommunityRt"} -> lines[f][1]
              [] OTHER -> lines[f]]

MapEntryFound(e) ==
    [k \in DOMAIN e |-> IF k = "set" THEN SetFound(e.set) ELSE e[k]]

\* the clauses of a later entry are laid over those of the one being read;
\* route targets accumulate
MapEntryWith(e, later) ==
    LET clauses(k) == Overlay(Or(e, k, Nothing), Or(later, k, Nothing))
        targets == Or(Or(e, "set", Nothing), "extcommunityRt", <<>>)
                       \o Or(Or(later, "set", Nothing), "extcommunityRt", <<>>)
        set == IF targets = <<>> THEN clauses("set")
               ELSE Overlay(clauses("set"), [extcommunityRt |-> targets])
    IN  [k \in DOMAIN e \cup (DOMAIN later \cap {"match", "set", "continue"}) |->
            CASE k \in {"seq", "action"} -> e[k]
              [] k = "continue" -> Or(later, k, Or(e, k, 0))
              [] k = "match" -> clauses("match")
              [] k = "set" -> set]

EntriesOf(config, name) == Or(Shown(config, MapObject(name), {"entries"}), "entries", <<>>)

Following(config, name) ==
    FlattenSeq([i \in DOMAIN LongerNames(name) |-> EntriesOf(config, LongerNames(name)[i])])

RouteMapFound(args, config) ==
    LET own == EntriesOf(config, args.name)
        found == [i \in DOMAIN own |-> MapEntryFound(own[i])]
        following == Following(config, args.name)
        last == FoldLeft(LAMBDA e, later : MapEntryWith(e, MapEntryFound(later)),
                         found[Len(found)], following)
    IN  CASE own = <<>> -> Nothing
          [] own # <<>> /\ following = <<>> -> [entries |-> found]
          [] OTHER -> [entries |-> [found EXCEPT ![Len(found)] = last]]
=============================================================================
