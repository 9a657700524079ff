-------------------------- MODULE DeviceLinesProofs --------------------------
(***************************************************************************)
(* Executing blocks on a running-config: every block that a resource with  *)
(* valid inputs stages is well-formed, and a well-formed block leaves a    *)
(* running-config.                                                         *)
(***************************************************************************)
EXTENDS DeviceLines, SortingProofs

-----------------------------------------------------------------------------
(***************************************************************************)
(* Executing a block.                                                      *)
(***************************************************************************)
\* The paths a block leaves on the device.
LEMMA ExecDomain ==
    ASSUME NEW c, NEW b
    PROVE  \A p : p \in DOMAIN Exec(c, b) <=>
            \/ p \in DOMAIN b.set /\ ~IsDefault(p[2], b.set[p])
            \/ /\ p \in DOMAIN c \ DOMAIN b.set
               /\ ~Within(p[1], b.drop)
               /\ <<p, c[p]>> \notin b.negate
BY DEF Exec

LEMMA ExecValues ==
    ASSUME NEW c, NEW b, NEW p \in DOMAIN Exec(c, b)
    PROVE  Exec(c, b)[p] = IF p \in DOMAIN b.set THEN b.set[p] ELSE c[p]
BY DEF Exec

-----------------------------------------------------------------------------
(***************************************************************************)
(* The blocks of the kinds.  The kinds are apart, so each operator has one *)
(* case.                                                                   *)
(***************************************************************************)
LEMMA ByKind ==
    ASSUME NEW k, NEW args
    PROVE  /\ k = "vlan" =>
                /\ Block(k, args) = VlanBlock(args)
                /\ Objects(k, args) = VlanObjects(args)
                /\ Removal(k, args) = VlanRemoval(args)
           /\ k = "vlanRange" =>
                /\ Block(k, args) = RangeBlock(args)
                /\ Objects(k, args) = RangeObjects(args)
                /\ Removal(k, args) = RangeRemoval(args)
           /\ k = "varp" =>
                /\ Block(k, args) = VarpBlock(args)
                /\ Objects(k, args) = VarpObjects(args)
                /\ Removal(k, args) = VarpRemoval(args)
           /\ k = "mlag" =>
                /\ Block(k, args) = MlagBlock(args)
                /\ Objects(k, args) = MlagObjects(args)
                /\ Removal(k, args) = MlagRemoval(args)
           /\ k = "staticRoute" =>
                /\ Block(k, args) = RouteBlock(args)
                /\ Objects(k, args) = RouteObjects(args)
                /\ Removal(k, args) = RouteRemoval(args)
           /\ k = "policyBasedRouting" =>
                /\ Block(k, args) = PbrBlock(args)
                /\ Objects(k, args) = PbrObjects(args)
                /\ Removal(k, args) = PbrRemoval(args)
           /\ k \in ListKinds =>
                /\ Block(k, args) = ListBlock(k, args)
                /\ Objects(k, args) = {ListObject(k, args)}
                /\ Removal(k, args) = ListRemoval(k, args)
           /\ k \in OneObjectKinds =>
                /\ Block(k, args) = OneBlock(k, args)
                /\ Objects(k, args) = {Object(k, args)}
                /\ Removal(k, args) = OneRemoval(k, args)
           /\ k \in RawKinds =>
                /\ Block(k, args) = args.body
                /\ Objects(k, args) = RawObjects(k, args)
                /\ Removal(k, args) = RawRemoval(k, args)
<1> USE DEF ListKinds, OneObjectKinds, MergeKinds, RebuildKinds, RawKinds
<1>1. CASE k = "vlan"
    <2>1. Block(k, args) = VlanBlock(args)
        BY <1>1 DEF Block
    <2>2. Objects(k, args) = VlanObjects(args)
        BY <1>1 DEF Objects
    <2>3. Removal(k, args) = VlanRemoval(args)
        BY <1>1 DEF Removal
    <2> QED
        BY <1>1, <2>1, <2>2, <2>3
<1>2. CASE k = "vlanRange"
    <2>1. Block(k, args) = RangeBlock(args)
        BY <1>2 DEF Block
    <2>2. Objects(k, args) = RangeObjects(args)
        BY <1>2 DEF Objects
    <2>3. Removal(k, args) = RangeRemoval(args)
        BY <1>2 DEF Removal
    <2> QED
        BY <1>2, <2>1, <2>2, <2>3
<1>3. CASE k = "varp"
    <2>1. Block(k, args) = VarpBlock(args)
        BY <1>3 DEF Block
    <2>2. Objects(k, args) = VarpObjects(args)
        BY <1>3 DEF Objects
    <2>3. Removal(k, args) = VarpRemoval(args)
        BY <1>3 DEF Removal
    <2> QED
        BY <1>3, <2>1, <2>2, <2>3
<1>4. CASE k = "mlag"
    <2>1. Block(k, args) = MlagBlock(args)
        BY <1>4 DEF Block
    <2>2. Objects(k, args) = MlagObjects(args)
        BY <1>4 DEF Objects
    <2>3. Removal(k, args) = MlagRemoval(args)
        BY <1>4 DEF Removal
    <2> QED
        BY <1>4, <2>1, <2>2, <2>3
<1>5. CASE k = "staticRoute"
    <2>1. Block(k, args) = RouteBlock(args)
        BY <1>5 DEF Block
    <2>2. Objects(k, args) = RouteObjects(args)
        BY <1>5 DEF Objects
    <2>3. Removal(k, args) = RouteRemoval(args)
        BY <1>5 DEF Removal
    <2> QED
        BY <1>5, <2>1, <2>2, <2>3
<1>6. CASE k = "policyBasedRouting"
    <2>1. Block(k, args) = PbrBlock(args)
        BY <1>6 DEF Block
    <2>2. Objects(k, args) = PbrObjects(args)
        BY <1>6 DEF Objects
    <2>3. Removal(k, args) = PbrRemoval(args)
        BY <1>6 DEF Removal
    <2> QED
        BY <1>6, <2>1, <2>2, <2>3
<1>7. CASE k \in ListKinds
    <2>1. Block(k, args) = ListBlock(k, args)
        BY <1>7 DEF Block
    <2>2. Objects(k, args) = {ListObject(k, args)}
        BY <1>7 DEF Objects
    <2>3. Removal(k, args) = ListRemoval(k, args)
        BY <1>7 DEF Removal
    <2> QED
        BY <1>7, <2>1, <2>2, <2>3
<1>8. CASE k \in OneObjectKinds
    <2>1. Block(k, args) = OneBlock(k, args)
        BY <1>8 DEF Block
    <2>2. Objects(k, args) = {Object(k, args)}
        BY <1>8 DEF Objects
    <2>3. Removal(k, args) = OneRemoval(k, args)
        BY <1>8 DEF Removal
    <2> QED
        BY <1>8, <2>1, <2>2, <2>3
<1>9. CASE k \in RawKinds
    <2>1. Block(k, args) = args.body
        BY <1>9 DEF Block
    <2>2. Objects(k, args) = RawObjects(k, args)
        BY <1>9 DEF Objects
    <2>3. Removal(k, args) = RawRemoval(k, args)
        BY <1>9 DEF Removal
    <2> QED
        BY <1>9, <2>1, <2>2, <2>3
<1> QED
    BY <1>1, <1>2, <1>3, <1>4, <1>5, <1>6, <1>7, <1>8, <1>9

LEMMA ReadByKind ==
    ASSUME NEW k, NEW args, NEW c
    PROVE  /\ k = "vlan" => ReadBack(k, args, c) = VlanRead(args, c)
           /\ k = "vlanRange" => ReadBack(k, args, c) = RangeRead(args, c)
           /\ k = "varp" => ReadBack(k, args, c) = VarpRead(args, c)
           /\ k = "mlag" => ReadBack(k, args, c) = MlagRead(args, c)
           /\ k = "staticRoute" => ReadBack(k, args, c) = RouteRead(args, c)
           /\ k = "policyBasedRouting" => ReadBack(k, args, c) = PbrRead(args, c)
           /\ k \in ListKinds => ReadBack(k, args, c) = ListRead(k, args, c)
           /\ k \in OneObjectKinds => ReadBack(k, args, c) = OneRead(k, args, c)
           /\ k \in RawKinds => ReadBack(k, args, c) = args
<1> USE DEF ListKinds, OneObjectKinds, MergeKinds, RebuildKinds, RawKinds
<1>1. k = "vlan" => ReadBack(k, args, c) = VlanRead(args, c)
    BY DEF ReadBack
<1>2. k = "vlanRange" => ReadBack(k, args, c) = RangeRead(args, c)
    BY DEF ReadBack
<1>3. k = "varp" => ReadBack(k, args, c) = VarpRead(args, c)
    BY DEF ReadBack
<1>4. k = "mlag" => ReadBack(k, args, c) = MlagRead(args, c)
    BY DEF ReadBack
<1>5. k = "staticRoute" => ReadBack(k, args, c) = RouteRead(args, c)
    BY DEF ReadBack
<1>6. k = "policyBasedRouting" => ReadBack(k, args, c) = PbrRead(args, c)
    BY DEF ReadBack
<1>7. k \in ListKinds => ReadBack(k, args, c) = ListRead(k, args, c)
    BY DEF ReadBack
<1>8. k \in OneObjectKinds => ReadBack(k, args, c) = OneRead(k, args, c)
    BY DEF ReadBack
<1>9. k \in RawKinds => ReadBack(k, args, c) = args
    BY DEF ReadBack
<1> QED
    BY <1>1, <1>2, <1>3, <1>4, <1>5, <1>6, <1>7, <1>8, <1>9

LEMMA OneObjectBlock ==
    ASSUME NEW k \in OneObjectKinds, NEW args
    PROVE  /\ \A p \in DOMAIN OneBlock(k, args).set :
                p[1] = Object(k, args) \/ p \in DOMAIN Headers(Entered(k, args))
           /\ OneBlock(k, args).negate = {}
           /\ OneBlock(k, args).drop = IF k \in RebuildKinds THEN {Object(k, args)} ELSE {}
<1> DEFINE object == Object(k, args)
           H == Headers(Entered(k, args))
           U == Under(object, Lines(k, args))
           R == RowsUnder(object, Rows(k, args))
           set == Overlay(Overlay(H, U), R)
<1>1. \A p \in DOMAIN U : p[1] = object
    BY DEF Under
<1>2. \A p \in DOMAIN R : p[1] = object
    BY DEF RowsUnder
<1>3. DOMAIN set = DOMAIN H \cup DOMAIN U \cup DOMAIN R
    BY DEF Overlay
<1>4. OneBlock(k, args) = IF k \in RebuildKinds THEN Rebuilds({object}, set) ELSE Sets(set)
    BY DEF OneBlock
<1> HIDE DEF U, R, H, set
<1>5. OneBlock(k, args).set = set
    BY <1>4 DEF Rebuilds, Sets
<1> QED
    BY <1>1, <1>2, <1>3, <1>4, <1>5 DEF Rebuilds, Sets, H

LEMMA PbrBlockShape ==
    ASSUME NEW args
    PROVE  /\ PbrBlock(args).drop = PbrObjects(args)
           /\ PbrBlock(args).negate = {}
           /\ \A p \in DOMAIN PbrBlock(args).set :
                \/ p[1] = PolicyMap(args)
                \/ \E i \in Attached(args) : p = <<ServicePolicy(i), "policy">>
           /\ \A i \in Attached(args) :
                LET p == <<ServicePolicy(i), "policy">>
                IN  p \in DOMAIN PbrBlock(args).set => PbrBlock(args).set[p] = args.name
<1> DEFINE M == Under(PolicyMap(args), [header |-> "on", sequences |-> PbrSequenceLines(args)])
           A == [p \in {<<ServicePolicy(i), "policy">> : i \in Attached(args)} |-> args.name]
<1>1. PbrBlock(args) = Rebuilds(PbrObjects(args), Overlay(M, A))
    BY DEF PbrBlock
<1>2. \A p \in DOMAIN M : p[1] = PolicyMap(args)
    BY DEF Under
<1>3. DOMAIN Overlay(M, A) = DOMAIN M \cup DOMAIN A
    BY DEF Overlay
<1>4. \A p \in DOMAIN A : Overlay(M, A)[p] = args.name
    BY DEF Overlay
<1> HIDE DEF M
<1> QED
    BY <1>1, <1>2, <1>3, <1>4 DEF Rebuilds

-----------------------------------------------------------------------------
(***************************************************************************)
(* The helpers that lines are built with.                                  *)
(***************************************************************************)
\* The domains of what is found.
LEMMA OverlayDomain ==
    ASSUME NEW a, NEW b
    PROVE  DOMAIN Overlay(a, b) = DOMAIN a \cup DOMAIN b
BY DEF Overlay

LEMMA ShownDomain ==
    ASSUME NEW c, NEW object, NEW knobs
    PROVE  DOMAIN Shown(c, object, knobs) \subseteq knobs
BY DEF Shown

LEMMA GivenDomain ==
    ASSUME NEW args, NEW fields
    PROVE  DOMAIN Given(args, fields) \subseteq fields
BY DEF Given

LEMMA NonEmptyDomain ==
    ASSUME NEW lists
    PROVE  DOMAIN NonEmpty(lists) \subseteq DOMAIN lists
BY DEF NonEmpty

LEMMA NothingDomain == DOMAIN Nothing = {}
BY DEF Nothing

\* a list is a finite sequence of its members
LEMMA ListOfMembers ==
    ASSUME NEW s, IsAList(s)
    PROVE  Len(s) \in Nat /\ DOMAIN s = 1 .. Len(s) /\ s = [i \in 1 .. Len(s) |-> s[i]]
BY DEF IsAList

LEMMA ListNotEmpty ==
    ASSUME NEW s, IsAList(s), s # <<>>
    PROVE  1 \in DOMAIN s
BY DEF IsAList

\* the image of a finite set is finite
LEMMA FiniteImage ==
    ASSUME NEW S, IsFiniteSet(S), NEW f, DOMAIN f = S, NEW T, \A t \in T : \E x \in S : t = f[x]
    PROVE  IsFiniteSet(T)
<1> DEFINE R == {f[x] : x \in S}
           g == [x \in S |-> f[x]]
<1>1. g \in Surjection(S, R)
    BY DEF Surjection
<1>2. IsFiniteSet(R)
    BY <1>1, FS_Surjection
<1>3. T \in SUBSET R
    OBVIOUS
<1> QED
    BY <1>2, <1>3, FS_Subset

-----------------------------------------------------------------------------
(***************************************************************************)
(* A well-formed block leaves a running-config.                            *)
(***************************************************************************)
LEMMA CoreAlwaysShown ==
    ASSUME NEW feature, NEW knob \in Core(feature), NEW value
    PROVE  ~IsDefault(knob, value)
<1>1. knob \in {"header", "type", "listType", "entries"}
    BY DEF Core
<1> QED
    BY <1>1 DEF IsDefault, Default

LEMMA ExecKeepsRunningConfig ==
    ASSUME NEW c, RunningConfig(c), NEW b, WellFormed(b)
    PROVE  RunningConfig(Exec(c, b))
<1> DEFINE d == Exec(c, b)
<1>1. ASSUME NEW p \in DOMAIN d
      PROVE  LineShown(p, d[p]) /\ ~IsDefault(p[2], d[p])
    <2>1. CASE p \in DOMAIN b.set
        <3>1. d[p] = b.set[p]
            BY <1>1, <2>1, ExecValues
        <3>2. ~IsDefault(p[2], b.set[p])
            BY <1>1, <2>1, ExecDomain
        <3>3. LineShown(p, b.set[p])
            BY <2>1 DEF WellFormed
        <3> QED
            BY <3>1, <3>2, <3>3
    <2>2. CASE p \notin DOMAIN b.set
        <3>1. d[p] = c[p]
            BY <1>1, <2>2, ExecValues
        <3>2. p \in DOMAIN c
            BY <1>1, <2>2, ExecDomain
        <3>3. LineShown(p, c[p]) /\ ~IsDefault(p[2], c[p])
            BY <3>2 DEF RunningConfig
        <3> QED
            BY <3>1, <3>3
    <2> QED
        BY <2>1, <2>2
<1>2. ASSUME NEW p \in DOMAIN d, NEW knob \in Core(p[1][1])
      PROVE  <<p[1], knob>> \in DOMAIN d
    <2> DEFINE q == <<p[1], knob>>
    <2>1. CASE q \in DOMAIN b.set
        <3>1. ~IsDefault(q[2], b.set[q])
            BY <1>2, CoreAlwaysShown
        <3> HIDE DEF q
        <3>2. q \in DOMAIN d
            BY <2>1, <3>1, ExecDomain
        <3> QED
            BY <3>2 DEF q
    <2>2. CASE q \notin DOMAIN b.set
        <3>1. p \notin DOMAIN b.set
            BY <1>2, <2>2 DEF WellFormed, Complete
        <3>2. p \in DOMAIN c /\ ~Within(p[1], b.drop)
            BY <1>2, <3>1, ExecDomain
        <3>3. q \in DOMAIN c
            BY <1>2, <3>2 DEF RunningConfig, Complete
        <3>4. <<q, c[q]>> \notin b.negate
            BY <1>2 DEF WellFormed
        <3>5. ~Within(q[1], b.drop)
            BY <3>2
        <3> HIDE DEF q
        <3>6. q \in DOMAIN d
            BY <2>2, <3>3, <3>4, <3>5, ExecDomain
        <3> QED
            BY <3>6 DEF q
    <2> QED
        BY <2>1, <2>2
<1>3. FewRows(d)
    <2> DEFINE old == {p \in DOMAIN c : IsRow(p)}
               new == {p \in DOMAIN b.set : IsRow(p)}
               all == {p \in DOMAIN d : IsRow(p)}
    <2>1. IsFiniteSet(old) /\ IsFiniteSet(new)
        BY DEF RunningConfig, WellFormed, FewRows
    <2>2. IsFiniteSet(old \cup new)
        BY <2>1, FS_Union
    <2>3. all \in SUBSET (old \cup new)
        BY ExecDomain
    <2>4. IsFiniteSet(all)
        <3> HIDE DEF all, old, new
        <3> QED
            BY <2>2, <2>3, FS_Subset
    <2> QED
        BY <2>4 DEF FewRows
<1> QED
    BY <1>1, <1>2, <1>3 DEF RunningConfig, Complete

\* a fresh device
LEMMA EmptyIsRunning == RunningConfig(Empty)
<1>1. DOMAIN Empty = {}
    BY DEF Empty
<1>2. {p \in DOMAIN Empty : IsRow(p)} = {}
    BY <1>1
<1> QED
    BY <1>1, <1>2, FS_EmptySet DEF RunningConfig, Complete, FewRows

-----------------------------------------------------------------------------
(***************************************************************************)
(* Lines of one feature.                                                   *)
(***************************************************************************)
LinesShown(feature, lines) ==
    \A knob \in DOMAIN lines : knob \in Knobs(feature) /\ ValueShown(feature, knob, lines[knob])

LEMMA OverlayShown ==
    ASSUME NEW feature, NEW a, NEW b, LinesShown(feature, a), LinesShown(feature, b)
    PROVE  LinesShown(feature, Overlay(a, b))
BY DEF LinesShown, Overlay

LEMMA NothingShown ==
    ASSUME NEW feature
    PROVE  LinesShown(feature, Nothing)
BY DEF LinesShown, Nothing

\* the knobs whose values matter to Read
Typed == {"header", "shutdown", "routed", "ipRouting", "ipv6Routing", "noAutostate",
          "pathMtuDiscovery", "dontFragment", "switchportMode", "mac", "tag", "floodVteps", "mst",
          "algorithm", "timers", "primary", "unit"}

LEMMA UntypedShown ==
    ASSUME NEW feature, feature \notin {"asPathList", "routeMap"}, NEW knob, knob \notin Typed,
           NEW value
    PROVE  ValueShown(feature, knob, value)
BY DEF ValueShown, Typed

LEMMA HeaderShown ==
    ASSUME NEW feature, feature \notin {"asPathList", "routeMap"}
    PROVE  ValueShown(feature, "header", "on")
BY DEF ValueShown

LEMMA FlagShown ==
    ASSUME NEW feature, feature \notin {"asPathList", "routeMap"},
           NEW knob \in {"shutdown", "routed", "ipRouting", "ipv6Routing"}, NEW value \in BOOLEAN
    PROVE  ValueShown(feature, knob, value)
BY DEF ValueShown

LEMMA OnFlagShown ==
    ASSUME NEW feature, feature \notin {"asPathList", "routeMap"},
           NEW knob, knob \notin Typed \/ knob \in {"shutdown", "noAutostate", "pathMtuDiscovery", "dontFragment"}
    PROVE  ValueShown(feature, knob, TRUE)
BY DEF ValueShown, Typed

\* fields that are rendered as they are: all but a shutdown untyped
LEMMA GivenShown ==
    ASSUME NEW feature, feature \notin {"asPathList", "routeMap"}, NEW args, NEW fields,
           fields \subseteq Knobs(feature), fields \cap Typed \subseteq {"shutdown"},
           Has(args, "shutdown") => args.shutdown \in BOOLEAN
    PROVE  LinesShown(feature, Given(args, fields))
<1> SUFFICES ASSUME NEW knob \in DOMAIN args \cap fields
             PROVE  ValueShown(feature, knob, args[knob])
    BY DEF LinesShown, Given
<1>1. CASE knob = "shutdown"
    BY <1>1, FlagShown DEF Has
<1>2. CASE knob # "shutdown"
    BY <1>2, UntypedShown
<1> QED
    BY <1>1, <1>2

LEMMA OnOnlyShown ==
    ASSUME NEW feature, feature \notin {"asPathList", "routeMap"}, NEW args, NEW flags,
           flags \subseteq Knobs(feature),
           flags \cap Typed \subseteq {"shutdown", "noAutostate", "pathMtuDiscovery", "dontFragment"}
    PROVE  LinesShown(feature, OnOnly(args, flags))
<1> SUFFICES ASSUME NEW knob \in flags
             PROVE  ValueShown(feature, knob, TRUE)
    BY DEF LinesShown, OnOnly
<1> QED
    BY OnFlagShown

LEMMA JustHeaderShown ==
    ASSUME NEW feature \in Features \cap Headed
    PROVE  LinesShown(feature, [header |-> "on"])
<1>1. "header" \in Knobs(feature)
    BY DEF Knobs, Features, Headed
<1>2. feature \notin {"asPathList", "routeMap"}
    BY DEF Headed
<1> QED
    BY <1>1, <1>2, HeaderShown DEF LinesShown

-----------------------------------------------------------------------------
(***************************************************************************)
(* Lines of several objects.                                               *)
(***************************************************************************)
AllShown(set) == \A p \in DOMAIN set : LineShown(p, set[p])

LEMMA NoRows ==
    ASSUME NEW set, \A p \in DOMAIN set : ~IsRow(p)
    PROVE  FewRows(set)
<1>1. {p \in DOMAIN set : IsRow(p)} = {}
    OBVIOUS
<1> QED
    BY <1>1, FS_EmptySet DEF FewRows

\* the lines of one object, by knob
LEMMA UnderShown ==
    ASSUME NEW object, object[1] # "route", NEW lines,
           object[1] \in Features => LinesShown(object[1], lines)
    PROVE  /\ AllShown(Under(object, lines))
           /\ \A p \in DOMAIN Under(object, lines) : ~IsRow(p)
           /\ \A p \in DOMAIN Under(object, lines) : p[1] = object
           /\ \A knob \in DOMAIN lines : <<object, knob>> \in DOMAIN Under(object, lines)
<1> DEFINE set == Under(object, lines)
<1>1. \A p \in DOMAIN set :
        p = <<p[1], p[2]>> /\ p[1] = object /\ p[2] \in DOMAIN lines /\ set[p] = lines[p[2]]
    BY DEF Under
<1>2. \A knob \in DOMAIN lines : <<object, knob>> \in DOMAIN set
    BY DEF Under
<1> HIDE DEF set
<1>3. object[1] \in {"vxlanInterface", "vrrp"} => \A p \in DOMAIN set : ~IsRow(p)
    <2>1. {"vxlanInterface", "vrrp"} \subseteq Features
        BY DEF Features
    <2>2. Knobs("vxlanInterface") \cap VniTables = {}
        BY DEF Knobs, VxlanFields, VniTables
    <2>3. Knobs("vrrp") \cap VrrpTables = {}
        BY DEF Knobs, VrrpFields, VrrpTables
    <2> QED
        BY <1>1, <2>1, <2>2, <2>3 DEF IsRow, LinesShown
<1>4. \A p \in DOMAIN set : ~IsRow(p)
    BY <1>1, <1>3 DEF IsRow
<1>5. AllShown(set)
    <2> SUFFICES ASSUME NEW p \in DOMAIN set, object[1] \in Features
                 PROVE  LineShown(p, set[p])
        BY <1>1 DEF AllShown, LineShown
    <2> QED
        BY <1>1, <1>4 DEF LineShown, LinesShown
<1> QED
    BY <1>1, <1>2, <1>4, <1>5 DEF set

\* the headers of the objects on the way
LEMMA HeadersShown ==
    ASSUME NEW objects, \A object \in objects : object[1] \in Parents
    PROVE  /\ AllShown(Headers(objects))
           /\ Complete(Headers(objects))
           /\ \A p \in DOMAIN Headers(objects) : ~IsRow(p)
<1> DEFINE set == Headers(objects)
<1>1. \A p \in DOMAIN set :
        p = <<p[1], p[2]>> /\ p[1] \in objects /\ p[2] = "header" /\ set[p] = "on"
    BY DEF Headers
<1> HIDE DEF set
<1>2. \A p \in DOMAIN set : ~IsRow(p)
    BY <1>1 DEF IsRow, VniTables, VrrpTables
<1>3. ASSUME NEW p \in DOMAIN set
      PROVE  LineShown(p, set[p]) /\ Core(p[1][1]) = {"header"}
    <2>1. p[1][1] \in Headed /\ p[1][1] # "route" /\ p[1][1] \in Parents
        BY <1>1 DEF Parents, Headed
    <2>2. p[1][1] \in Features => "header" \in Knobs(p[1][1])
        BY <2>1 DEF Knobs, Parents, Features
    <2>3. ValueShown(p[1][1], "header", "on")
        BY <2>1, HeaderShown DEF Headed
    <2>4. Core(p[1][1]) = {"header"}
        BY <2>1 DEF Core, Headed
    <2>5. p = <<p[1], p[2]>> /\ p[2] = "header" /\ set[p] = "on" /\ ~IsRow(p)
        BY <1>1, <1>2
    <2>6. LineShown(p, set[p])
        BY <2>1, <2>2, <2>3, <2>5 DEF LineShown
    <2> QED
        BY <2>4, <2>6
<1>4. Complete(set)
    BY <1>1, <1>3 DEF Complete
<1> QED
    BY <1>2, <1>3, <1>4 DEF AllShown, set

LEMMA OverlayAllShown ==
    ASSUME NEW a, NEW b, AllShown(a), AllShown(b)
    PROVE  AllShown(Overlay(a, b))
BY DEF AllShown, Overlay

LEMMA SetsWellFormed ==
    ASSUME NEW set, AllShown(set), Complete(set), FewRows(set)
    PROVE  /\ WellFormed(Sets(set))
           /\ \A objects : WellFormed(Rebuilds(objects, set))
BY DEF WellFormed, AllShown, Sets, Rebuilds

LEMMA DropsWellFormed ==
    ASSUME NEW objects
    PROVE  WellFormed(Drops(objects))
<1>1. Drops(objects).set = Empty /\ Drops(objects).negate = {} /\ DOMAIN Empty = {}
    BY DEF Drops, Empty
<1>2. FewRows(Empty)
    BY <1>1, NoRows
<1> QED
    BY <1>1, <1>2 DEF WellFormed, Complete

-----------------------------------------------------------------------------
(***************************************************************************)
(* The lines of the kinds of one object.                                   *)
(***************************************************************************)
LEMMA SwitchportShown ==
    ASSUME NEW feature \in {"interface", "portChannel"}, NEW args, SwitchportValid(args)
    PROVE  LinesShown(feature, SwitchportLines(args))
<1> DEFINE mode == Or(args, "switchportMode", "")
           given == Given(args, SwitchportFields \ {"switchportMode"})
           modeLines == CASE mode = "" -> Nothing
                          [] mode = "routed" -> [routed |-> TRUE]
                          [] OTHER -> [routed |-> FALSE, switchportMode |-> mode]
<1>1. SwitchportLines(args) = Overlay(given, modeLines)
    BY DEF SwitchportLines
<1>2. mode \in {"", "access", "trunk", "routed"}
    BY DEF SwitchportValid
<1>3. SwitchportFields \cup {"routed"} \subseteq Knobs(feature)
    BY DEF Knobs
<1>4. LinesShown(feature, given)
    <2>1. (SwitchportFields \ {"switchportMode"}) \cap Typed = {}
        BY DEF SwitchportFields, Typed
    <2>2. \A knob \in DOMAIN given : knob \in SwitchportFields \ {"switchportMode"}
        BY GivenDomain
    <2> HIDE DEF given
    <2> QED
        BY <1>3, <2>1, <2>2, UntypedShown DEF LinesShown
<1>5. LinesShown(feature, modeLines)
    <2>1. ASSUME NEW on \in BOOLEAN
          PROVE  LinesShown(feature, [routed |-> on])
        <3>1. ValueShown(feature, "routed", on)
            BY FlagShown
        <3> QED
            BY <1>3, <3>1 DEF LinesShown
    <2>2. ASSUME NEW on \in BOOLEAN, NEW m \in {"access", "trunk"}
          PROVE  LinesShown(feature, [routed |-> on, switchportMode |-> m])
        <3>1. ValueShown(feature, "routed", on)
            BY FlagShown
        <3>2. ValueShown(feature, "switchportMode", m)
            BY DEF ValueShown
        <3>3. {"switchportMode", "routed"} \subseteq Knobs(feature)
            BY <1>3 DEF SwitchportFields
        <3> QED
            BY <3>1, <3>2, <3>3 DEF LinesShown
    <2> HIDE DEF mode
    <2> QED
        BY <1>2, <2>1, <2>2, NothingShown
<1> HIDE DEF given, modeLines
<1> QED
    BY <1>1, <1>4, <1>5, OverlayShown

\* a header and the shutdown of an interface that always renders one
LEMMA HeaderAndShutdownShown ==
    ASSUME NEW feature \in {"loopback", "subinterface"}, NEW args,
           Has(args, "shutdown") => args.shutdown \in BOOLEAN
    PROVE  LinesShown(feature, [header |-> "on", shutdown |-> On(args, "shutdown")])
<1>1. On(args, "shutdown") \in BOOLEAN
    BY DEF On
<1>2. {"header", "shutdown"} \subseteq Knobs(feature)
    BY DEF Knobs
<1> QED
    BY <1>1, <1>2 DEF LinesShown, ValueShown

LEMMA InterfaceLinesShown ==
    ASSUME NEW k \in {"interface", "portChannel", "vlanInterface", "loopback", "subinterface",
                      "greTunnel"},
           NEW args, WellTyped(k, args), Valid(k, args)
    PROVE  LinesShown(k, Lines(k, args))
<1>1. /\ Has(args, "shutdown") => args.shutdown \in BOOLEAN
      /\ k \in Features
      /\ k \notin {"asPathList", "routeMap"}
    BY DEF WellTyped, Features
<1>2. k # "interface" => LinesShown(k, [header |-> "on"])
    BY <1>1, JustHeaderShown DEF Headed
<1>3. CASE k = "interface"
    <2> DEFINE given == Given(args, InterfaceFields)
    <2>1. Lines(k, args) = Overlay(given, SwitchportLines(args))
        BY <1>3 DEF Lines, InterfaceLines
    <2>2. SwitchportValid(args)
        BY <1>3 DEF Valid, InterfaceValid, RawKinds
    <2>3. InterfaceFields \subseteq Knobs(k)
        BY <1>3 DEF Knobs
    <2>4. LinesShown(k, given)
        BY <1>1, <2>3, GivenShown DEF InterfaceFields, Typed
    <2> HIDE DEF given
    <2> QED
        BY <1>3, <2>1, <2>2, <2>4, SwitchportShown, OverlayShown
<1>4. CASE k = "portChannel"
    <2> DEFINE header == [header |-> "on"]
               given == Given(args, PortChannelFields)
    <2>1. Lines(k, args) = Overlay(Overlay(header, given), SwitchportLines(args))
        BY <1>4 DEF Lines, PortChannelLines
    <2>2. SwitchportValid(args)
        BY <1>4 DEF Valid, PortChannelValid, RawKinds
    <2>3. PortChannelFields \subseteq Knobs(k)
        BY <1>4 DEF Knobs
    <2>4. LinesShown(k, given)
        BY <1>1, <2>3, GivenShown DEF PortChannelFields, Typed
    <2>5. LinesShown(k, header)
        BY <1>2, <1>4
    <2> HIDE DEF given, header
    <2>6. LinesShown(k, SwitchportLines(args))
        BY <1>4, <2>2, SwitchportShown
    <2> QED
        BY <2>1, <2>4, <2>5, <2>6, OverlayShown
<1>5. CASE k = "vlanInterface"
    <2> DEFINE header == [header |-> "on"]
               given == Given(args, VlanInterfaceFields)
               flags == OnOnly(args, VlanInterfaceFlags)
    <2>1. Lines(k, args) = Overlay(Overlay(header, given), flags)
        BY <1>5 DEF Lines, VlanInterfaceLines
    <2>2. VlanInterfaceFields \cup VlanInterfaceFlags \subseteq Knobs(k)
        BY <1>5 DEF Knobs
    <2>3. LinesShown(k, given)
        BY <1>1, <2>2, GivenShown DEF VlanInterfaceFields, Typed
    <2>4. LinesShown(k, flags)
        BY <1>1, <2>2, OnOnlyShown DEF VlanInterfaceFlags
    <2>5. LinesShown(k, header)
        BY <1>2, <1>5
    <2> HIDE DEF given, header, flags
    <2> QED
        BY <2>1, <2>3, <2>4, <2>5, OverlayShown
<1>6. CASE k = "loopback"
    <2> DEFINE given == Given(args, LoopbackFields)
               rest == [header |-> "on", shutdown |-> On(args, "shutdown")]
    <2>1. Lines(k, args) = Overlay(given, rest)
        BY <1>6 DEF Lines, LoopbackLines
    <2>2. LoopbackFields \subseteq Knobs(k)
        BY <1>6 DEF Knobs
    <2>3. LinesShown(k, given)
        BY <1>1, <2>2, GivenShown DEF LoopbackFields, Typed
    <2>4. LinesShown(k, rest)
        BY <1>1, <1>6, HeaderAndShutdownShown
    <2> HIDE DEF given, rest
    <2> QED
        BY <2>1, <2>3, <2>4, OverlayShown
<1>7. CASE k = "subinterface"
    <2> DEFINE given == Given(args, SubinterfaceFields)
               rest == [header |-> "on", shutdown |-> On(args, "shutdown")]
    <2>1. Lines(k, args) = Overlay(given, rest)
        BY <1>7 DEF Lines, SubinterfaceLines
    <2>2. SubinterfaceFields \subseteq Knobs(k)
        BY <1>7 DEF Knobs
    <2>3. LinesShown(k, given)
        BY <1>1, <2>2, GivenShown DEF SubinterfaceFields, LoopbackFields, Typed
    <2>4. LinesShown(k, rest)
        BY <1>1, <1>7, HeaderAndShutdownShown
    <2> HIDE DEF given, rest
    <2> QED
        BY <2>1, <2>3, <2>4, OverlayShown
<1>8. CASE k = "greTunnel"
    <2> DEFINE header == [header |-> "on"]
               given == Given(args, GreTunnelFields)
               flags == OnOnly(args, GreTunnelFlags)
    <2>1. Lines(k, args) = Overlay(Overlay(header, given), flags)
        BY <1>8 DEF Lines, GreTunnelLines
    <2>2. GreTunnelFields \cup GreTunnelFlags \subseteq Knobs(k)
        BY <1>8 DEF Knobs
    <2>3. LinesShown(k, given)
        BY <1>1, <2>2, GivenShown DEF GreTunnelFields, Typed
    <2>4. LinesShown(k, flags)
        BY <1>1, <2>2, OnOnlyShown DEF GreTunnelFlags
    <2>5. LinesShown(k, header)
        BY <1>2, <1>8
    <2> HIDE DEF given, header, flags
    <2> QED
        BY <2>1, <2>3, <2>4, <2>5, OverlayShown
<1> QED
    BY <1>3, <1>4, <1>5, <1>6, <1>7, <1>8

-----------------------------------------------------------------------------
(***************************************************************************)
(* What EOS sorts.                                                         *)
(***************************************************************************)
LEMMA MembersFinite ==
    ASSUME NEW s, IsAList(s)
    PROVE  IsFiniteSet({s[i] : i \in DOMAIN s})
<1>1. Len(s) \in Nat /\ DOMAIN s = 1 .. Len(s)
    BY ListOfMembers
<1>2. IsFiniteSet(1 .. Len(s))
    BY <1>1, FS_Interval
<1> QED
    BY <1>1, <1>2, FiniteImage

\* sorted by a field that tells the members apart
LEMMA SortedByField ==
    ASSUME NEW S, IsFiniteSet(S), S # {}, NEW field,
           \A e \in S : field \in DOMAIN e /\ e[field] \in Nat,
           \A d, e \in S : d[field] = e[field] => d = e
    PROVE  LET s == InOrder(S, [e \in S |-> e[field]])
           IN  s # <<>> /\ InOrderOf(s, field) /\ \A i \in DOMAIN s : s[i] \in S
<1> DEFINE key == [e \in S |-> e[field]]
           s == InOrder(S, key)
           n == Cardinality(S)
<1>1. \A e \in S : key[e] = e[field]
    OBVIOUS
<1> HIDE DEF key
<1>2. (\A e \in S : key[e] \in Int) /\ (\A d, e \in S : key[d] = key[e] => d = e)
    BY <1>1
<1>3. n \in Nat /\ s \in [1 .. n -> S] /\ Rises(s, n, key) /\ Covers(s, n, S)
    BY <1>2, InOrderSorts
<1> HIDE DEF s, n
<1>4. s # <<>>
    BY <1>3 DEF Covers
<1>5. InOrderOf(s, field)
    <2>1. DOMAIN s = 1 .. n /\ \A i \in 1 .. n : s[i] \in S
        BY <1>3
    <2>2. IsAList(s)
        BY <1>3, <2>1 DEF IsAList, ToSet
    <2>3. \A i, j \in DOMAIN s : i < j => s[i][field] < s[j][field]
        BY <1>1, <1>3, <2>1 DEF Rises
    <2> QED
        BY <2>1, <2>2, <2>3 DEF InOrderOf
<1>6. \A i \in DOMAIN s : s[i] \in S
    BY <1>3
<1> QED
    BY <1>4, <1>5, <1>6 DEF s, key

LEMMA AscendingSorts ==
    ASSUME NEW S, IsFiniteSet(S), S \subseteq Int
    PROVE  /\ Cardinality(S) \in Nat
           /\ Ascending(S) \in [1 .. Cardinality(S) -> S]
           /\ \A i, j \in 1 .. Cardinality(S) : i < j => Ascending(S)[i] < Ascending(S)[j]
           /\ \A e \in S : \E i \in 1 .. Cardinality(S) : Ascending(S)[i] = e
<1> DEFINE key == [n \in S |-> n]
<1>1. \A n \in S : key[n] = n
    OBVIOUS
<1>2. Ascending(S) = InOrder(S, key)
    BY DEF Ascending
<1> HIDE DEF key
<1>3. (\A e \in S : key[e] \in Int) /\ (\A d, e \in S : key[d] = key[e] => d = e)
    BY <1>1
<1>4. /\ Cardinality(S) \in Nat
      /\ Ascending(S) \in [1 .. Cardinality(S) -> S]
      /\ Rises(Ascending(S), Cardinality(S), key)
      /\ Covers(Ascending(S), Cardinality(S), S)
    <2>1. /\ Cardinality(S) \in Nat
          /\ InOrder(S, key) \in [1 .. Cardinality(S) -> S]
          /\ Rises(InOrder(S, key), Cardinality(S), key)
          /\ Covers(InOrder(S, key), Cardinality(S), S)
        BY <1>3, InOrderSorts
    <2> QED
        BY <1>2, <2>1
<1> DEFINE n == Cardinality(S)
           s == Ascending(S)
<1>5. \A i \in 1 .. n : s[i] \in S
    BY <1>4
<1>6. \A i, j \in 1 .. n : i < j => key[s[i]] < key[s[j]]
    BY <1>4 DEF Rises
<1>7. \A i, j \in 1 .. n : i < j => s[i] < s[j]
    BY <1>1, <1>5, <1>6
<1>8. \A e \in S : \E i \in 1 .. n : s[i] = e
    BY <1>4 DEF Covers
<1> QED
    BY <1>4, <1>7, <1>8

-----------------------------------------------------------------------------
(***************************************************************************)
(* The lines of the other kinds of one object.                             *)
(***************************************************************************)
LEMMA VxlanLinesShown ==
    ASSUME NEW args, WellTyped("vxlanInterface", args)
    PROVE  LinesShown("vxlanInterface", VxlanLines(args))
<1> DEFINE header == [header |-> "on"]
           given == Given(args, VxlanFields)
           flood == [f \in {"floodVteps"} \cap DOMAIN args |-> Ascending(ToSet(args.floodVteps))]
<1>1. VxlanLines(args) = Overlay(Overlay(header, given), flood)
    BY DEF VxlanLines
<1>2. LinesShown("vxlanInterface", header)
    BY JustHeaderShown DEF Features, Headed
<1>3. LinesShown("vxlanInterface", given)
    BY GivenShown DEF VxlanFields, Typed, Knobs, WellTyped
<1>4. LinesShown("vxlanInterface", flood)
    <2> SUFFICES ASSUME Has(args, "floodVteps")
                 PROVE  /\ "floodVteps" \in Knobs("vxlanInterface")
                        /\ ValueShown("vxlanInterface", "floodVteps",
                                      Ascending(ToSet(args.floodVteps)))
        BY DEF LinesShown, Has
    <2> DEFINE S == ToSet(args.floodVteps)
    <2>1. IsAList(args.floodVteps) /\ S \subseteq Int
        BY DEF WellTyped, VxlanLists, Items, ToSet
    <2>2. IsFiniteSet(S)
        BY <2>1, MembersFinite DEF ToSet
    <2> HIDE DEF S
    <2>3. /\ Ascending(S) \in Seq(Int)
          /\ \A i, j \in DOMAIN Ascending(S) : i < j => Ascending(S)[i] < Ascending(S)[j]
        <3> DEFINE n == Cardinality(S)
                   s == Ascending(S)
        <3>1. /\ n \in Nat /\ s \in [1 .. n -> S]
              /\ \A i, j \in 1 .. n : i < j => s[i] < s[j]
            BY <2>1, <2>2, AscendingSorts
        <3> HIDE DEF n, s
        <3>2. s \in [1 .. n -> Int] /\ DOMAIN s = 1 .. n
            BY <2>1, <3>1
        <3> QED
            BY <3>1, <3>2 DEF s
    <2>4. ValueShown("vxlanInterface", "floodVteps", Ascending(S))
        BY <2>3 DEF ValueShown
    <2> QED
        BY <2>4 DEF Knobs, S
<1> HIDE DEF header, given, flood
<1> QED
    BY <1>1, <1>2, <1>3, <1>4, OverlayShown

LEMMA MstLinesShown ==
    ASSUME NEW mst, MstValid(mst), Has(mst, "instances"), IsAList(mst.instances),
           \A i \in Items(mst, "instances") : Has(i, "id")
    PROVE  MstShown(MstLines(mst))
<1> DEFINE instances == Items(mst, "instances")
           lines == MstLines(mst)
<1>1. instances = {mst.instances[i] : i \in DOMAIN mst.instances}
    BY DEF Items
<1>2. \A i \in DOMAIN mst.instances : mst.instances[i].id \in Nat
    <2> DEFINE Ids == 1 .. 4094
    <2>1. \A i \in DOMAIN mst.instances : mst.instances[i].id \in Ids
        BY DEF MstValid
    <2>2. Ids \subseteq Nat
        OBVIOUS
    <2> HIDE DEF Ids
    <2> QED
        BY <2>1, <2>2
<1>3. \A i, j \in DOMAIN mst.instances : mst.instances[i].id = mst.instances[j].id => i = j
    BY ZenonT(30) DEF MstValid
<1>4. IsAFunction(lines)
    BY DEF MstLines, IsAFunction
<1>5. ASSUME Has(lines, "instances")
      PROVE  lines.instances # <<>> /\ InOrderOf(lines.instances, "id")
    <2>1. mst.instances # <<>> /\ lines.instances = InOrder(instances, [i \in instances |-> i.id])
        BY <1>5 DEF MstLines, Has
    <2>2. IsFiniteSet(instances)
        BY <1>1, MembersFinite
    <2>3. instances # {}
        BY <1>1, <2>1, ListNotEmpty
    <2>4. \A i \in instances : "id" \in DOMAIN i /\ i["id"] \in Nat
        BY <1>1, <1>2 DEF Has
    <2>5. \A i, j \in instances : i["id"] = j["id"] => i = j
        BY <1>1, <1>3
    <2> HIDE DEF instances, lines
    <2>6. LET s == InOrder(instances, [e \in instances |-> e["id"]])
          IN  s # <<>> /\ InOrderOf(s, "id")
        BY <2>2, <2>3, <2>4, <2>5, SortedByField
    <2> QED
        BY <2>1, <2>6
<1> HIDE DEF lines
<1> QED
    BY <1>4, <1>5 DEF MstShown, lines

LEMMA StpLinesShown ==
    ASSUME NEW args, WellTyped("stp", args), StpValid(args)
    PROVE  LinesShown("stp", StpLines(args))
<1> DEFINE given == Given(args, {"stpMode", "edgePortBpduGuardDefault"})
           mst == [f \in {"mst"} \cap DOMAIN args |-> MstLines(args.mst)]
<1>1. StpLines(args) = Overlay(given, mst)
    BY DEF StpLines
<1>2. LinesShown("stp", given)
    BY GivenShown DEF Typed, Knobs, WellTyped
<1>3. LinesShown("stp", mst)
    <2> SUFFICES ASSUME Has(args, "mst")
                 PROVE  "mst" \in Knobs("stp") /\ ValueShown("stp", "mst", MstLines(args.mst))
        BY DEF LinesShown, Has
    <2>1. MstValid(args.mst)
        BY DEF StpValid
    <2>2. /\ Has(args.mst, "instances") /\ IsAList(args.mst.instances)
          /\ \A i \in Items(args.mst, "instances") : Has(i, "id")
        BY DEF WellTyped
    <2>3. MstShown(MstLines(args.mst))
        BY <2>1, <2>2, MstLinesShown
    <2>4. ValueShown("stp", "mst", MstLines(args.mst))
        BY <2>3 DEF ValueShown
    <2> QED
        BY <2>4 DEF Knobs
<1> HIDE DEF given, mst
<1> QED
    BY <1>1, <1>2, <1>3, OverlayShown

LEMMA ElectionLinesShown ==
    ASSUME NEW df
    PROVE  LinesShown("evpnEthernetSegment", ElectionLines(df))
<1> DEFINE F == "evpnEthernetSegment"
           given == Given(df, {"holdTime"})
           line == AlgorithmLine(df)
           chosen == IF Has(df, "algorithm") THEN [algorithm |-> line] ELSE Nothing
<1>1. ElectionLines(df) = Overlay(given, chosen)
    BY DEF ElectionLines
<1>2. {"holdTime", "algorithm"} \subseteq Knobs(F)
    BY DEF Knobs
<1>3. LinesShown(F, given)
    <2>1. \A knob \in DOMAIN given : knob = "holdTime"
        BY GivenDomain
    <2> HIDE DEF given
    <2> QED
        BY <1>2, <2>1, UntypedShown DEF LinesShown, Typed
<1>4. ASSUME Has(df, "algorithm")
      PROVE  AlgorithmShown(line)
    <2> DEFINE words == Given(df, {"algorithm", "preference"})
               behind == IF Has(df, "preference") THEN OnOnly(df, {"dontPreempt"}) ELSE Nothing
    <2>1. line = Overlay(words, behind)
        BY DEF AlgorithmLine
    <2>2. /\ DOMAIN words \subseteq {"algorithm", "preference"}
          /\ "algorithm" \in DOMAIN words
          /\ Has(df, "preference") => "preference" \in DOMAIN words
        BY <1>4 DEF Given, Has
    <2>3. /\ DOMAIN behind \subseteq {"dontPreempt"}
          /\ DOMAIN behind # {} => Has(df, "preference") /\ behind["dontPreempt"] = TRUE
        BY DEF OnOnly, Nothing
    <2> HIDE DEF words, behind
    <2>4. IsAFunction(line)
        BY <2>1 DEF Overlay, IsAFunction
    <2>5. /\ DOMAIN line = DOMAIN words \cup DOMAIN behind
          /\ \A f \in DOMAIN behind : line[f] = behind[f]
        BY <2>1 DEF Overlay
    <2> HIDE DEF line
    <2> QED
        BY <2>2, <2>3, <2>4, <2>5 DEF AlgorithmShown, Has
<1>5. LinesShown(F, chosen)
    <2>1. ASSUME Has(df, "algorithm")
          PROVE  ValueShown(F, "algorithm", line)
        BY <1>4, <2>1 DEF ValueShown
    <2> HIDE DEF line
    <2> QED
        BY <1>2, <2>1, NothingShown DEF LinesShown
<1> HIDE DEF given, chosen, F
<1> QED
    BY <1>1, <1>3, <1>5, OverlayShown DEF F

LEMMA EvpnLinesShown ==
    ASSUME NEW args, WellTyped("evpnEthernetSegment", args)
    PROVE  LinesShown("evpnEthernetSegment", EvpnEthernetSegmentLines(args))
<1> DEFINE F == "evpnEthernetSegment"
           header == [header |-> "on"]
           given == Given(args, {"identifier", "redundancy", "routeTargetImport"})
           election == ElectionLines(Or(args, "designatedForwarder", Nothing))
<1>1. EvpnEthernetSegmentLines(args) = Overlay(Overlay(header, given), election)
    BY DEF EvpnEthernetSegmentLines
<1>2. LinesShown(F, header)
    BY JustHeaderShown DEF Features, Headed
<1>3. LinesShown(F, given)
    BY GivenShown DEF Typed, Knobs, WellTyped
<1>4. LinesShown(F, election)
    BY ElectionLinesShown
<1> HIDE DEF F, header, given, election
<1> QED
    BY <1>1, <1>2, <1>3, <1>4, OverlayShown DEF F

LEMMA VrfLinesShown ==
    ASSUME NEW args, WellTyped("vrf", args)
    PROVE  LinesShown("vrf", VrfLines(args))
<1> DEFINE lines == VrfLines(args)
<1>1. /\ DOMAIN lines = {"header", "description", "ipRouting", "ipv6Routing"}
      /\ lines.header = "on"
      /\ lines.ipRouting = Or(args, "ipRouting", TRUE)
      /\ lines.ipv6Routing = On(args, "ipv6Routing")
    BY DEF VrfLines
<1>2. /\ Has(args, "ipRouting") => args.ipRouting \in BOOLEAN
      /\ Has(args, "ipv6Routing") => args.ipv6Routing \in BOOLEAN
    BY DEF WellTyped
<1>3. lines.ipRouting \in BOOLEAN
    BY <1>1, <1>2 DEF Or
<1>4. lines.ipv6Routing \in BOOLEAN
    BY <1>1, <1>2 DEF On
<1>5. DOMAIN lines \subseteq Knobs("vrf")
    BY <1>1 DEF Knobs
<1> HIDE DEF lines
<1>6. ASSUME NEW knob \in DOMAIN lines
      PROVE  ValueShown("vrf", knob, lines[knob])
    BY <1>1, <1>3, <1>4, <1>6 DEF ValueShown
<1> QED
    BY <1>5, <1>6 DEF LinesShown, lines

LEMMA BfdLinesShown ==
    ASSUME NEW args, WellTyped("bfd", args), BfdValid(args)
    PROVE  LinesShown("bfd", BfdLines(args))
<1> DEFINE header == [header |-> "on"]
           given == Given(args, {"slowTimer", "shutdown"})
           timers == Given(args, BfdTimers)
           chosen == IF Has(args, "interval") THEN [timers |-> timers] ELSE Nothing
<1>1. BfdLines(args) = Overlay(Overlay(header, given), chosen)
    BY DEF BfdLines
<1>2. LinesShown("bfd", header)
    BY JustHeaderShown DEF Features, Headed
<1>3. LinesShown("bfd", given)
    BY GivenShown DEF Typed, Knobs, WellTyped
<1>4. ASSUME Has(args, "interval")
      PROVE  ValueShown("bfd", "timers", timers)
    <2>1. BfdTimers \cap DOMAIN args = BfdTimers
        BY <1>4 DEF BfdValid, BfdTimers, Has
    <2>2. IsAFunction(timers) /\ DOMAIN timers = BfdTimers
        BY <2>1 DEF Given, IsAFunction
    <2> HIDE DEF timers
    <2> QED
        BY <2>2 DEF ValueShown
<1>5. LinesShown("bfd", chosen)
    <2>1. "timers" \in Knobs("bfd")
        BY DEF Knobs
    <2> HIDE DEF timers
    <2> QED
        BY <1>4, <2>1, NothingShown DEF LinesShown
<1> HIDE DEF header, given, chosen
<1> QED
    BY <1>1, <1>2, <1>3, <1>5, OverlayShown

LEMMA RpkiLinesShown ==
    ASSUME NEW args, WellTyped("rpki", args)
    PROVE  LinesShown("rpki", RpkiLines(args))
<1> DEFINE given == Given(args, RpkiFields)
           rest == [header |-> "on", host |-> Given(args, {"cacheHost", "vrf", "port"}),
                    transport |-> Or(args, "transport", "tcp")]
<1>1. RpkiLines(args) = Overlay(given, rest)
    BY DEF RpkiLines
<1>2. LinesShown("rpki", given)
    BY GivenShown DEF Typed, Knobs, WellTyped, RpkiFields
<1>3. LinesShown("rpki", rest)
    <2>1. DOMAIN rest = {"header", "host", "transport"} /\ rest.header = "on"
        OBVIOUS
    <2>2. {"header", "host", "transport"} \subseteq Knobs("rpki")
        BY DEF Knobs
    <2>3. "host" \notin Typed /\ "transport" \notin Typed
        BY DEF Typed
    <2> HIDE DEF rest
    <2> QED
        BY <2>1, <2>2, <2>3, UntypedShown, HeaderShown DEF LinesShown
<1> HIDE DEF given, rest
<1> QED
    BY <1>1, <1>2, <1>3, OverlayShown

LEMMA RcfLinesShown ==
    ASSUME NEW args
    PROVE  LinesShown("rcf", RcfLines(args))
<1> DEFINE lines == RcfLines(args)
<1>1. \/ lines = Nothing
      \/ \E t \in {"code", "sourceFile"}, x \in {args.code, args.sourceFile, args.sourceUrl} :
            lines = [unit |-> <<t, x>>]
    BY DEF RcfLines
<1>2. ASSUME NEW t \in {"code", "sourceFile"}, NEW x
      PROVE  LinesShown("rcf", [unit |-> <<t, x>>])
    <2>1. ValueShown("rcf", "unit", <<t, x>>)
        BY DEF ValueShown
    <2>2. "unit" \in Knobs("rcf")
        BY DEF Knobs
    <2> QED
        BY <2>1, <2>2 DEF LinesShown
<1> HIDE DEF lines
<1> QED
    BY <1>1, <1>2, NothingShown DEF lines

LEMMA EcmpLinesShown ==
    ASSUME NEW args
    PROVE  LinesShown("resilientEcmp", ResilientEcmpLines(args))
<1> DEFINE lines == ResilientEcmpLines(args)
<1>1. DOMAIN lines = {"line"}
    BY DEF ResilientEcmpLines
<1>2. "line" \in Knobs("resilientEcmp") /\ "line" \notin Typed
    BY DEF Knobs, Typed
<1> HIDE DEF lines
<1> QED
    BY <1>1, <1>2, UntypedShown DEF LinesShown, lines

\* a list field, or the empty list where it is nil
LEMMA ListField ==
    ASSUME NEW args, NEW f, Has(args, f) => IsAList(args[f])
    PROVE  LET s == Or(args, f, <<>>)
           IN  /\ IsAList(s) /\ DOMAIN s = 1 .. Len(s) /\ Len(s) \in Nat
               /\ \A i \in DOMAIN s : s[i] \in Items(args, f)
               /\ \A e \in Items(args, f) : \E i \in DOMAIN s : e = s[i]
<1> DEFINE s == Or(args, f, <<>>)
<1>1. IsAList(<<>>) /\ DOMAIN <<>> = {}
    BY DEF IsAList
<1>2. CASE Has(args, f)
    <2>1. s = args[f]
        BY <1>2 DEF Or
    <2>2. Items(args, f) = {args[f][i] : i \in DOMAIN args[f]}
        BY <1>2 DEF Items
    <2> HIDE DEF s
    <2>3. IsAList(s) /\ DOMAIN s = 1 .. Len(s) /\ Len(s) \in Nat
        BY <1>2, <2>1, ListOfMembers
    <2> QED
        BY <2>1, <2>2, <2>3 DEF s
<1>3. CASE ~Has(args, f)
    <2>1. s = <<>>
        BY <1>3 DEF Or
    <2>2. Items(args, f) = {}
        BY <1>3 DEF Items
    <2> HIDE DEF s
    <2>3. IsAList(s) /\ DOMAIN s = 1 .. Len(s) /\ Len(s) \in Nat
        BY <1>1, <2>1, ListOfMembers
    <2> QED
        BY <1>1, <2>1, <2>2, <2>3 DEF s
<1> QED
    BY <1>2, <1>3

LEMMA VrrpAddresses ==
    ASSUME NEW args, WellTyped("vrrp", args)
    PROVE  LET addresses == AddressList(args)
           IN  /\ IsAList(addresses) /\ DOMAIN addresses = 1 .. Len(addresses)
               /\ Len(addresses) \in Nat
               /\ \A i \in IPv4Places(args) : addresses[i] \in {4} \X Int
               /\ \A i \in DOMAIN addresses \ IPv4Places(args) : addresses[i] \in {6} \X Int
<1> DEFINE addresses == AddressList(args)
<1>1. Has(args, "virtualAddresses") => IsAList(args["virtualAddresses"])
    BY DEF WellTyped
<1>2. Items(args, "virtualAddresses") \subseteq {4, 6} \X Int
    BY DEF WellTyped
<1>3. addresses = Or(args, "virtualAddresses", <<>>)
    BY DEF AddressList
<1>4. IPv4Places(args) = {i \in DOMAIN addresses : addresses[i][1] = 4}
    BY DEF IPv4Places
<1> HIDE DEF addresses
<1>5. /\ IsAList(addresses) /\ DOMAIN addresses = 1 .. Len(addresses) /\ Len(addresses) \in Nat
      /\ \A i \in DOMAIN addresses : addresses[i] \in Items(args, "virtualAddresses")
    BY <1>1, <1>3, ListField
<1>6. \A i \in DOMAIN addresses : addresses[i] \in {4, 6} \X Int
    BY <1>2, <1>5
<1>7. \A i \in IPv4Places(args) : addresses[i] \in {4} \X Int
    BY <1>4, <1>6
<1>8. \A i \in DOMAIN addresses \ IPv4Places(args) : addresses[i] \in {6} \X Int
    BY <1>4, <1>6
<1> QED
    BY <1>5, <1>7, <1>8 DEF addresses

LEMMA VrrpLinesShown ==
    ASSUME NEW args, WellTyped("vrrp", args)
    PROVE  LinesShown("vrrp", VrrpLines(args))
<1> DEFINE given == Given(args, VrrpFields)
           preempt == OnOnly(args, {"preempt"})
           primary == [k \in {j \in {"primary"} : PrimaryPlaces(args) # {}} |->
                        AddressList(args)[CHOOSE i \in PrimaryPlaces(args) : TRUE]]
<1>1. VrrpLines(args) = Overlay(Overlay(given, preempt), primary)
    BY DEF VrrpLines
<1>2. LinesShown("vrrp", given)
    BY GivenShown DEF Typed, Knobs, WellTyped, VrrpFields
<1>3. LinesShown("vrrp", preempt)
    <2>1. {"preempt"} \subseteq Knobs("vrrp") /\ "preempt" \notin Typed
        BY DEF Knobs, Typed
    <2>2. {"preempt"} \cap Typed = {}
        BY <2>1
    <2> QED
        BY <2>1, <2>2, OnOnlyShown
<1>4. LinesShown("vrrp", primary)
    <2>1. PrimaryPlaces(args) # {} => (CHOOSE i \in PrimaryPlaces(args) : TRUE) \in IPv4Places(args)
        BY DEF PrimaryPlaces
    <2>2. \A k \in DOMAIN primary : k = "primary" /\ primary[k] \in {4} \X Int
        BY <2>1, VrrpAddresses
    <2>3. "primary" \in Knobs("vrrp")
        BY DEF Knobs
    <2>4. \A v \in {4} \X Int : ValueShown("vrrp", "primary", v)
        BY DEF ValueShown
    <2> HIDE DEF primary
    <2> QED
        BY <2>2, <2>3, <2>4 DEF LinesShown
<1> HIDE DEF given, preempt, primary
<1> QED
    BY <1>1, <1>2, <1>3, <1>4, OverlayShown

-----------------------------------------------------------------------------
(***************************************************************************)
(* The blocks are well-formed.                                             *)
(***************************************************************************)
LEMMA OneLinesShown ==
    ASSUME NEW k \in OneObjectKinds \cap Features, NEW args, WellTyped(k, args), Valid(k, args)
    PROVE  LinesShown(k, Lines(k, args))
<1>1. CASE k \in {"interface", "portChannel", "vlanInterface", "loopback", "subinterface",
                  "greTunnel"}
    BY <1>1, InterfaceLinesShown
<1>2. CASE k = "vxlanInterface"
    BY <1>2, VxlanLinesShown DEF Lines
<1>3. CASE k = "stp"
    <2>1. StpValid(args)
        BY <1>3 DEF Valid, RawKinds
    <2> QED
        BY <1>3, <2>1, StpLinesShown DEF Lines
<1>4. CASE k = "evpnEthernetSegment"
    BY <1>4, EvpnLinesShown DEF Lines
<1>5. CASE k = "vrf"
    BY <1>5, VrfLinesShown DEF Lines
<1>6. CASE k = "bfd"
    <2>1. BfdValid(args)
        BY <1>6 DEF Valid, RawKinds
    <2> QED
        BY <1>6, <2>1, BfdLinesShown DEF Lines
<1>7. CASE k = "rpki"
    BY <1>7, RpkiLinesShown DEF Lines
<1>8. CASE k = "rcf"
    BY <1>8, RcfLinesShown DEF Lines
<1>9. CASE k = "resilientEcmp"
    BY <1>9, EcmpLinesShown DEF Lines
<1>10. CASE k = "vrrp"
    BY <1>10, VrrpLinesShown DEF Lines
<1>11. k # "routerBgp" /\ k # "routerOspf"
    BY DEF Features
<1> QED
    BY <1>1, <1>2, <1>3, <1>4, <1>5, <1>6, <1>7, <1>8, <1>9, <1>10, <1>11
    DEF OneObjectKinds, MergeKinds, RebuildKinds

LEMMA OneCoreGiven ==
    ASSUME NEW k \in OneObjectKinds, NEW args
    PROVE  Core(k) \subseteq DOMAIN Lines(k, args)
<1>1. CASE k \in Headed
    <2>1. Core(k) = {"header"}
        BY <1>1 DEF Core, Headed
    <2>2. CASE k \in {"portChannel", "vlanInterface", "loopback", "subinterface", "greTunnel"}
        BY <2>1, <2>2
        DEF Lines, PortChannelLines, VlanInterfaceLines, LoopbackLines, SubinterfaceLines,
            GreTunnelLines, Overlay
    <2>3. CASE k \in {"vxlanInterface", "evpnEthernetSegment", "vrf", "bfd", "rpki"}
        BY <2>1, <2>3
        DEF Lines, VxlanLines, EvpnEthernetSegmentLines, VrfLines, BfdLines, RpkiLines, Overlay
    <2>4. CASE k \in {"routerBgp", "routerOspf"}
        BY <2>1, <2>4 DEF Lines, RouterBgpLines, RouterOspfLines, Overlay
    <2> QED
        BY <1>1, <2>2, <2>3, <2>4 DEF Headed, OneObjectKinds, MergeKinds, RebuildKinds
<1>2. CASE k \notin Headed
    BY <1>2 DEF Core, OneObjectKinds, MergeKinds, RebuildKinds
<1> QED
    BY <1>1, <1>2

LEMMA RowsUnderShape ==
    ASSUME NEW object, NEW rows
    PROVE  \A p \in DOMAIN RowsUnder(object, rows) :
                \E r \in DOMAIN rows : p = <<object, r[1], r[2]>>
BY DEF RowsUnder

LEMMA VxlanRowsShape ==
    ASSUME NEW args, WellTyped("vxlanInterface", args), VxlanValid(args)
    PROVE  /\ IsFiniteSet(DOMAIN VxlanRows(args))
           /\ \A r \in DOMAIN VxlanRows(args) : r[1] \in VniTables /\ r[2] \in Int
<1> DEFINE vlans == Or(args, "vlanVniMap", <<>>)
           vrfs == Or(args, "vrfVniMap", <<>>)
           D == ({"vlanVniMap"} \X VlanIds(vlans)) \cup ({"vrfVniMap"} \X Vrfs(vrfs))
<1>1. DOMAIN VxlanRows(args) = D
    BY DEF VxlanRows
<1>2. IsAList(vlans) /\ IsAList(vrfs)
    <2>1. IsAList(<<>>)
        BY DEF IsAList
    <2>2. \A f \in VxlanLists : Has(args, f) => IsAList(args[f])
        <3> HIDE DEF vlans, vrfs
        <3> QED
            BY DEF WellTyped
    <2>3. {"vlanVniMap", "vrfVniMap"} \subseteq VxlanLists
        BY DEF VxlanLists
    <2>4. \A f \in VxlanLists : IsAList(Or(args, f, <<>>))
        BY <2>1, <2>2 DEF Or
    <2> HIDE DEF vlans, vrfs
    <2>5. IsAList(vlans)
        BY <2>3, <2>4 DEF vlans
    <2>6. IsAList(vrfs)
        BY <2>3, <2>4 DEF vrfs
    <2> QED
        BY <2>5, <2>6
<1>3. VlanIds(vlans) \subseteq Int
    <2> DEFINE Ids == 1 .. 4094
    <2>1. \A i \in DOMAIN vlans : vlans[i].vlanId \in Ids
        <3> DEFINE bound(v) == v.vlanId \in Ids /\ v.vni \in 1 .. VniMax
        <3>1. \A i \in DOMAIN vlans : bound(vlans[i])
            BY Zenon DEF VxlanValid
        <3> HIDE DEF Ids
        <3>2. \A v : bound(v) => v.vlanId \in Ids
            OBVIOUS
        <3> HIDE DEF bound, vlans
        <3> QED
            BY <3>1, <3>2
    <2>2. Ids \subseteq Int
        OBVIOUS
    <2> HIDE DEF Ids, vlans
    <2> QED
        BY <2>1, <2>2 DEF VlanIds
<1>4. Vrfs(vrfs) \subseteq Int
    <2>1. \A row \in Items(args, "vrfVniMap") : row.vrf \in Int
        BY DEF WellTyped
    <2>2. \A i \in DOMAIN vrfs : vrfs[i] \in Items(args, "vrfVniMap")
        BY DEF Or, Items
    <2> HIDE DEF vrfs
    <2> QED
        BY <2>1, <2>2 DEF Vrfs
<1> HIDE DEF vlans, vrfs
<1>5. IsFiniteSet(D)
    <2>1. IsFiniteSet(1 .. Len(vlans)) /\ IsFiniteSet(1 .. Len(vrfs))
        BY <1>2, ListOfMembers, FS_Interval
    <2>2. DOMAIN vlans = 1 .. Len(vlans) /\ DOMAIN vrfs = 1 .. Len(vrfs)
        BY <1>2, ListOfMembers
    <2> DEFINE V == {"vlanVniMap"} \X VlanIds(vlans)
               W == {"vrfVniMap"} \X Vrfs(vrfs)
               v == [i \in 1 .. Len(vlans) |-> <<"vlanVniMap", vlans[i].vlanId>>]
               w == [i \in 1 .. Len(vrfs) |-> <<"vrfVniMap", vrfs[i].vrf>>]
    <2>3. \A t \in V : \E i \in 1 .. Len(vlans) : t = v[i]
        BY <2>2 DEF VlanIds
    <2>4. \A t \in W : \E i \in 1 .. Len(vrfs) : t = w[i]
        BY <2>2 DEF Vrfs
    <2>5. DOMAIN v = 1 .. Len(vlans) /\ DOMAIN w = 1 .. Len(vrfs)
        OBVIOUS
    <2>6. D = V \cup W
        OBVIOUS
    <2> HIDE DEF V, W, v, w, D
    <2>7. IsFiniteSet(V)
        BY <2>1, <2>3, <2>5, FiniteImage
    <2>8. IsFiniteSet(W)
        BY <2>1, <2>4, <2>5, FiniteImage
    <2> QED
        BY <2>6, <2>7, <2>8, FS_Union
<1> QED
    BY <1>1, <1>3, <1>4, <1>5 DEF VniTables

LEMMA VrrpRowsShape ==
    ASSUME NEW args, WellTyped("vrrp", args)
    PROVE  /\ IsFiniteSet(DOMAIN VrrpRows(args))
           /\ \A r \in DOMAIN VrrpRows(args) : r[1] \in VrrpTables /\ r[2] \in RowKeys(r[1])
<1> DEFINE addresses == AddressList(args)
           tracks == Or(args, "tracks", <<>>)
           secondary == [i \in IPv4Places(args) \ PrimaryPlaces(args) |-> <<"secondary", addresses[i]>>]
           v6 == [i \in DOMAIN addresses \ IPv4Places(args) |-> <<"ipv6", addresses[i]>>]
           track == [i \in DOMAIN tracks |-> <<"track", tracks[i].interface>>]
           S == {<<"secondary", addresses[i]>> : i \in IPv4Places(args) \ PrimaryPlaces(args)}
           V == {<<"ipv6", addresses[i]>> : i \in DOMAIN addresses \ IPv4Places(args)}
           T == {<<"track", t.interface>> : t \in Items(args, "tracks")}
<1>1. DOMAIN VrrpRows(args) = S \cup V \cup T
    BY DEF VrrpRows
<1>2. /\ IsFiniteSet(DOMAIN addresses)
      /\ \A i \in IPv4Places(args) : addresses[i] \in {4} \X Int
      /\ \A i \in DOMAIN addresses \ IPv4Places(args) : addresses[i] \in {6} \X Int
    BY VrrpAddresses, FS_Interval
<1>3. IPv4Places(args) \subseteq DOMAIN addresses
    BY DEF IPv4Places
<1>4. /\ IsFiniteSet(DOMAIN tracks)
      /\ \A t \in Items(args, "tracks") : t.interface \in Int /\ \E i \in DOMAIN tracks : t = tracks[i]
    <2>1. Has(args, "tracks") => IsAList(args["tracks"])
        BY DEF WellTyped
    <2>2. \A t \in Items(args, "tracks") : t.interface \in Int
        BY DEF WellTyped
    <2> HIDE DEF tracks
    <2>3. /\ DOMAIN tracks = 1 .. Len(tracks) /\ Len(tracks) \in Nat
          /\ \A t \in Items(args, "tracks") : \E i \in DOMAIN tracks : t = tracks[i]
        BY <2>1, ListField DEF tracks
    <2>4. IsFiniteSet(DOMAIN tracks)
        BY <2>3, FS_Interval
    <2> QED
        BY <2>2, <2>3, <2>4
<1>5. \A r \in DOMAIN VrrpRows(args) : r[1] \in VrrpTables /\ r[2] \in RowKeys(r[1])
    <2>1. \A r \in S : r[1] = "secondary" /\ r[2] \in {4} \X Int
        BY <1>2
    <2>2. \A r \in V : r[1] = "ipv6" /\ r[2] \in {6} \X Int
        BY <1>2
    <2>3. \A r \in T : r[1] = "track" /\ r[2] \in Int
        BY <1>4
    <2> HIDE DEF S, V, T
    <2> QED
        BY <1>1, <2>1, <2>2, <2>3 DEF VrrpTables, RowKeys
<1>6. IsFiniteSet(S)
    <2>1. IsFiniteSet(DOMAIN secondary)
        BY <1>2, <1>3, FS_Subset
    <2>2. \A r \in S : \E i \in DOMAIN secondary : r = secondary[i]
        OBVIOUS
    <2> HIDE DEF secondary, S
    <2> QED
        BY <2>1, <2>2, FiniteImage
<1>7. IsFiniteSet(V)
    <2>1. IsFiniteSet(DOMAIN v6)
        BY <1>2, FS_Subset
    <2>2. \A r \in V : \E i \in DOMAIN v6 : r = v6[i]
        OBVIOUS
    <2> HIDE DEF v6, V
    <2> QED
        BY <2>1, <2>2, FiniteImage
<1>8. IsFiniteSet(T)
    <2>1. IsFiniteSet(DOMAIN track)
        BY <1>4
    <2>2. \A r \in T : \E i \in DOMAIN track : r = track[i]
        BY <1>4
    <2> HIDE DEF track, T
    <2> QED
        BY <2>1, <2>2, FiniteImage
<1> HIDE DEF S, V, T
<1>9. IsFiniteSet(S \cup V \cup T)
    <2>1. IsFiniteSet(S \cup V)
        BY <1>6, <1>7, FS_Union
    <2> QED
        BY <1>8, <2>1, FS_Union
<1> QED
    BY <1>1, <1>5, <1>9

\* the rows under an object
LEMMA OneRowsShown ==
    ASSUME NEW k \in OneObjectKinds, NEW args, WellTyped(k, args), Valid(k, args)
    PROVE  LET rows == RowsUnder(Object(k, args), Rows(k, args))
           IN  /\ AllShown(rows)
               /\ FewRows(rows)
               /\ \A p \in DOMAIN rows : p[1] = Object(k, args)
<1> DEFINE object == Object(k, args)
           rows == RowsUnder(object, Rows(k, args))
<1>1. object[1] = k
    BY DEF Object
<1>2. \A p \in DOMAIN rows : \E r \in DOMAIN Rows(k, args) : p = <<object, r[1], r[2]>>
    BY RowsUnderShape
<1>3. CASE k \in {"vxlanInterface", "vrrp"}
    <2> DEFINE D == DOMAIN Rows(k, args)
               f == [r \in D |-> <<object, r[1], r[2]>>]
    <2>1. IsFiniteSet(D) /\ \A r \in D :
            r[2] \in RowKeys(r[1]) /\ (IF k = "vrrp" THEN r[1] \in VrrpTables ELSE r[1] \in VniTables)
        <3>1. CASE k = "vxlanInterface"
            <4>1. VxlanValid(args)
                BY <3>1 DEF Valid, RawKinds
            <4>2. Rows(k, args) = VxlanRows(args)
                BY <3>1 DEF Rows
            <4>3. \A table \in VniTables : RowKeys(table) = Int
                BY DEF VniTables, RowKeys
            <4> QED
                BY <3>1, <4>1, <4>2, <4>3, VxlanRowsShape
        <3>2. CASE k = "vrrp"
            <4>1. Rows(k, args) = VrrpRows(args)
                BY <3>2 DEF Rows
            <4> QED
                BY <3>2, <4>1, VrrpRowsShape
        <3> QED
            BY <1>3, <3>1, <3>2
    <2>2. \A p \in DOMAIN rows : IsRow(p) /\ p = <<p[1], p[2], p[3]>> /\ p[3] \in RowKeys(p[2])
        <3> HIDE DEF rows, object
        <3> SUFFICES ASSUME NEW p \in DOMAIN rows
                     PROVE  IsRow(p) /\ p = <<p[1], p[2], p[3]>> /\ p[3] \in RowKeys(p[2])
            OBVIOUS
        <3>1. PICK r \in D : p = <<object, r[1], r[2]>>
            BY <1>2
        <3>2. p[1] = object /\ p[2] = r[1] /\ p[3] = r[2]
            BY <3>1
        <3>3. IsRow(p)
            BY <1>1, <1>3, <2>1, <3>2 DEF IsRow
        <3> QED
            BY <2>1, <3>1, <3>2, <3>3
    <2>3. \A p \in DOMAIN rows : p[1] = object /\ \E r \in D : p = f[r]
        BY <1>2
    <2> DEFINE T == {p \in DOMAIN rows : IsRow(p)}
    <2>4. (\A p \in T : \E r \in D : p = f[r]) /\ DOMAIN f = D
        BY <2>3
    <2> HIDE DEF rows, f, D, object, T
    <2>5. IsFiniteSet(T)
        BY <2>1, <2>4, FiniteImage
    <2>6. FewRows(rows)
        BY <2>5 DEF FewRows, T
    <2>7. AllShown(rows)
        BY <1>1, <1>3, <2>2, <2>3 DEF AllShown, LineShown
    <2> QED
        BY <2>3, <2>6, <2>7 DEF rows, object
<1>4. CASE k \notin {"vxlanInterface", "vrrp"}
    <2>1. \A p \in DOMAIN rows : p[1] = object /\ ~IsRow(p)
        BY <1>1, <1>2, <1>4 DEF IsRow
    <2>2. FewRows(rows)
        <3> HIDE DEF rows
        <3> QED
            BY <2>1, NoRows
    <2>3. CASE k \notin Features
        <3> HIDE DEF object, rows
        <3>1. AllShown(rows)
            BY <1>1, <2>1, <2>3 DEF AllShown, LineShown
        <3> QED
            BY <2>1, <2>2, <3>1 DEF object, rows
    <2>4. CASE k \in Features
        <3>1. k \notin {"vxlanInterface", "vrrp", "routerBgp", "routerOspf"}
            BY <1>4, <2>4 DEF Features
        <3>2. DOMAIN Rows(k, args) = {}
            BY <3>1 DEF Rows, Nothing
        <3>3. DOMAIN rows = {}
            BY <1>2, <3>2
        <3> HIDE DEF object, rows
        <3>4. AllShown(rows)
            BY <3>3 DEF AllShown
        <3> QED
            BY <2>1, <2>2, <3>4 DEF object, rows
    <2> QED
        BY <2>3, <2>4
<1> QED
    BY <1>3, <1>4

LEMMA OneBlockWellFormed ==
    ASSUME NEW k \in OneObjectKinds, NEW args, WellTyped(k, args), Valid(k, args)
    PROVE  WellFormed(OneBlock(k, args))
<1> DEFINE object == Object(k, args)
           H == Headers(Entered(k, args))
           U == Under(object, Lines(k, args))
           R == RowsUnder(object, Rows(k, args))
           set == Overlay(Overlay(H, U), R)
<1>1. object[1] = k /\ k # "route"
    BY DEF Object, OneObjectKinds, MergeKinds, RebuildKinds
<1>2. OneBlock(k, args) \in {Sets(set), Rebuilds({object}, set)}
    BY DEF OneBlock
<1>3. \A entered \in Entered(k, args) : entered[1] \in Parents
    BY DEF WellTyped
<1>4. AllShown(H) /\ Complete(H) /\ \A p \in DOMAIN H : ~IsRow(p)
    BY <1>3, HeadersShown
<1>5. /\ AllShown(U)
      /\ \A p \in DOMAIN U : ~IsRow(p)
      /\ \A p \in DOMAIN U : p[1] = object
      /\ \A knob \in DOMAIN Lines(k, args) : <<object, knob>> \in DOMAIN U
    <2>1. object[1] \in Features => LinesShown(object[1], Lines(k, args))
        BY <1>1, OneLinesShown
    <2> HIDE DEF object
    <2> QED
        BY <1>1, <2>1, UnderShown
<1>6. AllShown(R) /\ FewRows(R) /\ \A p \in DOMAIN R : p[1] = object
    BY OneRowsShown
<1>7. \A knob \in Core(k) : <<object, knob>> \in DOMAIN U
    BY <1>5, OneCoreGiven
<1>8. DOMAIN set = DOMAIN H \cup DOMAIN U \cup DOMAIN R
    BY DEF Overlay
<1>9. AllShown(set)
    <2> HIDE DEF H, U, R
    <2> QED
        BY <1>4, <1>5, <1>6, OverlayAllShown
<1> HIDE DEF object, H, U, R, set
<1>10. Complete(set)
    <2> SUFFICES ASSUME NEW p \in DOMAIN set, NEW knob \in Core(p[1][1])
                 PROVE  <<p[1], knob>> \in DOMAIN set
        BY DEF Complete
    <2>1. CASE p \in DOMAIN H
        BY <1>4, <1>8, <2>1 DEF Complete
    <2>2. CASE p \notin DOMAIN H
        BY <1>1, <1>5, <1>6, <1>7, <1>8, <2>2
    <2> QED
        BY <2>1, <2>2
<1>11. FewRows(set)
    <2>1. {p \in DOMAIN set : IsRow(p)} = {p \in DOMAIN R : IsRow(p)}
        BY <1>4, <1>5, <1>8
    <2> QED
        BY <1>6, <2>1 DEF FewRows
<1> QED
    BY <1>2, <1>9, <1>10, <1>11, SetsWellFormed

\* one object and its lines
LEMMA UnderWellFormed ==
    ASSUME NEW object, object[1] # "route", NEW lines,
           object[1] \in Features => LinesShown(object[1], lines),
           Core(object[1]) \subseteq DOMAIN lines
    PROVE  WellFormed(Rebuilds({object}, Under(object, lines)))
<1> DEFINE set == Under(object, lines)
<1>1. /\ AllShown(set)
      /\ \A p \in DOMAIN set : ~IsRow(p)
      /\ \A p \in DOMAIN set : p[1] = object
      /\ \A knob \in DOMAIN lines : <<object, knob>> \in DOMAIN set
    BY UnderShown
<1> HIDE DEF set
<1>2. Complete(set) /\ FewRows(set)
    BY <1>1, NoRows DEF Complete
<1> QED
    BY <1>1, <1>2, SetsWellFormed DEF set

LEMMA NamedWellFormed ==
    ASSUME NEW args, NEW objects, \A object \in objects : object[1] = "vlan"
    PROVE  WellFormed(Sets(Named(args, objects)))
<1> DEFINE set == Named(args, objects)
<1>1. \A p \in DOMAIN set :
        /\ p = <<p[1], p[2]>> /\ p[1] \in objects /\ p[2] \in {"header", "name"}
        /\ p[2] = "header" => set[p] = "on"
    BY DEF Named
<1>2. \A object \in objects : <<object, "header">> \in DOMAIN set
    BY DEF Named
<1> HIDE DEF set
<1>3. \A p \in DOMAIN set : ~IsRow(p)
    BY <1>1 DEF IsRow
<1>4. AllShown(set)
    <2> SUFFICES ASSUME NEW p \in DOMAIN set
                 PROVE  LineShown(p, set[p])
        BY DEF AllShown
    <2>1. Knobs("vlan") = {"header", "name"}
        BY DEF Knobs
    <2>2. p[2] = "header" => ValueShown("vlan", p[2], set[p])
        BY <1>1, HeaderShown
    <2>3. p[2] = "name" => ValueShown("vlan", p[2], set[p])
        BY UntypedShown DEF Typed
    <2>4. p = <<p[1], p[2]>> /\ p[1][1] = "vlan" /\ p[2] \in Knobs("vlan")
        BY <1>1, <2>1
    <2>5. ValueShown("vlan", p[2], set[p])
        BY <1>1, <2>2, <2>3
    <2>6. ~IsRow(p)
        BY <1>3
    <2> QED
        BY <2>4, <2>5, <2>6 DEF LineShown
<1>5. Complete(set)
    <2>1. Core("vlan") = {"header"}
        BY DEF Core, Headed
    <2> QED
        BY <1>1, <1>2, <2>1 DEF Complete
<1> QED
    BY <1>3, <1>4, <1>5, NoRows, SetsWellFormed DEF set

LEMMA VarpWellFormed ==
    ASSUME NEW args, args.mac \in MacForm
    PROVE  WellFormed(VarpBlock(args))
<1> DEFINE set == [p \in {VarpMac} |-> Canonical(args.mac)]
<1>1. VarpBlock(args) = Rebuilds({VarpObject}, set)
    BY DEF VarpBlock
<1>2. \A p \in DOMAIN set :
        /\ p = <<p[1], p[2]>> /\ p[1] = VarpObject /\ p[2] = "mac"
        /\ set[p] = Canonical(args.mac)
    BY DEF VarpMac
<1>3. VarpObject[1] = "varp"
    BY DEF VarpObject
<1> HIDE DEF set
<1>4. \A p \in DOMAIN set : ~IsRow(p)
    BY <1>2, <1>3 DEF IsRow
<1>5. ValueShown("varp", "mac", Canonical(args.mac)) /\ "mac" \in Knobs("varp")
    BY DEF ValueShown, Knobs
<1>6. AllShown(set)
    <2> SUFFICES ASSUME NEW p \in DOMAIN set
                 PROVE  LineShown(p, set[p])
        BY DEF AllShown
    <2>1. p = <<p[1], p[2]>> /\ p[1][1] = "varp" /\ p[2] = "mac" /\ ~IsRow(p)
        BY <1>2, <1>3, <1>4
    <2>2. ValueShown("varp", p[2], set[p])
        BY <1>2, <1>5
    <2> QED
        BY <1>5, <2>1, <2>2 DEF LineShown
<1>7. Complete(set)
    <2>1. Core("varp") = {}
        BY DEF Core, Headed
    <2> QED
        BY <1>2, <1>3, <2>1 DEF Complete
<1> QED
    BY <1>1, <1>4, <1>6, <1>7, NoRows, SetsWellFormed

LEMMA MlagWellFormed ==
    ASSUME NEW args, WellTyped("mlag", args)
    PROVE  WellFormed(MlagBlock(args))
<1> DEFINE lines == MlagLines(args)
<1>1. MlagBlock(args) = Rebuilds({MlagObject}, Under(MlagObject, lines))
    BY DEF MlagBlock
<1>2. MlagObject[1] = "mlag"
    BY DEF MlagObject
<1>3. /\ "header" \in DOMAIN lines /\ lines["header"] = "on"
      /\ "shutdown" \in DOMAIN lines => Has(args, "shutdown") /\ lines["shutdown"] = args["shutdown"]
    BY DEF MlagLines, MlagRequired, Has
<1>4. DOMAIN lines \subseteq Knobs("mlag") /\ Knobs("mlag") \cap Typed = {"header", "shutdown"}
    <2>1. Knobs("mlag") =
            {"header", "heartbeat", "detectionDelay", "recovery", "shutdown", "primaryPriority",
             "reloadMlag", "reloadNonMlag"} \cup MlagRequired
        BY DEF Knobs
    <2>2. DOMAIN lines \subseteq
            {"header", "heartbeat", "detectionDelay", "recovery", "shutdown", "primaryPriority",
             "reloadMlag", "reloadNonMlag"} \cup MlagRequired
        BY DEF MlagLines
    <2> QED
        BY <2>1, <2>2 DEF MlagRequired, Typed
<1> HIDE DEF lines
<1>5. LinesShown("mlag", lines)
    <2> SUFFICES ASSUME NEW knob \in DOMAIN lines
                 PROVE  ValueShown("mlag", knob, lines[knob])
        BY <1>4 DEF LinesShown
    <2>1. CASE knob = "header"
        BY <1>3, <2>1, HeaderShown
    <2>2. CASE knob = "shutdown"
        BY <1>3, <2>2, FlagShown DEF WellTyped
    <2>3. CASE knob \notin Typed
        BY <2>3, UntypedShown
    <2> QED
        BY <1>4, <2>1, <2>2, <2>3
<1>6. Core("mlag") = {"header"}
    BY DEF Core, Headed
<1> QED
    BY <1>1, <1>2, <1>3, <1>5, <1>6, UnderWellFormed

LEMMA RouteWellFormed ==
    ASSUME NEW args, RouteValid(args)
    PROVE  WellFormed(RouteBlock(args))
<1> DEFINE D == RouteObjects(args) \X (RouteKnobs(args) \cup {"header"})
           set == [p \in D |-> IF p[2] = "header" THEN "on" ELSE args[p[2]]]
<1>1. RouteBlock(args) = Rebuilds(RouteObjects(args), set)
    BY DEF RouteBlock
<1>2. \A object \in RouteObjects(args) : object[1] = "route" /\ object[5] \in 1 .. DistanceMax
    <2> DEFINE Distances == 1 .. DistanceMax
               distance == Or(args, "distance", 1)
    <2>1. 1 \in Distances
        BY DistanceMaxAssumption
    <2>2. distance \in Distances
        BY <2>1 DEF RouteValid, Or
    <2> HIDE DEF Distances, distance
    <2>3. RouteOf(args, distance)[1] = "route" /\ RouteOf(args, distance)[5] = distance
        BY DEF RouteOf
    <2>4. RouteObjects(args) = {RouteOf(args, distance)}
        BY DEF RouteObjects, distance
    <2>5. \A object \in RouteObjects(args) : object[1] = "route" /\ object[5] \in Distances
        BY <2>2, <2>3, <2>4
    <2> QED
        BY <2>5 DEF Distances
<1>3. \A knob \in RouteKnobs(args) : knob \in RouteOptions /\ (knob = "tag" => args["tag"] # 0)
    BY DEF RouteKnobs, RouteOptions
<1>4. \A p \in DOMAIN set :
        /\ p = <<p[1], p[2]>> /\ p[1] \in RouteObjects(args)
        /\ p[2] \in RouteKnobs(args) \cup {"header"}
        /\ p[2] = "header" => set[p] = "on"
        /\ p[2] # "header" => set[p] = args[p[2]]
    OBVIOUS
<1>5. \A object \in RouteObjects(args) : <<object, "header">> \in DOMAIN set
    OBVIOUS
<1> HIDE DEF D, set
<1>6. \A p \in DOMAIN set : ~IsRow(p)
    BY <1>2, <1>4 DEF IsRow
<1>7. AllShown(set)
    <2> SUFFICES ASSUME NEW p \in DOMAIN set
                 PROVE  LineShown(p, set[p])
        BY DEF AllShown
    <2>1. Knobs("route") = {"header"} \cup RouteOptions
        BY DEF Knobs
    <2>2. p = <<p[1], p[2]>> /\ p[1][1] = "route" /\ p[2] \in Knobs("route") /\ ~IsRow(p)
        BY <1>2, <1>3, <1>4, <1>6, <2>1
    <2>3. p[1][5] \in 1 .. DistanceMax
        BY <1>2, <1>4
    <2>4. ValueShown("route", p[2], set[p])
        <3>1. CASE p[2] = "header"
            BY <1>4, <3>1, HeaderShown
        <3>2. CASE p[2] = "tag"
            BY <1>3, <1>4, <3>2 DEF ValueShown
        <3>3. CASE p[2] \in {"name", "metric", "track"}
            BY <3>3, UntypedShown DEF Typed
        <3> QED
            BY <2>1, <2>2, <3>1, <3>2, <3>3 DEF RouteOptions
    <2> QED
        BY <2>2, <2>3, <2>4 DEF LineShown
<1>8. Complete(set)
    <2>1. Core("route") = {"header"}
        BY DEF Core, Headed
    <2> QED
        BY <1>2, <1>4, <1>5, <2>1 DEF Complete
<1> QED
    BY <1>1, <1>6, <1>7, <1>8, NoRows, SetsWellFormed

LEMMA PbrWellFormed ==
    ASSUME NEW args
    PROVE  WellFormed(PbrBlock(args))
<1> DEFINE M == Under(PolicyMap(args), [header |-> "on", sequences |-> PbrSequenceLines(args)])
           A == [p \in {<<ServicePolicy(i), "policy">> : i \in Attached(args)} |-> args.name]
           set == Overlay(M, A)
<1>1. PbrBlock(args) = Rebuilds(PbrObjects(args), set)
    BY DEF PbrBlock
<1>2. \A p \in DOMAIN M : p[1] = PolicyMap(args)
    BY DEF Under
<1>3. <<PolicyMap(args), "header">> \in DOMAIN M
    BY DEF Under
<1>4. \A p \in DOMAIN A : p[1][1] = "servicePolicy"
    BY DEF ServicePolicy
<1>5. DOMAIN set = DOMAIN M \cup DOMAIN A
    BY OverlayDomain
<1>6. PolicyMap(args)[1] = "policyMap"
    BY DEF PolicyMap
<1> HIDE DEF M, A, set
<1>7. \A p \in DOMAIN set : p[1][1] \in {"policyMap", "servicePolicy"}
    BY <1>2, <1>4, <1>5, <1>6
<1>8. AllShown(set)
    BY <1>7 DEF AllShown, LineShown, Features
<1>9. FewRows(set)
    BY <1>7, NoRows DEF IsRow
<1>10. Complete(set)
    <2>1. Core("policyMap") = {"header"} /\ Core("servicePolicy") = {}
        BY DEF Core, Headed
    <2> QED
        BY <1>2, <1>3, <1>4, <1>5, <1>6, <2>1 DEF Complete
<1> QED
    BY <1>1, <1>8, <1>9, <1>10, SetsWellFormed

-----------------------------------------------------------------------------
(***************************************************************************)
(* The lists.                                                              *)
(***************************************************************************)
LEMMA AsPathEntriesShown ==
    ASSUME NEW args, WellTyped("asPathList", args)
    PROVE  ValueShown("asPathList", "entries", AsPathListLines(args).entries)
<1> DEFINE es == args.entries
           shown == [i \in DOMAIN es |-> [es[i] EXCEPT !.origin = IF @ = "" THEN "any" ELSE @]]
<1>1. AsPathListLines(args).entries = shown
    BY DEF AsPathListLines
<1>2. IsAFunction(shown)
    BY DEF IsAFunction
<1>3. \A i \in DOMAIN shown : OriginShown(shown[i])
    <2> SUFFICES ASSUME NEW i \in DOMAIN es
                 PROVE  OriginShown([es[i] EXCEPT !.origin = IF @ = "" THEN "any" ELSE @])
        OBVIOUS
    <2>1. Has(es[i], "origin")
        BY DEF WellTyped, Entries
    <2> DEFINE e == [es[i] EXCEPT !.origin = IF @ = "" THEN "any" ELSE @]
    <2>2. IsAFunction(e) /\ DOMAIN e = DOMAIN es[i]
        BY DEF IsAFunction
    <2>3. e.origin = IF es[i].origin = "" THEN "any" ELSE es[i].origin
        BY <2>1 DEF Has
    <2> HIDE DEF e
    <2>4. e.origin # ""
        <3>1. CASE es[i].origin = ""
            BY <2>3, <3>1
        <3>2. CASE es[i].origin # ""
            BY <2>3, <3>2
        <3> QED
            BY <3>1, <3>2
    <2>5. OriginShown(e)
        BY <2>1, <2>2, <2>4 DEF OriginShown, Has
    <2> QED
        BY <2>5 DEF e
<1> HIDE DEF shown
<1> QED
    BY <1>1, <1>2, <1>3 DEF ValueShown

\* the entries of a list with unique numbers, in their order
LEMMA BySeqShown ==
    ASSUME NEW args, IsAList(args.entries), args.entries # <<>>,
           \A e \in Entries(args) : Has(e, "seq") /\ e.seq \in Nat
    PROVE  /\ BySeq(args) # <<>>
           /\ InOrderOf(BySeq(args), "seq")
           /\ \A i \in DOMAIN BySeq(args) : BySeq(args)[i] \in Entries(args)
<1> DEFINE es == args.entries
           last == {i \in DOMAIN es : \A j \in DOMAIN es : es[i].seq = es[j].seq => j <= i}
           S == {es[i] : i \in last}
           n == Len(es)
<1>1. BySeq(args) = InOrder(S, [e \in S |-> e.seq])
    BY DEF BySeq
<1>2. S \subseteq Entries(args)
    BY DEF Entries
<1>3. IsFiniteSet(S)
    BY <1>2, MembersFinite, FS_Subset DEF Entries
<1>4. n \in Nat /\ DOMAIN es = 1 .. n
    BY ListOfMembers
<1>5. n \in DOMAIN es
    BY <1>4, ListNotEmpty
<1>6. n \in last
    BY <1>4, <1>5
<1>7. S # {}
    BY <1>6
<1>8. \A d, e \in S : d.seq = e.seq => d = e
    <2> SUFFICES ASSUME NEW i \in last, NEW j \in last, es[i].seq = es[j].seq
                 PROVE  es[i] = es[j]
        OBVIOUS
    <2>1. i <= j /\ j <= i
        OBVIOUS
    <2>2. i \in Int /\ j \in Int
        BY <1>4
    <2> QED
        BY <2>1, <2>2
<1>9. \A e \in S : "seq" \in DOMAIN e /\ e["seq"] \in Nat
    BY <1>2 DEF Has
<1> HIDE DEF S
<1>10. LET s == InOrder(S, [e \in S |-> e["seq"]])
       IN  s # <<>> /\ InOrderOf(s, "seq") /\ \A i \in DOMAIN s : s[i] \in S
    BY <1>3, <1>7, <1>8, <1>9, SortedByField
<1> QED
    BY <1>1, <1>2, <1>10

LEMMA SetClauses ==
    ASSUME NEW set, SetLines(set) # Nothing,
           \A f \in {"communityNone", "communityAdditive", "extcommunityRtAdditive"} :
                Has(set, f) => set[f] \in BOOLEAN
    PROVE  SetClausesShown(SetLines(set))
<1> DEFINE lines == SetLines(set)
<1>1. IsAFunction(lines)
    BY DEF SetLines, IsAFunction
<1>2. /\ ~Has(lines, "communityAdditive")
      /\ ~Has(lines, "extcommunityRtAdditive")
      /\ Has(lines, "communityNone") => On(set, "communityNone") /\ lines.communityNone = set.communityNone
      /\ Has(lines, "community") => ~On(set, "communityNone")
    BY DEF SetLines, Has
<1>3. /\ On(set, "communityAdditive") \in BOOLEAN
      /\ On(set, "extcommunityRtAdditive") \in BOOLEAN
    BY DEF On
<1>4. Has(lines, "communityNone") => lines.communityNone = TRUE
    BY <1>2 DEF On
<1>5. Has(lines, "community") =>
        lines["community"] = <<set["community"], On(set, "communityAdditive")>>
    BY DEF SetLines, Has
<1>6. Has(lines, "extcommunityRt") =>
        lines["extcommunityRt"] = <<set["extcommunityRt"], On(set, "extcommunityRtAdditive")>>
    BY DEF SetLines, Has
<1> HIDE DEF lines
<1>7. \A f \in {"community", "extcommunityRt"} : Has(lines, f) =>
        lines[f] = <<lines[f][1], lines[f][2]>> /\ lines[f][2] \in BOOLEAN
    <2>1. \A v, b : <<v, b>>[1] = v /\ <<v, b>>[2] = b
        OBVIOUS
    <2> QED
        BY <1>3, <1>5, <1>6, <2>1
<1>8. lines # Nothing
    BY DEF lines
<1> QED
    BY <1>1, <1>2, <1>4, <1>7, <1>8 DEF SetClausesShown, lines

LEMMA MapEntryLinesShown ==
    ASSUME NEW e,
           Has(e, "set") =>
            \A f \in {"communityNone", "communityAdditive", "extcommunityRtAdditive"} :
                Has(e.set, f) => e.set[f] \in BOOLEAN
    PROVE  MapEntryShown(MapEntryLines(e))
<1> DEFINE lines == MapEntryLines(e)
<1>1. IsAFunction(lines)
    BY DEF MapEntryLines, IsAFunction
<1>2. Has(lines, "match") => lines.match # Nothing
    BY DEF MapEntryLines, Has
<1>3. Has(lines, "set") => Has(e, "set") /\ SetLines(e.set) # Nothing /\ lines.set = SetLines(e.set)
    BY DEF MapEntryLines, Has
<1> HIDE DEF lines
<1> QED
    BY <1>1, <1>2, <1>3, SetClauses DEF MapEntryShown, lines

LEMMA RouteMapEntriesShown ==
    ASSUME NEW args, WellTyped("routeMap", args), RouteMapValid(args)
    PROVE  ValueShown("routeMap", "entries", RouteMapLines(args).entries)
<1> DEFINE es == BySeq(args)
           value == [i \in DOMAIN es |-> MapEntryLines(es[i])]
<1>1. RouteMapLines(args).entries = value
    BY DEF RouteMapLines
<1>2. /\ IsAList(args.entries)
      /\ args.entries # <<>>
      /\ \A e \in Entries(args) : Has(e, "seq") /\ e.seq \in Nat
    <2>1. IsAList(args.entries) /\ \A e \in Entries(args) : Has(e, "seq")
        BY DEF WellTyped, ListKinds
    <2>2. \A e \in Entries(args) : e.seq \in 0 .. SeqMax
        BY DEF RouteMapValid, MapEntryValid
    <2>3. 0 .. SeqMax \subseteq Nat
        BY ListAssumption
    <2> QED
        BY <2>1, <2>2, <2>3 DEF RouteMapValid
<1>3. es # <<>> /\ InOrderOf(es, "seq") /\ \A i \in DOMAIN es : es[i] \in Entries(args)
    BY <1>2, BySeqShown
<1> HIDE DEF es
<1>4. \A i \in DOMAIN es : MapEntryShown(value[i])
    <2> SUFFICES ASSUME NEW i \in DOMAIN es
                 PROVE  MapEntryShown(MapEntryLines(es[i]))
        OBVIOUS
    <2> QED
        BY <1>3, MapEntryLinesShown DEF WellTyped
<1>5. \A i \in DOMAIN es :
        "seq" \in DOMAIN MapEntryLines(es[i]) /\ MapEntryLines(es[i])["seq"] = es[i]["seq"]
    <2> SUFFICES ASSUME NEW i \in DOMAIN es
                 PROVE  "seq" \in DOMAIN MapEntryLines(es[i])
                            /\ MapEntryLines(es[i])["seq"] = es[i]["seq"]
        OBVIOUS
    <2>1. "seq" \in DOMAIN es[i]
        BY <1>3 DEF InOrderOf
    <2> QED
        BY <2>1 DEF MapEntryLines
<1>6. value # <<>> /\ IsAList(value) /\ DOMAIN value = DOMAIN es
    <2>1. DOMAIN es = 1 .. Len(es) /\ Len(es) \in Nat
        BY <1>3, ListOfMembers DEF InOrderOf
    <2>2. 1 \in DOMAIN es
        BY <1>3, ListNotEmpty DEF InOrderOf
    <2>3. value # <<>>
        BY <2>2
    <2>4. \A i \in 1 .. Len(es) : value[i] \in {value[j] : j \in DOMAIN value}
        BY <2>1
    <2>5. DOMAIN value = 1 .. Len(es)
        BY <2>1
    <2>6. IsAFunction(value)
        BY DEF IsAFunction
    <2> HIDE DEF value
    <2>7. value \in Seq({value[j] : j \in DOMAIN value})
        BY <2>1, <2>4, <2>5, <2>6 DEF IsAFunction
    <2> QED
        BY <2>1, <2>3, <2>5, <2>7 DEF IsAList, ToSet
<1>7. InOrderOf(value, "seq")
    BY <1>3, <1>5, <1>6 DEF InOrderOf
<1> HIDE DEF value
<1> QED
    BY <1>1, <1>4, <1>6, <1>7 DEF ValueShown

LEMMA ListWellFormed ==
    ASSUME NEW k \in ListKinds, NEW args, WellTyped(k, args), Valid(k, args)
    PROVE  WellFormed(ListBlock(k, args))
<1> DEFINE object == ListObject(k, args)
           lines == ListLines(k, args)
<1>1. object[1] = k /\ object[1] # "route"
    BY DEF ListObject, ListKinds
<1>2. ListBlock(k, args) = Rebuilds({object}, Under(object, lines))
    BY DEF ListBlock
<1>3. LinesShown(k, lines) /\ Core(k) \subseteq DOMAIN lines
    <2>1. CASE k = "prefixList"
        <3>1. lines = PrefixListLines(args)
            BY <2>1 DEF ListLines
        <3>2. DOMAIN lines \subseteq {"remark", "entries"}
            BY <3>1 DEF PrefixListLines
        <3>3. Knobs(k) = {"remark", "entries"} /\ Core(k) = {}
            BY <2>1 DEF Knobs, Core, Headed
        <3> HIDE DEF lines
        <3> QED
            BY <2>1, <3>2, <3>3, UntypedShown DEF LinesShown, Typed
    <2>2. CASE k = "communityList"
        <3>1. lines = CommunityListLines(args)
            BY <2>2 DEF ListLines
        <3>2. DOMAIN lines = {"type", "entries"}
            BY <3>1 DEF CommunityListLines
        <3>3. Knobs(k) = {"type", "entries"} /\ Core(k) = {"type", "entries"}
            BY <2>2 DEF Knobs, Core, Headed
        <3> HIDE DEF lines
        <3> QED
            BY <2>2, <3>2, <3>3, UntypedShown DEF LinesShown, Typed
    <2>3. CASE k = "extCommunityList"
        <3>1. lines = ExtCommunityListLines(args)
            BY <2>3 DEF ListLines
        <3>2. DOMAIN lines = {"listType", "entries"}
            BY <3>1 DEF ExtCommunityListLines
        <3>3. Knobs(k) = {"listType", "entries"} /\ Core(k) = {"listType", "entries"}
            BY <2>3 DEF Knobs, Core, Headed
        <3> HIDE DEF lines
        <3> QED
            BY <2>3, <3>2, <3>3, UntypedShown DEF LinesShown, Typed
    <2>4. CASE k = "asPathList"
        <3>1. lines = AsPathListLines(args)
            BY <2>4 DEF ListLines
        <3>2. DOMAIN lines = {"entries"}
            BY <3>1 DEF AsPathListLines
        <3>3. Knobs(k) = {"entries"} /\ Core(k) = {}
            BY <2>4 DEF Knobs, Core, Headed
        <3>4. ValueShown(k, "entries", lines["entries"])
            BY <2>4, <3>1, AsPathEntriesShown
        <3> HIDE DEF lines
        <3> QED
            BY <3>2, <3>3, <3>4 DEF LinesShown
    <2>5. CASE k = "routeMap"
        <3>1. lines = RouteMapLines(args)
            BY <2>5 DEF ListLines
        <3>2. DOMAIN lines = {"entries"}
            BY <3>1 DEF RouteMapLines
        <3>3. Knobs(k) = {"entries"} /\ Core(k) = {}
            BY <2>5 DEF Knobs, Core, Headed
        <3>4. RouteMapValid(args)
            BY <2>5 DEF Valid, RawKinds
        <3>5. ValueShown(k, "entries", lines["entries"])
            BY <2>5, <3>1, <3>4, RouteMapEntriesShown
        <3> HIDE DEF lines
        <3> QED
            BY <3>2, <3>3, <3>5 DEF LinesShown
    <2> QED
        BY <2>1, <2>2, <2>3, <2>4, <2>5 DEF ListKinds
<1> HIDE DEF object, lines
<1> QED
    BY <1>1, <1>2, <1>3, UnderWellFormed

-----------------------------------------------------------------------------
\* What a resource stages are lines that EOS knows.
LEMMA BlockWellFormed ==
    ASSUME NEW k \in AllKinds, NEW args, WellTyped(k, args), Valid(k, args)
    PROVE  WellFormed(Block(k, args))
<1>1. CASE k = "vlan"
    <2>1. Block(k, args) = Sets(Named(args, VlanObjects(args)))
        BY <1>1, ByKind DEF VlanBlock
    <2>2. \A object \in VlanObjects(args) : object[1] = "vlan"
        BY DEF VlanObjects, VlanObject
    <2> QED
        BY <2>1, <2>2, NamedWellFormed
<1>2. CASE k = "vlanRange"
    <2>1. Block(k, args) = Sets(Named(args, RangeObjects(args)))
        BY <1>2, ByKind DEF RangeBlock
    <2>2. \A object \in RangeObjects(args) : object[1] = "vlan"
        BY DEF RangeObjects, VlanObject
    <2> QED
        BY <2>1, <2>2, NamedWellFormed
<1>3. CASE k = "varp"
    <2>1. args.mac \in MacForm
        BY <1>3 DEF WellTyped
    <2> QED
        BY <1>3, <2>1, ByKind, VarpWellFormed
<1>4. CASE k = "mlag"
    BY <1>4, ByKind, MlagWellFormed
<1>5. CASE k = "staticRoute"
    <2>1. RouteValid(args)
        BY <1>5 DEF Valid, RawKinds
    <2> QED
        BY <1>5, <2>1, ByKind, RouteWellFormed
<1>6. CASE k = "policyBasedRouting"
    BY <1>6, ByKind, PbrWellFormed
<1>7. CASE k \in ListKinds
    BY <1>7, ByKind, ListWellFormed
<1>8. CASE k \in OneObjectKinds
    BY <1>8, ByKind, OneBlockWellFormed
<1>9. CASE k \in RawKinds
    BY <1>9, ByKind DEF WellTyped
<1> QED
    BY <1>1, <1>2, <1>3, <1>4, <1>5, <1>6, <1>7, <1>8, <1>9 DEF AllKinds

LEMMA RemovalWellFormed ==
    ASSUME NEW k \in AllKinds, NEW args,
           k \in OneObjectKinds => \A object \in Entered(k, args) : object[1] \in Parents,
           k \in RawKinds => WellFormed(RawRemoval(k, args))
    PROVE  WellFormed(Removal(k, args))
<1>1. CASE k = "vlan"
    BY <1>1, ByKind, DropsWellFormed DEF VlanRemoval
<1>2. CASE k = "vlanRange"
    BY <1>2, ByKind, DropsWellFormed DEF RangeRemoval
<1>3. CASE k = "varp"
    <2> DEFINE b == VarpRemoval(args)
    <2>1. b.set = Empty /\ \A entry \in b.negate : entry[1][1][1] = "varp"
        BY DEF VarpRemoval, Negates, VarpMac, VarpObject
    <2>2. Core("varp") = {}
        BY DEF Core, Headed
    <2>3. WellFormed(b)
        <3> HIDE DEF b
        <3>1. DOMAIN b.set = {}
            BY <2>1 DEF Empty
        <3>2. FewRows(b.set)
            BY <3>1, NoRows
        <3> QED
            BY <2>1, <2>2, <3>1, <3>2 DEF WellFormed, Complete
    <2> QED
        BY <1>3, <2>3, ByKind
<1>4. CASE k = "mlag"
    BY <1>4, ByKind, DropsWellFormed DEF MlagRemoval
<1>5. CASE k = "staticRoute"
    BY <1>5, ByKind, DropsWellFormed DEF RouteRemoval
<1>6. CASE k = "policyBasedRouting"
    <2> DEFINE b == PbrRemoval(args)
    <2>1. b.set = Empty /\ \A entry \in b.negate : entry[1][1][1] = "servicePolicy"
        BY DEF PbrRemoval, Drops, ServicePolicy
    <2>2. Core("servicePolicy") = {}
        BY DEF Core, Headed
    <2>3. WellFormed(b)
        <3> HIDE DEF b
        <3>1. DOMAIN b.set = {}
            BY <2>1 DEF Empty
        <3>2. FewRows(b.set)
            BY <3>1, NoRows
        <3> QED
            BY <2>1, <2>2, <3>1, <3>2 DEF WellFormed, Complete
    <2> QED
        BY <1>6, <2>3, ByKind
<1>7. CASE k \in ListKinds
    <2>1. Removal(k, args) = ListRemoval(k, args)
        BY <1>7, ByKind
    <2> QED
        BY <2>1, DropsWellFormed DEF ListRemoval
<1>8. CASE k \in OneObjectKinds
    <2> DEFINE set == Headers(Entered(k, args))
    <2>1. Removal(k, args) = Rebuilds({Object(k, args)}, set)
        BY <1>8, ByKind DEF OneRemoval
    <2>2. AllShown(set) /\ Complete(set) /\ \A p \in DOMAIN set : ~IsRow(p)
        BY <1>8, HeadersShown
    <2> HIDE DEF set
    <2> QED
        BY <2>1, <2>2, NoRows, SetsWellFormed
<1>9. CASE k \in RawKinds
    BY <1>9, ByKind
<1> QED
    BY <1>1, <1>2, <1>3, <1>4, <1>5, <1>6, <1>7, <1>8, <1>9 DEF AllKinds
=============================================================================
