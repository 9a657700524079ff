--------------------------- MODULE ReadBackProofs ----------------------------
(***************************************************************************)
(* Proofs about what Read makes of the device: when a refresh forgets a    *)
(* resource, and what it means that a refresh shows no difference.  They   *)
(* rest on the types of the lines: what an object is not without, and      *)
(* which values a line can have.                                           *)
(***************************************************************************)
EXTENDS ResourceLifecycleProofs

-----------------------------------------------------------------------------
(***************************************************************************)
(* The lines under one object.                                             *)
(***************************************************************************)
LEMMA NoLines ==
    ASSUME NEW c, NEW object, \A p \in DOMAIN c : p[1] # object
    PROVE  Part(c, {object}) = Empty
BY DEF Part, Empty

LEMMA NoHeaderNoLines ==
    ASSUME NEW c, RunningConfig(c), NEW object, object[1] \in Headed, ~Exists(c, object)
    PROVE  Part(c, {object}) = Empty
<1>1. "header" \in Core(object[1])
    BY DEF Core, Headed
<1>2. \A p \in DOMAIN c : p[1] # object
    BY <1>1 DEF RunningConfig, Complete, Exists
<1> QED
    BY <1>2, NoLines

LEMMA LinesOf ==
    ASSUME NEW c, RunningConfig(c), NEW p \in DOMAIN c,
           p[1][1] \in Features, p[1][1] \notin {"vxlanInterface", "vrrp"}
    PROVE  /\ p = <<p[1], p[2]>>
           /\ p[2] \in Knobs(p[1][1])
           /\ ValueShown(p[1][1], p[2], c[p])
           /\ ~IsDefault(p[2], c[p])
<1>1. LineShown(p, c[p]) /\ ~IsDefault(p[2], c[p])
    BY DEF RunningConfig
<1>2. ~IsRow(p)
    BY DEF IsRow
<1> QED
    BY <1>1, <1>2 DEF LineShown

LEMMA NoKnobsNoLines ==
    ASSUME NEW c, RunningConfig(c), NEW object,
           object[1] \in Features, object[1] \notin {"vxlanInterface", "vrrp"},
           \A knob \in Knobs(object[1]) : <<object, knob>> \notin DOMAIN c
    PROVE  Part(c, {object}) = Empty
<1>1. \A p \in DOMAIN c : p[1] # object
    BY LinesOf
<1> QED
    BY <1>1, NoLines

\* Nothing is an overlay only of nothing on nothing.
LEMMA OverlayNothing ==
    ASSUME NEW a, NEW b, Overlay(a, b) = Nothing
    PROVE  DOMAIN a = {} /\ DOMAIN b = {}
<1>1. DOMAIN Overlay(a, b) = {}
    BY NothingDomain
<1> QED
    BY <1>1, OverlayDomain

-----------------------------------------------------------------------------
(***************************************************************************)
(* A line of resilient ECMP is looked for by the family of the inputs: the *)
(* family that is recorded, once it is, is that of the prefix.             *)
(***************************************************************************)
FamilyOf(args) == Has(args, "ipFamily") => args.ipFamily = Family(args.prefix)

FamilyRecorded ==
    recorded # Nothing /\ kind = "resilientEcmp" =>
        FamilyOf(recorded.inputs) /\ FamilyOf(recorded.state)

LEMMA ValidFamily ==
    ASSUME NEW args, Valid("resilientEcmp", args)
    PROVE  FamilyOf(args)
<1>1. ResilientEcmpValid(args)
    BY DEF Valid, RawKinds
<1> QED
    BY <1>1 DEF ResilientEcmpValid, FamilyOf

LEMMA FamilyRead ==
    ASSUME NEW args, "prefix" \in DOMAIN args, NEW c, NEW state,
           state = ReadBack("resilientEcmp", args, c), state # Nothing
    PROVE  FamilyOf(state)
<1> DEFINE k == "resilientEcmp"
           object == Object(k, args)
           family == [ipFamily |-> Or(args, "ipFamily", "ipv4")]
           line == Given(Or(Shown(c, object, {"line"}), "line", Nothing),
                         {"capacity", "redundancy", "ordered"})
<1>1. k \in OneObjectKinds
    BY DEF OneObjectKinds, RebuildKinds
<1>2. state = OneRead(k, args, c)
    BY <1>1, ReadByKind
<1>3. ~Missing(k, args, c) /\ state = Overlay(Base(k, args), Found(k, args, c))
    BY <1>2 DEF OneRead
<1>4. Base(k, args) = args
    BY DEF Base
<1>5. Found(k, args, c) = Overlay(family, line)
    BY DEF Found, ResilientEcmpFound
<1>6. Or(args, "ipFamily", "ipv4") = Family(args.prefix)
    BY <1>3 DEF Missing, ResilientEcmpMissing
<1> HIDE DEF k, object, line
<1>7. DOMAIN line \subseteq {"capacity", "redundancy", "ordered"}
    BY GivenDomain DEF line
<1>8. "ipFamily" \in DOMAIN Overlay(family, line) /\ Overlay(family, line).ipFamily = Family(args.prefix)
    BY <1>6, <1>7 DEF Overlay
<1>9. "prefix" \notin DOMAIN Overlay(family, line)
    <2>1. DOMAIN family = {"ipFamily"}
        OBVIOUS
    <2> HIDE DEF family
    <2>2. DOMAIN Overlay(family, line) = DOMAIN family \cup DOMAIN line
        BY OverlayDomain
    <2>3. "prefix" \notin {"ipFamily"} /\ "prefix" \notin {"capacity", "redundancy", "ordered"}
        OBVIOUS
    <2> QED
        BY <1>7, <2>1, <2>2, <2>3
<1> HIDE DEF family
<1>10. state.ipFamily = Family(args.prefix)
    BY <1>3, <1>4, <1>5, <1>8 DEF Overlay
<1>11. state.prefix = args.prefix
    BY <1>3, <1>4, <1>5, <1>9, OverlayKeeps
<1> QED
    BY <1>10, <1>11 DEF FamilyOf

LEMMA FamilyStep ==
    ASSUME LifeInv, FamilyRecorded, [LifeNext]_lifeVars
    PROVE  FamilyRecorded'
<1> SUFFICES ASSUME recorded' # Nothing, kind' = "resilientEcmp"
             PROVE  FamilyOf(recorded'.inputs) /\ FamilyOf(recorded'.state)
    BY DEF FamilyRecorded
<1>1. kind' = kind
    BY DEF LifeNext, Create, CreateFails, Update, UpdateFails, Same, Delete, DeleteFails, Refresh,
           RefreshProbesFail, Edit, LateCommit, Drift, Applied, ApplyFails, lifeVars
<1>2. CASE Create \/ Update
    <2>1. recorded' = Record(program) /\ Valid(kind, program)
        BY <1>2 DEF Create, Update
    <2> QED
        BY <1>1, <2>1, ValidFamily DEF Record
<1>3. CASE Same
    <2>1. recorded' = Record(recorded.state) /\ recorded # Nothing
        BY <1>3 DEF Same
    <2> QED
        BY <1>1, <2>1 DEF Record, FamilyRecorded
<1>4. CASE Refresh
    <2> DEFINE state == ReadBack(kind, recorded.inputs, config)
    <2>1. /\ recorded # Nothing
          /\ recorded' = IF state = Nothing THEN Nothing
                         ELSE [inputs |-> InputsRead(kind, recorded.inputs, config), state |-> state]
        BY <1>4 DEF Refresh
    <2>2. InputsRead(kind, recorded.inputs, config) = recorded.inputs
        BY <1>1 DEF InputsRead
    <2>3. "prefix" \in DOMAIN recorded.inputs
        <3>1. kind \in OneObjectKinds /\ Identity(kind) = {"prefix"} /\ kind \in AllKinds
            BY <1>1 DEF OneObjectKinds, RebuildKinds, Identity, AllKinds
        <3> QED
            BY <2>1, <3>1, RequiredByKind DEF LifeInv, LifeTypeOK
    <2>4. FamilyOf(recorded.inputs)
        BY <1>1, <2>1 DEF FamilyRecorded
    <2>5. state # Nothing => FamilyOf(state)
        BY <1>1, <2>3, FamilyRead
    <2> HIDE DEF state
    <2> QED
        BY <2>1, <2>2, <2>4, <2>5
<1>5. CASE RefreshProbesFail
    BY <1>1, <1>5 DEF RefreshProbesFail
<1>6. CASE Delete
    BY <1>6 DEF Delete
<1>7. CASE recorded' = recorded
    BY <1>1, <1>7 DEF FamilyRecorded
<1>8. CASE CreateFails \/ UpdateFails \/ DeleteFails \/ UNCHANGED lifeVars
    BY <1>7, <1>8 DEF CreateFails, UpdateFails, DeleteFails, ApplyFails, lifeVars
<1>9. CASE \/ \E args \in Inputs(kind) \cup {Nothing} : Edit(args)
           \/ \E block \in late : LateCommit(block)
           \/ \E block \in Drifts(kind) : Drift(block)
    BY <1>7, <1>9 DEF Edit, LateCommit, Drift
<1> QED
    BY <1>2, <1>3, <1>4, <1>5, <1>6, <1>8, <1>9 DEF LifeNext

-----------------------------------------------------------------------------
(***************************************************************************)
(* Forgetting.                                                             *)
(***************************************************************************)
\* The fields that make the identity are never overlaid away.
LEMMA OneReadNotEmpty ==
    ASSUME NEW k \in OneObjectKinds, NEW args, NEW c, NEW f \in Identity(k), f \in DOMAIN args
    PROVE  Overlay(Base(k, args), Found(k, args, c)) # Nothing
<1>1. f \in DOMAIN Base(k, args)
    <2>1. CASE k \in {"interface", "portChannel"}
        <3>1. f \notin SwitchportFields
            BY <2>1 DEF Identity, SwitchportFields
        <3> QED
            BY <2>1, <3>1 DEF Base, Without
    <2>2. CASE k \notin {"interface", "portChannel"}
        BY <2>2 DEF Base
    <2> QED
        BY <2>1, <2>2
<1> QED
    BY <1>1, OverlayNothing

LEMMA OneForgottenIsGone ==
    ASSUME NEW k \in OneObjectKinds, k # "rpki", NEW args, NEW c, RunningConfig(c),
           DOMAIN args # {}, Identity(k) \ {"vrf"} \subseteq DOMAIN args,
           k = "resilientEcmp" => Has(args, "ipFamily") /\ FamilyOf(args),
           OneRead(k, args, c) = Nothing
    PROVE  /\ k # "vrrp" => Part(c, {Object(k, args)}) = Empty
           /\ k = "vrrp" => VrrpMissing(c, Object(k, args))
<1> DEFINE object == Object(k, args)
<1>1. object[1] = k
    BY DEF Object
<1>2. Missing(k, args, c)
    <2> SUFFICES ASSUME ~Missing(k, args, c)
                 PROVE  FALSE
        OBVIOUS
    <2>1. Overlay(Base(k, args), Found(k, args, c)) = Nothing
        BY DEF OneRead
    <2>2. CASE k = "stp"
        <3>1. Found(k, args, c) = StpFound(c, object)
            BY <2>2 DEF Found
        <3>2. "stpMode" \in DOMAIN StpFound(c, object)
            BY DEF StpFound, Overlay
        <3> QED
            BY <2>1, <3>1, <3>2, OverlayNothing
    <2>3. CASE k = "bfd"
        <3>1. Base(k, args) = args
            BY <2>3 DEF Base
        <3> QED
            BY <2>1, <3>1, OverlayNothing
    <2>4. CASE k \notin {"stp", "bfd"}
        <3>1. \E f \in Identity(k) : f # "vrf"
            BY <2>4 DEF Identity, OneObjectKinds, MergeKinds, RebuildKinds
        <3> QED
            BY <2>1, <3>1, OneReadNotEmpty
    <2> QED
        BY <2>2, <2>3, <2>4
<1>3. CASE k \in {"portChannel", "vlanInterface", "loopback", "subinterface", "greTunnel",
                  "vxlanInterface", "evpnEthernetSegment", "routerBgp", "routerOspf"}
    <2>1. ~Exists(c, object)
        BY <1>2, <1>3 DEF Missing
    <2>2. object[1] \in Headed
        BY <1>1, <1>3 DEF Headed
    <2> HIDE DEF object
    <2> QED
        BY <1>3, <2>1, <2>2, NoHeaderNoLines DEF object
<1>4. CASE k = "vrrp"
    BY <1>2, <1>4 DEF Missing
<1>5. CASE k = "vrf"
    <2>1. ~Exists(c, VrfObject(args.name))
        BY <1>2, <1>5 DEF Missing, VrfMissing
    <2>2. object = VrfObject(args.name)
        <3>1. "name" \in DOMAIN args /\ Identity(k) = {"name"}
            BY <1>5 DEF Identity
        <3> QED
            BY <1>5, <3>1 DEF Object, VrfObject, Given
    <2>3. object[1] \in Headed
        BY <1>1, <1>5 DEF Headed
    <2> HIDE DEF object
    <2> QED
        BY <1>5, <2>1, <2>2, <2>3, NoHeaderNoLines DEF object
<1>6. CASE k = "rcf"
    <2>1. <<object, "unit">> \notin DOMAIN c
        BY <1>2, <1>6 DEF Missing, RcfMissing
    <2>2. /\ object[1] \in Features /\ Knobs(object[1]) = {"unit"}
          /\ object[1] \notin {"vxlanInterface", "vrrp"}
        BY <1>1, <1>6 DEF Features, Knobs
    <2> HIDE DEF object
    <2> QED
        BY <1>6, <2>1, <2>2, NoKnobsNoLines DEF object
<1>7. CASE k = "resilientEcmp"
    <2>1. <<object, "line">> \notin DOMAIN c
        <3>1. Or(args, "ipFamily", "ipv4") = Family(args.prefix)
            BY <1>7 DEF FamilyOf, Or
        <3> QED
            BY <1>2, <1>7, <3>1 DEF Missing, ResilientEcmpMissing
    <2>2. /\ object[1] \in Features /\ Knobs(object[1]) = {"line"}
          /\ object[1] \notin {"vxlanInterface", "vrrp"}
        BY <1>1, <1>7 DEF Features, Knobs
    <2> HIDE DEF object
    <2> QED
        BY <1>7, <2>1, <2>2, NoKnobsNoLines DEF object
<1>8. CASE k \in {"interface", "stp", "bfd"}
    BY <1>2, <1>8 DEF Missing
<1> QED
    BY <1>3, <1>4, <1>5, <1>6, <1>7, <1>8 DEF OneObjectKinds, MergeKinds, RebuildKinds

\* A list is forgotten when it has no line, and then nothing is under its name.
LEMMA ListForgottenIsGone ==
    ASSUME NEW k \in ListKinds, NEW args, NEW c, RunningConfig(c), "name" \in DOMAIN args,
           ListRead(k, args, c) = Nothing
    PROVE  Part(c, {ListObject(k, args)}) = Empty
<1> DEFINE object == ListObject(k, args)
<1>1. object[1] = k /\ k \in Features /\ k \notin {"vxlanInterface", "vrrp"}
    BY DEF ListObject, ListKinds, Features
<1>2. ListFound(k, args, c) = Nothing
    <2> SUFFICES ASSUME ListFound(k, args, c) # Nothing
                 PROVE  FALSE
        OBVIOUS
    <2>1. Overlay(args, ListFound(k, args, c)) = Nothing
        BY DEF ListRead
    <2> QED
        BY <2>1, OverlayNothing
<1>3. \A knob \in Knobs(k) : <<object, knob>> \notin DOMAIN c
    <2>1. ASSUME NEW knobs, Shown(c, object, knobs) = Nothing
          PROVE  \A knob \in knobs : <<object, knob>> \notin DOMAIN c
        <3>1. DOMAIN Shown(c, object, knobs) = {}
            BY <2>1, NothingDomain
        <3> HIDE DEF object
        <3> QED
            BY <3>1 DEF Shown
    <2>2. CASE k = "prefixList"
        <3>1. Shown(c, object, {"remark", "entries"}) = Nothing /\ Knobs(k) = {"remark", "entries"}
            BY <1>2, <2>2 DEF ListFound, PrefixListFound, Knobs
        <3> QED
            BY <2>1, <3>1
    <2>3. CASE k = "communityList"
        <3>1. Shown(c, object, {"type", "entries"}) = Nothing /\ Knobs(k) = {"type", "entries"}
            BY <1>2, <2>3 DEF ListFound, CommunityListFound, Knobs
        <3> QED
            BY <2>1, <3>1
    <2>4. CASE k = "extCommunityList"
        <3>1. Shown(c, object, {"listType", "entries"}) = Nothing /\ Knobs(k) = {"listType", "entries"}
            BY <1>2, <2>4 DEF ListFound, ExtCommunityListFound, Knobs
        <3> QED
            BY <2>1, <3>1
    <2>5. CASE k = "asPathList"
        <3>1. AsPathListFound(args, c) = Nothing /\ Knobs(k) = {"entries"}
            BY <1>2, <2>5 DEF ListFound, Knobs
        <3>2. DOMAIN AsPathListFound(args, c) = DOMAIN Shown(c, object, {"entries"})
            BY <2>5 DEF AsPathListFound
        <3>3. DOMAIN AsPathListFound(args, c) = {}
            BY <3>1, NothingDomain
        <3>4. \A knob \in {"entries"} : <<object, knob>> \notin DOMAIN c
            BY <3>2, <3>3 DEF Shown
        <3> QED
            BY <3>1, <3>4
    <2>6. CASE k = "routeMap"
        <3> DEFINE own == EntriesOf(c, args.name)
                   path == <<object, "entries">>
        <3>1. RouteMapFound(args, c) = Nothing /\ Knobs(k) = {"entries"}
            BY <1>2, <2>6 DEF ListFound, Knobs
        <3>2. own = <<>>
            <4>1. \A v : [entries |-> v] # Nothing
                BY NothingDomain
            <4> HIDE DEF own
            <4> QED
                BY <3>1, <4>1 DEF RouteMapFound, own
        <3>3. object = MapObject(args.name)
            BY <2>6 DEF ListObject, MapObject
        <3>4. path \in DOMAIN c => own = c[path]
            BY <3>3 DEF EntriesOf, Shown, Or, Has
        <3>5. path \in DOMAIN c => c[path] # <<>>
            <4>1. path \in DOMAIN c => ValueShown(path[1][1], path[2], c[path])
                BY <1>1, LinesOf
            <4>2. path[1][1] = "routeMap"
                BY <1>1, <2>6
            <4> QED
                BY <4>1, <4>2 DEF ValueShown
        <3> QED
            BY <3>1, <3>2, <3>4, <3>5
    <2> QED
        BY <2>2, <2>3, <2>4, <2>5, <2>6 DEF ListKinds
<1> HIDE DEF object
<1> QED
    BY <1>1, <1>3, NoKnobsNoLines DEF object

LEMMA RouteForgottenIsGone ==
    ASSUME NEW args, NEW c, RunningConfig(c), DOMAIN args # {}, RouteRead(args, c) = Nothing
    PROVE  Part(c, RouteObjects(args)) = Empty
<1> DEFINE object == RouteOf(args, Or(args, "distance", 1))
<1>1. RouteObjects(args) = {object}
    BY DEF RouteObjects
<1>2. \A d \in 1 .. DistanceMax : ~Exists(c, RouteOf(args, d))
    <2> DEFINE rows == {d \in 1 .. DistanceMax : Exists(c, RouteOf(args, d))}
               first == CHOOSE d \in rows : \A e \in rows : d <= e
               row == [k \in {j \in {"tag", "name", "metric", "track"} :
                                  <<RouteOf(args, first), j>> \in DOMAIN c} |->
                            c[<<RouteOf(args, first), k>>]]
               distance == [k \in {j \in {"distance"} : first # 1} |-> first]
    <2>1. Nothing = IF rows = {} THEN Nothing ELSE Overlay(Overlay(args, row), distance)
        BY DEF RouteRead
    <2> HIDE DEF row, distance
    <2>2. Overlay(Overlay(args, row), distance) # Nothing
        <3>1. DOMAIN Overlay(args, row) # {}
            BY OverlayDomain
        <3> QED
            BY <3>1, OverlayNothing
    <2>3. rows = {}
        BY <2>1, <2>2
    <2> QED
        BY <2>3
<1>3. object[1] = "route" /\ object[5] = Or(args, "distance", 1)
    BY DEF RouteOf
<1>4. object = RouteOf(args, object[5])
    BY <1>3
<1> HIDE DEF object
<1>5. ASSUME NEW p \in DOMAIN c, p[1] = object
      PROVE  FALSE
    <2>1. LineShown(p, c[p])
        BY DEF RunningConfig
    <2>2. object[5] \in 1 .. DistanceMax
        BY <1>3, <1>5, <2>1 DEF LineShown, Features
    <2>3. Core("route") = {"header"}
        BY DEF Core, Headed
    <2>4. Exists(c, object)
        BY <1>3, <1>5, <2>3 DEF RunningConfig, Complete, Exists
    <2> QED
        BY <1>2, <1>4, <2>2, <2>4
<1> QED
    BY <1>1, <1>5, NoLines

LEMMA ReadForgottenIsGone ==
    ASSUME NEW k \in AllKinds, k \notin {"vlanRange", "rpki", "policyBasedRouting"}, NEW args,
           DOMAIN args # {}, Required(k) \subseteq DOMAIN args,
           k = "resilientEcmp" => Has(args, "ipFamily") /\ FamilyOf(args),
           NEW c, RunningConfig(c), ReadBack(k, args, c) = Nothing
    PROVE  \A p \in DOMAIN Part(c, Objects(k, args)) : k = "vrrp" /\ p[2] = "preempt"
<1>0. SUFFICES /\ k # "vrrp" => Part(c, Objects(k, args)) = Empty
               /\ k = "vrrp" => \A p \in DOMAIN c : p[1] \in Objects(k, args) => p[2] = "preempt"
    <2>1. DOMAIN Empty = {}
        BY DEF Empty
    <2>2. \A p \in DOMAIN Part(c, Objects(k, args)) : p \in DOMAIN c /\ p[1] \in Objects(k, args)
        BY DEF Part
    <2> QED
        BY <2>1, <2>2
<1>1. CASE k = "vlan"
    <2> DEFINE object == VlanObject(args.id)
    <2>1. VlanRead(args, c) = Nothing /\ Objects(k, args) = {object}
        BY <1>1, ByKind, ReadByKind DEF VlanObjects
    <2>2. Overlay(args, [name |-> ShownName(c, args.id)]) # Nothing
        BY OverlayNothing
    <2>3. ~Exists(c, object)
        BY <2>1, <2>2 DEF VlanRead
    <2>4. object[1] \in Headed
        BY DEF VlanObject, Headed
    <2> HIDE DEF object
    <2> QED
        BY <1>1, <2>1, <2>3, <2>4, NoHeaderNoLines
<1>2. CASE k = "varp"
    <2>1. VarpRead(args, c) = Nothing /\ Objects(k, args) = {VarpObject}
        BY <1>2, ByKind, ReadByKind DEF VarpObjects
    <2>2. Overlay(args, [mac |-> c[VarpMac]]) # Nothing
        BY OverlayNothing
    <2>3. <<VarpObject, "mac">> \notin DOMAIN c
        BY <2>1, <2>2 DEF VarpRead, VarpMac
    <2>4. VarpObject[1] = "varp"
        BY DEF VarpObject
    <2>5. "varp" \in Features /\ Knobs("varp") = {"mac"}
        BY DEF Features, Knobs
    <2> QED
        BY <1>2, <2>1, <2>3, <2>4, <2>5, NoKnobsNoLines
<1>3. CASE k = "mlag"
    <2>1. MlagRead(args, c) = Nothing /\ Objects(k, args) = {MlagObject}
        BY <1>3, ByKind, ReadByKind DEF MlagObjects
    <2>2. Overlay(args, MlagFound(c)) # Nothing
        BY OverlayNothing
    <2>3. ~Exists(c, MlagObject)
        BY <2>1, <2>2 DEF MlagRead
    <2>4. MlagObject[1] \in Headed
        BY DEF MlagObject, Headed
    <2> QED
        BY <1>3, <2>1, <2>3, <2>4, NoHeaderNoLines
<1>4. CASE k = "staticRoute"
    <2>1. RouteRead(args, c) = Nothing /\ Objects(k, args) = RouteObjects(args)
        BY <1>4, ByKind, ReadByKind
    <2> QED
        BY <1>4, <2>1, RouteForgottenIsGone
<1>5. CASE k \in ListKinds
    <2>1. ListRead(k, args, c) = Nothing /\ Objects(k, args) = {ListObject(k, args)}
        BY <1>5, ByKind, ReadByKind
    <2>2. "name" \in DOMAIN args
        BY <1>5, RequiredByKind
    <2> QED
        BY <1>5, <2>1, <2>2, ListForgottenIsGone DEF ListKinds
<1>6. CASE k \in OneObjectKinds
    <2>1. OneRead(k, args, c) = Nothing /\ Objects(k, args) = {Object(k, args)}
        BY <1>6, ByKind, ReadByKind
    <2>2. Identity(k) \ {"vrf"} \subseteq DOMAIN args
        BY <1>6, RequiredByKind
    <2> QED
        BY <1>6, <2>1, <2>2, OneForgottenIsGone DEF VrrpMissing
<1>7. CASE k \in RawKinds
    <2>1. args = Nothing
        BY <1>7, ReadByKind
    <2> QED
        BY <2>1, NothingDomain
<1> QED
    BY <1>1, <1>2, <1>3, <1>4, <1>5, <1>6, <1>7 DEF AllKinds

\* The inputs that are recorded say something.
LEMMA RecordedInputs ==
    ASSUME LifeInv, recorded # Nothing
    PROVE  /\ kind \in AllKinds
           /\ DOMAIN recorded.inputs # {}
           /\ Required(kind) \subseteq DOMAIN recorded.inputs
<1>1. kind \in Kinds /\ kind \in AllKinds /\ Required(kind) \subseteq DOMAIN recorded.inputs
    BY LifecycleAssumption DEF LifeInv, LifeTypeOK
<1>2. CASE kind = "vxlanInterface"
    <2>1. "id" \in Required(kind)
        <3>1. kind \in OneObjectKinds /\ Identity(kind) = {"id"}
            BY <1>2 DEF OneObjectKinds, MergeKinds, Identity
        <3> QED
            BY <1>1, <3>1, RequiredByKind
    <2> QED
        BY <1>1, <2>1
<1>3. CASE kind # "vxlanInterface"
    <2>1. recorded.inputs \in Inputs(kind)
        BY <1>3 DEF LifeInv, LifeTypeOK
    <2> QED
        BY <1>1, <2>1, InputsAssumption
<1> QED
    BY <1>2, <1>3

LEMMA RefreshForgets ==
    ASSUME LifeInv, FamilyRecorded, Refresh, recorded' = Nothing,
           kind \notin {"vlanRange", "rpki", "policyBasedRouting"},
           kind = "resilientEcmp" => Has(recorded.inputs, "ipFamily")
    PROVE  \A p \in DOMAIN Part(config, Objects(kind, recorded.inputs)) :
                kind = "vrrp" /\ p[2] = "preempt"
<1> DEFINE state == ReadBack(kind, recorded.inputs, config)
<1>1. /\ recorded # Nothing
      /\ recorded' = IF state = Nothing THEN Nothing
                     ELSE [inputs |-> InputsRead(kind, recorded.inputs, config), state |-> state]
    BY DEF Refresh
<1>2. state = Nothing
    <2>1. \A i, s : [inputs |-> i, state |-> s] # Nothing
        BY NothingDomain
    <2> HIDE DEF state
    <2> QED
        BY <1>1, <2>1
<1>3. kind = "resilientEcmp" => FamilyOf(recorded.inputs)
    BY <1>1 DEF FamilyRecorded
<1>4. RunningConfig(config)
    BY DEF LifeInv, LifeTypeOK, DeviceTypeOK
<1> QED
    BY <1>1, <1>2, <1>3, <1>4, RecordedInputs, ReadForgottenIsGone

\* When a refresh drops a resource from the state, the device has nothing more
\* under the objects of its inputs: what Read misses the object by is a line
\* that the object is never without.
THEOREM ForgottenAlwaysGone == LifeSpec => ForgottenIsGone
<1>1. LifeInit => FamilyRecorded
    BY DEF LifeInit, FamilyRecorded
<1>2. LifeInv /\ FamilyRecorded /\ [LifeNext]_lifeVars => FamilyRecorded'
    BY FamilyStep
<1>3. LifeInv /\ FamilyRecorded /\ [LifeNext]_lifeVars =>
        [/\ recorded' = Nothing
         /\ Refresh
         /\ kind \notin {"vlanRange", "rpki", "policyBasedRouting"}
         /\ kind = "resilientEcmp" => Has(recorded.inputs, "ipFamily")
         => \A p \in DOMAIN Part(config, Objects(kind, recorded.inputs)) :
                kind = "vrrp" /\ p[2] = "preempt"]_lifeVars
    BY RefreshForgets
<1> QED
    BY <1>1, <1>2, <1>3, LifeInvHolds, PTL DEF LifeSpec, ForgottenIsGone

-----------------------------------------------------------------------------
(***************************************************************************)
(* Drift.  Inputs that are read back unchanged are those that were found.  *)
(***************************************************************************)
LEMMA OverlaySame ==
    ASSUME NEW a, NEW b, Overlay(a, b) = a
    PROVE  \A f \in DOMAIN b : f \in DOMAIN a /\ a[f] = b[f]
<1> SUFFICES ASSUME NEW f \in DOMAIN b
             PROVE  f \in DOMAIN a /\ a[f] = b[f]
    OBVIOUS
<1>1. f \in DOMAIN Overlay(a, b) /\ Overlay(a, b)[f] = b[f]
    BY DEF Overlay
<1> QED
    BY <1>1

LEMMA SyncByLines ==
    ASSUME NEW k, NEW args, NEW c, NEW set, Block(k, args).set = set,
           NEW objects, Objects(k, args) = objects,
           \A p \in DOMAIN c : p[1] \in objects =>
                p \in DOMAIN set /\ ~IsDefault(p[2], set[p]) /\ c[p] = set[p],
           \A p \in DOMAIN set : p[1] \in objects /\ ~IsDefault(p[2], set[p]) => p \in DOMAIN c
    PROVE  InSync(k, args, c)
<1> DEFINE d == Exec(Empty, Block(k, args))
<1>1. \A p : p \in DOMAIN d <=> p \in DOMAIN set /\ ~IsDefault(p[2], set[p])
    <2>1. DOMAIN Empty = {}
        BY DEF Empty
    <2> QED
        BY <2>1, ExecDomain
<1>2. \A p \in DOMAIN d : d[p] = set[p]
    BY <1>1, ExecValues
<1> HIDE DEF d
<1>3. \A p : p[1] \in objects => (p \in DOMAIN c <=> p \in DOMAIN d)
    BY <1>1
<1>4. \A p \in DOMAIN c : p[1] \in objects => c[p] = d[p]
    BY <1>2, <1>3
<1>5. Part(c, objects) = Part(d, objects)
    BY <1>3, <1>4, SamePart
<1> QED
    BY <1>5 DEF InSync, Wanted, d

LEMMA NeverDefault ==
    ASSUME NEW knob, knob \notin DOMAIN Default, NEW value
    PROVE  ~IsDefault(knob, value)
BY DEF IsDefault

LEMMA VlanDriftSeen ==
    ASSUME NEW args, NEW c, RunningConfig(c), DOMAIN args # {}, VlanRead(args, c) = args,
           Or(args, "name", "") # AutoName
    PROVE  InSync("vlan", args, c)
<1> DEFINE object == VlanObject(args.id)
           objects == {object}
           set == Named(args, objects)
<1>1. Block("vlan", args).set = set /\ Objects("vlan", args) = objects
    <2>1. Block("vlan", args) = Sets(Named(args, VlanObjects(args)))
        BY ByKind DEF VlanBlock
    <2>2. Objects("vlan", args) = VlanObjects(args) /\ VlanObjects(args) = objects
        BY ByKind DEF VlanObjects
    <2>3. \A f : Sets(f).set = f
        BY DEF Sets
    <2> HIDE DEF objects
    <2> QED
        BY <2>1, <2>2, <2>3
<1>2. Exists(c, object) /\ Overlay(args, [name |-> ShownName(c, args.id)]) = args
    BY NothingDomain DEF VlanRead
<1>3. Has(args, "name") /\ args.name = ShownName(c, args.id)
    <2> DEFINE found == [name |-> ShownName(c, args.id)]
    <2>1. "name" \in DOMAIN found /\ found["name"] = ShownName(c, args.id)
        OBVIOUS
    <2>2. Overlay(args, found) = args
        BY <1>2
    <2> HIDE DEF found
    <2> QED
        BY <2>1, <2>2, OverlaySame DEF Has
<1>4. <<object, "name">> \in DOMAIN c /\ args.name = c[<<object, "name">>]
    BY <1>3 DEF ShownName, Or
<1>5. /\ DOMAIN set = {<<object, "header">>, <<object, "name">>}
      /\ set[<<object, "header">>] = "on"
      /\ set[<<object, "name">>] = args.name
    BY <1>3 DEF Named
<1>6. object[1] = "vlan" /\ Knobs("vlan") = {"header", "name"} /\ "vlan" \in Features
    BY DEF VlanObject, Knobs, Features
<1> HIDE DEF object, set
<1>7. \A p \in DOMAIN set : ~IsDefault(p[2], set[p])
    <2>1. {"header", "name"} \cap DOMAIN Default = {}
        BY DEF Default
    <2>2. \A p \in DOMAIN set : p[2] \in {"header", "name"}
        <3>1. \A o, f : <<o, f>>[2] = f
            OBVIOUS
        <3>2. \A p \in DOMAIN set : p = <<object, "header">> \/ p = <<object, "name">>
            BY <1>5
        <3> HIDE DEF set, object
        <3> QED
            BY <3>1, <3>2
    <2>3. \A p \in DOMAIN set : p[2] \notin DOMAIN Default
        BY <2>1, <2>2
    <2> QED
        BY <2>3, NeverDefault
<1>8. \A p \in DOMAIN c : p[1] \in objects => p \in DOMAIN set /\ c[p] = set[p]
    <2> SUFFICES ASSUME NEW p \in DOMAIN c, p[1] = object
                 PROVE  p \in DOMAIN set /\ c[p] = set[p]
        OBVIOUS
    <2>1. p = <<object, p[2]>> /\ p[2] \in {"header", "name"} /\ ValueShown("vlan", p[2], c[p])
        BY <1>6, LinesOf
    <2>2. p[2] = "header" => c[p] = "on"
        BY <2>1 DEF ValueShown
    <2> QED
        BY <1>4, <1>5, <2>1, <2>2
<1>9. \A p \in DOMAIN set : p \in DOMAIN c
    BY <1>2, <1>4, <1>5 DEF Exists
<1> HIDE DEF objects
<1> QED
    BY <1>1, <1>7, <1>8, <1>9, SyncByLines

LEMMA VarpDriftSeen ==
    ASSUME NEW args, NEW c, RunningConfig(c), DOMAIN args # {}, VarpRead(args, c) = args
    PROVE  InSync("varp", args, c)
<1> DEFINE objects == {VarpObject}
           set == [p \in {VarpMac} |-> Canonical(args.mac)]
<1>1. Block("varp", args).set = set /\ Objects("varp", args) = objects
    BY ByKind DEF VarpBlock, VarpObjects, Rebuilds
<1>2. VarpMac \in DOMAIN c /\ Overlay(args, [mac |-> c[VarpMac]]) = args
    BY NothingDomain DEF VarpRead
<1>3. args.mac = c[VarpMac]
    <2> DEFINE found == [mac |-> c[VarpMac]]
    <2>1. "mac" \in DOMAIN found /\ found["mac"] = c[VarpMac]
        OBVIOUS
    <2>2. Overlay(args, found) = args
        BY <1>2
    <2> HIDE DEF found
    <2> QED
        BY <2>1, <2>2, OverlaySame
<1>4. VarpMac = <<VarpObject, "mac">> /\ VarpMac[1] = VarpObject /\ VarpMac[2] = "mac"
    BY DEF VarpMac
<1>5. VarpObject[1] = "varp" /\ Knobs("varp") = {"mac"} /\ "varp" \in Features
    BY DEF VarpObject, Knobs, Features
<1>6. Canonical(args.mac) = args.mac
    <2>1. ValueShown("varp", "mac", c[VarpMac])
        BY <1>2, <1>4, <1>5, LinesOf
    <2>2. c[VarpMac] \in {Canonical(m) : m \in MacForm}
        BY <2>1 DEF ValueShown
    <2> QED
        BY <1>3, <2>2, MacAssumption
<1>7. DOMAIN set = {VarpMac} /\ set[VarpMac] = args.mac
    BY <1>6
<1> HIDE DEF set
<1>8. \A p \in DOMAIN set : ~IsDefault(p[2], set[p])
    BY <1>4, <1>7 DEF IsDefault, Default
<1>9. \A p \in DOMAIN c : p[1] \in objects => p \in DOMAIN set /\ c[p] = set[p]
    <2> SUFFICES ASSUME NEW p \in DOMAIN c, p[1] = VarpObject
                 PROVE  p \in DOMAIN set /\ c[p] = set[p]
        OBVIOUS
    <2>1. p = <<VarpObject, p[2]>> /\ p[2] = "mac"
        BY <1>5, LinesOf
    <2> QED
        BY <1>3, <1>4, <1>7, <2>1
<1>10. \A p \in DOMAIN set : p \in DOMAIN c
    BY <1>2, <1>7
<1> HIDE DEF objects
<1> QED
    BY <1>1, <1>8, <1>9, <1>10, SyncByLines

\* a list whose entries are rendered as they were found
LEMMA ListSync ==
    ASSUME NEW k \in ListKinds, NEW args, NEW c, RunningConfig(c),
           LET object == ListObject(k, args)
               lines == ListLines(k, args)
           IN  /\ \A knob \in Knobs(k) : <<object, knob>> \in DOMAIN c
               /\ DOMAIN lines = Knobs(k)
               /\ \A knob \in DOMAIN lines : lines[knob] = c[<<object, knob>>]
    PROVE  InSync(k, args, c)
<1> DEFINE object == ListObject(k, args)
           objects == {object}
           lines == ListLines(k, args)
           set == Under(object, lines)
<1>1. Block(k, args).set = set /\ Objects(k, args) = objects
    BY ByKind DEF ListBlock, Rebuilds
<1>2. /\ \A p \in DOMAIN set : p = <<object, p[2]>> /\ p[1] = object /\ p[2] \in DOMAIN lines
      /\ \A knob \in DOMAIN lines : <<object, knob>> \in DOMAIN set
                                    /\ set[<<object, knob>>] = lines[knob]
    BY DEF Under
<1>3. object[1] = k /\ k \in Features /\ k \notin {"vxlanInterface", "vrrp"}
    BY DEF ListObject, ListKinds, Features
<1>4. /\ \A knob \in Knobs(k) : <<object, knob>> \in DOMAIN c
      /\ DOMAIN lines = Knobs(k)
      /\ \A knob \in DOMAIN lines : lines[knob] = c[<<object, knob>>]
    OBVIOUS
<1> HIDE DEF object, lines, set
<1>5. \A p \in DOMAIN c : p[1] = object => p \in DOMAIN set /\ c[p] = set[p]
    <2> SUFFICES ASSUME NEW p \in DOMAIN c, p[1] = object
                 PROVE  p \in DOMAIN set /\ c[p] = set[p]
        OBVIOUS
    <2>1. p = <<object, p[2]>> /\ p[2] \in Knobs(k)
        BY <1>3, LinesOf
    <2> QED
        BY <1>2, <1>4, <2>1
<1>6. \A p \in DOMAIN set : p \in DOMAIN c
    BY <1>2, <1>4
<1>7. \A p \in DOMAIN set : ~IsDefault(p[2], set[p])
    <2> SUFFICES ASSUME NEW p \in DOMAIN set
                 PROVE  ~IsDefault(p[2], set[p])
        OBVIOUS
    <2>1. p \in DOMAIN c /\ c[p] = set[p]
        BY <1>2, <1>5, <1>6
    <2> QED
        BY <2>1 DEF RunningConfig
<1>8. \A p \in DOMAIN c : p[1] \in objects => p \in DOMAIN set /\ c[p] = set[p]
    BY <1>5
<1> HIDE DEF objects
<1> QED
    BY <1>1, <1>6, <1>7, <1>8, SyncByLines

\* What a list is read back by, and what of it is shown.
LEMMA ListReadSame ==
    ASSUME NEW k \in ListKinds, NEW args, DOMAIN args # {}, NEW c, ListRead(k, args, c) = args
    PROVE  LET found == ListFound(k, args, c)
           IN  found # Nothing /\ \A f \in DOMAIN found : f \in DOMAIN args /\ args[f] = found[f]
<1> DEFINE found == ListFound(k, args, c)
<1>1. args = IF found = Nothing THEN Nothing ELSE Overlay(args, found)
    BY DEF ListRead
<1> HIDE DEF found
<1>2. found # Nothing /\ Overlay(args, found) = args
    BY <1>1, NothingDomain
<1>3. \A f \in DOMAIN found : f \in DOMAIN args /\ args[f] = found[f]
    BY <1>2, OverlaySame
<1> QED
    BY <1>2, <1>3 DEF found

LEMMA ShownValues ==
    ASSUME NEW c, NEW object, NEW knobs
    PROVE  /\ \A f : f \in DOMAIN Shown(c, object, knobs) <=>
                        f \in knobs /\ <<object, f>> \in DOMAIN c
           /\ \A f \in DOMAIN Shown(c, object, knobs) :
                    Shown(c, object, knobs)[f] = c[<<object, f>>]
BY DEF Shown

LEMMA ShownSomething ==
    ASSUME NEW c, NEW object, NEW knobs, Shown(c, object, knobs) # Nothing
    PROVE  \E f \in knobs : <<object, f>> \in DOMAIN c
<1> SUFFICES ASSUME \A f \in knobs : <<object, f>> \notin DOMAIN c
             PROVE  Shown(c, object, knobs) = Nothing
    OBVIOUS
<1>1. {j \in knobs : <<object, j>> \in DOMAIN c} = {}
    OBVIOUS
<1> QED
    BY <1>1 DEF Shown, Nothing

LEMMA CommunityDriftSeen ==
    ASSUME NEW k \in {"communityList", "extCommunityList"}, NEW args, DOMAIN args # {}, NEW c,
           RunningConfig(c), ListRead(k, args, c) = args
    PROVE  InSync(k, args, c)
<1> DEFINE object == ListObject(k, args)
           found == ListFound(k, args, c)
           word == IF k = "communityList" THEN "type" ELSE "listType"
           lines == ListLines(k, args)
<1>1. k \in ListKinds /\ object[1] = k
    BY DEF ListKinds, ListObject
<1>2. found = Shown(c, object, {word, "entries"})
    BY DEF ListFound, CommunityListFound, ExtCommunityListFound
<1>3. Core(k) = {word, "entries"} /\ Knobs(k) = {word, "entries"}
    BY DEF Core, Headed, Knobs
<1>4. lines.entries = args.entries /\ lines[word] = Or(args, word, "standard")
      /\ DOMAIN lines = {word, "entries"}
    <2>1. CASE k = "communityList"
        BY <2>1 DEF ListLines, CommunityListLines, CommunityListType
    <2>2. CASE k = "extCommunityList"
        BY <2>2 DEF ListLines, ExtCommunityListLines, ExtCommunityListType
    <2> QED
        BY <2>1, <2>2
<1>5. found # Nothing /\ \A f \in DOMAIN found : f \in DOMAIN args /\ args[f] = found[f]
    BY <1>1, ListReadSame
<1> HIDE DEF object, found, word, lines
<1>6. \A f \in {word, "entries"} : <<object, f>> \in DOMAIN c
    <2> DEFINE knobs == {word, "entries"}
    <2>0. Shown(c, object, knobs) # Nothing
        BY <1>2, <1>5
    <2> HIDE DEF knobs
    <2>1. PICK f \in knobs : <<object, f>> \in DOMAIN c
        BY <2>0, ShownSomething
    <2>2. <<object, f>>[1][1] = k
        BY <1>1
    <2>3. \A g \in Core(k) : <<object, g>> \in DOMAIN c
        BY <2>1, <2>2 DEF RunningConfig, Complete
    <2> QED
        BY <1>3, <2>3
<1>7. \A f \in {word, "entries"} : f \in DOMAIN args /\ args[f] = c[<<object, f>>]
    BY <1>2, <1>5, <1>6, ShownValues
<1>8. lines.entries = c[<<object, "entries">>] /\ lines[word] = c[<<object, word>>]
    BY <1>4, <1>7 DEF Or, Has
<1> QED
    BY <1>1, <1>3, <1>4, <1>6, <1>8, ListSync DEF object, lines

\* The origin that Read strips is the one that rendering puts there.
LEMMA AsPathDriftSeen ==
    ASSUME NEW args, DOMAIN args # {}, NEW c, RunningConfig(c), ListRead("asPathList", args, c) = args
    PROVE  InSync("asPathList", args, c)
<1> DEFINE k == "asPathList"
           object == ListObject(k, args)
           shown == Shown(c, object, {"entries"})
           found == ListFound(k, args, c)
           value == c[<<object, "entries">>]
           lines == ListLines(k, args)
           Stripped(e) == [e EXCEPT !.origin = IF @ = "any" THEN "" ELSE @]
           Rendered(e) == [e EXCEPT !.origin = IF @ = "" THEN "any" ELSE @]
<1>1. k \in ListKinds /\ object[1] = k /\ k \in Features /\ Knobs(k) = {"entries"}
    BY DEF ListKinds, ListObject, Features, Knobs
<1>2. found = [f \in DOMAIN shown |-> [i \in DOMAIN shown[f] |-> Stripped(shown[f][i])]]
    BY DEF ListFound, AsPathListFound
<1>3. DOMAIN lines = {"entries"}
      /\ lines["entries"] = [i \in DOMAIN args.entries |-> Rendered(args.entries[i])]
    BY DEF ListLines, AsPathListLines
<1>4. found # Nothing /\ \A f \in DOMAIN found : f \in DOMAIN args /\ args[f] = found[f]
    BY <1>1, ListReadSame
<1>5. <<object, "entries">> \in DOMAIN c
    <2>1. shown # Nothing
        <3> SUFFICES ASSUME DOMAIN shown = {}
                     PROVE  found = Nothing
            BY <1>4, NothingDomain
        <3> HIDE DEF shown, found
        <3> QED
            BY <1>2 DEF Nothing
    <2> DEFINE knobs == {"entries"}
    <2>2. Shown(c, object, knobs) # Nothing
        BY <2>1
    <2> HIDE DEF object, knobs
    <2>3. \E f \in knobs : <<object, f>> \in DOMAIN c
        BY <2>2, ShownSomething
    <2> QED
        BY <2>3 DEF knobs
<1>6. "entries" \in DOMAIN shown /\ shown["entries"] = value
    BY <1>5, ShownValues
<1>7. args.entries = [i \in DOMAIN value |-> Stripped(value[i])]
    <2> HIDE DEF shown, value
    <2>1. "entries" \in DOMAIN found /\ found["entries"] = [i \in DOMAIN value |-> Stripped(value[i])]
        BY <1>2, <1>6
    <2> HIDE DEF found
    <2> QED
        BY <1>4, <2>1
<1>8. IsAFunction(value) /\ \A i \in DOMAIN value : OriginShown(value[i])
    <2>1. ValueShown(k, "entries", value)
        BY <1>1, <1>5, LinesOf
    <2> QED
        BY <2>1 DEF ValueShown
<1> HIDE DEF value, object, lines, found, shown
<1>9. \A i \in DOMAIN value : Rendered(Stripped(value[i])) = value[i]
    <2> SUFFICES ASSUME NEW e, OriginShown(e)
                 PROVE  Rendered(Stripped(e)) = e
        BY <1>8
    <2> DEFINE s == Stripped(e)
               r == Rendered(s)
    <2>1. IsAFunction(e) /\ "origin" \in DOMAIN e /\ e.origin # ""
        BY DEF OriginShown, Has
    <2>2. DOMAIN s = DOMAIN e /\ s.origin = (IF e.origin = "any" THEN "" ELSE e.origin)
            /\ \A f \in DOMAIN e \ {"origin"} : s[f] = e[f]
        BY <2>1
    <2> HIDE DEF s
    <2>3. DOMAIN r = DOMAIN e /\ r.origin = (IF s.origin = "" THEN "any" ELSE s.origin)
            /\ \A f \in DOMAIN e \ {"origin"} : r[f] = s[f]
        BY <2>1, <2>2
    <2>4. r = [f \in DOMAIN r |-> r[f]]
        OBVIOUS
    <2> HIDE DEF r
    <2>5. r.origin = e.origin
        <3>1. CASE e.origin = "any"
            BY <2>2, <2>3, <3>1
        <3>2. CASE e.origin # "any"
            BY <2>1, <2>2, <2>3, <3>2
        <3> QED
            BY <3>1, <3>2
    <2>6. \A f \in DOMAIN e : r[f] = e[f]
        BY <2>2, <2>3, <2>5
    <2>7. r = e
        BY <2>1, <2>3, <2>4, <2>6 DEF IsAFunction
    <2> QED
        BY <2>7 DEF r, s
<1>10. lines["entries"] = value
    <2>1. DOMAIN args.entries = DOMAIN value
          /\ \A i \in DOMAIN value : args.entries[i] = Stripped(value[i])
        BY <1>7
    <2>2. \A i \in DOMAIN value : Rendered(args.entries[i]) = value[i]
        BY <1>9, <2>1
    <2> HIDE DEF Rendered
    <2>3. lines["entries"] = [i \in DOMAIN value |-> value[i]]
        BY <1>3, <2>1, <2>2
    <2> QED
        BY <1>8, <2>3 DEF IsAFunction
<1> QED
    BY <1>1, <1>3, <1>5, <1>10, ListSync DEF object, lines, value

\* Clauses that are shown are rendered again as they were parsed.
LEMMA ClausesComeBack ==
    ASSUME NEW l, SetClausesShown(l)
    PROVE  SetLines(SetFound(l)) = l
<1> DEFINE communities == {"communityAdditive" : g \in {h \in DOMAIN l \cap {"community"} : l[h][2]}}
           targets == {"extcommunityRtAdditive" :
                            g \in {h \in DOMAIN l \cap {"extcommunityRt"} : l[h][2]}}
           s == SetFound(l)
           r == SetLines(s)
<1>1. /\ IsAFunction(l) /\ l # Nothing
      /\ ~Has(l, "communityAdditive") /\ ~Has(l, "extcommunityRtAdditive")
      /\ \A f \in {"community", "extcommunityRt"} : Has(l, f) =>
            l[f] = <<l[f][1], l[f][2]>> /\ l[f][2] \in BOOLEAN
      /\ Has(l, "communityNone") => l.communityNone = TRUE /\ ~Has(l, "community")
    BY DEF SetClausesShown
<1>2. DOMAIN s = DOMAIN l \cup communities \cup targets
    BY DEF SetFound
<1>3. \A f \in DOMAIN s :
        /\ f \in {"communityAdditive", "extcommunityRtAdditive"} => s[f] = TRUE
        /\ f \in {"community", "extcommunityRt"} => s[f] = l[f][1]
        /\ f \notin {"communityAdditive", "extcommunityRtAdditive", "community", "extcommunityRt"}
            => s[f] = l[f]
    BY DEF SetFound
<1>4. "communityAdditive" \in DOMAIN s <=> "community" \in DOMAIN l /\ l["community"][2]
    BY <1>1, <1>2 DEF Has
<1>5. "extcommunityRtAdditive" \in DOMAIN s <=> "extcommunityRt" \in DOMAIN l /\ l["extcommunityRt"][2]
    BY <1>1, <1>2 DEF Has
<1>6. \A f : f \notin {"communityAdditive", "extcommunityRtAdditive"} =>
        (f \in DOMAIN s <=> f \in DOMAIN l)
    BY <1>2
<1> HIDE DEF s, communities, targets
<1>7. /\ \A f : f \in DOMAIN r <=>
            /\ f \in DOMAIN s
            /\ f \notin {"communityAdditive", "extcommunityRtAdditive"}
            /\ f = "communityNone" => On(s, f)
            /\ f = "community" => ~On(s, "communityNone")
      /\ "community" \in DOMAIN r => r["community"] = <<s["community"], On(s, "communityAdditive")>>
      /\ "extcommunityRt" \in DOMAIN r =>
            r["extcommunityRt"] = <<s["extcommunityRt"], On(s, "extcommunityRtAdditive")>>
      /\ \A f \in DOMAIN r : f \notin {"community", "extcommunityRt"} => r[f] = s[f]
      /\ IsAFunction(r)
    BY DEF SetLines, IsAFunction
<1> HIDE DEF r
<1>8. "communityNone" \in DOMAIN s => On(s, "communityNone") /\ "community" \notin DOMAIN l
    BY <1>1, <1>3, <1>6 DEF On, Has
<1>9. DOMAIN r = DOMAIN l
    <2>1. \A f : f \in DOMAIN r <=> f \in DOMAIN l
        <3> SUFFICES ASSUME NEW f
                     PROVE  f \in DOMAIN r <=> f \in DOMAIN l
            OBVIOUS
        <3>1. CASE f \in {"communityAdditive", "extcommunityRtAdditive"}
            BY <1>1, <1>7, <3>1 DEF Has
        <3>2. CASE f = "communityNone"
            BY <1>6, <1>7, <1>8, <3>2
        <3>3. CASE f = "community"
            BY <1>6, <1>7, <1>8, <3>3 DEF On, Has
        <3>4. CASE f \notin {"communityAdditive", "extcommunityRtAdditive", "communityNone", "community"}
            BY <1>6, <1>7, <3>4
        <3> QED
            BY <3>1, <3>2, <3>3, <3>4
    <2> QED
        BY <1>1, <1>7, <2>1 DEF IsAFunction
<1>10. \A f \in DOMAIN l : r[f] = l[f]
    <2> SUFFICES ASSUME NEW f \in DOMAIN l
                 PROVE  r[f] = l[f]
        OBVIOUS
    <2>1. f \in DOMAIN s /\ f \in DOMAIN r
        BY <1>1, <1>6, <1>9 DEF Has
    <2>2. CASE f = "community"
        <3>1. On(s, "communityAdditive") = l["community"][2]
            BY <1>1, <1>3, <1>4, <2>2 DEF On, Has
        <3>2. s["community"] = l["community"][1]
            BY <1>3, <2>1, <2>2
        <3>3. l["community"] = <<l["community"][1], l["community"][2]>>
            BY <1>1, <2>2 DEF Has
        <3> QED
            BY <1>7, <2>1, <2>2, <3>1, <3>2, <3>3
    <2>3. CASE f = "extcommunityRt"
        <3>1. On(s, "extcommunityRtAdditive") = l["extcommunityRt"][2]
            BY <1>1, <1>3, <1>5, <2>3 DEF On, Has
        <3>2. s["extcommunityRt"] = l["extcommunityRt"][1]
            BY <1>3, <2>1, <2>3
        <3>3. l["extcommunityRt"] = <<l["extcommunityRt"][1], l["extcommunityRt"][2]>>
            BY <1>1, <2>3 DEF Has
        <3> QED
            BY <1>7, <2>1, <2>3, <3>1, <3>2, <3>3
    <2>4. CASE f \notin {"community", "extcommunityRt"}
        BY <1>1, <1>3, <1>7, <2>1, <2>4 DEF Has
    <2> QED
        BY <2>2, <2>3, <2>4
<1> QED
    BY <1>1, <1>7, <1>9, <1>10 DEF IsAFunction, r, s

LEMMA EntryComesBack ==
    ASSUME NEW e, MapEntryShown(e)
    PROVE  MapEntryLines(MapEntryFound(e)) = e
<1> DEFINE s == MapEntryFound(e)
           r == MapEntryLines(s)
<1>1. /\ IsAFunction(e)
      /\ "match" \in DOMAIN e => e["match"] # Nothing
      /\ "set" \in DOMAIN e => SetClausesShown(e["set"])
    BY DEF MapEntryShown, Has
<1>2. /\ DOMAIN s = DOMAIN e
      /\ "set" \in DOMAIN e => s["set"] = SetFound(e["set"])
      /\ \A f \in DOMAIN e : f # "set" => s[f] = e[f]
    BY DEF MapEntryFound
<1> HIDE DEF s
<1>3. "set" \in DOMAIN e => SetLines(s["set"]) = e["set"] /\ e["set"] # Nothing
    <2>1. "set" \in DOMAIN e => e["set"] # Nothing
        BY <1>1 DEF SetClausesShown
    <2> QED
        BY <1>1, <1>2, <2>1, ClausesComeBack
<1>4. /\ \A f : f \in DOMAIN r <=>
            /\ f \in DOMAIN s
            /\ f = "match" => s["match"] # Nothing
            /\ f = "set" => SetLines(s["set"]) # Nothing
      /\ "set" \in DOMAIN r => r["set"] = SetLines(s["set"])
      /\ \A f \in DOMAIN r : f # "set" => r[f] = s[f]
      /\ IsAFunction(r)
    BY DEF MapEntryLines, IsAFunction
<1> HIDE DEF r
<1>5. DOMAIN r = DOMAIN e
    <2>1. \A f : f \in DOMAIN r <=> f \in DOMAIN e
        BY <1>1, <1>2, <1>3, <1>4
    <2> QED
        BY <2>1
<1>6. \A f \in DOMAIN e : r[f] = e[f]
    BY <1>2, <1>3, <1>4, <1>5
<1> QED
    BY <1>1, <1>4, <1>5, <1>6 DEF IsAFunction, r, s

LEMMA ListOfSameLength ==
    ASSUME NEW s, IsAList(s), NEW t, IsAFunction(t), DOMAIN t = DOMAIN s
    PROVE  IsAList(t)
<1>1. DOMAIN t = 1 .. Len(s) /\ Len(s) \in Nat
    BY ListOfMembers
<1>2. \A i \in DOMAIN t : t[i] \in ToSet(t)
    BY DEF ToSet
<1>3. t \in Seq(ToSet(t))
    BY <1>1, <1>2 DEF IsAFunction
<1> QED
    BY <1>3 DEF IsAList

\* A list that is in order is sorted into itself.
LEMMA SortedIsSame ==
    ASSUME NEW s, NEW field, InOrderOf(s, field)
    PROVE  InOrder(ToSet(s), [e \in ToSet(s) |-> e[field]]) = s
<1> DEFINE S == ToSet(s)
           key == [e \in S |-> e[field]]
<1>1. s \in Seq(S) /\ \A i \in DOMAIN s : s[i] \in S /\ s[i][field] \in Nat
    BY DEF InOrderOf, IsAList, ToSet
<1>2. \A e \in S : key[e] \in Int
    <2>1. \A e \in S : key[e] = e[field]
        OBVIOUS
    <2>2. \A e \in S : \E i \in DOMAIN s : e = s[i]
        BY DEF ToSet
    <2> HIDE DEF S, key
    <2>3. \A e \in S : e[field] \in Nat
        BY <1>1, <2>2
    <2> QED
        BY <2>1, <2>3
<1>3. \A i, j \in DOMAIN s : i < j => key[s[i]] < key[s[j]]
    <2>1. \A i \in DOMAIN s : key[s[i]] = s[i][field]
        BY <1>1
    <2> QED
        BY <2>1 DEF InOrderOf
<1> HIDE DEF key
<1>4. InOrder(ToSet(s), key) = s
    BY <1>1, <1>2, <1>3, InOrderOfRising
<1> QED
    BY <1>4 DEF key

LEMMA BySeqIsSame ==
    ASSUME NEW args, InOrderOf(args.entries, "seq")
    PROVE  BySeq(args) = args.entries
<1> DEFINE es == args.entries
           last == {i \in DOMAIN es : \A j \in DOMAIN es : es[i].seq = es[j].seq => j <= i}
           shown == {es[i] : i \in last}
<1>1. BySeq(args) = InOrder(shown, [e \in shown |-> e.seq])
    BY DEF BySeq
<1>2. DOMAIN es \subseteq Int
    BY ListOfMembers DEF InOrderOf
<1>3. \A i, j \in DOMAIN es : es[i].seq = es[j].seq => j <= i
    <2> SUFFICES ASSUME NEW i \in DOMAIN es, NEW j \in DOMAIN es, es[i].seq = es[j].seq
                 PROVE  j <= i
        OBVIOUS
    <2>1. es[i]["seq"] \in Nat /\ es[j]["seq"] \in Nat /\ (i < j => es[i]["seq"] < es[j]["seq"])
        BY DEF InOrderOf
    <2> QED
        BY <1>2, <2>1
<1>4. last = DOMAIN es
    BY <1>3
<1>5. shown = ToSet(es)
    BY <1>4 DEF ToSet
<1>6. InOrder(ToSet(es), [e \in ToSet(es) |-> e["seq"]]) = es
    BY SortedIsSame
<1> HIDE DEF shown, es
<1> QED
    BY <1>1, <1>5, <1>6 DEF es

LEMMA RouteMapDriftSeen ==
    ASSUME NEW args, DOMAIN args # {}, NEW c, RunningConfig(c), Following(c, args.name) = <<>>,
           ListRead("routeMap", args, c) = args
    PROVE  InSync("routeMap", args, c)
<1> DEFINE k == "routeMap"
           object == ListObject(k, args)
           own == EntriesOf(c, args.name)
           found == ListFound(k, args, c)
           value == c[<<object, "entries">>]
           lines == ListLines(k, args)
           parsed == [i \in DOMAIN own |-> MapEntryFound(own[i])]
<1>1. k \in ListKinds /\ object[1] = k /\ k \in Features /\ Knobs(k) = {"entries"}
    BY DEF ListKinds, ListObject, Features, Knobs
<1>2. found # Nothing /\ \A f \in DOMAIN found : f \in DOMAIN args /\ args[f] = found[f]
    BY <1>1, ListReadSame
<1>3. found = RouteMapFound(args, c)
    BY DEF ListFound
<1>4. own # <<>> /\ found = [entries |-> parsed]
    <2> HIDE DEF own, parsed, found
    <2>1. own # <<>>
        BY <1>2, <1>3 DEF RouteMapFound, own
    <2> QED
        BY <1>3, <2>1 DEF RouteMapFound, own, parsed
<1>5. args.entries = parsed
    <2> HIDE DEF parsed, found
    <2>1. "entries" \in DOMAIN found /\ found["entries"] = parsed
        BY <1>4
    <2> QED
        BY <1>2, <2>1
<1>6. <<object, "entries">> \in DOMAIN c /\ own = value
    <2>1. object = MapObject(args.name)
        BY DEF ListObject, MapObject
    <2>2. <<object, "entries">> \notin DOMAIN c => own = <<>>
        BY <2>1 DEF EntriesOf, Shown, Or, Has
    <2>3. <<object, "entries">> \in DOMAIN c => own = value
        BY <2>1 DEF EntriesOf, Shown, Or, Has
    <2> HIDE DEF own, value, object
    <2> QED
        BY <1>4, <2>2, <2>3
<1>7. InOrderOf(value, "seq") /\ \A i \in DOMAIN value : MapEntryShown(value[i])
    <2>1. ValueShown(k, "entries", value)
        BY <1>1, <1>6, LinesOf
    <2> QED
        BY <2>1 DEF ValueShown
<1> HIDE DEF value, object, found, own
<1>8. DOMAIN parsed = DOMAIN value /\ IsAFunction(parsed)
      /\ \A i \in DOMAIN value : parsed[i] = MapEntryFound(value[i])
    BY <1>6 DEF IsAFunction
<1>9. IsAList(value) /\ IsAFunction(value)
    BY <1>7, ListOfMembers DEF InOrderOf, IsAFunction
<1> HIDE DEF parsed
<1>10. InOrderOf(args.entries, "seq")
    <2>1. IsAList(parsed)
        BY <1>8, <1>9, ListOfSameLength
    <2>2. \A i \in DOMAIN value : "seq" \in DOMAIN parsed[i] /\ parsed[i]["seq"] = value[i]["seq"]
        <3> SUFFICES ASSUME NEW i \in DOMAIN value
                     PROVE  LET e == MapEntryFound(value[i])
                            IN  "seq" \in DOMAIN e /\ e["seq"] = value[i]["seq"]
            BY <1>8
        <3>1. "seq" \in DOMAIN value[i]
            BY <1>7 DEF InOrderOf
        <3> QED
            BY <3>1 DEF MapEntryFound
    <2>3. InOrderOf(parsed, "seq")
        BY <1>7, <1>8, <2>1, <2>2 DEF InOrderOf
    <2> QED
        BY <1>5, <2>3
<1>11. DOMAIN lines = {"entries"}
       /\ lines["entries"] = [i \in DOMAIN BySeq(args) |-> MapEntryLines(BySeq(args)[i])]
    BY DEF ListLines, RouteMapLines
<1>12. BySeq(args) = parsed
    BY <1>5, <1>10, BySeqIsSame
<1> HIDE DEF lines
<1>13. lines["entries"] = value
    <2>1. \A i \in DOMAIN value : MapEntryLines(parsed[i]) = value[i]
        BY <1>7, <1>8, EntryComesBack
    <2>2. lines["entries"] = [i \in DOMAIN value |-> value[i]]
        BY <1>8, <1>11, <1>12, <2>1
    <2> QED
        BY <1>9, <2>2 DEF IsAFunction
<1> QED
    BY <1>1, <1>6, <1>11, <1>13, ListSync DEF object, lines, value

LEMMA RcfDriftSeen ==
    ASSUME NEW args, DOMAIN args # {}, NEW c, RunningConfig(c), RcfValid(args),
           OneRead("rcf", args, c) = args
    PROVE  InSync("rcf", args, c)
<1> DEFINE k == "rcf"
           object == Object(k, args)
           objects == {object}
           unit == c[<<object, "unit">>]
           found == Found(k, args, c)
           lines == Lines(k, args)
           set == OneBlock(k, args).set
<1>1. k \in OneObjectKinds /\ object[1] = k /\ k \in Features /\ Knobs(k) = {"unit"}
      /\ Base(k, args) = args /\ Entered(k, args) = {} /\ Rows(k, args) = Nothing
      /\ k # "vxlanInterface"
    BY DEF OneObjectKinds, RebuildKinds, Object, Features, Knobs, Base, Entered, Rows
<1>2. ~Missing(k, args, c) /\ Overlay(args, found) = args
    <2> HIDE DEF found
    <2> QED
        BY <1>1, NothingDomain DEF OneRead, found
<1>3. <<object, "unit">> \in DOMAIN c
    BY <1>2 DEF Missing, RcfMissing
<1>4. unit = <<unit[1], unit[2]>> /\ unit[1] \in {"code", "sourceFile"}
    <2>1. ValueShown(k, "unit", unit)
        BY <1>1, <1>3, LinesOf
    <2> HIDE DEF unit
    <2> QED
        BY <2>1 DEF ValueShown
<1>5. found = [f \in {"code", "sourceFile"} \cap {unit[1]} |-> unit[2]]
    <2> DEFINE shown == Shown(c, object, {"unit"})
    <2>1. "unit" \in DOMAIN shown /\ shown["unit"] = unit
        BY <1>3, ShownValues
    <2> HIDE DEF shown, unit
    <2>2. Or(shown, "unit", <<"", "">>) = unit
        BY <2>1 DEF Or, Has
    <2> QED
        BY <2>2 DEF Found, RcfFound, shown
<1> HIDE DEF unit, object, found, lines
<1>6. unit[1] \in DOMAIN args /\ args[unit[1]] = unit[2]
    <2>1. unit[1] \in DOMAIN found /\ found[unit[1]] = unit[2]
        BY <1>4, <1>5
    <2> QED
        BY <1>2, <2>1, OverlaySame
<1>7. DOMAIN args \cap RcfDeliveries = {unit[1]}
    <2> DEFINE given == DOMAIN args \cap RcfDeliveries
    <2>1. IsFiniteSet(given)
        <3>1. IsFiniteSet({"code"}) /\ IsFiniteSet({"sourceFile"}) /\ IsFiniteSet({"sourceUrl"})
            BY FS_Singleton
        <3>2. IsFiniteSet({"code"} \cup {"sourceFile"})
            BY <3>1, FS_Union
        <3>3. IsFiniteSet(({"code"} \cup {"sourceFile"}) \cup {"sourceUrl"})
            BY <3>1, <3>2, FS_Union
        <3>4. given \subseteq ({"code"} \cup {"sourceFile"}) \cup {"sourceUrl"}
            BY DEF RcfDeliveries
        <3> HIDE DEF given
        <3> QED
            BY <3>3, <3>4, FS_Subset
    <2>2. unit[1] \in given
        BY <1>4, <1>6 DEF RcfDeliveries
    <2>3. Cardinality(given) = 1
        BY DEF RcfValid
    <2> HIDE DEF given
    <2>4. \E m : given = {m}
        BY <2>1, <2>3, FS_Singleton
    <2> QED
        BY <2>2, <2>4 DEF given
<1>8. lines = [unit |-> unit]
    <2>1. lines = RcfLines(args)
        BY DEF Lines, lines
    <2>2. CASE unit[1] = "code"
        <3>1. Has(args, "code") /\ ~Has(args, "sourceFile") /\ ~Has(args, "sourceUrl")
            BY <1>6, <1>7, <2>2 DEF Has, RcfDeliveries
        <3>2. args.code = unit[2]
            BY <1>6, <2>2
        <3> QED
            BY <1>4, <2>1, <2>2, <3>1, <3>2 DEF RcfLines
    <2>3. CASE unit[1] = "sourceFile"
        <3>1. Has(args, "sourceFile") /\ ~Has(args, "code") /\ ~Has(args, "sourceUrl")
            BY <1>6, <1>7, <2>3 DEF Has, RcfDeliveries
        <3>2. args.sourceFile = unit[2]
            BY <1>6, <2>3
        <3> QED
            BY <1>4, <2>1, <2>3, <3>1, <3>2 DEF RcfLines
    <2> QED
        BY <1>4, <2>2, <2>3
<1>9. Block(k, args) = OneBlock(k, args) /\ Objects(k, args) = objects
    BY <1>1, ByKind DEF object
<1>10. DOMAIN set = {<<object, "unit">>} /\ set[<<object, "unit">>] = unit
    <2> DEFINE H == Headers({})
               U == Under(object, lines)
               R == RowsUnder(object, Nothing)
    <2>1. set = Overlay(Overlay(H, U), R)
        BY <1>1 DEF OneBlock, Rebuilds, Sets, object, lines
    <2>2. DOMAIN H = {}
        BY DEF Headers
    <2>3. DOMAIN R = {}
        BY NothingDomain DEF RowsUnder
    <2>4. DOMAIN U = {<<object, "unit">>} /\ U[<<object, "unit">>] = unit
        BY <1>8 DEF Under
    <2> HIDE DEF H, U, R, set
    <2> QED
        BY <2>1, <2>2, <2>3, <2>4 DEF Overlay
<1> HIDE DEF set
<1>11. ~IsDefault("unit", unit)
    BY NeverDefault DEF Default
<1>12. \A p \in DOMAIN c : p[1] \in objects => p \in DOMAIN set /\ c[p] = set[p]
    <2> SUFFICES ASSUME NEW p \in DOMAIN c, p[1] = object
                 PROVE  p \in DOMAIN set /\ c[p] = set[p]
        OBVIOUS
    <2>1. p = <<object, p[2]>> /\ p[2] \in Knobs(k)
        BY <1>1, LinesOf
    <2> QED
        BY <1>1, <1>10, <2>1 DEF unit
<1>13. \A p \in DOMAIN set : p \in DOMAIN c /\ ~IsDefault(p[2], set[p])
    BY <1>3, <1>10, <1>11
<1> HIDE DEF objects
<1> QED
    BY <1>9, <1>12, <1>13, SyncByLines DEF set

LEMMA ListDriftSeen ==
    ASSUME NEW k \in ListKinds \ {"prefixList"}, NEW args, DOMAIN args # {}, NEW c,
           RunningConfig(c), k = "routeMap" => Following(c, args.name) = <<>>,
           ListRead(k, args, c) = args
    PROVE  InSync(k, args, c)
<1>1. k \in {"communityList", "extCommunityList"} \/ k = "asPathList" \/ k = "routeMap"
    BY DEF ListKinds
<1> QED
    BY <1>1, CommunityDriftSeen, AsPathDriftSeen, RouteMapDriftSeen

\* not the name that EOS makes up for a VLAN without one
NameOfItsOwn(args) == Or(args, "name", "") # AutoName

LEMMA ReadSameInSync ==
    ASSUME NEW k \in FullyRead, NEW args, DOMAIN args # {}, Valid(k, args),
           k = "vlan" => NameOfItsOwn(args), NEW c, RunningConfig(c),
           k = "routeMap" => Following(c, args.name) = <<>>,
           ReadBack(k, args, c) = args
    PROVE  InSync(k, args, c)
<1>1. CASE k = "vlan"
    <2>1. VlanRead(args, c) = args
        BY <1>1, ReadByKind
    <2> QED
        BY <1>1, <2>1, VlanDriftSeen DEF NameOfItsOwn
<1>2. CASE k = "varp"
    <2>1. VarpRead(args, c) = args
        BY <1>2, ReadByKind
    <2> QED
        BY <1>2, <2>1, VarpDriftSeen
<1>3. CASE k = "rcf"
    <2>1. k \in OneObjectKinds
        BY <1>3 DEF OneObjectKinds, RebuildKinds
    <2>2. RcfValid(args)
        BY <1>3 DEF Valid, RawKinds
    <2>3. OneRead("rcf", args, c) = args
        BY <1>3, <2>1, ReadByKind
    <2> QED
        BY <1>3, <2>2, <2>3, RcfDriftSeen
<1>4. CASE k \in ListKinds \ {"prefixList"}
    <2>1. ReadBack(k, args, c) = ListRead(k, args, c)
        BY <1>4, ReadByKind
    <2> QED
        BY <1>4, <2>1, ListDriftSeen
<1> QED
    BY <1>1, <1>2, <1>3, <1>4 DEF FullyRead

\* A refresh that shows no difference has found on the device just what the
\* inputs say, for the kinds whose Read sees every knob.
THEOREM DriftAlwaysReported == LifeSpec => []DriftReported
<1>1. LifeInv => DriftReported
    <2> SUFFICES ASSUME LifeInv, recorded # Nothing, kind \in FullyRead,
                        Valid(kind, recorded.inputs),
                        kind = "vlan" => Or(recorded.inputs, "name", "") # AutoName,
                        OnItsOwn(recorded.inputs), RefreshShowsNoDiff
                 PROVE  InSync(kind, recorded.inputs, config)
        BY DEF DriftReported
    <2>1. RunningConfig(config) /\ DOMAIN recorded.inputs # {}
        BY RecordedInputs DEF LifeInv, LifeTypeOK, DeviceTypeOK
    <2>2. kind = "routeMap" => Following(config, recorded.inputs.name) = <<>>
        BY DEF OnItsOwn
    <2>3. ReadBack(kind, recorded.inputs, config) = recorded.inputs
        BY DEF RefreshShowsNoDiff
    <2> QED
        BY <2>1, <2>2, <2>3, ReadSameInSync DEF NameOfItsOwn
<1> QED
    BY <1>1, LifeInvHolds, PTL
=============================================================================
