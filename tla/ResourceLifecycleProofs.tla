---------------------- MODULE ResourceLifecycleProofs -----------------------
(***************************************************************************)
(* Proofs about ResourceLifecycle, for any inputs, any changes by others   *)
(* and any number of them: what a successful apply makes of the device,    *)
(* what it leaves alone, and what a Delete takes away.                     *)
(***************************************************************************)
EXTENDS ResourceLifecycle, DeviceLinesProofs

-----------------------------------------------------------------------------
(***************************************************************************)
(* Executing a block.                                                      *)
(***************************************************************************)
\* Two configurations with the same lines under some objects.
LEMMA SamePart ==
    ASSUME NEW c, NEW d, NEW objects,
           \A p : p[1] \in objects => (p \in DOMAIN c <=> p \in DOMAIN d),
           \A p \in DOMAIN c : p[1] \in objects => c[p] = d[p]
    PROVE  Part(c, objects) = Part(d, objects)
<1>1. {q \in DOMAIN c : q[1] \in objects} = {q \in DOMAIN d : q[1] \in objects}
    OBVIOUS
<1> QED
    BY <1>1 DEF Part

\* A block that drops objects leaves the same under them whatever was there.
LEMMA RebuildIgnoresThePast ==
    ASSUME NEW c, NEW b, NEW objects, objects \subseteq b.drop
    PROVE  Part(Exec(c, b), objects) = Part(Exec(Empty, b), objects)
<1>1. \A p : p[1] \in objects => Within(p[1], b.drop)
    BY DEF Within
<1>2. \A p : p[1] \in objects => (p \in DOMAIN Exec(c, b) <=> p \in DOMAIN Exec(Empty, b))
    BY <1>1, ExecDomain
<1>3. \A p \in DOMAIN Exec(c, b) : p[1] \in objects => p \in DOMAIN b.set
    BY <1>1, ExecDomain
<1>4. \A p \in DOMAIN Exec(c, b) : p[1] \in objects => Exec(c, b)[p] = Exec(Empty, b)[p]
    <2> SUFFICES ASSUME NEW p \in DOMAIN Exec(c, b), p[1] \in objects
                 PROVE  Exec(c, b)[p] = Exec(Empty, b)[p]
        OBVIOUS
    <2>1. p \in DOMAIN Exec(Empty, b) /\ p \in DOMAIN b.set
        BY <1>2, <1>3
    <2> QED
        BY <2>1, ExecValues
<1> QED
    BY <1>2, <1>4, SamePart

\* Dropping objects, and setting nothing under them, leaves nothing there.
LEMMA DropsLeaveNothing ==
    ASSUME NEW c, NEW b, NEW objects,
           objects \subseteq b.drop,
           \A p \in DOMAIN b.set : p[1] \notin objects
    PROVE  Part(Exec(c, b), objects) = Empty
<1>1. \A p \in DOMAIN Exec(c, b) : p[1] \notin objects
    BY ExecDomain DEF Within
<1> QED
    BY <1>1 DEF Part, Empty

\* A block that only names some objects, and the headers of others, leaves the
\* rest alone.
Confined(block, objects, entered) ==
    /\ block.drop \subseteq objects
    /\ \A entry \in block.negate : entry[1][1] \in objects
    /\ \A p \in DOMAIN block.set : p[1] \in objects \/ p \in DOMAIN Headers(entered)

LEMMA ConfinedLeavesOthers ==
    ASSUME NEW block, NEW objects, NEW entered,
           Confined(block, objects, entered), config' = Exec(config, block)
    PROVE  Untouched(objects, entered)
<1> SUFFICES ASSUME NEW p \in DOMAIN config \cup DOMAIN config',
                    ~Within(p[1], objects), p \notin DOMAIN Headers(entered)
             PROVE  p \in DOMAIN config \cap DOMAIN config' /\ config'[p] = config[p]
    BY DEF Untouched
<1>1. p[1] \notin objects
    BY DEF Within
<1>2. p \notin DOMAIN block.set
    BY <1>1 DEF Confined
<1>3. ~Within(p[1], block.drop)
    BY DEF Confined, Within
<1>4. <<p, config[p]>> \notin block.negate
    BY <1>1 DEF Confined
<1>5. p \in DOMAIN config <=> p \in DOMAIN config'
    BY <1>2, <1>3, <1>4, ExecDomain
<1>6. config'[p] = config[p]
    BY <1>2, <1>5, ExecValues
<1> QED
    BY <1>5, <1>6

-----------------------------------------------------------------------------
(***************************************************************************)
(* What the blocks of the kinds name.                                      *)
(***************************************************************************)
LEMMA BlockIsConfined ==
    ASSUME NEW k \in AllKinds, NEW args
    PROVE  Confined(Block(k, args), Objects(k, args), OnTheWay(k, args))
<1>1. CASE k = "vlan"
    <2>1. Block(k, args) = VlanBlock(args) /\ Objects(k, args) = VlanObjects(args)
        BY <1>1, ByKind
    <2> QED
        BY <2>1 DEF Confined, VlanBlock, VlanObjects, Sets, Named
<1>2. CASE k = "vlanRange"
    <2>1. Block(k, args) = RangeBlock(args) /\ Objects(k, args) = RangeObjects(args)
        BY <1>2, ByKind
    <2> QED
        BY <2>1 DEF Confined, RangeBlock, Sets, Named
<1>3. CASE k = "varp"
    BY <1>3, ByKind DEF Confined, VarpBlock, VarpObjects, Rebuilds, VarpMac
<1>4. CASE k = "mlag"
    <2>1. Block(k, args) = MlagBlock(args) /\ Objects(k, args) = MlagObjects(args)
        BY <1>4, ByKind
    <2> QED
        BY <2>1 DEF Confined, MlagBlock, MlagObjects, Rebuilds, Under
<1>5. CASE k = "staticRoute"
    <2>1. Block(k, args) = RouteBlock(args) /\ Objects(k, args) = RouteObjects(args)
        BY <1>5, ByKind
    <2> QED
        BY <2>1 DEF Confined, RouteBlock, Rebuilds
<1>6. CASE k = "policyBasedRouting"
    BY <1>6, ByKind, PbrBlockShape DEF Confined, PbrObjects
<1>7. CASE k \in ListKinds
    <2>1. Block(k, args) = ListBlock(k, args) /\ Objects(k, args) = {ListObject(k, args)}
        BY <1>7, ByKind
    <2> QED
        BY <2>1 DEF Confined, ListBlock, Rebuilds, Under
<1>8. CASE k \in OneObjectKinds
    <2>1. Block(k, args) = OneBlock(k, args) /\ Objects(k, args) = {Object(k, args)}
        BY <1>8, ByKind
    <2> QED
        BY <1>8, <2>1, OneObjectBlock DEF Confined, OnTheWay
<1>9. CASE k \in RawKinds
    BY <1>9, ByKind DEF Confined, RawObjects, Reached
<1> QED
    BY <1>1, <1>2, <1>3, <1>4, <1>5, <1>6, <1>7, <1>8, <1>9 DEF AllKinds

LEMMA RemovalIsConfined ==
    ASSUME NEW k \in AllKinds, NEW args
    PROVE  Confined(Removal(k, args), Objects(k, args), OnTheWay(k, args))
<1>1. CASE k = "vlan"
    BY <1>1, ByKind DEF Confined, VlanRemoval, Drops, Empty
<1>2. CASE k = "vlanRange"
    BY <1>2, ByKind DEF Confined, RangeRemoval, Drops, Empty
<1>3. CASE k = "varp"
    BY <1>3, ByKind DEF Confined, VarpRemoval, VarpObjects, Negates, VarpMac, Empty
<1>4. CASE k = "mlag"
    BY <1>4, ByKind DEF Confined, MlagRemoval, MlagObjects, Drops, Empty
<1>5. CASE k = "staticRoute"
    BY <1>5, ByKind DEF Confined, RouteRemoval, Drops, Empty
<1>6. CASE k = "policyBasedRouting"
    <2>1. Removal(k, args) = PbrRemoval(args) /\ Objects(k, args) = PbrObjects(args)
        BY <1>6, ByKind
    <2>2. PbrRemoval(args).drop = {PolicyMap(args)} /\ PbrRemoval(args).set = Empty
        BY DEF PbrRemoval, Drops
    <2>3. \A entry \in PbrRemoval(args).negate : \E i \in Attached(args) :
            entry = <<<<ServicePolicy(i), "policy">>, args.name>>
        BY DEF PbrRemoval, Drops
    <2> QED
        BY <2>1, <2>2, <2>3 DEF Confined, PbrObjects, Empty
<1>7. CASE k \in ListKinds
    BY <1>7, ByKind DEF Confined, ListRemoval, Drops, Empty
<1>8. CASE k \in OneObjectKinds
    BY <1>8, ByKind DEF Confined, OneRemoval, Rebuilds, OnTheWay
<1>9. CASE k \in RawKinds
    BY <1>9, ByKind DEF Confined, RawObjects, Reached
<1> QED
    BY <1>1, <1>2, <1>3, <1>4, <1>5, <1>6, <1>7, <1>8, <1>9 DEF AllKinds

\* Applying a block of a rebuilt kind brings the device in sync.
LEMMA RebuiltBlockSyncs ==
    ASSUME NEW k \in Rebuilt, NEW args, NEW c
    PROVE  InSync(k, args, Exec(c, Block(k, args)))
<1>1. Objects(k, args) \subseteq Block(k, args).drop
    <2>1. CASE k = "varp"
        BY <2>1, ByKind DEF VarpBlock, VarpObjects, Rebuilds
    <2>2. CASE k = "mlag"
        BY <2>2, ByKind DEF MlagBlock, MlagObjects, Rebuilds
    <2>3. CASE k = "staticRoute"
        <3>1. Block(k, args) = RouteBlock(args) /\ Objects(k, args) = RouteObjects(args)
            BY <2>3, ByKind
        <3> QED
            BY <3>1 DEF RouteBlock, Rebuilds
    <2>4. CASE k = "policyBasedRouting"
        BY <2>4, ByKind, PbrBlockShape
    <2>5. CASE k \in ListKinds
        BY <2>5, ByKind DEF ListBlock, Rebuilds
    <2>6. CASE k \in RebuildKinds
        <3>1. k \in OneObjectKinds
            BY <2>6 DEF OneObjectKinds
        <3>2. Block(k, args) = OneBlock(k, args) /\ Objects(k, args) = {Object(k, args)}
            BY <3>1, ByKind
        <3> QED
            BY <2>6, <3>1, <3>2, OneObjectBlock
    <2> QED
        BY <2>1, <2>2, <2>3, <2>4, <2>5, <2>6 DEF Rebuilt
<1> QED
    BY <1>1, RebuildIgnoresThePast DEF InSync, Wanted

\* The blocks of the other kinds only set.
LEMMA OtherBlocksOnlySet ==
    ASSUME NEW k \in AllKinds, k \notin Rebuilt \cup RawKinds, NEW args
    PROVE  Block(k, args).drop = {} /\ Block(k, args).negate = {}
<1>1. CASE k = "vlan"
    BY <1>1, ByKind DEF VlanBlock, Sets
<1>2. CASE k = "vlanRange"
    BY <1>2, ByKind DEF RangeBlock, Sets
<1>3. CASE k \in MergeKinds
    <2>1. k \in OneObjectKinds /\ k \notin RebuildKinds
        BY <1>3 DEF OneObjectKinds, MergeKinds, RebuildKinds
    <2>2. Block(k, args) = OneBlock(k, args)
        BY <2>1, ByKind
    <2>3. OneBlock(k, args).negate = {} /\ OneBlock(k, args).drop = {}
        BY <2>1, OneObjectBlock
    <2> QED
        BY <2>2, <2>3
<1> QED
    BY <1>1, <1>2, <1>3 DEF AllKinds, OneObjectKinds, Rebuilt

-----------------------------------------------------------------------------
(***************************************************************************)
(* A successful apply of a rebuilt kind makes the device what the inputs   *)
(* say, whatever came before.                                              *)
(***************************************************************************)
LEMMA AppliedSyncs ==
    ASSUME Create \/ Update, kind \in Rebuilt
    PROVE  InSync(kind, program, config')
<1>1. config' = Exec(config, Block(kind, program))
    BY DEF Create, Update, Applied
<1> QED
    BY <1>1, RebuiltBlockSyncs

\* Create and Update converge from any running-config: nothing that earlier
\* inputs, late blocks or other operators left under the objects survives.
THEOREM ApplyAlwaysConverges == LifeSpec => ApplyConverges
<1>1. [LifeNext]_lifeVars =>
        [(Create \/ Update) /\ kind \in Rebuilt => InSync(kind, program, config')]_lifeVars
    BY AppliedSyncs
<1> QED
    BY <1>1, PTL DEF LifeSpec, ApplyConverges

\* Of a block that only sets, a fresh device shows no path it does not set.
LEMMA SettingBlockWanted ==
    ASSUME NEW b, b.drop = {}, b.negate = {}
    PROVE  \A p : p \in DOMAIN Exec(Empty, b) <=>
                p \in DOMAIN b.set /\ ~IsDefault(p[2], b.set[p])
<1>1. DOMAIN Empty = {}
    BY DEF Empty
<1> QED
    BY <1>1, ExecDomain

LEMMA GrowthSyncs ==
    ASSUME NEW c, NEW objects, NEW old, NEW new,
           old.drop = {}, old.negate = {}, new.drop = {}, new.negate = {},
           DOMAIN old.set \subseteq DOMAIN new.set,
           Part(c, objects) = Part(Exec(Empty, old), objects)
    PROVE  Part(Exec(c, new), objects) = Part(Exec(Empty, new), objects)
<1>1. \A p \in DOMAIN c : p[1] \in objects => p \in DOMAIN new.set
    <2> SUFFICES ASSUME NEW p \in DOMAIN c, p[1] \in objects
                 PROVE  p \in DOMAIN new.set
        OBVIOUS
    <2>1. p \in DOMAIN Part(c, objects)
        BY DEF Part
    <2>2. p \in DOMAIN Exec(Empty, old)
        BY <2>1 DEF Part
    <2> QED
        BY <2>2, SettingBlockWanted
<1>2. \A p : p[1] \in objects => (p \in DOMAIN Exec(c, new) <=> p \in DOMAIN Exec(Empty, new))
    <2> SUFFICES ASSUME NEW p, p[1] \in objects
                 PROVE  p \in DOMAIN Exec(c, new) <=> p \in DOMAIN Exec(Empty, new)
        OBVIOUS
    <2>1. p \notin DOMAIN c \ DOMAIN new.set
        BY <1>1
    <2>2. p \in DOMAIN Exec(c, new) <=> p \in DOMAIN new.set /\ ~IsDefault(p[2], new.set[p])
        BY <2>1, ExecDomain
    <2> QED
        BY <2>2, SettingBlockWanted
<1>3. \A p \in DOMAIN Exec(c, new) : p[1] \in objects => Exec(c, new)[p] = Exec(Empty, new)[p]
    <2> SUFFICES ASSUME NEW p \in DOMAIN Exec(c, new), p[1] \in objects
                 PROVE  Exec(c, new)[p] = Exec(Empty, new)[p]
        OBVIOUS
    <2>1. p \in DOMAIN Exec(Empty, new)
        BY <1>2
    <2>2. p \in DOMAIN new.set
        BY <2>1, SettingBlockWanted
    <2> QED
        BY <2>1, <2>2, ExecValues
<1> QED
    BY <1>2, <1>3, SamePart

KindKnown == kind \in AllKinds

\* The additive kinds converge when the program keeps the lines of the recorded
\* inputs and the device has been left as those say: whatever values change and
\* whatever lines are added, for any inputs.
THEOREM GrowingUpdateAlwaysConverges == LifeSpec => GrowingUpdateConverges
<1>1. LifeInit => KindKnown
    BY LifecycleAssumption DEF LifeInit, KindKnown
<1>2. KindKnown /\ [LifeNext]_lifeVars => KindKnown'
    BY DEF KindKnown, LifeNext, lifeVars, Create, Update, Delete, Same, Refresh, RefreshProbesFail, Applied,
           CreateFails, UpdateFails, DeleteFails, ApplyFails, Edit, LateCommit, Drift
<1>3. KindKnown /\ [LifeNext]_lifeVars =>
        [/\ Update
         /\ kind \notin Rebuilt \cup RawKinds
         /\ InSync(kind, recorded.inputs, config)
         /\ Objects(kind, program) = Objects(kind, recorded.inputs)
         /\ DOMAIN Block(kind, recorded.inputs).set \subseteq DOMAIN Block(kind, program).set
         => InSync(kind, program, config')]_lifeVars
    <2> SUFFICES ASSUME KindKnown,
                        Update,
                        kind \notin Rebuilt \cup RawKinds,
                        InSync(kind, recorded.inputs, config),
                        Objects(kind, program) = Objects(kind, recorded.inputs),
                        DOMAIN Block(kind, recorded.inputs).set
                            \subseteq DOMAIN Block(kind, program).set
                 PROVE  InSync(kind, program, config')
        OBVIOUS
    <2> DEFINE old == Block(kind, recorded.inputs)
               new == Block(kind, program)
    <2>1. old.drop = {} /\ old.negate = {} /\ new.drop = {} /\ new.negate = {}
        BY OtherBlocksOnlySet DEF KindKnown
    <2>2. Part(config, Objects(kind, program)) = Part(Exec(Empty, old), Objects(kind, program))
        BY DEF InSync, Wanted
    <2>3. config' = Exec(config, new)
        BY DEF Update, Applied
    <2>4. DOMAIN old.set \subseteq DOMAIN new.set
        OBVIOUS
    <2> HIDE DEF old, new
    <2>5. Part(Exec(config, new), Objects(kind, program))
            = Part(Exec(Empty, new), Objects(kind, program))
        BY <2>1, <2>2, <2>4, GrowthSyncs
    <2> QED
        BY <2>3, <2>5 DEF InSync, Wanted, new
<1> QED
    BY <1>1, <1>2, <1>3, PTL DEF LifeSpec, GrowingUpdateConverges

-----------------------------------------------------------------------------
(***************************************************************************)
(* What Read keeps: the fields that name the objects of a resource.        *)
(***************************************************************************)
SameIdentity(k, args, state) ==
    /\ k = "vlan" => state.id = args.id
    /\ k = "vlanRange" => state.start = args.start /\ state.end = args.end
    /\ k \in ListKinds => state.name = args.name
    /\ k = "policyBasedRouting" => state.name = args.name /\ Attached(state) = Attached(args)
    /\ k \in OneObjectKinds =>
        \A f \in Identity(k) :
            /\ f \in DOMAIN state <=> f \in DOMAIN args
            /\ f \in DOMAIN args => state[f] = args[f]
    /\ k \in RawKinds => state = args

LEMMA SameObject ==
    ASSUME NEW k \in OneObjectKinds, NEW args, NEW state, SameIdentity(k, args, state)
    PROVE  Object(k, state) = Object(k, args)
<1>1. DOMAIN state \cap Identity(k) = DOMAIN args \cap Identity(k)
    BY DEF SameIdentity
<1>2. \A f \in DOMAIN args \cap Identity(k) : state[f] = args[f]
    BY DEF SameIdentity
<1>3. Given(state, Identity(k)) = Given(args, Identity(k))
    BY <1>1, <1>2 DEF Given
<1> QED
    BY <1>3 DEF Object

LEMMA SameObjects ==
    ASSUME NEW k \in AllKinds, k # "staticRoute", NEW args, NEW state, SameIdentity(k, args, state)
    PROVE  Objects(k, state) = Objects(k, args)
<1>1. CASE k = "vlan"
    <2>1. Objects(k, state) = VlanObjects(state) /\ Objects(k, args) = VlanObjects(args)
        BY <1>1, ByKind
    <2>2. state.id = args.id
        BY <1>1 DEF SameIdentity
    <2> QED
        BY <2>1, <2>2 DEF VlanObjects
<1>2. CASE k = "vlanRange"
    <2>1. Objects(k, state) = RangeObjects(state) /\ Objects(k, args) = RangeObjects(args)
        BY <1>2, ByKind
    <2>2. state.start = args.start /\ state.end = args.end
        BY <1>2 DEF SameIdentity
    <2> QED
        BY <2>1, <2>2 DEF RangeObjects
<1>3. CASE k = "varp"
    BY <1>3, ByKind DEF VarpObjects
<1>4. CASE k = "mlag"
    BY <1>4, ByKind DEF MlagObjects
<1>5. CASE k = "policyBasedRouting"
    <2>1. PolicyMap(state) = PolicyMap(args) /\ Attached(state) = Attached(args)
        BY <1>5 DEF PolicyMap, SameIdentity
    <2>2. PbrObjects(state) = PbrObjects(args)
        BY <2>1 DEF PbrObjects
    <2>3. Objects(k, state) = PbrObjects(state) /\ Objects(k, args) = PbrObjects(args)
        BY <1>5, ByKind
    <2> QED
        BY <2>2, <2>3
<1>6. CASE k \in ListKinds
    <2>1. ListObject(k, state) = ListObject(k, args)
        BY <1>6 DEF ListObject, SameIdentity
    <2>2. Objects(k, state) = {ListObject(k, state)} /\ Objects(k, args) = {ListObject(k, args)}
        BY <1>6, ByKind
    <2> QED
        BY <2>1, <2>2
<1>7. CASE k \in OneObjectKinds
    <2>1. Object(k, state) = Object(k, args)
        BY <1>7, SameObject
    <2>2. Objects(k, state) = {Object(k, state)} /\ Objects(k, args) = {Object(k, args)}
        BY <1>7, ByKind
    <2> QED
        BY <2>1, <2>2
<1>8. CASE k \in RawKinds
    BY <1>8 DEF SameIdentity
<1> QED
    BY <1>1, <1>2, <1>3, <1>4, <1>5, <1>6, <1>7, <1>8 DEF AllKinds

LEMMA SameEntered ==
    ASSUME NEW k \in OneObjectKinds, NEW args, NEW state, SameIdentity(k, args, state),
           Identity(k) \subseteq DOMAIN args \/ k = "routerOspf"
    PROVE  Entered(k, state) = Entered(k, args)
<1>1. CASE k = "vrrp"
    <2>1. "interface" \in Identity(k)
        BY <1>1 DEF Identity
    <2>2. state.interface = args.interface
        BY <1>1, <2>1 DEF SameIdentity
    <2> QED
        BY <1>1, <2>2 DEF Entered
<1>2. CASE k = "evpnEthernetSegment"
    <2>1. "parentInterface" \in Identity(k)
        BY <1>2 DEF Identity
    <2>2. state.parentInterface = args.parentInterface
        BY <1>2, <2>1 DEF SameIdentity
    <2> QED
        BY <1>2, <2>2 DEF Entered
<1>3. CASE k = "rpki"
    <2>1. "bgpAsn" \in Identity(k)
        BY <1>3 DEF Identity
    <2>2. state.bgpAsn = args.bgpAsn
        BY <1>3, <2>1 DEF SameIdentity
    <2> QED
        BY <1>3, <2>2 DEF Entered
<1>4. CASE k \notin {"vrrp", "evpnEthernetSegment", "rpki"}
    BY <1>4 DEF Entered
<1> QED
    BY <1>1, <1>2, <1>3, <1>4

\* What Read finds of a list is never its name.
LEMMA FoundHasNoName ==
    ASSUME NEW k \in ListKinds, NEW args, NEW c
    PROVE  "name" \notin DOMAIN ListFound(k, args, c)
<1>1. CASE k = "prefixList"
    BY <1>1 DEF ListFound, PrefixListFound, Shown
<1>2. CASE k = "communityList"
    BY <1>2 DEF ListFound, CommunityListFound, Shown
<1>3. CASE k = "extCommunityList"
    BY <1>3 DEF ListFound, ExtCommunityListFound, Shown
<1>4. CASE k = "asPathList"
    BY <1>4 DEF ListFound, AsPathListFound, Shown
<1>5. CASE k = "routeMap"
    BY <1>5 DEF ListFound, RouteMapFound, Nothing
<1> QED
    BY <1>1, <1>2, <1>3, <1>4, <1>5 DEF ListKinds

LEMMA SwitchportFoundDomain ==
    ASSUME NEW c, NEW object
    PROVE  DOMAIN SwitchportFound(c, object) \subseteq SwitchportFields
<1> DEFINE routed == IF <<object, "routed">> \in DOMAIN c THEN [switchportMode |-> "routed"]
                     ELSE Nothing
<1>1. DOMAIN routed \subseteq {"switchportMode"}
    BY NothingDomain
<1>2. SwitchportFound(c, object) = Overlay(Shown(c, object, SwitchportFields), routed)
    BY DEF SwitchportFound
<1> HIDE DEF routed
<1>3. DOMAIN SwitchportFound(c, object) = DOMAIN Shown(c, object, SwitchportFields) \cup DOMAIN routed
    BY <1>2, OverlayDomain
<1>4. DOMAIN Shown(c, object, SwitchportFields) \subseteq SwitchportFields
    BY ShownDomain
<1> QED
    BY <1>1, <1>3, <1>4 DEF SwitchportFields

\* What Read finds of an object is never a field that names it.
LEMMA FoundHasNoIdentity ==
    ASSUME NEW k \in OneObjectKinds, NEW args, NEW c
    PROVE  DOMAIN Found(k, args, c) \cap Identity(k) = {}
<1> DEFINE object == Object(k, args)
<1>1. CASE k = "interface"
    <2>1. Found(k, args, c) = InterfaceFound(c, object) /\ Identity(k) = {"name"}
        BY <1>1 DEF Found, Identity
    <2>2. DOMAIN InterfaceFound(c, object) \subseteq InterfaceFields \cup SwitchportFields
        <3> DEFINE shown == Shown(c, object, InterfaceFields)
                   switchport == SwitchportFound(c, object)
        <3>1. InterfaceFound(c, object) = Overlay(shown, switchport)
            BY DEF InterfaceFound
        <3>2. DOMAIN shown \subseteq InterfaceFields /\ DOMAIN switchport \subseteq SwitchportFields
            BY ShownDomain, SwitchportFoundDomain
        <3> HIDE DEF shown, switchport
        <3>3. DOMAIN InterfaceFound(c, object) = DOMAIN shown \cup DOMAIN switchport
            BY <3>1, OverlayDomain
        <3> QED
            BY <3>2, <3>3
    <2> QED
        BY <2>1, <2>2 DEF InterfaceFields, SwitchportFields
<1>2. CASE k = "portChannel"
    <2>1. Found(k, args, c) = PortChannelFound(c, object) /\ Identity(k) = {"id"}
        BY <1>2 DEF Found, Identity
    <2>2. DOMAIN PortChannelFound(c, object) \subseteq PortChannelFields \cup SwitchportFields
        <3> DEFINE shown == Shown(c, object, PortChannelFields)
                   switchport == SwitchportFound(c, object)
        <3>1. PortChannelFound(c, object) = Overlay(shown, switchport)
            BY DEF PortChannelFound
        <3>2. DOMAIN shown \subseteq PortChannelFields /\ DOMAIN switchport \subseteq SwitchportFields
            BY ShownDomain, SwitchportFoundDomain
        <3> HIDE DEF shown, switchport
        <3>3. DOMAIN PortChannelFound(c, object) = DOMAIN shown \cup DOMAIN switchport
            BY <3>1, OverlayDomain
        <3> QED
            BY <3>2, <3>3
    <2> QED
        BY <2>1, <2>2 DEF PortChannelFields, SwitchportFields
<1>3. CASE k = "vlanInterface"
    <2>1. Found(k, args, c) = VlanInterfaceFound(c, object) /\ Identity(k) = {"vlanId"}
        BY <1>3 DEF Found, Identity
    <2> QED
        BY <2>1, ShownDomain DEF VlanInterfaceFound, VlanInterfaceFields, VlanInterfaceFlags
<1>4. CASE k = "loopback"
    <2>1. Found(k, args, c) = LoopbackFound(c, object) /\ Identity(k) = {"number"}
        BY <1>4 DEF Found, Identity
    <2> QED
        BY <2>1, ShownDomain DEF LoopbackFound, LoopbackFields
<1>5. CASE k = "subinterface"
    <2>1. Found(k, args, c) = SubinterfaceFound(c, object) /\ Identity(k) = {"name"}
        BY <1>5 DEF Found, Identity
    <2> QED
        BY <2>1, ShownDomain DEF SubinterfaceFound, SubinterfaceFields, LoopbackFields
<1>6. CASE k = "greTunnel"
    <2>1. Found(k, args, c) = GreTunnelFound(c, object) /\ Identity(k) = {"id"}
        BY <1>6 DEF Found, Identity
    <2> QED
        BY <2>1, ShownDomain DEF GreTunnelFound, GreTunnelFields, GreTunnelFlags
<1>7. CASE k = "vxlanInterface"
    <2>1. Found(k, args, c) = VxlanFound(c, object) /\ Identity(k) = {"id"}
        BY <1>7 DEF Found, Identity
    <2>2. DOMAIN VxlanFound(c, object) \subseteq VxlanFields \cup VxlanLists
        <3> DEFINE scalars == Shown(c, object, VxlanFields \cup {"floodVteps"})
                   lists == [vlanVniMap |-> VlansFound(c, object),
                             vrfVniMap |-> VrfsFound(c, object)]
        <3>1. VxlanFound(c, object) = Overlay(scalars, NonEmpty(lists))
            BY DEF VxlanFound
        <3>2. DOMAIN scalars \subseteq VxlanFields \cup {"floodVteps"}
            BY ShownDomain
        <3>3. DOMAIN lists = {"vlanVniMap", "vrfVniMap"}
            OBVIOUS
        <3> HIDE DEF scalars, lists
        <3>4. DOMAIN NonEmpty(lists) \subseteq {"vlanVniMap", "vrfVniMap"}
            BY <3>3, NonEmptyDomain
        <3>5. DOMAIN VxlanFound(c, object) = DOMAIN scalars \cup DOMAIN NonEmpty(lists)
            BY <3>1, OverlayDomain
        <3> QED
            BY <3>2, <3>4, <3>5 DEF VxlanLists
    <2> QED
        BY <2>1, <2>2 DEF VxlanFields, VxlanLists
<1>8. CASE k = "vrrp"
    <2>1. Found(k, args, c) = VrrpFound(c, object) /\ Identity(k) = {"interface", "vrid"}
        BY <1>8 DEF Found, Identity
    <2>2. DOMAIN VrrpFound(c, object)
            \subseteq VrrpFields \cup {"preempt", "virtualAddresses", "tracks"}
        <3> DEFINE shown == Shown(c, object, VrrpFields \cup {"preempt"})
                   told == {f \in DOMAIN shown :
                               /\ f = "preemptDelayMinimum" => shown[f] > 0
                               /\ f = "preempt" => shown[f] = TRUE}
                   scalars == [f \in told |-> shown[f]]
                   lists == [virtualAddresses |-> VrrpAddressesFound(c, object),
                             tracks |-> VrrpTracksFound(c, object)]
        <3>1. VrrpFound(c, object) = Overlay(scalars, NonEmpty(lists))
            BY DEF VrrpFound
        <3>2. DOMAIN scalars \subseteq DOMAIN shown
            OBVIOUS
        <3>4. DOMAIN shown \subseteq VrrpFields \cup {"preempt"}
            BY ShownDomain
        <3>3. DOMAIN lists = {"virtualAddresses", "tracks"}
            OBVIOUS
        <3> HIDE DEF shown, scalars, lists
        <3>5. DOMAIN NonEmpty(lists) \subseteq {"virtualAddresses", "tracks"}
            BY <3>3, NonEmptyDomain
        <3>6. DOMAIN VrrpFound(c, object) = DOMAIN scalars \cup DOMAIN NonEmpty(lists)
            BY <3>1, OverlayDomain
        <3> QED
            BY <3>2, <3>4, <3>5, <3>6
    <2> QED
        BY <2>1, <2>2 DEF VrrpFields
<1>9. CASE k \in {"stp", "bfd"}
    BY <1>9 DEF Identity
<1>10. CASE k = "evpnEthernetSegment"
    <2>1. /\ Found(k, args, c) = EvpnEthernetSegmentFound(c, object)
          /\ Identity(k) = {"parentInterface"}
        BY <1>10 DEF Found, Identity
    <2>2. DOMAIN EvpnEthernetSegmentFound(c, object)
            \subseteq {"identifier", "redundancy", "routeTargetImport", "designatedForwarder"}
        <3> DEFINE election == Overlay(Or(Shown(c, object, {"algorithm"}), "algorithm", Nothing),
                                       Shown(c, object, {"holdTime"}))
                   chosen == IF election = Nothing THEN Nothing
                             ELSE [designatedForwarder |-> election]
                   scalars == Shown(c, object, {"identifier", "redundancy", "routeTargetImport"})
        <3>1. EvpnEthernetSegmentFound(c, object) = Overlay(scalars, chosen)
            BY DEF EvpnEthernetSegmentFound, AlgorithmOnDevice
        <3> HIDE DEF election
        <3>2. DOMAIN chosen \subseteq {"designatedForwarder"}
            BY NothingDomain
        <3>3. DOMAIN scalars \subseteq {"identifier", "redundancy", "routeTargetImport"}
            BY ShownDomain
        <3> HIDE DEF chosen, scalars
        <3> QED
            BY <3>1, <3>2, <3>3, OverlayDomain
    <2> QED
        BY <2>1, <2>2
<1>11. CASE k = "vrf"
    <2>1. Found(k, args, c) = VrfFound(args, c) /\ Identity(k) = {"name"}
        BY <1>11 DEF Found, Identity
    <2>2. DOMAIN VrfFound(args, c) \subseteq {"ipRouting", "ipv6Routing", "description"}
        BY DEF VrfFound
    <2> QED
        BY <2>1, <2>2
<1>12. CASE k = "rpki"
    <2>1. Found(k, args, c) = RpkiFound(c, object) /\ Identity(k) = {"bgpAsn", "name"}
        BY <1>12 DEF Found, Identity
    <2>2. DOMAIN RpkiFound(c, object)
            \subseteq RpkiFields \cup {"transport", "cacheHost", "vrf", "port"}
        <3> DEFINE shown == Shown(c, object, RpkiFields \cup {"transport"})
                   host == Given(Or(Shown(c, object, {"host"}), "host", Nothing),
                                 {"cacheHost", "vrf", "port"})
        <3>1. RpkiFound(c, object) = Overlay(shown, host)
            BY DEF RpkiFound
        <3>2. DOMAIN host \subseteq {"cacheHost", "vrf", "port"}
            BY GivenDomain
        <3>3. DOMAIN shown \subseteq RpkiFields \cup {"transport"}
            BY ShownDomain
        <3> HIDE DEF shown, host
        <3>4. DOMAIN RpkiFound(c, object) = DOMAIN shown \cup DOMAIN host
            BY <3>1, OverlayDomain
        <3> QED
            BY <3>2, <3>3, <3>4
    <2> QED
        BY <2>1, <2>2 DEF RpkiFields
<1>13. CASE k = "rcf"
    <2>1. Found(k, args, c) = RcfFound(c, object) /\ Identity(k) = {"name"}
        BY <1>13 DEF Found, Identity
    <2>2. DOMAIN RcfFound(c, object) \subseteq {"code", "sourceFile"}
        BY DEF RcfFound
    <2> QED
        BY <2>1, <2>2
<1>14. CASE k = "resilientEcmp"
    <2>1. Found(k, args, c) = ResilientEcmpFound(args, c, object) /\ Identity(k) = {"prefix"}
        BY <1>14 DEF Found, Identity
    <2>2. DOMAIN ResilientEcmpFound(args, c, object)
            \subseteq {"ipFamily", "capacity", "redundancy", "ordered"}
        <3> DEFINE family == [ipFamily |-> Or(args, "ipFamily", "ipv4")]
                   line == Given(Or(Shown(c, object, {"line"}), "line", Nothing),
                                 {"capacity", "redundancy", "ordered"})
        <3>1. ResilientEcmpFound(args, c, object) = Overlay(family, line)
            BY DEF ResilientEcmpFound
        <3>2. DOMAIN line \subseteq {"capacity", "redundancy", "ordered"}
            BY GivenDomain
        <3>3. DOMAIN family = {"ipFamily"}
            OBVIOUS
        <3> HIDE DEF family, line
        <3>4. DOMAIN ResilientEcmpFound(args, c, object) = DOMAIN family \cup DOMAIN line
            BY <3>1, OverlayDomain
        <3> QED
            BY <3>2, <3>3, <3>4
    <2> QED
        BY <2>1, <2>2
<1>15. CASE k = "routerBgp"
    <2>1. Found(k, args, c) = RouterBgpFound(c, object) /\ Identity(k) = {"asn"}
        BY <1>15 DEF Found, Identity
    <2>2. DOMAIN RouterBgpFound(c, object)
            \subseteq {"routerId", "maximumPaths", "noDefaultIpv4Unicast", "bfd"}
        <3> DEFINE rows == {r \in ShownKeys(c, object, "bgpVrf") : r[2] = "routerId"}
                   last == CHOOSE r \in rows : \A s \in rows : s[1] <= r[1]
                   ofVrf == IF rows = {} THEN Nothing
                            ELSE [routerId |-> c[<<object, "bgpVrf", last>>]]
                   scalars == Shown(c, object,
                                    {"routerId", "maximumPaths", "noDefaultIpv4Unicast", "bfd"})
        <3>1. RouterBgpFound(c, object) = Overlay(scalars, ofVrf)
            BY DEF RouterBgpFound
        <3> HIDE DEF rows, last
        <3>2. DOMAIN ofVrf \subseteq {"routerId"}
            BY NothingDomain
        <3>3. DOMAIN scalars \subseteq {"routerId", "maximumPaths", "noDefaultIpv4Unicast", "bfd"}
            BY ShownDomain
        <3> HIDE DEF ofVrf, scalars
        <3> QED
            BY <3>1, <3>2, <3>3, OverlayDomain
    <2> QED
        BY <2>1, <2>2
<1>16. CASE k = "routerOspf"
    <2>1. Found(k, args, c) = RouterOspfFound(c, object) /\ Identity(k) = {"instance", "vrf"}
        BY <1>16 DEF Found, Identity
    <2> QED
        BY <2>1, ShownDomain DEF RouterOspfFound
<1> QED
    BY <1>1, <1>2, <1>3, <1>4, <1>5, <1>6, <1>7, <1>8, <1>9, <1>10, <1>11, <1>12, <1>13, <1>14,
       <1>15, <1>16
    DEF OneObjectKinds, MergeKinds, RebuildKinds

\* A field that is not found stays as it was.
LEMMA OverlayKeeps ==
    ASSUME NEW a, NEW b, NEW f, f \notin DOMAIN b
    PROVE  /\ f \in DOMAIN Overlay(a, b) <=> f \in DOMAIN a
           /\ f \in DOMAIN a => Overlay(a, b)[f] = a[f]
BY DEF Overlay

LEMMA RequiredByKind ==
    ASSUME NEW k \in AllKinds
    PROVE  /\ k = "vlan" => "id" \in Required(k)
           /\ k = "vlanRange" => {"start", "end"} \subseteq Required(k)
           /\ k = "policyBasedRouting" => "name" \in Required(k)
           /\ k \in ListKinds => "name" \in Required(k)
           /\ k \in OneObjectKinds => Required(k) = Identity(k) \ {"vrf"}
<1> USE DEF ListKinds, OneObjectKinds, MergeKinds, RebuildKinds, RawKinds
<1>1. k = "vlan" => "id" \in Required(k)
    BY DEF Required
<1>2. k = "vlanRange" => {"start", "end"} \subseteq Required(k)
    BY DEF Required
<1>3. k = "policyBasedRouting" => "name" \in Required(k)
    BY DEF Required
<1>4. k \in ListKinds => "name" \in Required(k)
    BY DEF Required
<1>5. k \in OneObjectKinds => Required(k) = Identity(k) \ {"vrf"}
    BY DEF Required
<1> QED
    BY <1>1, <1>2, <1>3, <1>4, <1>5

LEMMA OneReadKeepsIdentity ==
    ASSUME NEW k \in OneObjectKinds, NEW args, NEW c, OneRead(k, args, c) # Nothing
    PROVE  \A f \in Identity(k) :
                /\ f \in DOMAIN OneRead(k, args, c) <=> f \in DOMAIN args
                /\ f \in DOMAIN args => OneRead(k, args, c)[f] = args[f]
<1> SUFFICES ASSUME NEW f \in Identity(k)
             PROVE  /\ f \in DOMAIN OneRead(k, args, c) <=> f \in DOMAIN args
                    /\ f \in DOMAIN args => OneRead(k, args, c)[f] = args[f]
    OBVIOUS
<1>1. OneRead(k, args, c) = Overlay(Base(k, args), Found(k, args, c))
    BY DEF OneRead
<1>2. f \notin DOMAIN Found(k, args, c)
    BY FoundHasNoIdentity
<1>3. /\ f \in DOMAIN Base(k, args) <=> f \in DOMAIN args
      /\ f \in DOMAIN args => Base(k, args)[f] = args[f]
    <2>1. CASE k \in {"interface", "portChannel"}
        <3>1. f \notin SwitchportFields
            BY <2>1 DEF Identity, SwitchportFields
        <3>2. Base(k, args) = Without(args, SwitchportFields)
            BY <2>1 DEF Base
        <3> QED
            BY <3>1, <3>2 DEF Without
    <2>2. CASE k \notin {"interface", "portChannel"}
        BY <2>2 DEF Base
    <2> QED
        BY <2>1, <2>2
<1> HIDE DEF Found
<1>4. /\ f \in DOMAIN OneRead(k, args, c) <=> f \in DOMAIN Base(k, args)
      /\ f \in DOMAIN Base(k, args) => OneRead(k, args, c)[f] = Base(k, args)[f]
    BY <1>1, <1>2, OverlayKeeps
<1> QED
    BY <1>3, <1>4

\* A state that Read returns names the objects that the inputs name.
LEMMA ReadKeepsIdentity ==
    ASSUME NEW k \in AllKinds, NEW args, NEW c, NEW state,
           Required(k) \subseteq DOMAIN args, state = ReadBack(k, args, c), state # Nothing
    PROVE  SameIdentity(k, args, state)
<1>1. CASE k = "vlan"
    <2>1. "id" \in DOMAIN args
        BY <1>1, RequiredByKind
    <2>2. state = Overlay(args, [name |-> ShownName(c, args.id)])
        BY <1>1, ReadByKind DEF VlanRead
    <2>3. state.id = args.id
        BY <2>1, <2>2 DEF Overlay
    <2> QED
        BY <1>1, <2>3 DEF SameIdentity, ListKinds, OneObjectKinds, MergeKinds, RebuildKinds, RawKinds
<1>2. CASE k = "vlanRange"
    <2>1. {"start", "end"} \subseteq DOMAIN args
        BY <1>2, RequiredByKind
    <2>2. \/ state = args
          \/ state = Overlay(args, [name |-> ShownName(c, args.start)])
        BY <1>2, ReadByKind DEF RangeRead
    <2>3. state.start = args.start /\ state.end = args.end
        BY <2>1, <2>2 DEF Overlay
    <2> QED
        BY <1>2, <2>3 DEF SameIdentity, ListKinds, OneObjectKinds, MergeKinds, RebuildKinds, RawKinds
<1>3. CASE k \in ListKinds
    <2>1. "name" \in DOMAIN args
        BY <1>3, RequiredByKind
    <2>2. state = Overlay(args, ListFound(k, args, c))
        BY <1>3, ReadByKind DEF ListRead
    <2>3. state.name = args.name
        BY <1>3, <2>1, <2>2, FoundHasNoName, OverlayKeeps
    <2> QED
        BY <1>3, <2>3 DEF SameIdentity, ListKinds, OneObjectKinds, MergeKinds, RebuildKinds, RawKinds
<1>4. CASE k = "policyBasedRouting"
    <2> DEFINE found == Shown(c, PolicyMap(args), {"sequences"})
    <2>1. "name" \in DOMAIN args
        BY <1>4, RequiredByKind
    <2>2. state = args \/ state = Overlay(args, found)
        BY <1>4, ReadByKind DEF PbrRead
    <2>3. DOMAIN found \subseteq {"sequences"}
        BY ShownDomain
    <2> HIDE DEF found
    <2>4. state.name = args.name
        BY <2>1, <2>2, <2>3, OverlayKeeps
    <2>5. /\ "attachInterfaces" \in DOMAIN state <=> "attachInterfaces" \in DOMAIN args
          /\ "attachInterfaces" \in DOMAIN args => state.attachInterfaces = args.attachInterfaces
        BY <2>2, <2>3, OverlayKeeps
    <2>6. Attached(state) = Attached(args)
        BY <2>5 DEF Attached, Items, Has
    <2> QED
        BY <1>4, <2>4, <2>6
        DEF SameIdentity, ListKinds, OneObjectKinds, MergeKinds, RebuildKinds, RawKinds
<1>5. CASE k \in OneObjectKinds
    <2>1. state = OneRead(k, args, c)
        BY <1>5, ReadByKind
    <2> QED
        BY <1>5, <2>1, OneReadKeepsIdentity
        DEF SameIdentity, ListKinds, OneObjectKinds, MergeKinds, RebuildKinds, RawKinds
<1>6. CASE k \in RawKinds
    BY <1>6, ReadByKind DEF SameIdentity, ListKinds, OneObjectKinds, MergeKinds, RebuildKinds, RawKinds
<1>7. CASE k \in {"varp", "mlag", "staticRoute"}
    BY <1>7 DEF SameIdentity, ListKinds, OneObjectKinds, MergeKinds, RebuildKinds, RawKinds
<1> QED
    BY <1>1, <1>2, <1>3, <1>4, <1>5, <1>6, <1>7 DEF AllKinds

-----------------------------------------------------------------------------
(***************************************************************************)
(* The inductive invariant: the types; the state, though it was refreshed, *)
(* names the objects of the inputs; and for the two kinds that take lines  *)
(* back by their values, these lines are as the state says, until somebody *)
(* else changes the device.                                                *)
(***************************************************************************)
StateNamesOwnObjects ==
    recorded # Nothing => SameIdentity(kind, recorded.inputs, recorded.state)

VarpLineIsOurs ==
    recorded # Nothing /\ kind = "varp" /\ synced =>
        /\ recorded.state.mac \in MacForm
        /\ \A p \in DOMAIN config :
            p[1] = VarpObject => p = VarpMac /\ config[p] = Canonical(recorded.state.mac)

\* the attachments under the interfaces of the state are those of its map
AttachedAsIn(c, state) ==
    \A p \in DOMAIN c : \A i \in Attached(state) :
        p[1] = ServicePolicy(i) => p = <<ServicePolicy(i), "policy">> /\ c[p] = state.name

PolicyIsOurs ==
    recorded # Nothing /\ kind = "policyBasedRouting" /\ synced =>
        AttachedAsIn(config, recorded.state)

LinesAreOurs == VarpLineIsOurs /\ PolicyIsOurs

LifeInv == LifeTypeOK /\ StateNamesOwnObjects /\ LinesAreOurs

LEMMA LifeInitInv == LifeInit => LifeInv
<1> SUFFICES ASSUME LifeInit
             PROVE  LifeInv
    OBVIOUS
<1>1. recorded = Nothing
    BY DEF LifeInit
<1>2. LifeTypeOK
    <2>1. drifts \in 0 .. MaxDrift
        BY LifecycleAssumption DEF LifeInit
    <2>2. kind \in Kinds /\ program \in Inputs(kind) \cup {Nothing} /\ synced \in BOOLEAN
        BY DEF LifeInit
    <2>3. DeviceTypeOK
        BY EmptyIsRunning DEF LifeInit, DeviceTypeOK
    <2> QED
        BY <1>1, <2>1, <2>2, <2>3 DEF LifeTypeOK
<1>3. StateNamesOwnObjects
    BY <1>1 DEF StateNamesOwnObjects
<1>4. LinesAreOurs
    BY <1>1 DEF LinesAreOurs, VarpLineIsOurs, PolicyIsOurs
<1> QED
    BY <1>2, <1>3, <1>4 DEF LifeInv

\* What the program gives is never empty, and has the fields it must have.
LEMMA ProgramInputs ==
    ASSUME LifeTypeOK, program # Nothing
    PROVE  /\ kind \in AllKinds
           /\ program \in Inputs(kind)
           /\ Required(kind) \subseteq DOMAIN program
           /\ WellTyped(kind, program) /\ Decoded(kind, program)
           /\ kind = "varp" => program.mac \in MacForm
<1>1. kind \in Kinds /\ kind \in AllKinds /\ program \in Inputs(kind)
    BY LifecycleAssumption DEF LifeTypeOK
<1>2. Required(kind) \subseteq DOMAIN program /\ WellTyped(kind, program) /\ Decoded(kind, program)
    BY <1>1, InputsAssumption
<1> QED
    BY <1>1, <1>2 DEF WellTyped

LEMMA SameAsItself ==
    ASSUME NEW k, NEW args
    PROVE  SameIdentity(k, args, args)
BY DEF SameIdentity

\* A record of the program, after an apply of its block or of nothing.
LEMMA RecordingKeepsShape ==
    ASSUME LifeInv, program # Nothing, recorded' = Record(program),
           UNCHANGED <<kind, program, drifts>>, synced' \in BOOLEAN, DeviceTypeOK'
    PROVE  (LifeTypeOK /\ StateNamesOwnObjects)'
<1>1. recorded'.inputs = program /\ recorded'.state = program
    BY DEF Record
<1>2. LifeTypeOK'
    BY <1>1, ProgramInputs DEF LifeInv, LifeTypeOK, Record
<1>3. StateNamesOwnObjects'
    BY <1>1, SameAsItself DEF StateNamesOwnObjects
<1> QED
    BY <1>2, <1>3

LEMMA VarpApplied ==
    ASSUME NEW args, args.mac \in MacForm, NEW c, NEW p \in DOMAIN Exec(c, VarpBlock(args)),
           p[1] = VarpObject
    PROVE  p = VarpMac /\ Exec(c, VarpBlock(args))[p] = Canonical(args.mac)
<1> DEFINE block == VarpBlock(args)
<1>1. block = [drop |-> {VarpObject}, negate |-> {}, set |-> [q \in {VarpMac} |-> Canonical(args.mac)]]
    BY DEF VarpBlock, Rebuilds
<1>2. DOMAIN block.set = {VarpMac} /\ block.set[VarpMac] = Canonical(args.mac)
    BY <1>1
<1>3. Within(p[1], block.drop)
    BY <1>1 DEF Within
<1> HIDE DEF block
<1>4. p = VarpMac
    BY <1>2, <1>3, ExecDomain DEF block
<1> QED
    BY <1>2, <1>4, ExecValues DEF block

LEMMA PbrApplied ==
    ASSUME NEW args, NEW c
    PROVE  AttachedAsIn(Exec(c, PbrBlock(args)), args)
<1> DEFINE block == PbrBlock(args)
<1> SUFFICES ASSUME NEW p \in DOMAIN Exec(c, block), NEW i \in Attached(args),
                    p[1] = ServicePolicy(i)
             PROVE  p = <<ServicePolicy(i), "policy">> /\ Exec(c, block)[p] = args.name
    BY DEF AttachedAsIn
<1>1. Within(p[1], block.drop)
    BY PbrBlockShape DEF PbrObjects, Within
<1>2. p \in DOMAIN block.set
    BY <1>1, ExecDomain
<1>3. ServicePolicy(i) # PolicyMap(args)
    BY DEF ServicePolicy, PolicyMap
<1>4. \E j \in Attached(args) : p = <<ServicePolicy(j), "policy">>
    BY <1>2, <1>3, PbrBlockShape
<1>5. p = <<ServicePolicy(i), "policy">>
    BY <1>4
<1>6. block.set[p] = args.name
    BY <1>2, <1>5, PbrBlockShape
<1> HIDE DEF block
<1> QED
    BY <1>2, <1>5, <1>6, ExecValues

LEMMA ApplyStepInv ==
    ASSUME LifeInv, Create \/ Update, DeviceTypeOK'
    PROVE  LifeInv'
<1>1. /\ program # Nothing
      /\ recorded' = Record(program)
      /\ config' = Exec(config, Block(kind, program))
      /\ synced' = TRUE
      /\ UNCHANGED <<kind, program, late, drifts>>
    BY DEF Create, Update, ToCreate, ToUpdate, Applied
<1>2. (LifeTypeOK /\ StateNamesOwnObjects)'
    BY <1>1, RecordingKeepsShape
<1>3. recorded'.state = program
    BY <1>1 DEF Record
<1>4. VarpLineIsOurs'
    <2> SUFFICES ASSUME kind = "varp"
                 PROVE  /\ program.mac \in MacForm
                        /\ \A p \in DOMAIN config' : p[1] = VarpObject =>
                            p = VarpMac /\ config'[p] = Canonical(program.mac)
        BY <1>1, <1>3 DEF VarpLineIsOurs
    <2>1. program.mac \in MacForm
        BY <1>1, ProgramInputs DEF LifeInv
    <2>2. config' = Exec(config, VarpBlock(program))
        BY <1>1, ByKind
    <2> QED
        BY <2>1, <2>2, VarpApplied
<1>5. PolicyIsOurs'
    <2> SUFFICES ASSUME kind = "policyBasedRouting"
                 PROVE  AttachedAsIn(config', program)
        BY <1>1, <1>3 DEF PolicyIsOurs
    <2>1. config' = Exec(config, PbrBlock(program))
        BY <1>1, ByKind
    <2> QED
        BY <2>1, PbrApplied
<1> QED
    BY <1>2, <1>4, <1>5 DEF LifeInv, LinesAreOurs

LEMMA SameInv ==
    ASSUME LifeInv, Same, DeviceTypeOK'
    PROVE  LifeInv'
<1>1. /\ program # Nothing
      /\ recorded # Nothing
      /\ recorded' = Record(program)
      /\ program = recorded.state
      /\ UNCHANGED <<kind, program, config, drifts, synced>>
    BY DEF Same
<1>2. (LifeTypeOK /\ StateNamesOwnObjects)'
    BY <1>1, RecordingKeepsShape DEF LifeInv, LifeTypeOK
<1>3. recorded'.state = recorded.state
    BY <1>1 DEF Record
<1>4. LinesAreOurs'
    BY <1>1, <1>3 DEF LifeInv, LinesAreOurs, VarpLineIsOurs, PolicyIsOurs
<1> QED
    BY <1>2, <1>4 DEF LifeInv

\* The inputs that Read returns name the same objects.
LEMMA InputsReadKeep ==
    ASSUME NEW k \in AllKinds, NEW args, NEW c
    PROVE  /\ DOMAIN InputsRead(k, args, c) = DOMAIN args
           /\ k # "vxlanInterface" => InputsRead(k, args, c) = args
           /\ \A state : SameIdentity(k, args, state)
                            => SameIdentity(k, InputsRead(k, args, c), state)
<1> DEFINE inputs == InputsRead(k, args, c)
<1>1. CASE k # "vxlanInterface"
    BY <1>1 DEF InputsRead
<1>2. CASE k = "vxlanInterface"
    <2> DEFINE found == Found(k, args, c)
    <2>1. inputs = VxlanInputsRead(args, found)
        BY <1>2 DEF InputsRead
    <2> HIDE DEF found
    <2>2. DOMAIN inputs = DOMAIN args
        BY <2>1 DEF VxlanInputsRead
    <2>3. "id" \in DOMAIN args => inputs["id"] = args["id"]
        BY <2>1 DEF VxlanInputsRead, VxlanLists
    <2>4. Identity(k) = {"id"}
        BY <1>2 DEF Identity
    <2> HIDE DEF inputs
    <2>5. \A state : SameIdentity(k, args, state) => SameIdentity(k, inputs, state)
        BY <1>2, <2>2, <2>3, <2>4
        DEF SameIdentity, ListKinds, OneObjectKinds, MergeKinds, RebuildKinds, RawKinds
    <2> QED
        BY <1>2, <2>2, <2>5 DEF inputs
<1> QED
    BY <1>1, <1>2

\* the rows of a table that are shown are told by their keys
LEMMA TableKeys ==
    ASSUME NEW c, RunningConfig(c), NEW object, NEW table,
           \/ object[1] = "vxlanInterface" /\ table \in VniTables
           \/ object[1] = "vrrp" /\ table \in VrrpTables
    PROVE  LET keys == ShownKeys(c, object, table)
           IN  /\ IsFiniteSet(keys) /\ keys \subseteq RowKeys(table)
               /\ \A p \in DOMAIN c : p[1] = object /\ p[2] = table =>
                    p = <<object, table, p[3]>> /\ p[3] \in keys
<1> DEFINE K == ShownKeys(c, object, table)
           Q == {q \in DOMAIN c : q[1] = object /\ q[2] = table}
<1>1. \A q \in Q : IsRow(q) /\ q = <<object, table, q[3]>> /\ q[3] \in RowKeys(table)
    <2> SUFFICES ASSUME NEW q \in Q
                 PROVE  IsRow(q) /\ q = <<object, table, q[3]>> /\ q[3] \in RowKeys(table)
        OBVIOUS
    <2>1. q[1] = object /\ q[2] = table /\ LineShown(q, c[q])
        BY DEF RunningConfig
    <2>2. IsRow(q)
        BY <2>1 DEF IsRow
    <2>3. object[1] \in Features
        BY DEF Features
    <2> QED
        BY <2>1, <2>2, <2>3 DEF LineShown
<1>2. K = {q[3] : q \in Q}
    BY DEF ShownKeys
<1>3. IsFiniteSet(Q)
    <2>1. IsFiniteSet({q \in DOMAIN c : IsRow(q)})
        BY DEF RunningConfig, FewRows
    <2>2. Q \subseteq {q \in DOMAIN c : IsRow(q)}
        BY <1>1
    <2> QED
        BY <2>1, <2>2, FS_Subset
<1> HIDE DEF Q, K
<1>4. IsFiniteSet(K)
    <2> DEFINE third == [q \in Q |-> q[3]]
    <2>1. \A n \in K : \E q \in Q : n = third[q]
        BY <1>2
    <2>2. DOMAIN third = Q
        OBVIOUS
    <2> HIDE DEF third
    <2> QED
        BY <1>3, <2>1, <2>2, FiniteImage
<1>5. K \subseteq RowKeys(table)
    BY <1>1, <1>2
<1>6. \A p \in DOMAIN c : p[1] = object /\ p[2] = table =>
        p = <<object, table, p[3]>> /\ p[3] \in K
    BY <1>1, <1>2 DEF Q
<1> QED
    BY <1>4, <1>5, <1>6 DEF K

LEMMA AscendingList ==
    ASSUME NEW S, IsFiniteSet(S), S \subseteq Int
    PROVE  /\ IsAList(Ascending(S)) /\ DOMAIN Ascending(S) = 1 .. Cardinality(S)
           /\ \A i \in DOMAIN Ascending(S) : Ascending(S)[i] \in S
<1> DEFINE s == Ascending(S)
           n == Cardinality(S)
<1>1. n \in Nat /\ s \in [1 .. n -> S]
    BY AscendingSorts
<1> HIDE DEF s, n
<1>2. DOMAIN s = 1 .. n /\ \A i \in 1 .. n : s[i] \in S /\ s[i] \in ToSet(s)
    BY <1>1 DEF ToSet
<1>3. s = [i \in 1 .. n |-> s[i]]
    BY <1>1
<1>4. s \in Seq(ToSet(s))
    BY <1>1, <1>2, <1>3
<1> QED
    BY <1>2, <1>4 DEF IsAList, s, n

\* a row of a list of a VXLAN interface, in the inputs as well as on the device
RowTyped(f, row) ==
    /\ f = "vlanVniMap" => IsARecord(row, {"vlanId", "vni"}) /\ row["vlanId"] \in Int
    /\ f = "vrfVniMap" => IsARecord(row, {"vrf", "vni"}) /\ row["vrf"] \in Int
    /\ f = "floodVteps" => row \in Int

ListTyped(f, list) == IsAList(list) /\ \A i \in DOMAIN list : RowTyped(f, list[i])

LEMMA VxlanInputsTyped ==
    ASSUME NEW args
    PROVE  WellTyped("vxlanInterface", args) /\ Decoded("vxlanInterface", args) <=>
                /\ IsAFunction(args)
                /\ \A f \in Flags : Has(args, f) => args[f] \in BOOLEAN
                /\ \A f \in VxlanLists : Has(args, f) => ListTyped(f, args[f])
<1> DEFINE k == "vxlanInterface"
           Flagged == \A f \in Flags : Has(args, f) => args[f] \in BOOLEAN
           Listed == \A f \in VxlanLists : Has(args, f) => ListTyped(f, args[f])
<1>1. k \notin ListKinds \cup RawKinds /\ Entered(k, args) = {}
    BY DEF ListKinds, RawKinds, Entered
<1>2. \A f : Has(args, f) => Items(args, f) = {args[f][i] : i \in DOMAIN args[f]}
    BY DEF Items
<1>3. \A f : ~Has(args, f) => Items(args, f) = {}
    BY DEF Items
<1>4. WellTyped(k, args) <=>
        /\ \A f \in {"shutdown", "ipRouting", "ipv6Routing"} : Has(args, f) => args[f] \in BOOLEAN
        /\ \A f \in VxlanLists : Has(args, f) => IsAList(args[f])
        /\ Items(args, "floodVteps") \subseteq Int
        /\ \A row \in Items(args, "vrfVniMap") : row.vrf \in Int
    BY <1>1 DEF WellTyped
<1>5. Decoded(k, args) <=>
        /\ IsAFunction(args)
        /\ Flagged
        /\ \A row \in Items(args, "vlanVniMap") : IsARecord(row, {"vlanId", "vni"}) /\ row.vlanId \in Int
        /\ \A row \in Items(args, "vrfVniMap") : IsARecord(row, {"vrf", "vni"})
    BY <1>1 DEF Decoded
<1>6. {"shutdown", "ipRouting", "ipv6Routing"} \subseteq Flags
    BY DEF Flags
<1>7. Listed <=>
        /\ \A f \in VxlanLists : Has(args, f) => IsAList(args[f])
        /\ Items(args, "floodVteps") \subseteq Int
        /\ \A row \in Items(args, "vlanVniMap") : IsARecord(row, {"vlanId", "vni"}) /\ row.vlanId \in Int
        /\ \A row \in Items(args, "vrfVniMap") : IsARecord(row, {"vrf", "vni"}) /\ row.vrf \in Int
    <2>1. Listed <=> \A f \in VxlanLists : Has(args, f) =>
                        IsAList(args[f]) /\ \A row \in Items(args, f) : RowTyped(f, row)
        BY <1>2 DEF ListTyped
    <2>2. \A row : /\ RowTyped("floodVteps", row) <=> row \in Int
                   /\ RowTyped("vlanVniMap", row) <=>
                        IsARecord(row, {"vlanId", "vni"}) /\ row["vlanId"] \in Int
                   /\ RowTyped("vrfVniMap", row) <=>
                        IsARecord(row, {"vrf", "vni"}) /\ row["vrf"] \in Int
        BY DEF RowTyped
    <2> HIDE DEF Listed
    <2> QED
        BY <1>3, <2>1, <2>2 DEF VxlanLists
<1> HIDE DEF Flagged, Listed
<1>8. Flagged => \A f \in {"shutdown", "ipRouting", "ipv6Routing"} : Has(args, f) => args[f] \in BOOLEAN
    BY <1>6 DEF Flagged
<1>9. WellTyped(k, args) /\ Decoded(k, args) <=> IsAFunction(args) /\ Flagged /\ Listed
    BY <1>4, <1>5, <1>7, <1>8
<1> QED
    BY <1>9 DEF Flagged, Listed

LEMMA TableFound ==
    ASSUME NEW c, RunningConfig(c), NEW object, object[1] = "vxlanInterface"
    PROVE  /\ ListTyped("vlanVniMap", VlansFound(c, object))
           /\ ListTyped("vrfVniMap", VrfsFound(c, object))
<1>1. ASSUME NEW table \in VniTables
      PROVE  LET ids == Ascending(ShownKeys(c, object, table))
             IN  IsAList(ids) /\ \A i \in DOMAIN ids : ids[i] \in Int
    <2> DEFINE K == ShownKeys(c, object, table)
    <2>1. IsFiniteSet(K) /\ K \subseteq Int
        BY <1>1, TableKeys DEF RowKeys, VniTables
    <2> HIDE DEF K
    <2> QED
        BY <2>1, AscendingList DEF K
<1>2. ListTyped("vlanVniMap", VlansFound(c, object))
    <2> DEFINE ids == Ascending(ShownKeys(c, object, "vlanVniMap"))
               s == VlansFound(c, object)
               v == [i \in DOMAIN ids |-> c[<<object, "vlanVniMap", ids[i]>>]]
    <2>1. IsAList(ids) /\ \A i \in DOMAIN ids : ids[i] \in Int
        BY <1>1 DEF VniTables
    <2>2. s = [i \in DOMAIN ids |-> [vlanId |-> ids[i], vni |-> v[i]]]
        BY DEF VlansFound
    <2> HIDE DEF ids, s, v
    <2>3. IsAList(s)
        <3>1. DOMAIN ids = 1 .. Len(ids) /\ Len(ids) \in Nat
            BY <2>1, ListOfMembers
        <3>2. \A i \in DOMAIN ids : s[i] \in ToSet(s)
            BY <2>2 DEF ToSet
        <3>3. s \in Seq(ToSet(s))
            BY <2>2, <3>1, <3>2
        <3> QED
            BY <3>3 DEF IsAList
    <2>4. \A i \in DOMAIN s : RowTyped("vlanVniMap", s[i])
        <3> SUFFICES ASSUME NEW i \in DOMAIN s
                     PROVE  RowTyped("vlanVniMap", s[i])
            OBVIOUS
        <3>1. s[i] = [vlanId |-> ids[i], vni |-> v[i]] /\ ids[i] \in Int
            BY <2>1, <2>2
        <3>2. IsAFunction(s[i]) /\ DOMAIN s[i] = {"vlanId", "vni"} /\ s[i]["vlanId"] \in Int
            BY <3>1 DEF IsAFunction
        <3> QED
            BY <3>2 DEF RowTyped, IsARecord
    <2> QED
        BY <2>3, <2>4 DEF ListTyped, s
<1>3. ListTyped("vrfVniMap", VrfsFound(c, object))
    <2> DEFINE ids == Ascending(ShownKeys(c, object, "vrfVniMap"))
               s == VrfsFound(c, object)
               v == [i \in DOMAIN ids |-> c[<<object, "vrfVniMap", ids[i]>>]]
    <2>1. IsAList(ids) /\ \A i \in DOMAIN ids : ids[i] \in Int
        BY <1>1 DEF VniTables
    <2>2. s = [i \in DOMAIN ids |-> [vrf |-> ids[i], vni |-> v[i]]]
        BY DEF VrfsFound
    <2> HIDE DEF ids, s, v
    <2>3. IsAList(s)
        <3>1. DOMAIN ids = 1 .. Len(ids) /\ Len(ids) \in Nat
            BY <2>1, ListOfMembers
        <3>2. \A i \in DOMAIN ids : s[i] \in ToSet(s)
            BY <2>2 DEF ToSet
        <3>3. s \in Seq(ToSet(s))
            BY <2>2, <3>1, <3>2
        <3> QED
            BY <3>3 DEF IsAList
    <2>4. \A i \in DOMAIN s : RowTyped("vrfVniMap", s[i])
        <3> SUFFICES ASSUME NEW i \in DOMAIN s
                     PROVE  RowTyped("vrfVniMap", s[i])
            OBVIOUS
        <3>1. s[i] = [vrf |-> ids[i], vni |-> v[i]] /\ ids[i] \in Int
            BY <2>1, <2>2
        <3>2. IsAFunction(s[i]) /\ DOMAIN s[i] = {"vrf", "vni"} /\ s[i]["vrf"] \in Int
            BY <3>1 DEF IsAFunction
        <3> QED
            BY <3>2 DEF RowTyped, IsARecord
    <2> QED
        BY <2>3, <2>4 DEF ListTyped, s
<1> QED
    BY <1>2, <1>3

LEMMA VxlanFoundTyped ==
    ASSUME NEW c, RunningConfig(c), NEW object, object[1] = "vxlanInterface"
    PROVE  \A f \in VxlanLists \cap DOMAIN VxlanFound(c, object) :
                ListTyped(f, VxlanFound(c, object)[f])
<1> DEFINE fields == VxlanFields \cup {"floodVteps"}
           shown == Shown(c, object, fields)
           tables == [vlanVniMap |-> VlansFound(c, object), vrfVniMap |-> VrfsFound(c, object)]
           found == VxlanFound(c, object)
           some == NonEmpty(tables)
<1>1. found = Overlay(shown, some)
    BY DEF VxlanFound
<1>2. DOMAIN tables = VniTables /\ \A f \in DOMAIN tables : ListTyped(f, tables[f])
    BY TableFound DEF VniTables
<1> HIDE DEF tables
<1>3. DOMAIN some \subseteq VniTables /\ \A f \in DOMAIN some : ListTyped(f, some[f])
    BY <1>2 DEF NonEmpty
<1>4. "floodVteps" \in DOMAIN shown => ListTyped("floodVteps", shown["floodVteps"])
    <2> SUFFICES ASSUME "floodVteps" \in DOMAIN shown
                 PROVE  ListTyped("floodVteps", shown["floodVteps"])
        OBVIOUS
    <2> DEFINE p == <<object, "floodVteps">>
               list == c[p]
    <2>1. p \in DOMAIN c /\ shown["floodVteps"] = list
        BY DEF Shown
    <2>2. p[1] = object /\ p[2] = "floodVteps" /\ ~IsRow(p)
        BY DEF IsRow, VniTables
    <2> HIDE DEF p
    <2>3. LineShown(p, list)
        BY <2>1 DEF RunningConfig
    <2>4. ValueShown("vxlanInterface", "floodVteps", list)
        BY <2>2, <2>3 DEF LineShown, Features
    <2> HIDE DEF list, shown
    <2>5. list \in Seq(Int)
        BY <2>4 DEF ValueShown
    <2>6. list \in Seq(ToSet(list)) /\ \A i \in DOMAIN list : list[i] \in Int
        BY <2>5 DEF ToSet
    <2> QED
        BY <2>1, <2>6 DEF ListTyped, IsAList, RowTyped
<1> HIDE DEF some, found
<1>5. DOMAIN shown \subseteq fields
    BY ShownDomain
<1> HIDE DEF shown
<1>6. \A f \in DOMAIN found : f \in DOMAIN some \/ f \in DOMAIN shown
    BY <1>1 DEF Overlay
<1>7. \A f \in DOMAIN found : found[f] = IF f \in DOMAIN some THEN some[f] ELSE shown[f]
    BY <1>1 DEF Overlay
<1>8. \A f \in VxlanLists : f \in fields => f = "floodVteps"
    BY DEF VxlanLists, VxlanFields
<1> HIDE DEF fields
<1>9. \A f \in VxlanLists \cap DOMAIN found : ListTyped(f, found[f])
    BY <1>3, <1>4, <1>5, <1>6, <1>7, <1>8
<1> QED
    BY <1>9 DEF found

\* A slice that is written over is a list of rows of either.
LEMMA WrittenOverTyped ==
    ASSUME NEW f, NEW list, ListTyped(f, list), NEW found, ListTyped(f, found)
    PROVE  ListTyped(f, WrittenOver(list, found))
<1> DEFINE S == ToSet(list) \cup ToSet(found)
           w == WrittenOver(list, found)
<1>1. list \in Seq(ToSet(list)) /\ found \in Seq(ToSet(found))
    BY DEF ListTyped, IsAList
<1>2. \A row \in S : RowTyped(f, row)
    BY DEF ListTyped, ToSet
<1>3. list \in Seq(S) /\ found \in Seq(S)
    <2>1. ASSUME NEW A, NEW B, A \subseteq B, NEW s \in Seq(A)
          PROVE  s \in Seq(B)
        BY <2>1
    <2> QED
        BY <1>1, <2>1
<1> HIDE DEF S
<1>4. w \in Seq(S)
    <2>1. CASE Len(found) > Len(list)
        BY <1>3, <2>1 DEF WrittenOver
    <2>2. CASE ~(Len(found) > Len(list))
        <3>1. SubSeq(list, Len(found) + 1, Len(list)) \in Seq(S)
            BY <1>3
        <3>2. w = found \o SubSeq(list, Len(found) + 1, Len(list))
            BY <2>2 DEF WrittenOver
        <3> HIDE DEF w
        <3> QED
            BY <1>3, <3>1, <3>2
    <2> QED
        BY <2>1, <2>2
<1> HIDE DEF w
<1>5. DOMAIN w = 1 .. Len(w) /\ Len(w) \in Nat /\ \A i \in DOMAIN w : w[i] \in S
    BY <1>4
<1>6. \A i \in DOMAIN w : w[i] \in ToSet(w)
    BY DEF ToSet
<1>7. w \in Seq(ToSet(w))
    BY <1>4, <1>5, <1>6
<1> QED
    BY <1>2, <1>5, <1>7 DEF ListTyped, IsAList, w

LEMMA InputsReadTyped ==
    ASSUME NEW k \in AllKinds, NEW args, WellTyped(k, args), Decoded(k, args), NEW c,
           k = "vxlanInterface" => RunningConfig(c)
    PROVE  WellTyped(k, InputsRead(k, args, c)) /\ Decoded(k, InputsRead(k, args, c))
<1> DEFINE inputs == InputsRead(k, args, c)
<1>1. CASE k # "vxlanInterface"
    BY <1>1 DEF InputsRead
<1>2. CASE k = "vxlanInterface"
    <2> DEFINE object == Object(k, args)
               found == VxlanFound(c, object)
    <2>1. inputs = [f \in DOMAIN args |->
                        IF f \in VxlanLists \cap DOMAIN found THEN WrittenOver(args[f], found[f])
                        ELSE args[f]]
        BY <1>2 DEF InputsRead, VxlanInputsRead, Found
    <2>2. \A f \in VxlanLists \cap DOMAIN found : ListTyped(f, found[f])
        <3>1. object[1] = "vxlanInterface"
            BY <1>2 DEF Object
        <3> HIDE DEF object
        <3> QED
            BY <1>2, <3>1, VxlanFoundTyped
    <2> HIDE DEF found, inputs
    <2>3. /\ IsAFunction(args)
          /\ \A f \in Flags : Has(args, f) => args[f] \in BOOLEAN
          /\ \A f \in VxlanLists : Has(args, f) => ListTyped(f, args[f])
        BY <1>2, VxlanInputsTyped
    <2>4. IsAFunction(inputs) /\ DOMAIN inputs = DOMAIN args
        BY <2>1 DEF IsAFunction
    <2>5. \A f \in Flags : Has(inputs, f) => inputs[f] \in BOOLEAN
        <3>1. Flags \cap VxlanLists = {}
            BY DEF Flags, VxlanLists
        <3> QED
            BY <2>1, <2>3, <2>4, <3>1 DEF Has
    <2>6. \A f \in VxlanLists : Has(inputs, f) => ListTyped(f, inputs[f])
        <3> SUFFICES ASSUME NEW f \in VxlanLists, f \in DOMAIN args
                     PROVE  ListTyped(f, inputs[f])
            BY <2>4 DEF Has
        <3>1. ListTyped(f, args[f])
            BY <2>3 DEF Has
        <3>2. CASE f \in DOMAIN found
            <4>1. inputs[f] = WrittenOver(args[f], found[f])
                BY <2>1, <3>2
            <4> QED
                BY <2>2, <3>1, <3>2, <4>1, WrittenOverTyped
        <3>3. CASE f \notin DOMAIN found
            BY <2>1, <3>1, <3>3
        <3> QED
            BY <3>2, <3>3
    <2> QED
        BY <1>2, <2>4, <2>5, <2>6, VxlanInputsTyped DEF inputs
<1> QED
    BY <1>1, <1>2

\* A read of any device whatever that records what it found.
LEMMA ReadStepInv ==
    ASSUME LifeInv, recorded # Nothing, NEW c, NEW state,
           state = ReadBack(kind, recorded.inputs, c), state # Nothing,
           recorded' = [inputs |-> InputsRead(kind, recorded.inputs, c), state |-> state],
           kind = "vxlanInterface" => RunningConfig(c),
           UNCHANGED <<kind, program, drifts, synced>>, DeviceTypeOK'
    PROVE  (LifeTypeOK /\ StateNamesOwnObjects)'
<1>1. kind \in AllKinds /\ Required(kind) \subseteq DOMAIN recorded.inputs
    BY LifecycleAssumption DEF LifeInv, LifeTypeOK
<1>2. /\ recorded'.inputs = InputsRead(kind, recorded.inputs, c)
      /\ recorded'.state = state
      /\ DOMAIN recorded' = {"inputs", "state"}
    OBVIOUS
<1>3. SameIdentity(kind, recorded'.inputs, state)
    BY <1>1, <1>2, ReadKeepsIdentity, InputsReadKeep
<1>4. /\ DOMAIN recorded'.inputs = DOMAIN recorded.inputs
      /\ kind # "vxlanInterface" => recorded'.inputs = recorded.inputs
    BY <1>1, <1>2, InputsReadKeep
<1>5. WellTyped(kind, recorded'.inputs) /\ Decoded(kind, recorded'.inputs)
    BY <1>1, <1>2, InputsReadTyped DEF LifeInv, LifeTypeOK
<1>6. LifeTypeOK'
    BY <1>1, <1>2, <1>4, <1>5 DEF LifeInv, LifeTypeOK
<1> QED
    BY <1>2, <1>3, <1>6 DEF StateNamesOwnObjects

\* What is there of the two kinds is read back as it is.
LEMMA ReadLinesAreOurs ==
    ASSUME LifeInv, recorded # Nothing, NEW state,
           state = ReadBack(kind, recorded.inputs, config), state # Nothing,
           recorded'.state = state,
           UNCHANGED <<kind, config, synced>>
    PROVE  LinesAreOurs'
<1>1. VarpLineIsOurs'
    <2> SUFFICES ASSUME kind = "varp", synced
                 PROVE  /\ state.mac \in MacForm
                        /\ \A p \in DOMAIN config : p[1] = VarpObject =>
                            p = VarpMac /\ config[p] = Canonical(state.mac)
        BY DEF VarpLineIsOurs
    <2>1. VarpMac \in DOMAIN config /\ state = Overlay(recorded.inputs, [mac |-> config[VarpMac]])
        <3>1. state = VarpRead(recorded.inputs, config)
            BY ReadByKind
        <3> QED
            BY <3>1 DEF VarpRead
    <2>2. state.mac = config[VarpMac]
        BY <2>1 DEF Overlay
    <2>3. /\ recorded.state.mac \in MacForm
          /\ \A p \in DOMAIN config :
                p[1] = VarpObject => p = VarpMac /\ config[p] = Canonical(recorded.state.mac)
        BY DEF LifeInv, LinesAreOurs, VarpLineIsOurs
    <2>4. VarpMac[1] = VarpObject
        BY DEF VarpMac
    <2>5. state.mac = Canonical(recorded.state.mac)
        BY <2>1, <2>2, <2>3, <2>4
    <2> QED
        BY <2>3, <2>5, MacAssumption
<1>2. PolicyIsOurs'
    <2> SUFFICES ASSUME kind = "policyBasedRouting", synced
                 PROVE  AttachedAsIn(config, state)
        BY DEF PolicyIsOurs
    <2>1. kind \in AllKinds /\ Required(kind) \subseteq DOMAIN recorded.inputs
        BY LifecycleAssumption DEF LifeInv, LifeTypeOK
    <2>2. SameIdentity(kind, recorded.inputs, state)
        BY <2>1, ReadKeepsIdentity
    <2>3. SameIdentity(kind, recorded.inputs, recorded.state)
        BY DEF LifeInv, StateNamesOwnObjects
    <2>4. state.name = recorded.state.name /\ Attached(state) = Attached(recorded.state)
        BY <2>2, <2>3 DEF SameIdentity
    <2>5. AttachedAsIn(config, recorded.state)
        BY DEF LifeInv, LinesAreOurs, PolicyIsOurs
    <2> QED
        BY <2>4, <2>5 DEF AttachedAsIn
<1> QED
    BY <1>1, <1>2 DEF LinesAreOurs

LEMMA ForgettingKeepsInv ==
    ASSUME LifeInv, recorded' = Nothing, UNCHANGED <<kind, program, drifts>>, synced' \in BOOLEAN,
           DeviceTypeOK'
    PROVE  LifeInv'
<1>1. LifeTypeOK'
    BY DEF LifeInv, LifeTypeOK
<1>2. StateNamesOwnObjects' /\ LinesAreOurs'
    BY DEF StateNamesOwnObjects, LinesAreOurs, VarpLineIsOurs, PolicyIsOurs
<1> QED
    BY <1>1, <1>2 DEF LifeInv

LEMMA RefreshInv ==
    ASSUME LifeInv, Refresh, DeviceTypeOK'
    PROVE  LifeInv'
<1> DEFINE state == ReadBack(kind, recorded.inputs, config)
<1>1. /\ recorded # Nothing
      /\ recorded' = IF state = Nothing THEN Nothing
                     ELSE [inputs |-> InputsRead(kind, recorded.inputs, config), state |-> state]
      /\ UNCHANGED <<kind, program, config, late, drifts, synced>>
    BY DEF Refresh
<1> HIDE DEF state
<1>2. CASE state = Nothing
    BY <1>1, <1>2, ForgettingKeepsInv DEF LifeInv, LifeTypeOK
<1>3. CASE state # Nothing
    <2>1. recorded' = [inputs |-> InputsRead(kind, recorded.inputs, config), state |-> state]
        BY <1>1, <1>3
    <2>2. RunningConfig(config)
        BY DEF LifeInv, LifeTypeOK, DeviceTypeOK
    <2>3. (LifeTypeOK /\ StateNamesOwnObjects)'
        BY <1>1, <1>3, <2>1, <2>2, ReadStepInv DEF state
    <2>4. recorded'.state = state
        BY <2>1
    <2>5. LinesAreOurs'
        BY <1>1, <1>3, <2>4, ReadLinesAreOurs DEF state
    <2> QED
        BY <2>3, <2>5 DEF LifeInv
<1> QED
    BY <1>2, <1>3

LEMMA RefreshProbesFailInv ==
    ASSUME LifeInv, RefreshProbesFail, DeviceTypeOK'
    PROVE  LifeInv'
<1>1. /\ recorded # Nothing
      /\ kind = "vrf"
      /\ \E failed \in (SUBSET {"ipRouting", "ipv6Routing"}) \ {{}} :
            LET object == VrfObject(recorded.inputs.name)
                answered == [p \in DOMAIN config \ ({object} \X failed) |-> config[p]]
                state == ReadBack(kind, recorded.inputs, answered)
            IN  recorded' = IF state = Nothing THEN Nothing
                            ELSE [inputs |-> recorded.inputs, state |-> state]
      /\ UNCHANGED <<kind, program, config, late, drifts, synced>>
    BY DEF RefreshProbesFail
<1>2. PICK answered :
        LET state == ReadBack(kind, recorded.inputs, answered)
        IN  recorded' = IF state = Nothing THEN Nothing
                        ELSE [inputs |-> recorded.inputs, state |-> state]
    BY <1>1
<1> DEFINE state == ReadBack(kind, recorded.inputs, answered)
<1>3. CASE state = Nothing
    <2>1. recorded' = Nothing
        BY <1>2, <1>3
    <2> QED
        BY <1>1, <2>1, ForgettingKeepsInv DEF LifeInv, LifeTypeOK
<1>4. CASE state # Nothing
    <2>1. InputsRead(kind, recorded.inputs, answered) = recorded.inputs
        BY <1>1 DEF InputsRead
    <2>2. recorded' = [inputs |-> InputsRead(kind, recorded.inputs, answered), state |-> state]
        BY <1>2, <1>4, <2>1
    <2>3. (LifeTypeOK /\ StateNamesOwnObjects)'
        BY <1>1, <1>4, <2>2, ReadStepInv
    <2>4. LinesAreOurs'
        BY <1>1 DEF LinesAreOurs, VarpLineIsOurs, PolicyIsOurs
    <2> QED
        BY <2>3, <2>4 DEF LifeInv
<1> QED
    BY <1>3, <1>4

\* What Delete stages are lines that EOS knows: the state names what the inputs do.
LEMMA RemovalOfState ==
    ASSUME LifeInv, recorded # Nothing
    PROVE  WellFormed(Removal(kind, recorded.state))
<1>1. kind \in Kinds /\ kind \in AllKinds /\ SameIdentity(kind, recorded.inputs, recorded.state)
    BY LifecycleAssumption DEF LifeInv, LifeTypeOK, StateNamesOwnObjects
<1>2. kind # "vxlanInterface" => WellTyped(kind, recorded.inputs)
    BY <1>1, InputsAssumption DEF LifeInv, LifeTypeOK
<1>3. kind \in OneObjectKinds => \A object \in Entered(kind, recorded.state) : object[1] \in Parents
    <2>1. CASE kind \in {"vrrp", "evpnEthernetSegment", "rpki"}
        <3>1. \A object \in Entered(kind, recorded.inputs) : object[1] \in Parents
            BY <1>2, <2>1 DEF WellTyped, OneObjectKinds, MergeKinds, RebuildKinds
        <3>2. kind \in OneObjectKinds
            BY <2>1 DEF OneObjectKinds, MergeKinds, RebuildKinds
        <3>3. Identity(kind) \subseteq DOMAIN recorded.inputs
            <4>1. Required(kind) = Identity(kind) \ {"vrf"}
                BY <1>1, <3>2, RequiredByKind
            <4>2. "vrf" \notin Identity(kind)
                BY <2>1 DEF Identity
            <4> QED
                BY <4>1, <4>2 DEF LifeInv, LifeTypeOK
        <3>4. Entered(kind, recorded.state) = Entered(kind, recorded.inputs)
            BY <1>1, <3>2, <3>3, SameEntered
        <3> QED
            BY <3>1, <3>4
    <2>2. CASE kind \notin {"vrrp", "evpnEthernetSegment", "rpki"}
        BY <2>2 DEF Entered
    <2> QED
        BY <2>1, <2>2
<1>4. kind \in RawKinds => WellFormed(RawRemoval(kind, recorded.state))
    <2> SUFFICES ASSUME kind \in RawKinds
                 PROVE  WellFormed(RawRemoval(kind, recorded.state))
        OBVIOUS
    <2>1. recorded.state = recorded.inputs
        BY <1>1 DEF SameIdentity
    <2>2. WellTyped(kind, recorded.inputs)
        BY <1>2 DEF RawKinds
    <2> QED
        BY <2>1, <2>2 DEF WellTyped
<1> QED
    BY <1>1, <1>3, <1>4, RemovalWellFormed

\* No step makes of the device what it could not be.
LEMMA DeviceStepType ==
    ASSUME LifeInv, [LifeNext]_lifeVars
    PROVE  DeviceTypeOK'
<1>1. RunningConfig(config) /\ \A block \in late : WellFormed(block)
    BY DEF LifeInv, LifeTypeOK, DeviceTypeOK
<1>2. ASSUME program # Nothing, Valid(kind, program)
      PROVE  WellFormed(Block(kind, program))
    BY <1>2, ProgramInputs, BlockWellFormed DEF LifeInv
<1>3. CASE Create \/ Update
    <2>1. /\ config' = Exec(config, Block(kind, program)) /\ late' = late
          /\ WellFormed(Block(kind, program))
        BY <1>2, <1>3 DEF Create, Update, ToCreate, ToUpdate, Applied
    <2> QED
        BY <1>1, <2>1, ExecKeepsRunningConfig DEF DeviceTypeOK
<1>4. CASE CreateFails \/ UpdateFails
    <2>1. /\ late' = late \cup {Block(kind, program)} /\ config' = config
          /\ WellFormed(Block(kind, program))
        BY <1>2, <1>4 DEF CreateFails, UpdateFails, ToCreate, ToUpdate, ApplyFails
    <2> QED
        BY <1>1, <2>1 DEF DeviceTypeOK
<1>5. CASE Delete
    <2>1. /\ config' = Exec(config, Removal(kind, recorded.state)) /\ late' = late
          /\ WellFormed(Removal(kind, recorded.state))
        BY <1>5, RemovalOfState DEF Delete, ToDelete, Applied
    <2> QED
        BY <1>1, <2>1, ExecKeepsRunningConfig DEF DeviceTypeOK
<1>6. CASE DeleteFails
    <2>1. /\ late' = late \cup {Removal(kind, recorded.state)} /\ config' = config
          /\ WellFormed(Removal(kind, recorded.state))
        BY <1>6, RemovalOfState DEF DeleteFails, ToDelete, ApplyFails
    <2> QED
        BY <1>1, <2>1 DEF DeviceTypeOK
<1>7. ASSUME NEW block \in late, LateCommit(block)
      PROVE  DeviceTypeOK'
    <2>1. config' = Exec(config, block) /\ late' \subseteq late
        BY <1>7 DEF LateCommit
    <2> QED
        BY <1>1, <2>1, ExecKeepsRunningConfig DEF DeviceTypeOK
<1>8. ASSUME NEW block \in Drifts(kind), Drift(block)
      PROVE  DeviceTypeOK'
    <2>1. config' = Exec(config, block) /\ late' = late
        BY <1>8 DEF Drift
    <2>2. WellFormed(block)
        BY DriftsAssumption DEF LifeInv, LifeTypeOK
    <2> QED
        BY <1>1, <2>1, <2>2, ExecKeepsRunningConfig DEF DeviceTypeOK
<1>9. CASE Same \/ Refresh \/ RefreshProbesFail \/ (\E args \in Inputs(kind) \cup {Nothing} : Edit(args))
            \/ UNCHANGED lifeVars
    <2>1. config' = config /\ late' = late
        BY <1>9 DEF Same, Refresh, RefreshProbesFail, Edit, lifeVars
    <2> QED
        BY <1>1, <2>1 DEF DeviceTypeOK
<1> QED
    BY <1>3, <1>4, <1>5, <1>6, <1>7, <1>8, <1>9 DEF LifeNext

LEMMA LifeNextInv ==
    ASSUME LifeInv, [LifeNext]_lifeVars
    PROVE  LifeInv'
<1>0. DeviceTypeOK'
    BY DeviceStepType
<1>1. CASE Create \/ Update
    BY <1>0, <1>1, ApplyStepInv
<1>2. CASE Same
    BY <1>0, <1>2, SameInv
<1>3. CASE Refresh
    BY <1>0, <1>3, RefreshInv
<1>4. CASE RefreshProbesFail
    BY <1>0, <1>4, RefreshProbesFailInv
<1>5. CASE Delete
    BY <1>0, <1>5, ForgettingKeepsInv DEF Delete, Applied
<1>6. CASE CreateFails \/ UpdateFails \/ DeleteFails \/ UNCHANGED lifeVars
    <2>1. UNCHANGED <<kind, program, recorded, config, drifts, synced>>
        BY <1>6 DEF CreateFails, UpdateFails, DeleteFails, ApplyFails, lifeVars
    <2> QED
        BY <1>0, <2>1
        DEF LifeInv, LifeTypeOK, StateNamesOwnObjects, LinesAreOurs, VarpLineIsOurs, PolicyIsOurs
<1>7. ASSUME NEW args \in Inputs(kind) \cup {Nothing}, Edit(args)
      PROVE  LifeInv'
    BY <1>0, <1>7
    DEF Edit, LifeInv, LifeTypeOK, StateNamesOwnObjects, LinesAreOurs, VarpLineIsOurs, PolicyIsOurs
<1>8. ASSUME NEW block, LateCommit(block)
      PROVE  LifeInv'
    BY <1>0, <1>8
    DEF LateCommit, LifeInv, LifeTypeOK, StateNamesOwnObjects, LinesAreOurs, VarpLineIsOurs,
        PolicyIsOurs
<1>9. ASSUME NEW block \in Drifts(kind), Drift(block)
      PROVE  LifeInv'
    <2>1. LifeTypeOK'
        <3>1. drifts' \in 0 .. MaxDrift
            BY <1>9, LifecycleAssumption DEF Drift, LifeInv, LifeTypeOK
        <3> QED
            BY <1>0, <1>9, <3>1 DEF Drift, LifeInv, LifeTypeOK
    <2>2. StateNamesOwnObjects' /\ LinesAreOurs'
        BY <1>9
        DEF Drift, LifeInv, StateNamesOwnObjects, LinesAreOurs, VarpLineIsOurs, PolicyIsOurs
    <2> QED
        BY <2>1, <2>2 DEF LifeInv
<1> QED
    BY <1>1, <1>2, <1>3, <1>4, <1>5, <1>6, <1>7, <1>8, <1>9 DEF LifeNext

LEMMA LifeInvHolds == LifeSpec => []LifeInv
BY LifeInitInv, LifeNextInv, PTL DEF LifeSpec

\* The engine never records what no program gave (but for the VXLAN interface,
\* whose inputs a refresh may write over), and no refresh loses a field that
\* the inputs must have.
THEOREM LifeTypeCorrect == LifeSpec => []LifeTypeOK
<1>1. LifeInv => LifeTypeOK
    BY DEF LifeInv
<1> QED
    BY <1>1, LifeInvHolds, PTL

-----------------------------------------------------------------------------
(***************************************************************************)
(* Delete.                                                                 *)
(***************************************************************************)
\* The object of the state stands under none of the objects on the way to it.
LEMMA ObjectNotEntered ==
    ASSUME LifeInv, recorded # Nothing, kind \in OneObjectKinds
    PROVE  Object(kind, recorded.state) \notin Entered(kind, recorded.state)
<1>1. kind \in Kinds /\ SameIdentity(kind, recorded.inputs, recorded.state)
    BY DEF LifeInv, LifeTypeOK, StateNamesOwnObjects
<1>2. CASE kind \in {"vrrp", "evpnEthernetSegment", "rpki"}
    <2>1. recorded.inputs \in Inputs(kind)
        BY <1>2 DEF LifeInv, LifeTypeOK
    <2>2. Object(kind, recorded.inputs) \notin Entered(kind, recorded.inputs)
        BY <1>1, <2>1, InputsAssumption
    <2>3. Identity(kind) \subseteq DOMAIN recorded.inputs
        <3>1. Required(kind) = Identity(kind) \ {"vrf"}
            BY LifecycleAssumption, <1>1, RequiredByKind
        <3>2. "vrf" \notin Identity(kind)
            BY <1>2 DEF Identity
        <3> QED
            BY <3>1, <3>2 DEF LifeInv, LifeTypeOK
    <2>4. Entered(kind, recorded.state) = Entered(kind, recorded.inputs)
        BY <1>1, <2>3, SameEntered
    <2>5. Object(kind, recorded.state) = Object(kind, recorded.inputs)
        BY <1>1, SameObject
    <2> QED
        BY <2>2, <2>4, <2>5
<1>3. CASE kind \notin {"vrrp", "evpnEthernetSegment", "rpki"}
    BY <1>3 DEF Entered
<1> QED
    BY <1>2, <1>3

LEMMA DeletedIsGone ==
    ASSUME LifeInv, Delete, kind \notin RawKinds,
           kind \in {"varp", "policyBasedRouting"} => synced
    PROVE  Part(config', Objects(kind, recorded.state)) = Empty
<1> DEFINE state == recorded.state
<1>1. kind \in AllKinds /\ recorded # Nothing
    BY LifecycleAssumption DEF LifeInv, LifeTypeOK, Delete, ToDelete
<1>2. config' = Exec(config, Removal(kind, state))
    BY DEF Delete, Applied
<1>3. CASE kind \in {"vlan", "vlanRange", "mlag", "staticRoute"} \cup ListKinds
    <2>1. Removal(kind, state) = Drops(Objects(kind, state))
        <3>1. CASE kind = "vlan"
            BY <3>1, ByKind DEF VlanRemoval
        <3>2. CASE kind = "vlanRange"
            BY <3>2, ByKind DEF RangeRemoval
        <3>3. CASE kind = "mlag"
            BY <3>3, ByKind DEF MlagRemoval, MlagObjects
        <3>4. CASE kind = "staticRoute"
            BY <3>4, ByKind DEF RouteRemoval
        <3>5. CASE kind \in ListKinds
            BY <3>5, ByKind DEF ListRemoval
        <3> QED
            BY <1>3, <3>1, <3>2, <3>3, <3>4, <3>5
    <2>2. Drops(Objects(kind, state)).drop = Objects(kind, state)
        BY DEF Drops
    <2>3. DOMAIN Drops(Objects(kind, state)).set = {}
        BY DEF Drops, Empty
    <2> QED
        BY <1>2, <2>1, <2>2, <2>3, DropsLeaveNothing
<1>4. CASE kind \in OneObjectKinds
    <2> DEFINE block == OneRemoval(kind, state)
    <2>1. Removal(kind, state) = block /\ Objects(kind, state) = {Object(kind, state)}
        BY <1>4, ByKind
    <2>2. block.drop = {Object(kind, state)} /\ block.set = Headers(Entered(kind, state))
        BY DEF OneRemoval, Rebuilds
    <2>3. \A p \in DOMAIN block.set : p[1] \notin {Object(kind, state)}
        BY <1>1, <1>4, <2>2, ObjectNotEntered DEF Headers
    <2> HIDE DEF block
    <2> QED
        BY <1>2, <2>1, <2>2, <2>3, DropsLeaveNothing
<1>5. CASE kind = "varp"
    <2>1. \A p \in DOMAIN config :
            p[1] = VarpObject => p = VarpMac /\ config[p] = Canonical(state.mac)
        BY <1>1, <1>5 DEF LifeInv, LinesAreOurs, VarpLineIsOurs
    <2>2. config' = Exec(config, Negates(VarpMac, Canonical(state.mac)))
        BY <1>2, <1>5, ByKind DEF VarpRemoval
    <2>3. \A p \in DOMAIN config' : p[1] # VarpObject
        BY <2>1, <2>2 DEF Exec, Negates, Empty
    <2>4. Objects(kind, state) = {VarpObject}
        BY <1>5, ByKind DEF VarpObjects
    <2> QED
        BY <2>3, <2>4 DEF Part, Empty
<1>6. CASE kind = "policyBasedRouting"
    <2> DEFINE block == PbrRemoval(state)
    <2>1. AttachedAsIn(config, state)
        BY <1>1, <1>6 DEF LifeInv, LinesAreOurs, PolicyIsOurs
    <2>2. config' = Exec(config, block) /\ Objects(kind, state) = PbrObjects(state)
        BY <1>2, <1>6, ByKind
    <2>3. /\ block.drop = {PolicyMap(state)}
          /\ DOMAIN block.set = {}
          /\ \A i \in Attached(state) :
                <<<<ServicePolicy(i), "policy">>, state.name>> \in block.negate
        BY DEF PbrRemoval, Drops, Empty
    <2> HIDE DEF block
    <2>4. \A p \in DOMAIN config' :
            p \in DOMAIN config /\ ~Within(p[1], block.drop) /\ <<p, config[p]>> \notin block.negate
        BY <2>2, <2>3, ExecDomain
    <2>5. \A p \in DOMAIN config' : p[1] # PolicyMap(state)
        BY <2>3, <2>4 DEF Within
    <2>6. ASSUME NEW p \in DOMAIN config', NEW i \in Attached(state), p[1] = ServicePolicy(i)
          PROVE  FALSE
        <3>1. p = <<ServicePolicy(i), "policy">> /\ config[p] = state.name
            BY <2>1, <2>4, <2>6 DEF AttachedAsIn
        <3> QED
            BY <2>3, <2>4, <3>1
    <2>7. \A p \in DOMAIN config' : p[1] \notin PbrObjects(state)
        BY <2>5, <2>6 DEF PbrObjects
    <2> QED
        BY <2>2, <2>7 DEF Part, Empty
<1> QED
    BY <1>1, <1>3, <1>4, <1>5, <1>6 DEF AllKinds

\* A successful Delete leaves none of the resource's objects on the device,
\* whatever inputs, refreshes and failed operations came before it.
THEOREM DeleteAlwaysRemoves == LifeSpec => DeleteRemoves
<1>1. LifeInv /\ [LifeNext]_lifeVars =>
        [/\ Delete
         /\ kind \notin RawKinds
         /\ kind \in {"varp", "policyBasedRouting"} => synced
         => Part(config', Objects(kind, recorded.state)) = Empty]_lifeVars
    BY DeletedIsGone
<1> QED
    BY <1>1, LifeInvHolds, PTL DEF LifeSpec, DeleteRemoves

-----------------------------------------------------------------------------
(***************************************************************************)
(* Other objects.                                                          *)
(***************************************************************************)
LEMMA ApplyLeavesOthers ==
    ASSUME LifeInv, Create \/ Update
    PROVE  Untouched(Objects(kind, program), OnTheWay(kind, program))
<1>1. kind \in AllKinds
    BY LifecycleAssumption DEF LifeInv, LifeTypeOK
<1>2. config' = Exec(config, Block(kind, program))
    BY DEF Create, Update, Applied
<1>3. Confined(Block(kind, program), Objects(kind, program), OnTheWay(kind, program))
    BY <1>1, BlockIsConfined
<1> QED
    BY <1>2, <1>3, ConfinedLeavesOthers

LEMMA SameOnTheWay ==
    ASSUME LifeInv, recorded # Nothing
    PROVE  OnTheWay(kind, recorded.state) = OnTheWay(kind, recorded.inputs)
<1>1. CASE kind \in OneObjectKinds
    <2>1. Required(kind) = Identity(kind) \ {"vrf"}
        BY LifecycleAssumption, <1>1, RequiredByKind DEF LifeInv, LifeTypeOK
    <2>2. Identity(kind) \subseteq DOMAIN recorded.inputs \/ kind = "routerOspf"
        <3>1. CASE kind # "routerOspf"
            <4>1. "vrf" \notin Identity(kind)
                BY <1>1, <3>1 DEF Identity, OneObjectKinds, MergeKinds, RebuildKinds
            <4> QED
                BY <2>1, <4>1 DEF LifeInv, LifeTypeOK
        <3> QED
            BY <3>1
    <2>3. Entered(kind, recorded.state) = Entered(kind, recorded.inputs)
        BY <1>1, <2>2, SameEntered DEF LifeInv, StateNamesOwnObjects
    <2> QED
        BY <1>1, <2>3 DEF OnTheWay
<1>2. CASE kind \notin OneObjectKinds
    BY <1>2 DEF OnTheWay
<1> QED
    BY <1>1, <1>2

LEMMA DeleteLeavesOthers ==
    ASSUME LifeInv, Delete, kind # "staticRoute"
    PROVE  Untouched(Objects(kind, recorded.inputs), OnTheWay(kind, recorded.inputs))
<1>1. kind \in AllKinds /\ recorded # Nothing
    BY LifecycleAssumption DEF LifeInv, LifeTypeOK, Delete, ToDelete
<1>2. config' = Exec(config, Removal(kind, recorded.state))
    BY DEF Delete, Applied
<1>3. Objects(kind, recorded.state) = Objects(kind, recorded.inputs)
    BY <1>1, SameObjects DEF LifeInv, StateNamesOwnObjects
<1>4. Confined(Removal(kind, recorded.state), Objects(kind, recorded.inputs),
               OnTheWay(kind, recorded.inputs))
    BY <1>1, <1>3, SameOnTheWay, RemovalIsConfined
<1> QED
    BY <1>2, <1>4, ConfinedLeavesOthers

\* Create and Update change no object but those the program names, and Delete
\* none but those the inputs of the resource name: the state it takes has the
\* identity of the inputs, refreshed or not.
THEOREM OthersAlwaysUntouched == LifeSpec => OthersUntouched
<1>1. LifeInv /\ [LifeNext]_lifeVars =>
        [kind # "staticRoute" =>
            /\ Create \/ Update => Untouched(Objects(kind, program), OnTheWay(kind, program))
            /\ Delete => Untouched(Objects(kind, recorded.inputs), OnTheWay(kind, recorded.inputs))]_lifeVars
    <2> SUFFICES ASSUME LifeInv, kind # "staticRoute"
                 PROVE  /\ Create \/ Update => Untouched(Objects(kind, program), OnTheWay(kind, program))
                        /\ Delete => Untouched(Objects(kind, recorded.inputs),
                                               OnTheWay(kind, recorded.inputs))
        OBVIOUS
    <2>1. Create \/ Update => Untouched(Objects(kind, program), OnTheWay(kind, program))
        BY ApplyLeavesOthers
    <2>2. Delete => Untouched(Objects(kind, recorded.inputs), OnTheWay(kind, recorded.inputs))
        BY DeleteLeavesOthers
    <2> QED
        BY <2>1, <2>2
<1> QED
    BY <1>1, LifeInvHolds, PTL DEF LifeSpec, OthersUntouched
=============================================================================
