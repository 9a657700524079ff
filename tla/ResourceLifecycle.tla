------------------------- MODULE ResourceLifecycle --------------------------
(***************************************************************************)
(* One resource from its first `pulumi up` on: the program changes, the    *)
(* engine diffs it with the recorded state and calls Create, Update,       *)
(* Delete or Read, and the device is changed behind the provider's back.   *)
(*                                                                         *)
(* What an apply does to the device is taken from AtomicApply: the block   *)
(* comes into force as a whole and the operation succeeds, or the          *)
(* operation fails and the block may still come into force later.  DryRun  *)
(* previews, and operations that fail without effect, change nothing here. *)
(*                                                                         *)
(* The engine (external) is that of the framework without a custom Diff:   *)
(* it compares the recorded state, field by field, with the inputs of the  *)
(* program, and every difference is an Update.                             *)
(***************************************************************************)
EXTENDS DeviceLines

CONSTANTS
    Kinds,          \* the kinds a behaviour may be about
    Inputs(_),      \* inputs a program may give, by kind
    Drifts(_),      \* blocks that somebody else applies, by kind
    MaxDrift,       \* bound on such changes
    MaxLate         \* bound on blocks of failed operations outstanding

ASSUME LifecycleAssumption ==
    /\ Kinds \subseteq AllKinds
    /\ MaxDrift \in Nat
    /\ MaxLate \in Nat

\* the fields of the inputs that are not pointers in Go
Required(k) ==
    CASE k = "vlan" -> {"id"}
      [] k = "vlanRange" -> {"start", "end"}
      [] k = "varp" -> {"mac"}
      [] k = "mlag" -> MlagRequired
      [] k = "staticRoute" -> {"prefix", "nextHop"}
      [] k = "policyBasedRouting" -> {"name", "sequences"}
      [] k \in ListKinds -> {"name", "entries"}
      [] k \in OneObjectKinds -> Identity(k) \ {"vrf"}
      [] k \in RawKinds -> {"body"}

\* Some input is given, and nothing stands under itself.
ASSUME InputsAssumption ==
    \A k \in Kinds : \A args \in Inputs(k) :
        /\ DOMAIN args # {}
        /\ Required(k) \subseteq DOMAIN args
        /\ WellTyped(k, args) /\ Decoded(k, args)
        /\ k \in OneObjectKinds => Object(k, args) \notin Entered(k, args)

\* Others, too, change the device by lines that EOS knows.
ASSUME DriftsAssumption ==
    \A k \in Kinds : \A block \in Drifts(k) : WellFormed(block)

VARIABLES
    kind,           \* the kind of the resource
    program,        \* its inputs in the program, Nothing without it
    recorded,       \* [inputs, state] in the engine's checkpoint, or Nothing
    config,         \* running-config
    late,           \* blocks of failed operations that may yet come into force
    drifts,         \* changes by others so far
    synced          \* nobody else has changed config since the last apply

lifeVars == <<kind, program, recorded, config, late, drifts, synced>>

-----------------------------------------------------------------------------
LifeInit ==
    /\ kind \in Kinds
    /\ program = Nothing
    /\ recorded = Nothing
    /\ config = Empty
    /\ late = {}
    /\ drifts = 0
    /\ synced = FALSE

Record(args) == [inputs |-> args, state |-> args]

\* a successful apply
Applied(block) ==
    /\ Accepted(config, block)
    /\ config' = Exec(config, block)
    /\ synced' = TRUE
    /\ UNCHANGED <<kind, program, late, drifts>>

\* a failed one, whose block is on its way: the engine records nothing
ApplyFails(block) ==
    /\ Cardinality(late) < MaxLate
    /\ late' = late \cup {block}
    /\ UNCHANGED <<kind, program, recorded, config, drifts, synced>>

ToCreate == recorded = Nothing /\ program # Nothing

ToUpdate == recorded # Nothing /\ program # Nothing /\ recorded.state # program

ToDelete == recorded # Nothing /\ program = Nothing

Create ==
    /\ ToCreate
    /\ Valid(kind, program)
    /\ recorded' = Record(program)
    /\ Applied(Block(kind, program))

CreateFails ==
    /\ ToCreate
    /\ Valid(kind, program)
    /\ ApplyFails(Block(kind, program))

\* the inputs and the state of the request mixed up
Update_OldInputs ==
    /\ ToUpdate
    /\ Valid(kind, program)
    /\ recorded' = Record(program)
    /\ Applied(Block(kind, recorded.inputs))

\* Update takes the inputs of the program, whatever objects the old ones named
Update ==
    /\ ToUpdate
    /\ Valid(kind, program)
    /\ recorded' = Record(program)
    /\ Applied(Block(kind, program))

UpdateFails ==
    /\ ToUpdate
    /\ Valid(kind, program)
    /\ ApplyFails(Block(kind, program))

\* no difference between state and program: the engine keeps the inputs
Same ==
    /\ recorded # Nothing /\ program # Nothing
    /\ program = recorded.state
    /\ recorded.inputs # program
    /\ recorded' = Record(program)
    /\ UNCHANGED <<kind, program, config, late, drifts, synced>>

\* Delete takes the recorded state
Delete ==
    /\ ToDelete
    /\ recorded' = Nothing
    /\ Applied(Removal(kind, recorded.state))

DeleteFails ==
    /\ ToDelete
    /\ ApplyFails(Removal(kind, recorded.state))

\* what was read in the place of the inputs
Refresh_StateAsInputs ==
    /\ recorded # Nothing
    /\ ~ReadPanics(kind, recorded.inputs, config)
    /\ LET state == ReadBack(kind, recorded.inputs, config)
       IN  recorded' = IF state = Nothing THEN Nothing ELSE Record(state)
    /\ UNCHANGED <<kind, program, config, late, drifts, synced>>

\* Read starts from the recorded inputs, not from the recorded state.  A panic
\* is a refresh that fails.
Refresh ==
    /\ recorded # Nothing
    /\ ~ReadPanics(kind, recorded.inputs, config)
    /\ LET state == ReadBack(kind, recorded.inputs, config)
       IN  recorded' = IF state = Nothing THEN Nothing
                       ELSE [inputs |-> InputsRead(kind, recorded.inputs, config), state |-> state]
    /\ UNCHANGED <<kind, program, config, late, drifts, synced>>

\* The routing flags of a VRF are asked for in commands of their own, and one
\* that fails counts as a flag that is off.
RefreshProbesFail ==
    /\ recorded # Nothing
    /\ kind = "vrf"
    /\ \E failed \in (SUBSET {"ipRouting", "ipv6Routing"}) \ {{}} :
        LET object == VrfObject(recorded.inputs.name)
            answered == [p \in DOMAIN config \ ({object} \X failed) |-> config[p]]
            state == ReadBack(kind, recorded.inputs, answered)
        IN  recorded' = IF state = Nothing THEN Nothing
                        ELSE [inputs |-> recorded.inputs, state |-> state]
    /\ UNCHANGED <<kind, program, config, late, drifts, synced>>

-----------------------------------------------------------------------------
\* The environment: the author of the program, the device, other operators.
Edit(args) ==
    /\ args # program
    /\ program' = args
    /\ UNCHANGED <<kind, recorded, config, late, drifts, synced>>

LateCommit(block) ==
    /\ Accepted(config, block)
    /\ config' = Exec(config, block)
    /\ late' = late \ {block}
    /\ synced' = FALSE
    /\ UNCHANGED <<kind, program, recorded, drifts>>

Drift(block) ==
    /\ drifts < MaxDrift
    /\ Accepted(config, block)
    /\ config' = Exec(config, block)
    /\ drifts' = drifts + 1
    /\ synced' = FALSE
    /\ UNCHANGED <<kind, program, recorded, late>>

LifeNext ==
    \/ Create
    \/ CreateFails
    \/ Update
    \/ UpdateFails
    \/ Same
    \/ Delete
    \/ DeleteFails
    \/ Refresh
    \/ RefreshProbesFail
    \/ \E args \in Inputs(kind) \cup {Nothing} : Edit(args)
    \/ \E block \in late : LateCommit(block)
    \/ \E block \in Drifts(kind) : Drift(block)

LifeSpec == LifeInit /\ [][LifeNext]_lifeVars

\* The engine's part, as `pulumi refresh` and `pulumi up` run it again and again.
Reconcile == Create \/ Update \/ Same \/ Delete \/ Refresh

LifeFairSpec ==
    /\ LifeSpec
    /\ WF_lifeVars(Create)
    /\ WF_lifeVars(Update)
    /\ WF_lifeVars(Same)
    /\ WF_lifeVars(Delete)
    /\ WF_lifeVars(Refresh)

-----------------------------------------------------------------------------
\* The device has lines that EOS shows, each object those it is not without,
\* and the blocks that come late keep it so.
DeviceTypeOK ==
    /\ RunningConfig(config)
    /\ \A block \in late : WellFormed(block)

\* The recorded inputs were given by a program, and those of a VXLAN interface,
\* which a refresh may write over, still name it and have their Go types; the
\* device is one.
LifeTypeOK ==
    /\ kind \in Kinds
    /\ program \in Inputs(kind) \cup {Nothing}
    /\ recorded # Nothing =>
        /\ DOMAIN recorded = {"inputs", "state"}
        /\ Required(kind) \subseteq DOMAIN recorded.inputs
        /\ kind # "vxlanInterface" => recorded.inputs \in Inputs(kind)
        /\ WellTyped(kind, recorded.inputs) /\ Decoded(kind, recorded.inputs)
    /\ DeviceTypeOK
    /\ drifts \in 0 .. MaxDrift
    /\ synced \in BOOLEAN

\* A successful Create or Update leaves exactly what its inputs say under the
\* objects they name, whatever earlier inputs, late blocks and other operators
\* had left there.  (Blocks that negate before they render, or that are one
\* line EOS replaces: mlag.go:182-185, varp.go:113-114.)
ApplyConverges ==
    [][(Create \/ Update) /\ kind \in Rebuilt => InSync(kind, program, config')]_lifeVars

\* The blocks of the other kinds add to what is there.  That is enough where
\* the device is as the recorded inputs say and the program keeps every line
\* of theirs, with whatever values, and may add more: after the Update the
\* device is as the program says.
GrowingUpdateConverges ==
    [][/\ Update
       /\ kind \notin Rebuilt \cup RawKinds
       /\ InSync(kind, recorded.inputs, config)
       /\ Objects(kind, program) = Objects(kind, recorded.inputs)
       /\ DOMAIN Block(kind, recorded.inputs).set \subseteq DOMAIN Block(kind, program).set
       => InSync(kind, program, config')]_lifeVars

-----------------------------------------------------------------------------
\* Inputs as the device will show them.
Increasing(seq, Key(_)) == \A i, j \in DOMAIN seq : i < j => Key(seq[i]) < Key(seq[j])

Ordered(entries) == \A i, j \in DOMAIN entries : i < j => entries[i].seq <= entries[j].seq

\* nothing that is left out of the lines of a route-map entry: no empty clauses,
\* no flag that is off or without the values it is about, no values beside none
AllRendered(entry) ==
    /\ Has(entry, "match") => entry.match # Nothing
    /\ Has(entry, "set") =>
        LET set == entry.set
        IN  /\ set # Nothing
            /\ \A f \in DOMAIN set :
                /\ f \in {"communityNone", "communityAdditive", "extcommunityRtAdditive"} => set[f]
                /\ f = "communityNone" => ~Has(set, "community")
                /\ f = "communityAdditive" => Has(set, "community")
                /\ f = "extcommunityRtAdditive" => Has(set, "extcommunityRt")

\* switchport values other than those of a port without such lines
NoDefaultSwitchport(args) ==
    \A f \in SwitchportFields \cap DOMAIN args : ~IsDefault(f, args[f])

\* an election whose words are all rendered, and there is one
ElectionRendered(df) ==
    /\ Has(df, "algorithm") \/ Has(df, "holdTime")
    /\ Has(df, "algorithm") => (df.algorithm = "preference") = Has(df, "preference")
    /\ Has(df, "dontPreempt") => df.dontPreempt /\ Has(df, "preference")

VxlanInOrder(args) ==
    /\ Increasing(Or(args, "vlanVniMap", <<>>), LAMBDA e : e.vlanId)
    /\ Increasing(Or(args, "vrfVniMap", <<>>), LAMBDA e : e.vrf)
    /\ Increasing(Or(args, "floodVteps", <<>>), LAMBDA e : e)

\* the primary address, then the secondary ones, then IPv6; tracks by name
VrrpInOrder(args) ==
    LET addresses == AddressList(args)
    IN  /\ \A i \in PrimaryPlaces(args) : i = 1
        /\ \A i, j \in DOMAIN addresses \ PrimaryPlaces(args) : i < j =>
                \/ addresses[i][1] < addresses[j][1]
                \/ addresses[i][1] = addresses[j][1] /\ addresses[i][2] < addresses[j][2]
        /\ Increasing(Or(args, "tracks", <<>>), LAMBDA t : t.interface)

\* no track with a decrement beside "shutdown", which validate lets pass
TracksRendered(args) ==
    \A t \in Items(args, "tracks") : TrackLine(t) = Without(t, {"interface"})

\* no two sequences of a policy map with one number, which validate lets pass
PbrRendered(sequences) ==
    /\ Increasing(sequences, LAMBDA s : s.seq)
    /\ \A i \in DOMAIN sequences :
        LET action == sequences[i].action
        IN  PbrActionLine(action) = action

\* Inputs that say everything the device will show, as it will show it: a VLAN
\* name that is not one of the device's own, a MAC in the device's notation,
\* both recovery delays or none, entries in order of seq, the type of a list, no
\* word that EOS or the parser leaves out, no value that the device assumes, of
\* a VRRP group some line that is shown.
Explicit(args) ==
    CASE kind = "vlan" -> Has(args, "name")
      [] kind = "vlanRange" -> Has(args, "name") /\ args.name \notin LooksAuto
      [] kind = "varp" -> Canonical(args.mac) = args.mac
      [] kind = "mlag" -> Has(args, "recoveryMlag") = Has(args, "recoveryNonMlag")
      [] kind = "prefixList" -> Ordered(args.entries)
      [] kind = "communityList" -> Has(args, "type")
      [] kind = "extCommunityList" -> Has(args, "listType")
      [] kind = "asPathList" -> \A e \in Entries(args) : e.origin # "any"
      [] kind = "routeMap" -> Ordered(args.entries) /\ \A e \in Entries(args) : AllRendered(e)
      [] kind = "policyBasedRouting" -> PbrRendered(args.sequences)
      [] kind \in {"interface", "portChannel"} -> NoDefaultSwitchport(args)
      [] kind = "vxlanInterface" -> VxlanInOrder(args)
      [] kind = "vrrp" ->
            /\ VrrpInOrder(args) /\ TracksRendered(args)
            /\ ~VrrpMissing(Wanted(kind, args), Object(kind, args))
      [] kind = "stp" ->
            /\ Has(args, "stpMode")
            /\ Has(args, "mst") => Increasing(args.mst.instances, LAMBDA i : i.id)
      [] kind = "evpnEthernetSegment" ->
            Has(args, "designatedForwarder") => ElectionRendered(args.designatedForwarder)
      [] kind = "vrf" -> Has(args, "ipRouting") /\ Has(args, "ipv6Routing")
      [] kind = "rpki" -> Has(args, "transport")
      [] kind = "rcf" -> ~Has(args, "sourceUrl")
      [] kind = "resilientEcmp" -> Has(args, "ipFamily")
      [] kind = "routerBgp" -> \A vrf \in Items(args, "vrfs") : ~Has(vrf, "routerId")
      [] OTHER -> TRUE

\* nothing else on the device that Read would take for this resource's own
OnItsOwn(args) ==
    /\ kind = "staticRoute" =>
        \A d \in 1 .. Or(args, "distance", 1) - 1 : ~Exists(config, RouteOf(args, d))
    /\ kind = "routeMap" => Following(config, args.name) = <<>>
    /\ kind = "vrf" =>
        \A name \in ToSet(LongerNames(args.name)) : ~Exists(config, VrfObject(name))

RefreshShowsNoDiff ==
    /\ ~ReadPanics(kind, recorded.inputs, config)
    /\ ReadBack(kind, recorded.inputs, config) = recorded.inputs

\* As long as nobody else changes the device, a refresh of a resource with
\* explicit inputs reads back the inputs it was applied with, so the next
\* `pulumi up` has nothing to do.  A block that only adds must have found the
\* device without lines of earlier inputs.
ExplicitArgsNoDiff ==
    /\ recorded # Nothing
    /\ synced
    /\ Explicit(recorded.inputs)
    /\ OnItsOwn(recorded.inputs)
    /\ kind \in MergeKinds => InSync(kind, recorded.inputs, config)
    => RefreshShowsNoDiff

\* docs/01-architecture.md:63: "Same `Args` -> no diff; CRUD ops MUST be safe
\* to repeat."  The same, for whatever inputs.
SameArgsNoDiff ==
    recorded # Nothing /\ synced => RefreshShowsNoDiff

\* kinds whose Read sees every knob, present or gone
FullyRead == {"vlan", "varp", "rcf"} \cup (ListKinds \ {"prefixList"})

\* docs/02-implementation-plan.md:239: "Drift: hand-edit on device -> `pulumi
\* refresh` reports the drift."  When a refresh shows no difference the device
\* holds just what the inputs say; for the kinds whose Read sees every knob.  (A
\* VLAN that is given the name EOS makes up for one without is not told from
\* that; inputs that are not valid are recorded when the state happens to be
\* the same.)
DriftReported ==
        /\ recorded # Nothing
        /\ kind \in FullyRead
        /\ Valid(kind, recorded.inputs)
        /\ kind = "vlan" => Or(recorded.inputs, "name", "") # AutoName
        /\ OnItsOwn(recorded.inputs)
        /\ RefreshShowsNoDiff
    =>  InSync(kind, recorded.inputs, config)

\* kinds whose Read overlays the knobs it finds, each with its whole value
OverlaidWhole ==
    {"interface", "portChannel", "vlanInterface", "loopback", "subinterface", "greTunnel",
     "vxlanInterface", "stp", "evpnEthernetSegment", "vrf", "bfd"}

\* kinds whose Read overlays knobs of which it leaves out zeros and empty words
OverlaidInPart == {"mlag", "staticRoute", "prefixList", "vrrp", "rpki"}

\* Lines that Read passes over: numbers whose zero counts as none, the mode of a
\* port beneath `no switchport`, a preemption that is off, whose line
\* begins with `no`, and the first secondary address of a group without a
\* primary one, for which Read takes it.
Untold(p) ==
    \/ /\ kind \in {"mlag", "vrrp"}
       /\ p[2] \in {"primaryPriority", "reloadMlag", "reloadNonMlag", "preemptDelayMinimum"}
       /\ ~(config[p] > 0)
    \/ /\ kind \in {"interface", "portChannel"}
       /\ p[2] = "switchportMode" /\ <<p[1], "routed">> \in DOMAIN config
    \/ kind = "vrrp" /\ p[2] = "preempt"
    \/ /\ kind = "vrrp" /\ p[2] = "secondary" /\ <<p[1], "primary">> \notin DOMAIN config
       /\ \A a \in ShownKeys(config, p[1], "secondary") : p[3][2] <= a[2]

\* For these kinds a refresh misses a knob that is gone, but never one that was
\* added under the resource; for most of them, nor one whose value has changed.
AddedKnobReported ==
    LET held == Part(config, Objects(kind, recorded.inputs))
        wanted == Wanted(kind, recorded.inputs)
    IN  /\ recorded # Nothing
        /\ kind \in OverlaidWhole \cup OverlaidInPart
        /\ OnItsOwn(recorded.inputs)
        /\ RefreshShowsNoDiff
        =>  \A p \in DOMAIN held : ~Untold(p) =>
                p \in DOMAIN wanted /\ (kind \in OverlaidWhole => held[p] = wanted[p])

\* Once the program, the device and failed operations come to rest, for the
\* kinds whose Read sees every knob, refreshes and updates that go on bring the
\* device to what a valid and explicit program says, and then have nothing
\* more to do; a resource that left the program is forgotten.
Settled ==
    IF program = Nothing THEN recorded = Nothing
    ELSE kind \in FullyRead /\ Valid(kind, program) /\ Explicit(program) /\ OnItsOwn(program)
         => recorded = Record(program) /\ InSync(kind, program, config)

DriftHealed == <>[][Reconcile]_lifeVars => <>[]Settled

-----------------------------------------------------------------------------
\* After a successful Delete the device has none of the resource's objects.
\* VARP and the attachments of a policy map are taken back by their values, so
\* that needs the device as the last apply left it; a body of raw lines is not
\* taken back at all.
DeleteRemoves ==
    [][/\ Delete
       /\ kind \notin RawKinds
       /\ kind \in {"varp", "policyBasedRouting"} => synced
       => Part(config', Objects(kind, recorded.state)) = Empty]_lifeVars

\* Nothing changes but the objects, what stands under them, and the headers of
\* the objects entered on the way.
Untouched(objects, entered) ==
    \A p \in DOMAIN config \cup DOMAIN config' :
        ~Within(p[1], objects) /\ p \notin DOMAIN Headers(entered)
        => p \in DOMAIN config \cap DOMAIN config' /\ config'[p] = config[p]

OnTheWay(k, args) == IF k \in OneObjectKinds THEN Entered(k, args) ELSE {}

\* static_route.go:40-41: "the composite ID encodes that identity so each row
\* tracks separately."  An operation changes no object but those its inputs
\* name; a Delete, those the inputs of the resource name.
TracksSeparately ==
    [][/\ Create \/ Update => Untouched(Objects(kind, program), OnTheWay(kind, program))
       /\ Delete => Untouched(Objects(kind, recorded.inputs), OnTheWay(kind, recorded.inputs))]_lifeVars

\* The same for the kinds whose Read keeps the fields that make the identity.
OthersUntouched ==
    [][kind # "staticRoute" =>
        /\ Create \/ Update => Untouched(Objects(kind, program), OnTheWay(kind, program))
        /\ Delete => Untouched(Objects(kind, recorded.inputs), OnTheWay(kind, recorded.inputs))]_lifeVars

\* When a refresh drops the resource from the state, none of its objects is
\* left on the device.  (A VLAN range is dropped when either end is missing, a
\* cache without its host line, a policy map whatever it is attached to, and an
\* IPv6 prefix is looked for among the IPv4 ones when the family is left out.
\* The `no` form of a preemption does not make a VRRP group.)
ForgottenIsGone ==
    [][/\ recorded' = Nothing
       /\ Refresh
       /\ kind \notin {"vlanRange", "rpki", "policyBasedRouting"}
       /\ kind = "resilientEcmp" => Has(recorded.inputs, "ipFamily")
       => \A p \in DOMAIN Part(config, Objects(kind, recorded.inputs)) :
            kind = "vrrp" /\ p[2] = "preempt"]_lifeVars

\* route_map.go:526: "parseRouteMapSection extracts entries from a `route-map
\* <name> ...` section block."  What Read makes of a list depends on that list
\* only.
ReadsOwnList ==
    recorded # Nothing /\ kind \in ListKinds =>
        ReadBack(kind, recorded.inputs, config) =
            ReadBack(kind, recorded.inputs, Part(config, Objects(kind, recorded.inputs)))

\* static_route.go:144-145: "structural changes flow through replace, not
\* update".  Without failures and other operators, the device has no object
\* but those the recorded state names, so a Delete leaves nothing behind.
NoOrphans ==
    \A p \in DOMAIN config :
        recorded # Nothing /\ p[1] \in Objects(kind, recorded.state)
=============================================================================
