# pulumi-eos: TLA+ models, model checking and proofs

`pulumi-eos` is a Pulumi provider for Arista EOS.  A resource of a Pulumi
program (a VLAN, an MLAG domain, a static route, ...) becomes a block of EOS
configuration that is staged in a named *configuration session* on the device
and committed as a whole.  This directory holds TLA+ modules translated from
the Go source, the TLC configurations that check them, and theorems that TLAPS
proves.  Line numbers refer to the files under `src/`.

## The system

| Component | State it keeps | Operations |
|---|---|---|
| eAPI client, `internal/client/eapi/client.go` | per `Client` a one-slot channel `sessionSlot`; per `Session` a name and `open` | `New`, `RunCmds`, `RunCmdsRich`, `OpenSession`, `Stage`, `StageRich`, `Diff`, `CommitTimer`, `Commit`, `Abort` |
| Resource apply functions, `internal/resources/*/*.go` | none: the control state of one goroutine | `applyX(ctx, args, remove)`: open, stage, (diff), commit, or abort |
| Resource CRUD, same files | none of its own; the engine keeps inputs and state, the device keeps the configuration | `Create`, `Read`, `Update`, `Delete`, `validateX` |
| Renderers and parsers, same files | none | `buildXCmds`, `parseX...`, `fillState` |
| Provider configuration, `internal/config` | the decoded provider arguments | `Configure`, `EAPIClient`, `GNMIClient`, `CVPClient`, `splitEOSURL` |
| gNMI and CVP clients, `internal/client/gnmi`, `internal/client/cvp` | one connection | `New`/`Dial`, `Get`, `Capabilities`, `Close` |
| Device facts, `internal/resources/device/device.go` | none | `Read` (`show version`) |
| MAC address table, `internal/resources/l2/mac_address_table.go` | none | an invoke: `show mac address-table`, filtered and sorted |
| Registry and entry point, `internal/provider`, `cmd` | none | registration of resources |
| Development tooling, `scripts`, `test/integration`, `tools` | none | probes and audits |
| External: Pulumi engine and `pulumi-go-provider` | checkpoint: inputs and state of each resource | diff, create, update, delete, refresh |
| External: EOS device and `goeapi` transport | running-config, named sessions, commit timers | the commands of a request |

How they interact: the engine calls CRUD methods, several at a time.  A method
validates, asks `config.EAPIClient` for a `Client` and calls the apply
function, which drives one `Session`.  Every Session call is one eAPI request.
`Read` uses `RunCmds` and overlays what it parses on the inputs.

What is hard: operations run at the same time against one device; an answer
may be lost or late, so that a request may be executed after its caller has
given up; a context may expire between any two calls; a request is refused
half way through its lines; the provider dies and leaves a session behind;
blocks are additive or rebuilt, depending on the resource; and what the engine
compares is the *state that Read returned*, with values the device made up.

What makes each part correct:

- client: one session per `Client` at a time, the slot is always given back,
  and a caller whose context has expired is never stuck;
- apply: a block comes into force whole or not at all, success is reported only
  if it did, a failed operation cleans up, and every operation returns;
- CRUD: after an apply the device holds what the inputs say, a refresh then
  shows no difference, drift shows one, a delete removes what was made, and
  nothing else is ever touched;
- renderer and parser: reading back what was rendered gives the inputs again.

## Modules

| Module | Models | Uses |
|---|---|---|
| `EapiClient` | the client and, as external actions, device and transport | |
| `MCEapiClient` | its instance | `EapiClient` |
| `AtomicApply` | abstract: what an operation promises | |
| `ResourceApply` | the apply functions over `EapiClient`; refinement to `AtomicApply` | `EapiClient`, `AtomicApply` |
| `MCResourceApply` | its instances | `ResourceApply` |
| `EapiClientProofs`, `ResourceApplyProofs` | theorems | TLAPS |
| `EosConfig` | running-config as a partial function from `<<object, knob>>`; the effect of a block | |
| `VlanResource`, `SingletonResources`, `StaticRoute` | Vlan and VlanRange; Varp and Mlag; StaticRoute | `EosConfig` |
| `NamedLists`, `RouteMap` | PrefixList, CommunityList, ExtCommunityList, AsPathAccessList; RouteMap | `EosConfig` |
| `Interfaces` | Interface and PortChannel with their switchport lines, VlanInterface, Loopback, Subinterface, GreTunnel | `VlanResource` |
| `VxlanInterface`, `Vrrp` | VxlanInterface and its VNI bindings; one VRRP group | `EosConfig` |
| `L2Services`, `L3Services` | Stp, EvpnEthernetSegment; Vrf, Bfd, Rpki, ResilientEcmp, Rcf | `EosConfig`, `NamedLists` |
| `PolicyBasedRouting` | a policy map and the interfaces it is attached to | `NamedLists` |
| `RouterBgp`, `RouterOspf` | the two routing processes | `EosConfig` |
| `Resources` | validate, objects, block, removal and Read of all thirty kinds, Configlet and RawCli among them | those above |
| `DeviceLines` | the lines that EOS shows, object by object: the type of a running-config | `Resources` |
| `ResourceLifecycle` | engine, CRUD, failed applies, drift | `DeviceLines` |
| `MCResourceLifecycle` | inputs and drifts for TLC | `ResourceLifecycle` |
| `SortingProofs` | lemmas on sets and lists put in order (`InOrder`) | TLAPS |
| `DeviceLinesProofs` | lemmas: the blocks of valid inputs have lines that EOS shows | `SortingProofs` |
| `ResourceLifecycleProofs`, `ReadBackProofs`, `AddedKnobProofs` | theorems: what applies and deletes do; what a refresh that shows no difference has seen | TLAPS |
| `RoundTripProofs` | theorem, with a lemma per kind: what was applied is read back | TLAPS |

A definition named `X_Something` just before `X` is a wrong version of `X`, of
the kind a mistake in the code would be.  It is used by no module: it exists to
see that the properties notice when it takes the place of `X`.

### EapiClient

`slot[c]` is the token in `Client.sessionSlot`.  `sess[o]` is the life of the
Session of operation `o`: *acquiring* while it is in the `select` of
`OpenSession`, *opening* while the `configure session` request is out, *open*,
*closed*.  `call[o]` is the `RunCmds` call it is in, `cancelled[o]` its context.
The device has the sessions that exist (`live`), their lines (`staged`), what a
commit timer holds (`trial`) and `running`.  `stray` are requests whose caller
gave up: `ServeStray` executes one at any later time, `LoseStray` never.

`OpenSession`, `Acquire`, `AcquireCancelled` and `OpenReturns` are the steps of
`OpenSession` (client.go:232-252); `Stage`, `StageRich`, `Diff`, `CommitTimer`,
`Commit`, `Abort` send a request; `Answer`, `Lose` and `CancelRich` end it;
`CallReturns` and `CloseReturns` go back to the caller.  `Commit` and `Abort`
set `open` to false and free the slot *before* they look at the error, and
every call returns at once when the context has expired, both as in the code.
A refused request executes a prefix of its lines.

Lines are abstract: `<<o, k>>` is line `k` of the block of operation `o`, so a
property can say whose configuration is where.

### ResourceApply

One control location per call of the apply functions.  `Kind` picks the shape:
`apply` (most resources), `varp` (the block is rendered after `OpenSession` and
may fail), `rcf` (`StageRich`), `rawcli` (`Diff` before `Commit`, `Abort` when
there is nothing to do).  `Before` orders operations as `dependsOn` does.  The
mapping to `AtomicApply`: an operation is applied when its whole block is in
running-config, and its outcome is the verdict it returned.

### ResourceLifecycle

`program` is what the Pulumi program says, `recorded` the engine's checkpoint
(inputs and state), `config` the device, `late` the blocks of failed applies
that may still come into force, which is all that `AtomicApply` allows a
failed operation to do.  `Create`, `Update`, `Delete`, `Refresh` are the CRUD
methods; the `...Fails` actions are the same with an error; `Same` is an engine
step without a call; `Edit`, `LateCommit` and `Drift` are the environment.
`synced` is a history variable: nobody else has changed the device since the
last successful apply.

A resource is five operators of its inputs: `Valid`, `Objects` (the objects of
the device it names), `Block`, `Removal` and `ReadBack`.  Inputs are partial
functions; a Go pointer that is nil is a field outside the domain.  `Resources`
puts the thirty kinds together, in families:

| Family | Kinds | Block | Read |
|---|---|---|---|
| own operators | vlan, vlanRange, varp, mlag, staticRoute, policyBasedRouting | `VlanBlock`, ... | `VlanRead`, ... |
| `ListKinds` | the four filter lists, routeMap | `ListBlock`: negate, then the lines | `ListRead`: what the parser finds, or gone |
| `MergeKinds` | interfaces, vrrp, stp, vrf, bfd, rpki, routerBgp | `OneBlock`: adds lines to one object | `OneRead`: what is found overlaid on the inputs |
| `RebuildKinds` | evpnEthernetSegment, rcf, resilientEcmp, routerOspf | `OneBlock`: negates its object first, or is one line | `OneRead` |
| `RawKinds` | configlet, rawCli | any block: the body | none: Read asks no device |

For a kind of one object (`OneObjectKinds`) a module says which lines and table
rows the inputs render (`...Lines`, `...Rows`) and which fields the parser
makes of what is there (`...Found`); `Identity` names the fields that make the
object, `Missing` says when Read takes it for gone.  A VRRP group, an Ethernet
segment and an RPKI cache stand under another object: their blocks, and their
removals, enter it and so create its header (`Entered`, `OneRemoval`), and they
go when it goes (`Nested`).

Three details that are easy to miss.  `RefreshProbesFail`: Vrf.Read asks for the
two routing flags in requests of their own, and takes a failed one for a flag
that is off.  `InputsRead`: VxlanInterface's fillState appends to slices that
the state shares with the inputs (`(*base)[:0]`), so a refresh may write over the
inputs that Read returns; `VxlanInputsRead` says which cells.  `Accepted`: EOS
has one BGP instance, so a Create or Update with a second number never succeeds.

`DeviceLines` says what a running-config can be (`RunningConfig`): which knobs
stand under which object, the values they have (a list in order of seq, a MAC in
the device's notation, `no` forms that are not shown), and the lines an object is
not without (`Core`: a VLAN has a header, a community list a type).  `DeviceTypeOK`,
part of `LifeTypeOK`, requires it of the device and of every late block.  It is the
type that Read parses, so what a refresh sees is stated against it.
`WellTyped` is the same for the inputs: the Go types of the fields that the lines
depend on; `Decoded`, those that matter where what Read returns is compared with
the inputs (structs are partial functions, flags are booleans, an election has its
four fields).  The lines of policy maps, BGP and OSPF are left open there.

External assumptions, all in `EosConfig` or `DeviceLines` or noted where they are made: EOS shows
a knob exactly when a line set it to something other than what holds without it
(`Default`, from the integration tests); `no X` removes all of X and what stands
under it; one BGP instance; a route line
replaces the one with the same VRF, prefix, next hop and distance;
a list keeps one line per seq and shows its lines in order of seq; an AS-path
entry without an origin is shown with `any`; `show running-config` lists routes
by distance, route maps, VRFs and the rows of a table by name or number, and
`section` shows those whose header
contains its argument; the engine's diff compares the
recorded state with the inputs, field by field (no resource has a `Diff`).

## Runs

| Run | Instance | Shows |
|---|---|---|
| `eapi` | 2 operations, 1 Client, 1 name, 1 line, all faults | slot has one owner; an expired caller is not stuck; types |
| `apply_isolated` | 3 operations of the 3 unlike shapes, own names, 2 Clients, 2 lines, all faults and refusals | blocks are atomic, success is true, refinement of `AtomicApply`, every operation returns |
| `apply_shared` | 3 operations, one name, one Client, refusals of open, stage and diff | each finds a fresh session, a failed one changes nothing, no session is left |
| `lifecycle` | all 30 kinds, 3-5 inputs each, 2-5 drifts each, 2 drifts, 1 late block | the CRUD properties below |
| `drift_healed` | vlan, varp, rcf, asPathList, communityList, extCommunityList; the same bounds, with fairness | `DriftHealed` |
| `cancel_leak` | an operation whose context expires | **violates** `NoResidue` |
| `stale_session` | a refused commit, then the next operation | **violates** `FreshSession` |
| `client_per_operation` | two operations, one name, a Client each | **violates** `BlockAtomic` |
| `refresh_diff` | a VLAN without a name | **violates** `SameArgsNoDiff` |
| `floating_route` | a static route, two drifts | **violates** `TracksSeparately` |
| `neighbour_map` | two route maps, one name the beginning of the other | **violates** `ReadsOwnList` |
| `orphan` | a static route whose next hop changes | **violates** `NoOrphans` |

Why the bounds are enough.  Two operations suffice for every conflict over the
slot; three cover one holder, one waiter and one bystander.  A block of two
lines is the shortest of which a part can be applied.  `MaxStray = 1` lets one
request be executed late, between any two steps of everybody; with the
inductive invariant the isolated instance was also checked with 2.  In the
lifecycle, one late block and two drifts let the device lose an object and gain
another, or change twice, between any two steps of the engine; edits, applies
and refreshes are not bounded.  `VlanIdMax = 4` and `DistanceMax = 3` stand for
4094 and 255: ranges need a start, a middle, an end and a neighbour; routes a
default distance, an own and a foreign one.  `SeqMax`, `MaskMax`, `HalfMax` and
`NumberMax` stand for 65535, 32, 65535 and 4294967040; lists have two entries,
in order and out of order, route maps every line that renders more than one
field, and VRRP groups a track with a decrement that its action does not render.  Each kind has inputs with and without its optional fields, for tables
rows in and out of order and one changed, and where validation can fail an input
that fails it; most fields with a default are named with it by an input of one of
the kinds that share its code.  Fields that do not touch each other are given by
the same input: the kinds are independent, so the run has as many states as
all of them together (about 403 000), and one field more that comes and goes by
itself doubles the part of its kind.  Drifts add a line, change one, take one or
all away, and take the object it stands under.

`drift_healed` has six of the kinds whose Read sees every knob: one of each way
to read (a name, a MAC in any notation, code or file, three lists).  Checking
liveness of the route maps as well takes far more than the minutes a run may
have; their safety is in `lifecycle`.

Deadlock is checked in every run; `ResourceApply` has a stuttering step,
`Quiesce`, for the state in which all operations have returned.

`apply_shared` and `client_per_operation` differ in one thing.  The package
comment of the client asks for one long-lived `Client` per device; there the
slot orders operations on one session name, and `apply_shared` holds.  The
provider itself builds a `Client` for each call of `EAPIClient`
(clients.go:108), and then it orders nothing.

### What the seven violations say

1. `cancel_leak`: docs/01-architecture.md:64 promises "abort active config
   session on cancel".  The calls that would do it use the expired context and
   send nothing.
2. `stale_session`: after a refused commit the Session counts as closed, so
   nobody can abort it; the session and its lines stay on the device and the
   next apply under the same name commits them too.  configlet.go:131 says
   "fresh configuration session".
3. `client_per_operation`: see above; client.go:216 promises an atomic block.
4. `refresh_diff`: docs/01-architecture.md:63, "Same Args, no diff".  Vlan.Read
   takes the name that the device gives an unnamed VLAN into the state.
5. `floating_route`: static_route.go:40-41, "each row tracks separately".  Read
   ignores the distance, and Delete acts on what Read recorded.
6. `orphan`: static_route.go:143-145, "structural changes flow through replace,
   not update".  Nothing declares that, so they are updates.
7. `neighbour_map`: route_map.go:526, "extracts entries from a `route-map <name>
   ...` section block".  The clauses of the maps after it, whose names begin with
   its name, are read into the last entry of the map.
`SameArgsNoDiff` fails for other inputs too, with other causes: entries that are
not in order of seq (Read sorts them), a list without its type (Read fills it
in), `communityAdditive` that is false, an AS-path expression that ends in
`any`.  `Explicit` names them all.

### Properties of the lifecycle run

- `ApplyConverges`: for the kinds that rebuild (`Rebuilt`), a successful apply
  leaves exactly what the inputs say, from any configuration.
- `GrowingUpdateConverges`: the blocks of the others only add, so a field that
  leaves the inputs stays on the device.  What they do promise: where the device
  was in sync with the recorded inputs and every line of those is still rendered,
  it is in sync after the Update.  The comments that say an Update clears first
  (vxlan_interface.go:172-174), or emits `no <field>` (gre_tunnel.go:286-290),
  describe code that is not there.
- `ExplicitArgsNoDiff`: with inputs that name everything the device will show,
  in the order in which it shows it,
  a refresh of an untouched resource reads back the inputs.  `Explicit` says
  what that means for each kind, and `refresh_diff` what happens otherwise.  Four
  of its conditions are easily missed.  A VRRP group needs some line that is
  shown: one with nothing but `preempt: true` has none, and Read takes it for gone.
  A policy map needs sequences of different numbers: validatePbr
  (policy_based_routing.go:242-260) lets two of one number pass, of which EOS
  keeps one.  A tracked object with the action `shutdown` needs to have no decrement
  (`TracksRendered`): validateVrrp (vrrp.go:251-255) lets it pass and
  appendVrrpTracks (vrrp.go:418-420) does not render it, so Read never finds it.
  A segment with the election algorithm `preference` needs a preference
  (`ElectionRendered`): evpn_ethernet_segment.go:90-91 calls it required, validate
  does not ask for it, and where the device shows the line without a number the
  parser, which slices the words after it, panics (line 439).  In the model such a
  refresh (`ReadPanics`) does not happen, since it answers nothing.
- `DriftReported`: for the kinds whose Read sees every knob (`FullyRead`), a
  refresh without difference means that the device is in sync.  Two things are
  left aside, as the code is: inputs that are not valid, which the engine records
  when the state happens to be the same, and a VLAN whose inputs spell out the
  name that EOS makes up, which Read does not tell from a VLAN without a name.
- `AddedKnobReported`: the Read of most other kinds overlays what is there and
  cannot see that a knob is gone; but one that was added, and for
  `OverlaidWhole` one whose value changed, shows.  `Untold` names the lines that
  Read passes over: numbers whose zero counts as none (MLAG, VRRP), the mode of
  a port beneath `no switchport`, `no preempt`, and the first secondary address of
  a VRRP group without a primary one, for which Read takes it.  Not for VlanRange
  (Read looks at the two ends), PolicyBasedRouting (not at the attachments),
  RouterBgp and RouterOspf (at four and five knobs), ResilientEcmp, Configlet and
  RawCli.
- `DriftHealed`: when program, device and failed operations come to rest,
  refreshes and updates bring the device to what the program says, and then
  find nothing more to do.  It is what the two properties before amount to: a
  Read that misses a difference leaves it for ever, one that invents a
  difference never comes to rest.
- `DeleteRemoves`, `OthersUntouched`, `ForgottenIsGone`: what an operation takes
  away, what it leaves alone, what it may forget.  VARP and the attachments of a
  policy map are taken back by value, so `DeleteRemoves` needs the device as the
  last apply left it; Configlet's Delete does nothing at all.  A refresh may forget a
  VRRP group of which only `no vrrp 1 preempt` is left: Read looks for lines that
  begin with `vrrp`.

What the properties leave out is code that does otherwise, found while
modelling and listed with its line under the hazards: rows of a VXLAN interface
and fields of a tunnel that stay; a new BGP number, which is an Update that EOS
refuses for ever; the router-id of a VRF read as that of the instance; an IPv6
prefix without a family, which a refresh forgets; a unit pulled from a URL,
which is shown as code; interfaces a policy map is no longer attached to.

## Fairness

`EapiClient!FairSpec` assumes weak fairness of `AcquireCancelled`: Go runs a
goroutine whose `select` has a ready case.  `ResourceApply!FairApplySpec`
assumes it of the steps of each operation and of `Answer`: goroutines run, and
a request ends with an answer or an error, as goeapi's connections time out (the
client sets no timeout itself, whatever the comment at client.go:111-112 says).  Nothing is assumed of the environment: no fault, late request,
crash, commit timer or cancel has to happen, and none is excluded.

`ResourceLifecycle!LifeFairSpec` assumes weak fairness of `Create`, `Update`,
`Same`, `Delete` and `Refresh`: the operator goes on running `pulumi refresh` and
`pulumi up`, as the drift procedure asks (docs/06-testing.md:41-48), and an apply
that is repeated often enough succeeds.  Only `DriftHealed` needs it, and
only for behaviours in which the environment comes to rest; the safety runs use
`LifeSpec`, in which the operator may stop at any time.

## Proofs

All theorems hold for every value of the constants that meets the named
assumptions: `ConstantsAssumption` and `KindAssumption` (types),
`LifecycleAssumption`, `InputsAssumption` (the inputs have the fields that are
not pointers in Go and the Go types of the others, `WellTyped` and `Decoded`, some
field is there, and nothing stands under itself), `DriftsAssumption` (others, too, only configure
lines that EOS has), `MacAssumption` (normalising a MAC twice is normalising it
once), `ListAssumption` and the like (bounds are numbers).  TLC evaluates all of them
in the runs.  The last conjunct but two of `WellTyped`, that `LongerNames(name)` is
a list, types a constant operator: the VRF names that begin with `name`.

| Module | Theorem | Says |
|---|---|---|
| `EapiClientProofs` | `TypeCorrect`, `SlotExclusive` | types; the slot has one owner, on every path and under every fault |
| `ResourceApplyProofs` | `ImplementsEapiClient`, `ApplySlotExclusive`, `ApplyTypeCorrect` | the apply functions use the API as the client allows |
| | `BlocksAtomic`, `SuccessMeansApplied`, `AppliesAtomically` | under `NamesDistinct`, any number of operations, whatever fails: atomic blocks, true success, refinement of `AtomicApply` |
| | `SessionIsFresh` | fresh sessions: under `NamesDistinct` whatever fails, or under `SlotOrTurns` and `Undisturbed` for operations that share session names |
| | `FailureAppliesNothing`, `NoSessionLeft` | under `SlotOrTurns` and `Undisturbed`, any number of operations on any session names: failures apply nothing, nothing is left |
| `ResourceLifecycleProofs` | `LifeTypeCorrect` | the device shows only lines that EOS shows, complete and typed; the recorded inputs are inputs a program gave |
| | `ApplyAlwaysConverges` | an apply of a rebuilt kind brings the device in sync, from any configuration |
| | `GrowingUpdateAlwaysConverges` | an Update of any other kind that keeps every line keeps the device in sync |
| | `DeleteAlwaysRemoves` | a delete leaves none of the objects |
| | `OthersAlwaysUntouched` | no operation touches an object its inputs do not name (all kinds but StaticRoute) |
| `ReadBackProofs` | `ForgottenAlwaysGone` | a refresh forgets only what is gone, down to its last line (but for a VRRP preemption that is off) |
| | `DriftAlwaysReported` | a refresh without difference of a kind that is fully read has found what the inputs say, and nothing else |
| `AddedKnobProofs` | `AddedKnobAlwaysReported` | for the kinds whose Read overlays, such a refresh has passed over no line that was added, and over no value changed where knobs are read whole |
| `RoundTripProofs` | `ExplicitArgsAlwaysNoDiff` | while nobody else changes the device, explicit inputs are read back as they were given, for all thirty kinds and after any history |

*Slot.*  `SlotHeldByOne` is not inductive: that the slot is free when nobody
holds it needs that the request an operation is in fits the life of its Session
(`CallOfHolder`), and that an operation in `opening` or `open` has the slot
(`HoldersHaveSlot`, `HoldersDiffer`, `SlotHasHolder`).

*Atomicity.*  `NamesDistinct` gives each operation a device session of its own.
The invariant then says, for one operation: its call fits its control location
(`CallMatchesPc`); its session has lines of its own only (`OwnLines`) and no
commit timer (`NoTrial`); when it is about to commit, the whole block is staged
(`WholeBlockStaged`); a stray request belongs to an operation that has given up
(`StrayGivenUp`); a stray commit finds the whole block or nothing
(`StrayCommit`); hence running-config has all or none of the block
(`BlockAtomic`), and a success has it (`VerdictTrue`).  `NamesDistinct` is
needed: `client_per_operation` is the counterexample without it.

*Shared sessions.*  Without `NamesDistinct` something else has to keep the users of
a session apart, so this invariant is another one, on top of `SlotInv`.
`SlotOrTurns` says what: two operations of one name share a Client, hence its slot,
as the package comment asks for, or one starts after the other has returned, each
with a Client of its own, which is what `config.EAPIClient` (clients.go:108) and
the engine give the operations of one resource in successive deployments.
`Undisturbed` excludes faults and refused commits and aborts.  Both are needed: the
runs `client_per_operation`, `cancel_leak` and `stale_session` are the
counterexamples without them.  `SharedInv` says where each session stands at each
control location (`SessionsStand`: it does not exist before it is opened and
after it was closed, is empty until its user stages, and holds the whole block
from then on), and that a session exists only while somebody holds it
(`LiveIsHeld`).  The step that matters is `Acquire`: a free slot means that
nobody of that Client holds a session, the users of that name with another Client
have returned or not begun (`InTurn`), so the name is not there
(`SlotFreeNoSession`).

*Lifecycle.*  Convergence and frame need only the shape of the blocks: a lemma
says that a block that drops its objects and sets lines under them forgets the
past, another that a block that adds covers a part of the device whose lines it
all sets, a third that one confined to some objects leaves others alone; each
kind's block is shown to be of that form, one case per family.
`DeleteAlwaysRemoves` needs an
invariant, `LifeInv`: VARP takes its line back by MAC, so the line on the device must be
the normal form of the MAC in the recorded state (`VarpLineIsOurs`), and the
attachments of a policy map are taken back by its name, so those at the
interfaces of the state must be its own (`PolicyIsOurs`), through
refreshes, edits and failed operations, as long as nobody else changed the
device.
`OthersAlwaysUntouched` needs `StateNamesOwnObjects`: Read may change the state,
but not its identity, which is just what StaticRoute does not keep; for a list
or a kind of one object these are fields the parsers never find.

*Refresh.*  What a refresh sees depends on what can be on the device, so the
invariant says that first: `DeviceTypeOK`, the device part of `LifeTypeOK`.  It is
inductive because each block of valid inputs has only lines that EOS shows, with
the core lines of every object it makes (`DeviceLinesProofs`, a lemma per kind),
because negating an object takes all of its lines, and because late blocks and
drifts are such blocks too.  (Header lines of what stands under another object
are the delicate part: `Entered` makes a parent with its header and nothing else.)
The three theorems then need no more than one state.  `ForgottenAlwaysGone`: Read
misses a core line, so none is there.  `DriftAlwaysReported`: Read gave back the
inputs, so the inputs are what Read makes of the device, and rendering that gives
the lines of the device again; this is where the order matters in which EOS shows
entries, and that sorting a list that is in order leaves it as it is
(`SortingProofs`).  `AddedKnobAlwaysReported`: the same for one line, by a lemma per
kind (`PortBack`, `EvpnBack`, ...): a line that is shown is found, what is found is
overlaid on the inputs, and since the inputs did not change they render it.  A
VRRP group needs where an address stands in the list that Read puts together
(`AddressPlaces`), because the first IPv4 one is rendered as the primary one: that
is how the proof found the last line of `Untold`.

*Read back.*  `ExplicitArgsAlwaysNoDiff` is the other direction: what was rendered
is parsed into what was given.  It rests on a lemma per kind (`PortRoundTrip`,
`VrrpRoundTrip`, `RouteMapRoundTrip`, ...), of one state: a device in sync with the
inputs shows the lines of the block (`SyncedLines`, `SyncedRows`), less those that
say what holds anyway; each field is found there with its value, none is found that
was not given, and what is found, laid over the inputs, changes nothing
(`OverlayGiven`).  What comes back in this way has a preference wherever the
algorithm asks for one, so Read did not panic (`ComesBackWithoutPanic`).  The lists and tables need that sorting leaves an order alone: rows
come back by key, VRRP addresses as primary, secondary, IPv6 (`AddressesComeBack`).
The property is not inductive, and "the inputs were applied" is not an invariant:
the state of a refresh may be adopted by the next `pulumi up` without an apply
(`Same`), and a Read of a VLAN without a name or of a list out of order returns
other inputs than were applied.  `RecordedIsApplied` says that on an untouched device
the recorded inputs were applied and valid, or are such that Read returns them; and
that the recorded state is the inputs or what Read makes of them.  The step `Same`
then needs that Read of what was read returns it (`ReadTwice`, again by kind).  Kinds
whose block merges are in sync only if nothing older was there, which is a premise
of the property.  The trial proof refuted two earlier forms of `Explicit`, TLC then
showed the counterexamples (see the property), and one premise, that a static
route does not spell out a distance of 1, turned out not to be needed.

*Sorting.*  `InOrder` chooses an enumeration of a finite set by rising keys.
`SortedExists` and `SortedUnique` show, by induction on the number of members (as
a set of numbers: `NatSetInduction`), that there is one and only one, and
`InOrderOfRising` that a list in order is the enumeration of its members.

Only model-checked: liveness (`ExpiredOpenReturns`, `EveryOperationReturns`,
`DriftHealed`), which TLAPS does not treat.  Every invariant and every action
property of the passing runs is a theorem.

## Not modelled

- `goeapi.Connect`, HTTP and TLS, JSON of requests and answers: the transport
  is external.  `New` is the initial state of a `Client`.
- Secrets, host and credential overrides: one device is modelled.
- DryRun: a preview returns the inputs and calls nothing.
- The words of the lines: a line is a knob and its value.  The forms of
  addresses, prefixes, URLs, VLAN lists and names are left to the inputs, and
  what the device shows in a form of its own only where the code undoes it
  (MAC addresses, area numbers, AS-path origins).
- gNMI, CVP, Device facts, MAC address table: they read, and keep no state.
- `Session.CommitTimer` is modelled, its rendering is not: no resource calls it.
- `config.Configure` and `splitEOSURL`: parsing of strings.
- Registry, version, scripts, probes: no behaviour of their own.

## Plan

1. Two resources in one program: overlapping objects (a Vlan inside a
   VlanRange, an interface and its subinterface, a cache and its BGP instance),
   order of deletes and creates.
2. Session names: `sanitizeForSession` and its kin may map two keys to one name;
   with it `NamesDistinct` becomes a statement about keys.
3. Provider configuration: `splitEOSURL`, defaults, validation; path parsing of
   the gNMI client; the rendering of the commit timer.
