---------------------------- MODULE ResourceApply ---------------------------
(***************************************************************************)
(* The apply functions of the resources, one configuration session per     *)
(* operation, on top of EapiClient:                                        *)
(*                                                                         *)
(*   "apply"   vlan.go apply and its 27 siblings: OpenSession, Stage,      *)
(*             Abort if staging fails, else Commit;                        *)
(*   "varp"    the same, but the block is rendered after OpenSession and   *)
(*             rendering may fail;                                         *)
(*   "rcf"     the same with StageRich;                                    *)
(*   "rawcli"  raw_cli.go applyRawCli: Diff between Stage and Commit, and  *)
(*             Abort when it shows nothing.                                *)
(*                                                                         *)
(* Each operation runs once.  Before orders the operations of successive   *)
(* deployments of a resource: a retry is a new operation with the same     *)
(* session name and a block of its own.                                    *)
(***************************************************************************)
EXTENDS EapiClient

CONSTANTS
    Kind,       \* which apply function an operation runs
    Before      \* pairs <<a, b>>: b starts after a has returned

KindName == {"apply", "varp", "rcf", "rawcli"}

ASSUME KindAssumption ==
    /\ Kind \in [Op -> KindName]
    /\ Before \subseteq Op \X Op

VARIABLES
    pc,         \* where the operation is in its apply function
    verdict     \* what it returns, as far as decided

applyVars == <<pc, verdict>>
allVars == <<vars, applyVars>>

Pc == {"start", "open", "stage", "diff", "commit", "abort", "done"}
Verdict == {"none", "ok", "empty", "error"}

\* Types.
ApplyTypeOK ==
    /\ TypeOK
    /\ pc \in [Op -> Pc]
    /\ verdict \in [Op -> Verdict]

ApplyInit ==
    /\ Init
    /\ pc = [o \in Op |-> "start"]
    /\ verdict = [o \in Op |-> "none"]

Goto(o, label, v) ==
    /\ pc' = [pc EXCEPT ![o] = label]
    /\ verdict' = [verdict EXCEPT ![o] = v]

-----------------------------------------------------------------------------
Begin(o) ==
    /\ pc[o] = "start"
    /\ \A p \in Op : <<p, o>> \in Before => pc[p] = "done"
    /\ OpenSession(o)
    /\ Goto(o, "open", "none")

Enter(o) ==
    /\ pc[o] = "open"
    /\ Acquire(o)
    /\ UNCHANGED applyVars

EnterCancelled(o) ==
    /\ pc[o] = "open"
    /\ AcquireCancelled(o)
    /\ Goto(o, "done", "error")

Opened(o) ==
    /\ pc[o] = "open"
    /\ OpenReturns(o)
    /\ IF Succeeded(o) THEN Goto(o, "stage", "none") ELSE Goto(o, "done", "error")

\* buildVarpCmds refuses its input after the session was opened
BuildFails(o) ==
    /\ pc[o] = "stage"
    /\ call[o] = NoCall
    /\ Kind[o] = "varp"
    /\ Goto(o, "abort", "error")
    /\ UNCHANGED vars

StageBlock(o) ==
    /\ pc[o] = "stage"
    /\ IF Kind[o] = "rcf" THEN StageRich(o) ELSE Stage(o)
    /\ UNCHANGED applyVars

AfterStage(o) == IF Kind[o] = "rawcli" THEN "diff" ELSE "commit"

Staged_IgnoreError(o) ==
    /\ pc[o] = "stage"
    /\ CallReturns(o)
    /\ Goto(o, AfterStage(o), "none")

Staged_NoAbort(o) ==
    /\ pc[o] = "stage"
    /\ CallReturns(o)
    /\ IF Succeeded(o) THEN Goto(o, AfterStage(o), "none") ELSE Goto(o, "done", "error")

Staged(o) ==
    /\ pc[o] = "stage"
    /\ CallReturns(o)
    /\ IF Succeeded(o) THEN Goto(o, AfterStage(o), "none") ELSE Goto(o, "abort", "error")

ShowDiff(o) ==
    /\ pc[o] = "diff"
    /\ Diff(o)
    /\ UNCHANGED applyVars

Diffed_ErrorIsEmpty(o) ==
    /\ pc[o] = "diff"
    /\ CallReturns(o)
    /\ IF call[o].st = "ok" THEN Goto(o, "commit", "none") ELSE Goto(o, "abort", "empty")

Diffed(o) ==
    /\ pc[o] = "diff"
    /\ CallReturns(o)
    /\ CASE call[o].st = "ok" -> Goto(o, "commit", "none")
         [] call[o].st = "empty" -> Goto(o, "abort", "empty")
         [] OTHER -> Goto(o, "abort", "error")

CommitBlock(o) ==
    /\ pc[o] = "commit"
    /\ Commit(o)
    /\ UNCHANGED applyVars

Committed_IgnoreError(o) ==
    /\ pc[o] = "commit"
    /\ CloseReturns(o)
    /\ Goto(o, "done", "ok")

Committed(o) ==
    /\ pc[o] = "commit"
    /\ CloseReturns(o)
    /\ Goto(o, "done", IF Succeeded(o) THEN "ok" ELSE "error")

AbortBlock(o) ==
    /\ pc[o] = "abort"
    /\ Abort(o)
    /\ UNCHANGED applyVars

\* a failed Abort turns "nothing to change" into an error
Aborted(o) ==
    /\ pc[o] = "abort"
    /\ CloseReturns(o)
    /\ Goto(o, "done", IF Succeeded(o) THEN verdict[o] ELSE "error")

ProviderCrash ==
    /\ Crash
    /\ pc' = [o \in Op |-> IF pc[o] = "start" THEN "start" ELSE "done"]
    /\ verdict' = [o \in Op |-> IF pc[o] \in {"start", "done"} THEN verdict[o] ELSE "error"]

-----------------------------------------------------------------------------
ApplyStep(o) ==
    \/ Begin(o) \/ Enter(o) \/ EnterCancelled(o) \/ Opened(o)
    \/ BuildFails(o) \/ StageBlock(o) \/ Staged(o) \/ ShowDiff(o) \/ Diffed(o)
    \/ CommitBlock(o) \/ Committed(o) \/ AbortBlock(o) \/ Aborted(o)

EnvStep(o) == (NetworkStep(o) \/ Cancel(o)) /\ UNCHANGED applyVars

AllDone == \A o \in Op : pc[o] = "done"

\* every operation has returned: only requests given up on are left
Quiesce == AllDone /\ stray = {} /\ UNCHANGED allVars

ApplyNext ==
    \/ \E o \in Op : ApplyStep(o) \/ EnvStep(o)
    \/ ProviderCrash
    \/ Quiesce

ApplySpec == ApplyInit /\ [][ApplyNext]_allVars

(***************************************************************************)
(* A goroutine that can run is run, and a request in flight ends: with the *)
(* answer of the device or with an error.                                  *)
(***************************************************************************)
FairApplySpec ==
    /\ ApplySpec
    /\ \A o \in Op : /\ WF_allVars(ApplyStep(o))
                     /\ WF_allVars(Answer(o) /\ UNCHANGED applyVars)

-----------------------------------------------------------------------------
(***************************************************************************)
(* Properties.                                                             *)
(***************************************************************************)
Applied == {o \in Op : Block(o) \subseteq running}

\* "wraps a sequence of configuration commands inside an atomic `configure
\* session` block": running-config never holds a part of an operation's block,
\* whatever is refused, lost, delayed, cancelled or cut off by a crash.
BlockAtomic ==
    \A o \in Op : o \in Applied \/ Block(o) \cap running = {}

\* An operation that returns without an error left its whole block in
\* running-config: it committed it, or the diff showed it was there already.
SuccessApplied ==
    \A o \in Op : pc[o] = "done" /\ verdict[o] \in {"ok", "empty"} => o \in Applied

\* An operation that returned an error changed nothing in running-config.
FailedNotApplied ==
    \A o \in Op : pc[o] = "done" /\ verdict[o] = "error" => Block(o) \cap running = {}

\* When every operation has returned, none left its configuration session, with
\* what it staged, on the device: "on any error the caller MUST call Abort" and
\* Abort "discards the session's staged changes".
NoResidue == AllDone => live = {}

\* "stages cmds inside a fresh configuration session": an operation about to
\* commit finds in its session what it staged itself and nothing else.
FreshSession ==
    \A o \in Op : pc[o] = "commit" /\ call[o] = NoCall
                    => staged[NameOf[o]] = Block(o)

\* The operations implement AtomicApply: a block comes into force as a whole and
\* no success is reported before.
Outcome(o) ==
    IF pc[o] # "done" THEN "none" ELSE IF verdict[o] = "error" THEN "error" ELSE "ok"

Promise == INSTANCE AtomicApply
    WITH applied <- Applied, outcome <- [o \in Op |-> Outcome(o)]

ImplementsAtomicApply == Promise!Spec

\* Every operation returns: the holder of the slot always gives it back, also
\* after errors, lost answers and an expired context.
EveryOperationReturns == \A o \in Op : (pc[o] = "open") ~> (pc[o] = "done")
=============================================================================
