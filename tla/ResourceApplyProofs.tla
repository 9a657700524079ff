------------------------ MODULE ResourceApplyProofs -------------------------
(***************************************************************************)
(* Proofs about ResourceApply.  The apply functions use the Session API as *)
(* EapiClient allows, so its theorems carry over; and when no two          *)
(* operations share a session name, they implement AtomicApply whatever is *)
(* refused, lost, delayed, cancelled or cut off by a crash.  When several  *)
(* use one name, no request is lost, cancelled or cut off and no commit or *)
(* abort is refused, each finds its session empty as long as they share a  *)
(* Client or run one after the other.                                      *)
(***************************************************************************)
EXTENDS ResourceApply, EapiClientProofs

-----------------------------------------------------------------------------
(***************************************************************************)
(* ResourceApply implements EapiClient.                                    *)
(***************************************************************************)
LEMMA ApplyStepIsClientStep ==
    ASSUME NEW o \in Op, ApplyStep(o)
    PROVE  ClientStep(o) \/ UNCHANGED vars
BY DEF ApplyStep, ClientStep, Begin, Enter, EnterCancelled, Opened, BuildFails,
    StageBlock, Staged, ShowDiff, Diffed, CommitBlock, Committed, AbortBlock, Aborted

LEMMA ApplyNextIsNext ==
    ASSUME [ApplyNext]_allVars
    PROVE  [Next]_vars
BY ApplyStepIsClientStep
DEF ApplyNext, EnvStep, ProviderCrash, Quiesce, allVars, Next

\* The apply functions call the Session API only as the package lets any user
\* call it: every behaviour of the resources is one of the client's.
THEOREM ImplementsEapiClient == ApplySpec => Spec
<1>1. ApplyInit => Init
    BY DEF ApplyInit
<1>2. [ApplyNext]_allVars => [Next]_vars
    BY ApplyNextIsNext
<1> QED
    BY <1>1, <1>2, PTL DEF ApplySpec, Spec

\* The slot of a Client has one owner while resources are applied, too.
COROLLARY ApplySlotExclusive == ApplySpec => []SlotHeldByOne
BY ImplementsEapiClient, SlotExclusive, PTL

-----------------------------------------------------------------------------
(***************************************************************************)
(* Types.                                                                  *)
(***************************************************************************)
\* A step of an apply function moves that operation alone.
LEMMA ApplyStepGoes ==
    ASSUME ApplyTypeOK, NEW o \in Op, ApplyStep(o)
    PROVE  UNCHANGED applyVars \/ \E label \in Pc, v \in Verdict : Goto(o, label, v)
<1>1. AfterStage(o) \in Pc /\ verdict[o] \in Verdict
    BY DEF AfterStage, Pc, ApplyTypeOK
<1>2. CASE Begin(o) \/ EnterCancelled(o) \/ Opened(o) \/ BuildFails(o)
    BY <1>2 DEF Begin, EnterCancelled, Opened, BuildFails, Pc, Verdict
<1>3. CASE Staged(o)
    BY <1>1, <1>3 DEF Staged, Pc, Verdict
<1>4. CASE Diffed(o)
    BY <1>4 DEF Diffed, Pc, Verdict
<1>5. CASE Committed(o) \/ Aborted(o)
    <2>1. \E v \in Verdict : Goto(o, "done", v)
        BY <1>1, <1>5 DEF Committed, Aborted, Verdict
    <2> QED
        BY <2>1 DEF Pc
<1> QED
    BY <1>2, <1>3, <1>4, <1>5
    DEF ApplyStep, Enter, StageBlock, ShowDiff, CommitBlock, AbortBlock

LEMMA ApplyStepTypes ==
    ASSUME ApplyTypeOK, NEW o \in Op, ApplyStep(o)
    PROVE  pc' \in [Op -> Pc] /\ verdict' \in [Op -> Verdict]
BY ApplyStepGoes DEF ApplyTypeOK, Goto, applyVars

LEMMA ApplyNextTypes == ApplyTypeOK /\ [ApplyNext]_allVars => ApplyTypeOK'
<1> SUFFICES ASSUME ApplyTypeOK, [ApplyNext]_allVars
             PROVE  ApplyTypeOK'
    OBVIOUS
<1>1. TypeOK'
    BY ApplyNextIsNext, NextTypes DEF ApplyTypeOK
<1>2. pc' \in [Op -> Pc] /\ verdict' \in [Op -> Verdict]
    <2>1. CASE UNCHANGED applyVars
        BY <2>1 DEF ApplyTypeOK, applyVars
    <2>2. CASE ProviderCrash
        BY <2>2 DEF ProviderCrash, ApplyTypeOK, Pc, Verdict
    <2> QED
        BY <2>1, <2>2, ApplyStepTypes DEF ApplyNext, EnvStep, Quiesce, allVars
<1> QED
    BY <1>1, <1>2 DEF ApplyTypeOK

LEMMA ApplyInitTypes == ApplyInit => ApplyTypeOK
BY InitTypes DEF ApplyInit, ApplyTypeOK, Pc, Verdict

\* The apply functions keep the types of the client, the device and their own
\* control state.
THEOREM ApplyTypeCorrect == ApplySpec => []ApplyTypeOK
BY ApplyInitTypes, ApplyNextTypes, PTL DEF ApplySpec

-----------------------------------------------------------------------------
(***************************************************************************)
(* Atomicity.  BlockAtomic and SuccessApplied are not inductive: that a    *)
(* commit finds the whole block staged rests on what may be pending at the *)
(* device then.  ApplyInv adds it, part by part.                           *)
(***************************************************************************)

\* What a deployment has that gives every resource a session name of its own:
\* the apply functions derive the name from the resource's kind and key.
NamesDistinct == \A o, p \in Op : NameOf[o] = NameOf[p] => o = p

\* the calls an apply function makes at each of its steps
CallsAt(label) ==
    CASE label = "open" -> {"none", "open"}
      [] label = "stage" -> {"none"} \cup StageCmd
      [] label = "diff" -> {"none", "diff"}
      [] label = "commit" -> {"none", "commit"}
      [] label = "abort" -> {"none", "abort"}
      [] OTHER -> {"none"}

CallMatchesPc == \A o \in Op : call[o].cmd \in CallsAt(pc[o])

\* no apply function starts a commit timer
NoTrial ==
    /\ \A n \in Name : trial[n] = {}
    /\ \A o \in Op : <<o, "timer">> \notin stray

\* a session holds lines of its own operation only
OwnLines == \A o \in Op : staged[NameOf[o]] \subseteq Block(o)

\* From the success of Stage to the answer of Commit the session holds the
\* whole block.
StagedWhole(o) ==
    \/ pc[o] = "stage" /\ Succeeded(o)
    \/ pc[o] = "diff" /\ call[o].st # "error"
    \/ pc[o] = "commit" /\ call[o].st \in {"idle", "sent"}

WholeBlockStaged ==
    \A o \in Op : StagedWhole(o) => staged[NameOf[o]] = Block(o)

\* An operation that gave up on a request goes on to Abort, or returns: no
\* request of its past is pending when it commits.
GivenUp(o) == pc[o] \in {"abort", "done"} \/ call[o].st = "error"

StrayGivenUp ==
    \A o \in Op, cmd \in Cmd : <<o, cmd>> \in stray => GivenUp(o)

\* a commit that was given up on is the operation's last request
StrayCommit ==
    \A o \in Op : <<o, "commit">> \in stray =>
        /\ pc[o] \in {"commit", "done"}
        /\ staged[NameOf[o]] = Block(o)
        /\ \A cmd \in Cmd : <<o, cmd>> \in stray => cmd = "commit"

\* what an operation has been told, or has decided, agrees with running-config
Told(o) ==
    \/ verdict[o] \in {"ok", "empty"}
    \/ pc[o] = "commit" /\ Succeeded(o)
    \/ pc[o] = "diff" /\ call[o].st = "empty"

VerdictTrue == \A o \in Op : Told(o) => Block(o) \subseteq running

\* no apply function returns, or goes on to Abort, undecided
VerdictSet == \A o \in Op : pc[o] \in {"abort", "done"} => verdict[o] # "none"

ApplyInv ==
    /\ CallMatchesPc /\ NoTrial /\ OwnLines /\ WholeBlockStaged
    /\ StrayGivenUp /\ StrayCommit /\ BlockAtomic /\ VerdictTrue /\ VerdictSet

-----------------------------------------------------------------------------
\* The blocks of two operations have no line in common.
LEMMA BlocksDisjoint ==
    ASSUME NEW o \in Op, NEW p \in Op, o # p
    PROVE  Block(o) \cap Block(p) = {}
BY DEF Block

LEMMA BlockNotEmpty ==
    ASSUME NEW o \in Op
    PROVE  Block(o) # {}
<1>1. <<o, 1>> \in Block(o)
    BY ConstantsAssumption DEF Block
<1> QED
    BY <1>1

LEMMA InitInv == ApplyInit => ApplyInv
<1> SUFFICES ASSUME ApplyInit
             PROVE  ApplyInv
    OBVIOUS
<1> USE ConstantsAssumption DEF ApplyInit, Init, NoCall
<1>1. CallMatchesPc
    BY DEF CallMatchesPc, CallsAt
<1>2. NoTrial /\ OwnLines
    BY DEF NoTrial, OwnLines
<1>3. WholeBlockStaged
    BY DEF WholeBlockStaged, StagedWhole, Succeeded
<1>4. StrayGivenUp /\ StrayCommit
    BY DEF StrayGivenUp, StrayCommit
<1>5. BlockAtomic
    <2> SUFFICES ASSUME NEW o \in Op, Block(o) \cap running # {}
                 PROVE  Block(o) \subseteq running
        BY DEF BlockAtomic, Applied
    <2>1. PICK pre \in Preloads : running = {l \in Line : l[1] \in pre}
        OBVIOUS
    <2>2. o \in pre
        BY <2>1 DEF Block
    <2> QED
        BY <2>1, <2>2 DEF Block, Line
<1>6. VerdictTrue /\ VerdictSet
    BY DEF VerdictTrue, Told, Succeeded, VerdictSet
<1> QED
    BY <1>1, <1>2, <1>3, <1>4, <1>5, <1>6 DEF ApplyInv

(***************************************************************************)
(* A step of the process of one operation: only its control state and its  *)
(* call change.                                                            *)
(***************************************************************************)
LEMMA ProcessStep ==
    ASSUME ApplyTypeOK, ApplyInv, NEW o \in Op,
           UNCHANGED <<deviceVars, stray>>,
           \A p \in Op \ {o} : /\ pc'[p] = pc[p] /\ verdict'[p] = verdict[p]
                               /\ call'[p] = call[p],
           call'[o].cmd \in CallsAt(pc'[o]),
           StagedWhole(o)' => StagedWhole(o),
           GivenUp(o) => GivenUp(o)',
           pc[o] \in {"commit", "done"} => pc'[o] \in {"commit", "done"},
           Told(o)' => Told(o),
           pc'[o] \in {"abort", "done"} => verdict'[o] # "none"
    PROVE  ApplyInv'
<1> USE DEF ApplyInv, deviceVars
<1>1. CallMatchesPc'
    BY DEF CallMatchesPc
<1>2. NoTrial' /\ OwnLines'
    BY DEF NoTrial, OwnLines
<1>3. WholeBlockStaged'
    <2>1. \A p \in Op \ {o} : StagedWhole(p)' => StagedWhole(p)
        BY DEF StagedWhole, Succeeded
    <2> QED
        BY <2>1 DEF WholeBlockStaged
<1>4. StrayGivenUp'
    <2>1. \A p \in Op \ {o} : GivenUp(p) => GivenUp(p)'
        BY DEF GivenUp
    <2> QED
        BY <2>1 DEF StrayGivenUp
<1>5. StrayCommit'
    BY DEF StrayCommit
<1>6. BlockAtomic'
    BY DEF BlockAtomic, Applied
<1>7. VerdictTrue'
    <2>1. \A p \in Op \ {o} : Told(p)' => Told(p)
        BY DEF Told, Succeeded
    <2> QED
        BY <2>1 DEF VerdictTrue
<1>8. VerdictSet'
    BY DEF VerdictSet
<1> QED
    BY <1>1, <1>2, <1>3, <1>4, <1>5, <1>6, <1>7, <1>8

(***************************************************************************)
(* A step of the device in the session of one operation, whose call may    *)
(* get its answer: S is staged in the session afterwards.                  *)
(***************************************************************************)
LEMMA SessionStep ==
    ASSUME ApplyTypeOK, ApplyInv, NamesDistinct, NEW o \in Op,
           UNCHANGED applyVars,
           \A p \in Op \ {o} : call'[p] = call[p],
           call'[o].cmd = call[o].cmd,
           NEW S, S \subseteq Block(o),
           staged' = [staged EXCEPT ![NameOf[o]] = S],
           \A n \in Name : trial'[n] = {},
           stray' \subseteq stray,
           running' \in {running, running \cup Block(o)},
           StagedWhole(o)' => S = Block(o),
           GivenUp(o) => GivenUp(o)',
           <<o, "commit">> \in stray' => S = Block(o),
           Told(o)' => Block(o) \subseteq running'
    PROVE  ApplyInv'
<1> USE DEF ApplyInv, applyVars
<1>1. /\ NameOf[o] \in Name /\ staged'[NameOf[o]] = S
      /\ \A p \in Op \ {o} : staged'[NameOf[p]] = staged[NameOf[p]]
    BY ConstantsAssumption DEF NamesDistinct, ApplyTypeOK, TypeOK
<1>2. CallMatchesPc'
    BY DEF CallMatchesPc
<1>3. NoTrial' /\ OwnLines'
    BY <1>1 DEF NoTrial, OwnLines, Block
<1>4. WholeBlockStaged'
    <2>1. \A p \in Op \ {o} : StagedWhole(p)' => StagedWhole(p)
        BY DEF StagedWhole, Succeeded
    <2> QED
        BY <1>1, <2>1 DEF WholeBlockStaged, Block
<1>5. StrayGivenUp'
    <2>1. \A p \in Op \ {o} : GivenUp(p) => GivenUp(p)'
        BY DEF GivenUp
    <2> QED
        BY <2>1 DEF StrayGivenUp
<1>6. StrayCommit'
    BY <1>1 DEF StrayCommit, Block
<1>7. BlockAtomic'
    <2> SUFFICES ASSUME NEW p \in Op
                 PROVE  Block(p) \subseteq running' \/ Block(p) \cap running' = {}
        BY DEF BlockAtomic, Applied, Block
    <2>1. Block(p) \subseteq running \/ Block(p) \cap running = {}
        BY DEF BlockAtomic, Applied
    <2>2. CASE p = o
        BY <2>1, <2>2
    <2>3. CASE p # o
        BY <2>1, <2>3, BlocksDisjoint
    <2> QED
        BY <2>2, <2>3
<1>8. VerdictTrue'
    <2>1. \A p \in Op \ {o} : Told(p)' => Told(p)
        BY DEF Told, Succeeded
    <2> QED
        BY <2>1 DEF VerdictTrue, Block
<1>9. VerdictSet'
    BY DEF VerdictSet
<1> QED
    BY <1>2, <1>3, <1>4, <1>5, <1>6, <1>7, <1>8, <1>9

-----------------------------------------------------------------------------
\* An idle operation has no call: its state is that of NoCall.
LEMMA CallShape ==
    ASSUME ApplyTypeOK, NEW o \in Op
    PROVE  \/ call[o] = NoCall /\ call[o].cmd = "none" /\ call[o].st = "idle"
           \/ /\ call[o] \in [cmd : Cmd, st : CallState]
              /\ call[o].cmd \in Cmd /\ call[o].st \in CallState
BY DEF ApplyTypeOK, TypeOK, NoCall

LEMMA ApplyStepInv ==
    ASSUME ApplyTypeOK, SlotInv, ApplyInv, NEW o \in Op, ApplyStep(o)
    PROVE  ApplyInv'
<1> USE DEF ApplyTypeOK, TypeOK
<1>1. call[o].cmd \in CallsAt(pc[o])
    BY DEF ApplyInv, CallMatchesPc
<1>2. "none" \notin Cmd /\ NoCall.cmd = "none" /\ NoCall.st = "idle"
    BY DEF Cmd, StageCmd, NoCall
<1>3. ASSUME NEW label \in Pc, NEW v \in Verdict, Goto(o, label, v),
             \A p \in Op \ {o} : call'[p] = call[p], UNCHANGED <<deviceVars, stray>>,
             call'[o].cmd \in CallsAt(label),
             StagedWhole(o)' => StagedWhole(o),
             GivenUp(o) => GivenUp(o)',
             pc[o] \in {"commit", "done"} => label \in {"commit", "done"},
             Told(o)' => Told(o),
             label \in {"abort", "done"} => v # "none"
      PROVE  ApplyInv'
    <2>1. /\ pc'[o] = label /\ verdict'[o] = v
          /\ \A p \in Op \ {o} : pc'[p] = pc[p] /\ verdict'[p] = verdict[p]
        BY <1>3 DEF Goto
    <2> QED
        BY <1>3, <2>1, ProcessStep
<1>4. ASSUME NEW cmd \in Cmd, Request(o, cmd), UNCHANGED applyVars,
             cmd \in CallsAt(pc[o]), pc[o] \notin {"start", "open"}
      PROVE  ApplyInv'
    <2>1. /\ call[o] = NoCall /\ call'[o].cmd = cmd /\ call'[o].st \in {"sent", "error"}
          /\ \A p \in Op \ {o} : call'[p] = call[p]
          /\ UNCHANGED <<deviceVars, stray, pc, verdict>>
        BY <1>4 DEF Request, RunCmds, applyVars
    <2>2. /\ StagedWhole(o)' => StagedWhole(o)
          /\ GivenUp(o) => GivenUp(o)'
          /\ Told(o)' => Told(o)
          /\ pc[o] \in {"abort", "done"} => verdict[o] # "none"
        BY <1>2, <2>1 DEF StagedWhole, GivenUp, Told, Succeeded, ApplyInv, VerdictSet
    <2> QED
        BY <1>4, <2>1, <2>2, ProcessStep
<1>5. CASE Begin(o)
    <2>1. UNCHANGED <<call, deviceVars, stray>> /\ Goto(o, "open", "none") /\ pc[o] = "start"
        BY <1>5 DEF Begin, OpenSession
    <2>2. call[o].cmd = "none" /\ call[o].st = "idle"
        BY <1>1, <1>2, <2>1, CallShape DEF CallsAt
    <2> QED
        BY <1>3, <2>1, <2>2
        DEF Goto, StagedWhole, GivenUp, Told, Succeeded, CallsAt, Pc, Verdict
<1>6. CASE Enter(o)
    <2>1. /\ call[o] = NoCall /\ call'[o].cmd = "open" /\ call'[o].st \in {"sent", "error"}
          /\ \A p \in Op \ {o} : call'[p] = call[p] /\ pc'[p] = pc[p] /\ verdict'[p] = verdict[p]
          /\ pc'[o] = "open" /\ pc[o] = "open" /\ verdict'[o] = verdict[o]
          /\ UNCHANGED <<deviceVars, stray>>
        BY <1>6 DEF Enter, Acquire, RunCmds, applyVars
    <2> QED
        BY <1>2, <2>1, ProcessStep DEF StagedWhole, GivenUp, Told, Succeeded, CallsAt
<1>7. CASE EnterCancelled(o)
    <2>1. /\ UNCHANGED <<call, deviceVars, stray>> /\ Goto(o, "done", "error")
          /\ sess[o] = "acquiring" /\ pc[o] = "open"
        BY <1>7 DEF EnterCancelled, AcquireCancelled
    <2>2. call[o].cmd = "none"
        BY <1>1, <2>1 DEF CallsAt, SlotInv, CallOfHolder
    <2> QED
        BY <1>3, <2>1, <2>2
        DEF Goto, StagedWhole, GivenUp, Told, Succeeded, CallsAt, Pc, Verdict
<1>8. CASE Opened(o)
    <2>1. /\ pc[o] = "open" /\ call'[o] = NoCall /\ \A p \in Op \ {o} : call'[p] = call[p]
          /\ UNCHANGED <<deviceVars, stray>>
          /\ \/ Succeeded(o) /\ Goto(o, "stage", "none")
             \/ Goto(o, "done", "error")
        BY <1>8 DEF Opened, OpenReturns
    <2> QED
        BY <1>2, <1>3, <2>1
        DEF Goto, StagedWhole, GivenUp, Told, Succeeded, CallsAt, Pc, Verdict
<1>9. CASE BuildFails(o)
    <2>1. /\ pc[o] = "stage" /\ call[o] = NoCall /\ UNCHANGED <<call, deviceVars, stray>>
          /\ Goto(o, "abort", "error")
        BY <1>9 DEF BuildFails, vars, processVars, deviceVars
    <2> QED
        BY <1>2, <1>3, <2>1
        DEF Goto, StagedWhole, GivenUp, Told, Succeeded, CallsAt, Pc, Verdict
<1>10. CASE StageBlock(o)
    BY <1>4, <1>10 DEF StageBlock, Stage, StageRich, CallsAt, Cmd, StageCmd
<1>11. CASE Staged(o)
    <2>1. /\ pc[o] = "stage" /\ call'[o] = NoCall /\ \A p \in Op \ {o} : call'[p] = call[p]
          /\ UNCHANGED <<deviceVars, stray>>
          /\ \/ Succeeded(o) /\ Goto(o, AfterStage(o), "none")
             \/ Goto(o, "abort", "error")
        BY <1>11 DEF Staged, CallReturns
    <2>2. AfterStage(o) \in {"diff", "commit"}
        BY DEF AfterStage
    <2> QED
        BY <1>2, <1>3, <2>1, <2>2
        DEF Goto, StagedWhole, GivenUp, Told, Succeeded, CallsAt, Pc, Verdict
<1>12. CASE ShowDiff(o)
    BY <1>4, <1>12 DEF ShowDiff, Diff, CallsAt, Cmd
<1>13. CASE Diffed(o)
    <2>1. /\ pc[o] = "diff" /\ call'[o] = NoCall /\ \A p \in Op \ {o} : call'[p] = call[p]
          /\ UNCHANGED <<deviceVars, stray>>
          /\ \/ call[o].st = "ok" /\ Goto(o, "commit", "none")
             \/ call[o].st = "empty" /\ Goto(o, "abort", "empty")
             \/ Goto(o, "abort", "error")
        BY <1>13 DEF Diffed, CallReturns
    <2> QED
        BY <1>2, <1>3, <2>1
        DEF Goto, StagedWhole, GivenUp, Told, Succeeded, CallsAt, Pc, Verdict
<1>14. CASE CommitBlock(o)
    BY <1>4, <1>14 DEF CommitBlock, Commit, CallsAt, Cmd
<1>15. CASE Committed(o)
    <2>1. /\ pc[o] = "commit" /\ call'[o] = NoCall /\ \A p \in Op \ {o} : call'[p] = call[p]
          /\ UNCHANGED <<deviceVars, stray>>
          /\ \/ Succeeded(o) /\ Goto(o, "done", "ok")
             \/ Goto(o, "done", "error")
        BY <1>15 DEF Committed, CloseReturns
    <2> QED
        BY <1>2, <1>3, <2>1
        DEF Goto, StagedWhole, GivenUp, Told, Succeeded, CallsAt, Pc, Verdict
<1>16. CASE AbortBlock(o)
    BY <1>4, <1>16 DEF AbortBlock, Abort, CallsAt, Cmd
<1>17. CASE Aborted(o)
    <2>1. /\ pc[o] = "abort" /\ call'[o] = NoCall /\ \A p \in Op \ {o} : call'[p] = call[p]
          /\ UNCHANGED <<deviceVars, stray>>
          /\ \E v \in {verdict[o], "error"} : Goto(o, "done", v)
        BY <1>17 DEF Aborted, CloseReturns
    <2>2. verdict[o] \in Verdict /\ "error" \in Verdict /\ verdict[o] # "none"
        BY <2>1 DEF Verdict, ApplyInv, VerdictSet
    <2>3. PICK v \in {verdict[o], "error"} : Goto(o, "done", v)
        BY <2>1
    <2>4. pc'[o] = "done" /\ verdict'[o] = v
        BY <2>1, <2>3 DEF Goto
    <2>5. ~StagedWhole(o)' /\ GivenUp(o)'
        BY <2>4 DEF StagedWhole, GivenUp
    <2>6. Told(o)' => Told(o)
        BY <2>4 DEF Told
    <2>7. call'[o].cmd \in CallsAt("done")
        BY <1>2, <2>1 DEF CallsAt
    <2> QED
        BY <1>3, <2>1, <2>2, <2>3, <2>5, <2>6, <2>7 DEF Pc
<1> QED
    BY <1>5, <1>6, <1>7, <1>8, <1>9, <1>10, <1>11, <1>12, <1>13, <1>14,
        <1>15, <1>16, <1>17 DEF ApplyStep

-----------------------------------------------------------------------------
(***************************************************************************)
(* The network and the device.                                             *)
(***************************************************************************)

\* after the step, S is staged in the session of o
SessionHas(o, S) ==
    /\ staged' = [staged EXCEPT ![NameOf[o]] = S]
    /\ \A n \in Name : trial'[n] = {}

LEMMA StagedOwn ==
    ASSUME ApplyTypeOK, ApplyInv, NEW o \in Op
    PROVE  /\ NameOf[o] \in Name
           /\ staged[NameOf[o]] \in SUBSET Block(o)
           /\ \A n \in Name : trial[n] = {}
           /\ staged = [staged EXCEPT ![NameOf[o]] = staged[NameOf[o]]]
BY ConstantsAssumption DEF ApplyInv, OwnLines, NoTrial, ApplyTypeOK, TypeOK

\* What the device does with a request it refuses.
LEMMA RefuseEffect ==
    ASSUME ApplyTypeOK, ApplyInv, NEW o \in Op, NEW cmd, Refuse(o, cmd)
    PROVE  \E S \in SUBSET Block(o) :
             /\ SessionHas(o, S)
             /\ running' = running
             /\ cmd \notin StageCmd => S = staged[NameOf[o]]
<1>1. ASSUME cmd \in StageCmd, NEW k \in 0 .. BlockLen - 1,
             EnterSession(NameOf[o], Prefix(o, k))
      PROVE  \E S \in SUBSET Block(o) : SessionHas(o, S) /\ running' = running
    <2>1. staged[NameOf[o]] \cup Prefix(o, k) \in SUBSET Block(o)
        BY StagedOwn, ConstantsAssumption DEF Prefix, Block
    <2>2. /\ SessionHas(o, staged[NameOf[o]] \cup Prefix(o, k))
          /\ running' = running
        BY <1>1, StagedOwn DEF EnterSession, SessionHas
    <2> QED
        BY <2>1, <2>2
<1>2. CASE UNCHANGED deviceVars
    <2>1. SessionHas(o, staged[NameOf[o]]) /\ running' = running
        BY <1>2, StagedOwn DEF deviceVars, SessionHas
    <2> QED
        BY <2>1, StagedOwn
<1> QED
    BY <1>1, <1>2 DEF Refuse

\* What it does with a request it accepts.
LEMMA AcceptEffect ==
    ASSUME ApplyTypeOK, ApplyInv, NEW o \in Op, NEW cmd, cmd # "timer", Accept(o, cmd)
    PROVE  \E S \in SUBSET Block(o) :
             /\ SessionHas(o, S)
             /\ \/ cmd # "commit" /\ running' = running
                \/ cmd = "commit" /\ running' = running \cup staged[NameOf[o]]
             /\ cmd \in StageCmd => S = Block(o)
             /\ cmd = "diff" => S = staged[NameOf[o]]
<1> DEFINE n == NameOf[o]
<1>1. CASE cmd = "open" /\ EnterSession(n, {})
    <2>1. SessionHas(o, staged[n]) /\ running' = running
        BY <1>1, StagedOwn DEF EnterSession, SessionHas
    <2> QED
        BY <1>1, <2>1, StagedOwn DEF StageCmd
<1>2. CASE cmd \in StageCmd /\ EnterSession(n, Block(o))
    <2>1. staged[n] \cup Block(o) = Block(o)
        BY StagedOwn
    <2>2. SessionHas(o, Block(o)) /\ running' = running
        BY <1>2, <2>1, StagedOwn DEF EnterSession, SessionHas
    <2> QED
        BY <1>2, <2>2 DEF StageCmd
<1>3. CASE cmd = "diff" /\ UNCHANGED deviceVars
    <2>1. SessionHas(o, staged[n]) /\ running' = running
        BY <1>3, StagedOwn DEF deviceVars, SessionHas
    <2> QED
        BY <1>3, <2>1, StagedOwn DEF StageCmd
<1>4. CASE cmd = "commit" /\ CommitSession(n)
    <2>1. SessionHas(o, {}) /\ running' = running \cup staged[n]
        BY <1>4, StagedOwn DEF ApplyTypeOK, TypeOK, CommitSession, SessionHas
    <2> QED
        BY <1>4, <2>1 DEF StageCmd
<1>5. CASE cmd = "abort" /\ DropSession(n)
    <2>1. SessionHas(o, {}) /\ running' = running
        BY <1>5, StagedOwn DEF ApplyTypeOK, TypeOK, DropSession, SessionHas
    <2> QED
        BY <1>5, <2>1 DEF StageCmd
<1> QED
    BY <1>1, <1>2, <1>3, <1>4, <1>5 DEF Accept

\* An operation waiting for an answer has given nothing up, save on its way to
\* Abort; and it is told only what is so.
LEMMA Waiting ==
    ASSUME ApplyTypeOK, ApplyInv, NEW o \in Op, call[o].st = "sent"
    PROVE  /\ call[o] \in [cmd : Cmd, st : CallState]
           /\ <<o, "commit">> \notin stray
           /\ \/ pc[o] = "open" /\ call[o].cmd = "open"
              \/ pc[o] = "stage" /\ call[o].cmd \in StageCmd
              \/ pc[o] = "diff" /\ call[o].cmd = "diff"
              \/ pc[o] = "commit" /\ call[o].cmd = "commit"
              \/ pc[o] = "abort" /\ call[o].cmd = "abort"
<1>1. call[o] \in [cmd : Cmd, st : CallState] /\ call[o].cmd \in Cmd
    BY CallShape
<1>2. call[o].cmd \in CallsAt(pc[o]) /\ call[o].cmd # "none"
    BY <1>1 DEF ApplyInv, CallMatchesPc, Cmd, StageCmd
<1>3. /\ <<o, "commit">> \in stray => pc[o] \in {"commit", "done"}
      /\ <<o, "commit">> \in stray => GivenUp(o)
    BY DEF ApplyInv, StrayCommit, StrayGivenUp, Cmd
<1> QED
    BY <1>1, <1>2, <1>3 DEF CallsAt, GivenUp

LEMMA AnswerInv ==
    ASSUME ApplyTypeOK, ApplyInv, NamesDistinct, NEW o \in Op,
           Answer(o), UNCHANGED applyVars
    PROVE  ApplyInv'
<1> DEFINE cmd == call[o].cmd
<1>1. call[o].st = "sent" /\ call[o] \in [cmd : Cmd, st : CallState] /\ cmd # "timer"
    BY Waiting DEF Answer, StageCmd
<1>2. stray' = stray /\ <<o, "commit">> \notin stray
    BY Waiting DEF Answer
<1>3. ~Told(o) \/ verdict[o] \in {"ok", "empty"}
    BY <1>1 DEF Told, Succeeded
<1>4. Told(o) => Block(o) \subseteq running
    BY DEF ApplyInv, VerdictTrue
<1>5. GivenUp(o) => GivenUp(o)'
    BY <1>1 DEF GivenUp, applyVars
<1>6. CASE Refuse(o, cmd) /\ call' = [call EXCEPT ![o].st = "error"]
    <2>1. PICK S \in SUBSET Block(o) : SessionHas(o, S) /\ running' = running
        BY <1>6, RefuseEffect
    <2>2. /\ call'[o].cmd = call[o].cmd /\ call'[o].st = "error"
          /\ \A p \in Op \ {o} : call'[p] = call[p]
        BY <1>1, <1>6 DEF ApplyTypeOK, TypeOK
    <2>3. ~StagedWhole(o)' /\ (Told(o)' => Told(o))
        BY <2>2 DEF StagedWhole, Told, Succeeded, applyVars
    <2> QED
        BY <1>2, <1>4, <1>5, <2>1, <2>2, <2>3, SessionStep DEF SessionHas
<1>7. CASE /\ Accept(o, cmd)
           /\ call' = [call EXCEPT ![o].st =
                         IF cmd = "diff" /\ DiffEmpty(NameOf[o]) THEN "empty" ELSE "ok"]
    <2>1. PICK S \in SUBSET Block(o) :
             /\ SessionHas(o, S)
             /\ \/ cmd # "commit" /\ running' = running
                \/ cmd = "commit" /\ running' = running \cup staged[NameOf[o]]
             /\ cmd \in StageCmd => S = Block(o)
             /\ cmd = "diff" => S = staged[NameOf[o]]
        BY <1>1, <1>7, AcceptEffect
    <2>2. /\ call'[o].cmd = call[o].cmd /\ call'[o].st \in {"empty", "ok"}
          /\ call'[o].st = "empty" => cmd = "diff" /\ DiffEmpty(NameOf[o])
          /\ \A p \in Op \ {o} : call'[p] = call[p]
        BY <1>1, <1>7 DEF ApplyTypeOK, TypeOK
    <2>3. cmd \in {"diff", "commit"} => staged[NameOf[o]] = Block(o)
        BY <1>1, Waiting DEF ApplyInv, WholeBlockStaged, StagedWhole, StageCmd
    <2>4. running' \in {running, running \cup Block(o)}
        BY <2>1, <2>3
    <2>5. StagedWhole(o)' => S = Block(o)
        BY <1>1, <2>1, <2>2, <2>3, Waiting DEF StagedWhole, Succeeded, applyVars, StageCmd
    <2>6. DiffEmpty(NameOf[o]) => staged[NameOf[o]] \subseteq running
        BY StagedOwn DEF DiffEmpty, OnTrial
    <2>7. Told(o)' => Block(o) \subseteq running'
        <3>1. CASE verdict[o] \in {"ok", "empty"}
            BY <1>4, <2>4, <3>1 DEF Told
        <3>2. CASE pc[o] = "commit"
            <4>1. cmd = "commit"
                BY <1>1, <3>2, Waiting
            <4>2. running' = running \cup staged[NameOf[o]]
                BY <2>1, <4>1
            <4>3. staged[NameOf[o]] = Block(o)
                BY <2>3, <4>1
            <4> QED
                BY <4>2, <4>3
        <3>3. CASE pc[o] = "diff" /\ call'[o].st = "empty"
            BY <2>2, <2>3, <2>4, <2>6, <3>3
        <3> QED
            BY <3>1, <3>2, <3>3 DEF Told, applyVars
    <2> QED
        BY <1>2, <1>5, <2>1, <2>2, <2>4, <2>5, <2>7, SessionStep DEF SessionHas
<1> QED
    BY <1>6, <1>7 DEF Answer

LEMMA GiveUpInv ==
    ASSUME ApplyTypeOK, ApplyInv, NEW o \in Op, GiveUp(o), UNCHANGED applyVars
    PROVE  ApplyInv'
<1> DEFINE cmd == call[o].cmd
<1> USE DEF ApplyInv, applyVars, deviceVars, GiveUp
<1>1. call[o].st = "sent" /\ call[o] \in [cmd : Cmd, st : CallState] /\ cmd \in Cmd
    BY Waiting
<1>2. /\ call'[o].cmd = cmd /\ call'[o].st = "error"
      /\ \A p \in Op \ {o} : call'[p] = call[p]
    BY <1>1 DEF ApplyTypeOK, TypeOK
<1>3. CallMatchesPc'
    BY <1>2 DEF CallMatchesPc
<1>4. NoTrial' /\ OwnLines' /\ BlockAtomic'
    BY Waiting DEF NoTrial, OwnLines, BlockAtomic, Applied, StageCmd
<1>5. \A p \in Op : StagedWhole(p)' => StagedWhole(p)
    BY <1>2 DEF StagedWhole, Succeeded
<1>6. StrayGivenUp'
    <2>1. GivenUp(o)' /\ \A p \in Op : GivenUp(p) => GivenUp(p)'
        BY <1>2 DEF GivenUp
    <2> QED
        BY <2>1 DEF StrayGivenUp
<1>7. StrayCommit'
    <2>1. CASE pc[o] = "commit"
        <3>1. cmd = "commit" /\ staged[NameOf[o]] = Block(o)
            BY <1>1, <2>1, Waiting DEF WholeBlockStaged, StagedWhole
        <3>2. \A c \in Cmd : <<o, c>> \notin stray
            BY <1>1, <2>1 DEF StrayGivenUp, GivenUp
        <3> QED
            BY <2>1, <3>1, <3>2 DEF StrayCommit
    <2>2. CASE pc[o] # "commit"
        <3>1. cmd # "commit" /\ <<o, "commit">> \notin stray
            BY <1>1, <2>2, Waiting DEF StageCmd
        <3> QED
            BY <3>1 DEF StrayCommit
    <2> QED
        BY <2>1, <2>2
<1>8. \A p \in Op : Told(p)' => Told(p)
    BY <1>2 DEF Told, Succeeded
<1> QED
    BY <1>3, <1>4, <1>5, <1>6, <1>7, <1>8 DEF WholeBlockStaged, VerdictTrue, VerdictSet

LEMMA ServeStrayInv ==
    ASSUME ApplyTypeOK, ApplyInv, NamesDistinct, NEW o \in Op, NEW cmd \in Cmd,
           ServeStray(o, cmd), UNCHANGED applyVars
    PROVE  ApplyInv'
<1>1. /\ <<o, cmd>> \in stray /\ stray' = stray \ {<<o, cmd>>}
      /\ call' = call /\ cmd # "timer"
    BY DEF ServeStray, processVars, ApplyInv, NoTrial
<1>2. GivenUp(o) /\ GivenUp(o)' /\ ~StagedWhole(o)'
    BY <1>1 DEF ApplyInv, StrayGivenUp, GivenUp, StagedWhole, Succeeded, applyVars
<1>3. <<o, "commit">> \notin stray'
    BY <1>1 DEF ApplyInv, StrayCommit
<1>4. Told(o)' => Block(o) \subseteq running
    BY <1>1 DEF ApplyInv, VerdictTrue, Told, Succeeded, applyVars
<1>5. CASE Refuse(o, cmd)
    <2>1. PICK S \in SUBSET Block(o) : SessionHas(o, S) /\ running' = running
        BY <1>5, RefuseEffect
    <2> QED
        BY <1>1, <1>2, <1>3, <1>4, <2>1, SessionStep DEF SessionHas
<1>6. CASE Accept(o, cmd)
    <2>1. PICK S \in SUBSET Block(o) :
             /\ SessionHas(o, S)
             /\ \/ cmd # "commit" /\ running' = running
                \/ cmd = "commit" /\ running' = running \cup staged[NameOf[o]]
        BY <1>1, <1>6, AcceptEffect
    <2>2. cmd = "commit" => staged[NameOf[o]] = Block(o)
        BY <1>1 DEF ApplyInv, StrayCommit
    <2>3. running' \in {running, running \cup Block(o)}
        BY <2>1, <2>2
    <2>4. Told(o)' => Block(o) \subseteq running'
        BY <1>4, <2>3
    <2> QED
        BY <1>1, <1>2, <1>3, <2>1, <2>3, <2>4, SessionStep DEF SessionHas
<1> QED
    BY <1>5, <1>6 DEF ServeStray

LEMMA LoseStrayInv ==
    ASSUME ApplyTypeOK, ApplyInv, NEW o \in Op, NEW cmd \in Cmd,
           LoseStray(o, cmd), UNCHANGED applyVars
    PROVE  ApplyInv'
<1> USE DEF ApplyInv, LoseStray, processVars, deviceVars, applyVars
<1>1. CallMatchesPc' /\ NoTrial' /\ OwnLines' /\ BlockAtomic'
    BY DEF CallMatchesPc, NoTrial, OwnLines, BlockAtomic, Applied
<1>2. WholeBlockStaged' /\ StrayGivenUp' /\ StrayCommit'
    BY DEF WholeBlockStaged, StagedWhole, Succeeded, StrayGivenUp, GivenUp, StrayCommit
<1>3. VerdictTrue' /\ VerdictSet'
    BY DEF VerdictTrue, Told, Succeeded, VerdictSet
<1> QED
    BY <1>1, <1>2, <1>3

LEMMA UnchangedInv ==
    ASSUME ApplyInv, UNCHANGED <<call, deviceVars, stray, applyVars>>
    PROVE  ApplyInv'
<1> USE DEF ApplyInv, deviceVars, applyVars
<1>1. CallMatchesPc' /\ NoTrial' /\ OwnLines' /\ BlockAtomic'
    BY DEF CallMatchesPc, NoTrial, OwnLines, BlockAtomic, Applied
<1>2. WholeBlockStaged' /\ StrayGivenUp' /\ StrayCommit'
    BY DEF WholeBlockStaged, StagedWhole, Succeeded, StrayGivenUp, GivenUp, StrayCommit
<1>3. VerdictTrue' /\ VerdictSet'
    BY DEF VerdictTrue, Told, Succeeded, VerdictSet
<1> QED
    BY <1>1, <1>2, <1>3

LEMMA CrashInv ==
    ASSUME ApplyTypeOK, ApplyInv, ProviderCrash
    PROVE  ApplyInv'
<1> USE DEF ApplyInv, ProviderCrash, Crash, deviceVars
<1>1. /\ \A o \in Op : call'[o].cmd = "none" /\ call'[o].st = "idle"
      /\ \A o \in Op : pc'[o] \in {"start", "done"} /\ (pc[o] # "start" => pc'[o] = "done")
    BY DEF NoCall
<1>2. CallMatchesPc'
    BY <1>1 DEF CallMatchesPc, CallsAt
<1>3. ASSUME NEW o \in Op, NEW cmd \in Cmd, <<o, cmd>> \in stray'
      PROVE  <<o, cmd>> \in stray \/ (call[o].st = "sent" /\ call[o].cmd = cmd)
    BY <1>3
<1>4. NoTrial' /\ OwnLines' /\ BlockAtomic'
    BY <1>3, Waiting DEF NoTrial, OwnLines, BlockAtomic, Applied, Cmd, StageCmd
<1>5. WholeBlockStaged'
    BY <1>1 DEF WholeBlockStaged, StagedWhole
<1>6. ASSUME NEW o \in Op, pc[o] = "start"
      PROVE  call[o].st = "idle"
    BY <1>6, CallShape DEF CallMatchesPc, CallsAt, Cmd, StageCmd
<1>7. StrayGivenUp'
    <2> SUFFICES ASSUME NEW o \in Op, NEW cmd \in Cmd, <<o, cmd>> \in stray'
                 PROVE  pc[o] # "start"
        BY <1>1 DEF StrayGivenUp, GivenUp
    <2> QED
        BY <1>3, <1>6 DEF StrayGivenUp, GivenUp
<1>8. StrayCommit'
    <2> SUFFICES ASSUME NEW o \in Op, <<o, "commit">> \in stray'
                 PROVE  /\ pc'[o] \in {"commit", "done"}
                        /\ staged[NameOf[o]] = Block(o)
                        /\ \A cmd \in Cmd : <<o, cmd>> \in stray' => cmd = "commit"
        BY DEF StrayCommit, Block
    <2>1. "commit" \in Cmd /\ pc'[o] = "done"
        BY <1>1, <1>7 DEF StrayGivenUp, GivenUp, Cmd
    <2>2. CASE <<o, "commit">> \in stray
        <3>1. call[o].st # "sent"
            BY <2>2, Waiting
        <3> QED
            BY <1>3, <2>1, <2>2, <3>1 DEF StrayCommit
    <2>3. CASE <<o, "commit">> \notin stray
        <3>1. call[o].st = "sent" /\ call[o].cmd = "commit"
            BY <1>3, <2>1, <2>3
        <3>2. pc[o] = "commit"
            BY <3>1, Waiting DEF StageCmd
        <3>3. staged[NameOf[o]] = Block(o)
            BY <3>1, <3>2 DEF WholeBlockStaged, StagedWhole
        <3>4. \A cmd \in Cmd : <<o, cmd>> \notin stray
            BY <3>1, <3>2 DEF StrayGivenUp, GivenUp
        <3> QED
            BY <1>3, <2>1, <3>1, <3>3, <3>4
    <2> QED
        BY <2>2, <2>3
<1>9. VerdictTrue' /\ VerdictSet'
    BY <1>1 DEF VerdictTrue, Told, Block, VerdictSet
<1> QED
    BY <1>2, <1>4, <1>5, <1>7, <1>8, <1>9

-----------------------------------------------------------------------------
IInv == ApplyTypeOK /\ SlotInv /\ ApplyInv

LEMMA InitIInv == ApplyInit => IInv
BY ApplyInitTypes, InitSlot, InitInv DEF IInv, ApplyInit

LEMMA NextIInv == NamesDistinct /\ IInv /\ [ApplyNext]_allVars => IInv'
<1> SUFFICES ASSUME NamesDistinct, IInv, [ApplyNext]_allVars
             PROVE  IInv'
    OBVIOUS
<1> USE DEF IInv
<1>1. ApplyTypeOK'
    BY ApplyNextTypes
<1>2. SlotInv'
    BY ApplyNextIsNext, NextSlot DEF ApplyTypeOK
<1>3. ApplyInv'
    <2>1. ASSUME NEW o \in Op, ApplyStep(o)
          PROVE  ApplyInv'
        BY <2>1, ApplyStepInv
    <2>2. ASSUME NEW o \in Op, EnvStep(o)
          PROVE  ApplyInv'
        <3>1. CASE Lose(o) \/ CancelRich(o)
            BY <2>2, <3>1, GiveUpInv DEF EnvStep, Lose, CancelRich
        <3>2. CASE Cancel(o)
            BY <2>2, <3>2, UnchangedInv DEF EnvStep, Cancel
        <3> QED
            BY <2>2, <3>1, <3>2, AnswerInv, ServeStrayInv, LoseStrayInv
            DEF EnvStep, NetworkStep
    <2>3. CASE ProviderCrash
        BY <2>3, CrashInv
    <2>4. CASE UNCHANGED allVars
        BY <2>4, UnchangedInv DEF allVars, vars, processVars
    <2> QED
        BY <2>1, <2>2, <2>3, <2>4 DEF ApplyNext, Quiesce
<1> QED
    BY <1>1, <1>2, <1>3

\* With a session name of its own, the block of an operation is never in
\* running-config in part: not when staging is refused half-way, not when a
\* request runs after its answer was given up on, not when the provider dies.
THEOREM BlocksAtomic ==
    ASSUME NamesDistinct
    PROVE  ApplySpec => []BlockAtomic
<1>1. IInv => BlockAtomic
    BY DEF IInv, ApplyInv
<1>2. IInv /\ [ApplyNext]_allVars => IInv'
    BY NextIInv
<1> QED
    BY <1>1, <1>2, InitIInv, PTL DEF ApplySpec

\* And it reports success only once its block is in running-config.
THEOREM SuccessMeansApplied ==
    ASSUME NamesDistinct
    PROVE  ApplySpec => []SuccessApplied
<1>1. IInv => SuccessApplied
    BY DEF IInv, ApplyInv, VerdictTrue, Told, SuccessApplied, Applied
<1>2. IInv /\ [ApplyNext]_allVars => IInv'
    BY NextIInv
<1> QED
    BY <1>1, <1>2, InitIInv, PTL DEF ApplySpec

-----------------------------------------------------------------------------
(***************************************************************************)
(* The refinement of AtomicApply.                                          *)
(***************************************************************************)
outcomes == [o \in Op |-> Outcome(o)]

\* A whole block more in running-config is one operation more applied.
LEMMA AppliedGrows ==
    ASSUME NEW o \in Op, running' = running \cup Block(o)
    PROVE  Applied' = Applied \cup {o}
<1>1. ASSUME NEW p \in Op
      PROVE  Block(p) \subseteq running' <=> p = o \/ Block(p) \subseteq running
    BY BlocksDisjoint, BlockNotEmpty
<1> QED
    BY <1>1 DEF Applied, Block

\* The outcomes change when one operation's does.
LEMMA OutcomesKept ==
    ASSUME \A o \in Op : Outcome(o)' = Outcome(o)
    PROVE  outcomes' = outcomes
BY DEF outcomes

LEMMA ApplyStepRefines ==
    ASSUME IInv, IInv', NEW o \in Op, ApplyStep(o)
    PROVE  [Promise!Next]_(Promise!vars)
<1> USE DEF IInv, ApplyTypeOK
<1>1. running' = running /\ Applied' = Applied
    BY DEF ApplyStep, Begin, Enter, EnterCancelled, Opened, BuildFails, StageBlock,
        Staged, ShowDiff, Diffed, CommitBlock, Committed, AbortBlock, Aborted,
        OpenSession, Acquire, AcquireCancelled, OpenReturns, Stage, StageRich, Diff,
        Commit, Abort, Request, CallReturns, CloseReturns, vars, deviceVars, Applied, Block
<1>2. pc[o] # "done" /\ Outcome(o) = "none"
    BY DEF ApplyStep, Begin, Enter, EnterCancelled, Opened, BuildFails, StageBlock,
        Staged, ShowDiff, Diffed, CommitBlock, Committed, AbortBlock, Aborted, Outcome
<1>3. \A p \in Op \ {o} : Outcome(p)' = Outcome(p)
    <2>1. UNCHANGED applyVars \/ \E label \in Pc, v \in Verdict : Goto(o, label, v)
        BY ApplyStepGoes
    <2>2. \A p \in Op \ {o} : pc'[p] = pc[p] /\ verdict'[p] = verdict[p]
        BY <2>1 DEF Goto, applyVars
    <2> QED
        BY <2>2 DEF Outcome
<1>4. CASE Outcome(o)' = "none"
    <2>1. outcomes' = outcomes
        BY <1>2, <1>3, <1>4, OutcomesKept
    <2> QED
        BY <1>1, <2>1 DEF Promise!vars, outcomes
<1>5. CASE Outcome(o)' = "error"
    <2>1. \A p \in {o} : outcomes[p] = "none"
        BY <1>2 DEF outcomes
    <2>2. outcomes' = [p \in Op |-> IF p \in {o} THEN "error" ELSE outcomes[p]]
        BY <1>3, <1>5 DEF outcomes
    <2>3. Promise!Fail({o})
        BY <1>1, <2>1, <2>2 DEF Promise!Fail, outcomes
    <2> QED
        BY <2>3 DEF Promise!Next
<1>6. CASE Outcome(o)' = "ok"
    <2>1. pc'[o] = "done" /\ verdict'[o] \in {"ok", "empty"}
        BY <1>6 DEF Outcome, ApplyInv, VerdictSet, Verdict
    <2>2. o \in Applied
        BY <1>1, <2>1 DEF ApplyInv, VerdictTrue, Told, Applied, Block
    <2>3. outcomes[o] = "none" /\ outcomes' = [outcomes EXCEPT ![o] = "ok"]
        BY <1>2, <1>3, <1>6 DEF outcomes
    <2>4. Promise!Succeed(o)
        BY <1>1, <2>2, <2>3 DEF Promise!Succeed, outcomes
    <2> QED
        BY <2>4 DEF Promise!Next
<1> QED
    BY <1>4, <1>5, <1>6 DEF Outcome

LEMMA EnvStepRefines ==
    ASSUME IInv, NEW o \in Op, EnvStep(o)
    PROVE  [Promise!Next]_(Promise!vars)
<1> USE DEF IInv
<1>1. outcomes' = outcomes
    BY DEF EnvStep, applyVars, outcomes, Outcome
<1>2. CASE running' = running
    BY <1>1, <1>2 DEF Promise!vars, outcomes, Applied, Block
<1>3. CASE running' = running \cup Block(o)
    <2>1. Applied' = Applied \cup {o}
        BY <1>3, AppliedGrows
    <2>2. CASE outcomes[o] # "ok"
        <3>1. Promise!Apply(o)
            BY <1>1, <2>1, <2>2 DEF Promise!Apply, outcomes
        <3> QED
            BY <3>1 DEF Promise!Next
    <2>3. CASE outcomes[o] = "ok"
        <3>1. o \in Applied
            BY <2>3 DEF outcomes, Outcome, ApplyInv, VerdictSet, VerdictTrue, Told,
                Applied, ApplyTypeOK, Verdict
        <3> QED
            BY <1>1, <2>1, <3>1 DEF Promise!vars, outcomes
    <2> QED
        BY <2>2, <2>3
<1>4. ASSUME NEW cmd \in Cmd \ {"timer"}, Accept(o, cmd),
             cmd = "commit" => staged[NameOf[o]] = Block(o)
      PROVE  running' = running \/ running' = running \cup Block(o)
    BY <1>4, AcceptEffect
<1>5. ASSUME NEW cmd \in Cmd, Refuse(o, cmd)
      PROVE  running' = running
    BY <1>5, RefuseEffect
<1>6. CASE Answer(o)
    <2>1. /\ call[o].st = "sent" /\ call[o].cmd \in Cmd \ {"timer"}
          /\ call[o].cmd = "commit" => pc[o] = "commit"
        BY <1>6, Waiting DEF Answer, StageCmd, Cmd
    <2>2. call[o].cmd = "commit" => staged[NameOf[o]] = Block(o)
        BY <2>1 DEF ApplyInv, WholeBlockStaged, StagedWhole
    <2> QED
        BY <1>2, <1>3, <1>4, <1>5, <1>6, <2>1, <2>2 DEF Answer
<1>7. ASSUME NEW cmd \in Cmd, ServeStray(o, cmd)
      PROVE  running' = running \/ running' = running \cup Block(o)
    <2>1. cmd # "timer" /\ (cmd = "commit" => staged[NameOf[o]] = Block(o))
        BY <1>7 DEF ServeStray, ApplyInv, NoTrial, StrayCommit
    <2> QED
        BY <1>4, <1>5, <1>7, <2>1 DEF ServeStray
<1>8. CASE Lose(o) \/ CancelRich(o) \/ Cancel(o) \/ \E cmd \in Cmd : LoseStray(o, cmd)
    BY <1>2, <1>8 DEF Lose, CancelRich, GiveUp, Cancel, LoseStray, deviceVars
<1> QED
    BY <1>2, <1>3, <1>6, <1>7, <1>8 DEF EnvStep, NetworkStep

LEMMA CrashRefines ==
    ASSUME IInv, ProviderCrash
    PROVE  [Promise!Next]_(Promise!vars)
<1> DEFINE S == {o \in Op : pc[o] \notin {"start", "done"}}
<1>1. \A o \in S : outcomes[o] = "none"
    BY DEF outcomes, Outcome
<1>2. outcomes' = [o \in Op |-> IF o \in S THEN "error" ELSE outcomes[o]]
    <2>1. \A o \in Op : Outcome(o)' = IF o \in S THEN "error" ELSE Outcome(o)
        BY DEF ProviderCrash, Outcome
    <2> QED
        BY <2>1 DEF outcomes
<1>3. Applied' = Applied
    BY DEF ProviderCrash, Crash, deviceVars, Applied, Block
<1> HIDE DEF S
<1>4. Promise!Fail(S) /\ S \in SUBSET Op
    BY <1>1, <1>2, <1>3 DEF Promise!Fail, outcomes, S
<1> QED
    BY <1>4 DEF Promise!Next

\* The apply functions, the client, the transport and the device together do no
\* more than AtomicApply allows: each block comes into force at one instant, and
\* no operation reports success before.
THEOREM AppliesAtomically ==
    ASSUME NamesDistinct
    PROVE  ApplySpec => ImplementsAtomicApply
<1>1. ApplyInit => Promise!Init
    BY DEF ApplyInit, Promise!Init, Applied, Outcome
<1>2. IInv /\ IInv' /\ [ApplyNext]_allVars => [Promise!Next]_(Promise!vars)
    <2> SUFFICES ASSUME IInv, IInv', [ApplyNext]_allVars
                 PROVE  [Promise!Next]_(Promise!vars)
        OBVIOUS
    <2>1. CASE UNCHANGED allVars
        BY <2>1 DEF allVars, vars, deviceVars, applyVars, Promise!vars, Applied,
            Block, Outcome
    <2> QED
        BY <2>1, ApplyStepRefines, EnvStepRefines, CrashRefines DEF ApplyNext, Quiesce
<1>3. IInv /\ [ApplyNext]_allVars => IInv'
    BY NextIInv
<1> QED
    BY <1>1, <1>2, <1>3, InitIInv, PTL DEF ApplySpec, ImplementsAtomicApply, Promise!Spec
-----------------------------------------------------------------------------
(***************************************************************************)
(* Several operations that use one session name, when nothing is lost,     *)
(* cancelled or cut off and no commit or abort is refused.  Each finds its *)
(* session empty, a failure applies nothing, and no session is left on the *)
(* device.                                                                 *)
(***************************************************************************)
\* The operations that use a session name share a Client, hence its slot, as
\* the package comment asks for; or they run one after the other, each with a
\* Client of its own, as config.EAPIClient gives it to the operations of one
\* resource in successive deployments.
SlotOrTurns ==
    \A o, p \in Op : o # p /\ NameOf[o] = NameOf[p] =>
        ClientOf[o] = ClientOf[p] \/ <<o, p>> \in Before \/ <<p, o>> \in Before

\* No fault, and the device takes every commit of a session it knows and every
\* abort; it may refuse the other requests.
Undisturbed == Faults = {} /\ Rejects \cap {"commit", "abort"} = {}

NothingPreloaded == Preloads \subseteq {{}}

-----------------------------------------------------------------------------
(***************************************************************************)
(* FreshSession speaks of the moment before a commit.  What makes it true  *)
(* is where every session stands at every step of its apply function, and  *)
(* that a session exists only as long as somebody holds it.                *)
(***************************************************************************)
Quiet == stray = {} /\ \A o \in Op : ~cancelled[o]

PcFitsSession ==
    \A o \in Op : /\ pc[o] \in {"start", "done"} => sess[o] \in {"none", "closed"}
                  /\ pc[o] = "open" => sess[o] \in {"acquiring", "opening"}
                  /\ pc[o] \notin {"start", "done", "open"} => sess[o] = "open"

LinesNeedSession == \A n \in Name : n \notin live => staged[n] = {}

\* nobody but its user has touched a session when the user starts to stage ...
Untouched(o) ==
    \/ pc[o] = "open" /\ call[o].st # "idle"
    \/ pc[o] = "stage" /\ call[o].st \in {"idle", "sent"}

\* ... it does not exist before it is opened, nor after it was closed
Absent(o) ==
    \/ pc[o] = "open" /\ call[o].st \in {"sent", "error"}
    \/ pc[o] \in {"commit", "abort"} /\ call[o].st \in {"ok", "empty", "error"}

SessionStands(o) ==
    /\ Untouched(o) => staged[NameOf[o]] = {}
    /\ StagedWhole(o) => staged[NameOf[o]] = Block(o)
    /\ Absent(o) => NameOf[o] \notin live

SessionsStand == \A o \in Op : SessionStands(o)

\* whoever comes before an operation that has begun has returned
InTurn == \A p, o \in Op : <<p, o>> \in Before /\ pc[o] # "start" => pc[p] = "done"

LiveIsHeld == \A n \in live : \E o \in Op : NameOf[o] = n /\ Holding(o)

\* the only way of a line to running-config is a commit that succeeds
InForce(o) ==
    \/ pc[o] = "commit" /\ Succeeded(o)
    \/ pc[o] = "done" /\ verdict[o] # "error"

OnlyCommitApplies ==
    NothingPreloaded => \A o \in Op : Block(o) \cap running # {} => InForce(o)

SharedInv ==
    /\ Quiet /\ CallMatchesPc /\ NoTrial /\ PcFitsSession /\ LinesNeedSession
    /\ SessionsStand /\ LiveIsHeld /\ OnlyCommitApplies /\ InTurn

\* Two operations with one session name never hold a Session at once.
LEMMA NameHeldByOne ==
    ASSUME SlotInv, SharedInv, SlotOrTurns,
           NEW o \in Op, NEW p \in Op, o # p, pc[o] \notin {"start", "done"},
           NameOf[p] = NameOf[o], Holding(p)
    PROVE  ClientOf[p] = ClientOf[o]
<1>1. pc[p] \notin {"start", "done"}
    BY DEF SharedInv, PcFitsSession, Holding
<1>2. <<o, p>> \notin Before
    <2>1. <<o, p>> \in Before => pc[o] = "done"
        BY <1>1 DEF SharedInv, InTurn
    <2> QED
        BY <2>1
<1>3. <<p, o>> \notin Before
    BY <1>1 DEF SharedInv, InTurn
<1> QED
    BY <1>2, <1>3 DEF SlotOrTurns

LEMMA SharedInvImplies ==
    ASSUME ApplyTypeOK, SharedInv
    PROVE  FreshSession /\ NoResidue /\ (NothingPreloaded => FailedNotApplied)
<1> USE DEF SharedInv
<1>1. FreshSession
    BY DEF FreshSession, SessionsStand, SessionStands, StagedWhole, NoCall
<1>2. NoResidue
    <2>1. AllDone => \A o \in Op : ~Holding(o)
        BY DEF AllDone, PcFitsSession, Holding
    <2> QED
        BY <2>1 DEF NoResidue, LiveIsHeld
<1>3. NothingPreloaded => FailedNotApplied
    BY DEF OnlyCommitApplies, InForce, FailedNotApplied
<1> QED
    BY <1>1, <1>2, <1>3

LEMMA InitShared == ApplyInit => SharedInv
<1> SUFFICES ASSUME ApplyInit
             PROVE  SharedInv
    OBVIOUS
<1> USE ConstantsAssumption DEF ApplyInit, Init, NoCall
<1>1. Quiet /\ CallMatchesPc /\ NoTrial
    BY DEF Quiet, CallMatchesPc, CallsAt, NoTrial
<1>2. PcFitsSession /\ LinesNeedSession /\ LiveIsHeld
    BY DEF PcFitsSession, LinesNeedSession, LiveIsHeld
<1>3. SessionsStand
    BY DEF SessionsStand, SessionStands, Untouched, StagedWhole, Absent
<1>4. OnlyCommitApplies
    <2>1. NothingPreloaded => running = {}
        BY DEF NothingPreloaded
    <2> QED
        BY <2>1 DEF OnlyCommitApplies
<1>5. InTurn
    BY DEF InTurn
<1> QED
    BY <1>1, <1>2, <1>3, <1>4, <1>5 DEF SharedInv

-----------------------------------------------------------------------------
(***************************************************************************)
(* A step of the process of one operation, which leaves the device alone.  *)
(***************************************************************************)
LEMMA SharedProcessStep ==
    ASSUME ApplyTypeOK, SharedInv, NEW o \in Op,
           UNCHANGED <<deviceVars, stray>>,
           \A p \in Op \ {o} : /\ pc'[p] = pc[p] /\ verdict'[p] = verdict[p]
                               /\ call'[p] = call[p] /\ sess'[p] = sess[p],
           \A p \in Op : ~cancelled'[p],
           pc'[o] = pc[o] \/ (pc[o] # "done" /\ pc'[o] # "start"),
           pc[o] = "start" /\ pc'[o] # "start" =>
                \A p \in Op : <<p, o>> \in Before => pc[p] = "done",
           call'[o].cmd \in CallsAt(pc'[o]),
           /\ pc'[o] \in {"start", "done"} => sess'[o] \in {"none", "closed"}
           /\ pc'[o] = "open" => sess'[o] \in {"acquiring", "opening"}
           /\ pc'[o] \notin {"start", "done", "open"} => sess'[o] = "open",
           SessionStands(o)',
           NameOf[o] \in live /\ Holding(o) => Holding(o)',
           InForce(o) => InForce(o)'
    PROVE  SharedInv'
<1> USE DEF SharedInv, deviceVars
<1>1. Quiet' /\ CallMatchesPc' /\ NoTrial'
    BY DEF Quiet, CallMatchesPc, NoTrial
<1>2. PcFitsSession' /\ LinesNeedSession'
    BY DEF PcFitsSession, LinesNeedSession
<1>3. SessionsStand'
    <2>1. \A p \in Op \ {o} : SessionStands(p)' <=> SessionStands(p)
        BY DEF SessionStands, Untouched, StagedWhole, Absent, Succeeded, Block
    <2> QED
        BY <2>1 DEF SessionsStand
<1>4. LiveIsHeld'
    BY DEF LiveIsHeld, Holding
<1>5. OnlyCommitApplies'
    <2>1. \A p \in Op \ {o} : InForce(p)' <=> InForce(p)
        BY DEF InForce, Succeeded
    <2> QED
        BY <2>1 DEF OnlyCommitApplies, NothingPreloaded, Block
<1>6. InTurn'
    BY DEF InTurn
<1> QED
    BY <1>1, <1>2, <1>3, <1>4, <1>5, <1>6

\* A session name that nobody uses now is not there: an operation that gets the
\* slot of its Client opens a new session.
LEMMA SlotFreeNoSession ==
    ASSUME ApplyTypeOK, SlotInv, SharedInv, SlotOrTurns,
           NEW o \in Op, ~slot[ClientOf[o]], pc[o] \notin {"start", "done"}, ~Holding(o)
    PROVE  NameOf[o] \notin live /\ staged[NameOf[o]] = {}
<1>1. NameOf[o] \in Name
    BY ConstantsAssumption
<1>2. \A p \in Op : NameOf[p] = NameOf[o] => ~Holding(p)
    BY NameHeldByOne DEF SlotInv, HoldersHaveSlot
<1> QED
    BY <1>1, <1>2 DEF SharedInv, LiveIsHeld, LinesNeedSession

LEMMA SharedApplyStep ==
    ASSUME ApplyTypeOK, SlotInv, SharedInv, SlotOrTurns,
           NEW o \in Op, ApplyStep(o)
    PROVE  SharedInv'
<1> DEFINE n == NameOf[o]
<1>1. /\ pc[o] \in Pc /\ verdict[o] \in Verdict
      /\ call[o].cmd \in CallsAt(pc[o]) /\ ~cancelled[o] /\ SessionStands(o)
      /\ pc[o] = "open" => sess[o] \in {"acquiring", "opening"}
      /\ pc[o] \notin {"start", "done", "open"} => sess[o] = "open"
    BY DEF SharedInv, CallMatchesPc, Quiet, SessionsStand, PcFitsSession, ApplyTypeOK
<1>2. "none" \notin Cmd /\ NoCall.cmd = "none" /\ NoCall.st = "idle"
    BY DEF Cmd, StageCmd, NoCall
<1>3. \A p \in Op : ~cancelled[p]
    BY DEF SharedInv, Quiet
<1>4. ASSUME NEW label \in Pc, NEW v \in Verdict, Goto(o, label, v),
             \A p \in Op \ {o} : call'[p] = call[p] /\ sess'[p] = sess[p],
             UNCHANGED <<deviceVars, stray>>, \A p \in Op : ~cancelled'[p],
             pc[o] # "done" /\ label # "start",
             pc[o] = "start" => \A p \in Op : <<p, o>> \in Before => pc[p] = "done",
             call'[o].cmd \in CallsAt(label),
             /\ label \in {"start", "done"} => sess'[o] \in {"none", "closed"}
             /\ label = "open" => sess'[o] \in {"acquiring", "opening"}
             /\ label \notin {"start", "done", "open"} => sess'[o] = "open",
             Untouched(o)' => Untouched(o),
             StagedWhole(o)' => StagedWhole(o),
             Absent(o)' => Absent(o),
             Absent(o) \/ ~Holding(o) \/ Holding(o)',
             InForce(o) => InForce(o)'
      PROVE  SharedInv'
    <2>1. /\ pc'[o] = label /\ verdict'[o] = v
          /\ \A p \in Op \ {o} : pc'[p] = pc[p] /\ verdict'[p] = verdict[p]
        BY <1>4 DEF Goto, ApplyTypeOK
    <2>2. SessionStands(o)'
        BY <1>1, <1>4 DEF SessionStands, deviceVars, Block
    <2>3. n \in live /\ Holding(o) => Holding(o)'
        BY <1>1, <1>4 DEF SessionStands
    <2> QED
        BY <1>4, <2>1, <2>2, <2>3, SharedProcessStep
<1>5. ASSUME NEW cmd \in Cmd, Request(o, cmd), UNCHANGED applyVars,
             cmd \in CallsAt(pc[o]), pc[o] \in {"stage", "diff", "commit", "abort"}
      PROVE  SharedInv'
    <2>1. /\ call[o].st = "idle" /\ call'[o].cmd = cmd /\ call'[o].st = "sent"
          /\ \A p \in Op \ {o} : call'[p] = call[p]
          /\ UNCHANGED <<deviceVars, stray, pc, verdict, sess, cancelled>>
        BY <1>1, <1>2, <1>5 DEF Request, RunCmds, applyVars, ApplyTypeOK, TypeOK
    <2>2. SessionStands(o)'
        BY <1>1, <1>5, <2>1
        DEF SessionStands, Untouched, StagedWhole, Absent, Succeeded, deviceVars, Block
    <2>3. (InForce(o) => InForce(o)') /\ (Holding(o) => Holding(o)')
        BY <2>1 DEF InForce, Succeeded, Holding
    <2> QED
        BY <1>1, <1>3, <1>5, <2>1, <2>2, <2>3, SharedProcessStep
<1>6. CASE Begin(o)
    <2>1. /\ UNCHANGED <<call, deviceVars, stray>> /\ Goto(o, "open", "none")
          /\ pc[o] = "start" /\ sess[o] \in {"none", "closed"} /\ sess'[o] = "acquiring"
          /\ \A p \in Op \ {o} : sess'[p] = sess[p]
          /\ \A p \in Op : ~cancelled'[p]
          /\ pc'[o] = "open"
          /\ \A p \in Op : <<p, o>> \in Before => pc[p] = "done"
        BY <1>3, <1>6 DEF Begin, OpenSession, Goto, ApplyTypeOK, TypeOK
    <2>2. call[o].cmd = "none" /\ call[o].st = "idle"
        BY <1>1, <1>2, <2>1, CallShape DEF CallsAt
    <2> QED
        BY <1>4, <2>1, <2>2
        DEF Untouched, StagedWhole, Absent, Holding, InForce, Succeeded, CallsAt, Pc, Verdict
<1>7. CASE Enter(o)
    <2>1. /\ call'[o].cmd = "open" /\ call'[o].st = "sent" /\ sess'[o] = "opening"
          /\ \A p \in Op \ {o} : call'[p] = call[p] /\ sess'[p] = sess[p]
          /\ pc[o] = "open" /\ sess[o] = "acquiring"
          /\ UNCHANGED <<deviceVars, stray, pc, verdict, cancelled>>
        BY <1>1, <1>7 DEF Enter, Acquire, RunCmds, applyVars, ApplyTypeOK, TypeOK
    <2>2. n \notin live /\ staged[n] = {}
        BY <1>7, SlotFreeNoSession DEF Enter, Acquire, Holding
    <2>3. SessionStands(o)'
        BY <2>1, <2>2 DEF SessionStands, StagedWhole, deviceVars
    <2>4. InForce(o) => InForce(o)'
        BY <2>1 DEF InForce
    <2> QED
        BY <1>3, <2>1, <2>2, <2>3, <2>4, SharedProcessStep DEF CallsAt
<1>8. CASE EnterCancelled(o)
    BY <1>1, <1>8 DEF EnterCancelled, AcquireCancelled
<1>9. CASE Opened(o)
    <2>1. /\ pc[o] = "open" /\ call[o].cmd = "open" /\ call[o].st \in {"ok", "empty", "error"}
          /\ call'[o] = NoCall
          /\ \A p \in Op \ {o} : call'[p] = call[p] /\ sess'[p] = sess[p]
          /\ UNCHANGED <<deviceVars, stray, cancelled>>
          /\ \/ Succeeded(o) /\ Goto(o, "stage", "none") /\ sess'[o] = "open"
             \/ ~Succeeded(o) /\ Goto(o, "done", "error") /\ sess'[o] = "none"
        <3>1. call[o] \in [cmd : Cmd, st : CallState]
            BY <1>2, <1>9, CallShape DEF Opened, OpenReturns, Answered
        <3> QED
            BY <1>9, <3>1 DEF Opened, OpenReturns, Answered, CallState, ApplyTypeOK, TypeOK
    <2>2. CASE Succeeded(o) /\ Goto(o, "stage", "none") /\ sess'[o] = "open"
        <3>1. pc'[o] = "stage"
            BY <2>2 DEF Goto, ApplyTypeOK
        <3> QED
            BY <1>2, <1>3, <1>4, <2>1, <2>2, <3>1
            DEF Untouched, StagedWhole, Absent, Holding, InForce, Succeeded, CallsAt, Pc, Verdict
    <2>3. CASE ~Succeeded(o) /\ Goto(o, "done", "error") /\ sess'[o] = "none"
        <3>1. pc'[o] = "done" /\ call[o].st = "error"
            BY <2>1, <2>3 DEF Goto, ApplyTypeOK, Succeeded
        <3> QED
            BY <1>2, <1>3, <1>4, <2>1, <2>3, <3>1
            DEF Untouched, StagedWhole, Absent, InForce, CallsAt, Pc, Verdict
    <2> QED
        BY <2>1, <2>2, <2>3
<1>10. CASE BuildFails(o)
    <2>1. /\ pc[o] = "stage" /\ call[o] = NoCall /\ Goto(o, "abort", "error")
          /\ UNCHANGED <<call, deviceVars, stray, sess, cancelled>>
        BY <1>10 DEF BuildFails, vars, processVars, deviceVars
    <2>2. pc'[o] = "abort"
        BY <2>1 DEF Goto, ApplyTypeOK
    <2> QED
        BY <1>1, <1>2, <1>3, <1>4, <2>1, <2>2
        DEF Untouched, StagedWhole, Absent, Holding, InForce, CallsAt, Pc, Verdict
<1>11. ASSUME CallReturns(o), NEW label \in {"diff", "commit", "abort"}, NEW v \in Verdict,
              Goto(o, label, v), pc[o] \in {"stage", "diff"},
              label = "diff" => pc[o] = "stage" /\ Succeeded(o),
              label = "commit" => \/ pc[o] = "stage" /\ Succeeded(o)
                                  \/ pc[o] = "diff" /\ call[o].st = "ok"
       PROVE  SharedInv'
    <2>1. /\ call'[o] = NoCall /\ pc'[o] = label /\ label \in Pc
          /\ \A p \in Op \ {o} : call'[p] = call[p]
          /\ UNCHANGED <<deviceVars, stray, sess, cancelled>>
        BY <1>11 DEF CallReturns, Goto, ApplyTypeOK, TypeOK, Pc
    <2>2. /\ ~Untouched(o)' /\ ~Absent(o)' /\ ~InForce(o)
          /\ StagedWhole(o)' => StagedWhole(o)
        BY <1>2, <1>11, <2>1 DEF Untouched, StagedWhole, Absent, InForce
    <2>3. sess'[o] = "open" /\ Holding(o)'
        BY <1>1, <1>11, <2>1 DEF Holding
    <2>4. call'[o].cmd \in CallsAt(label)
        BY <1>2, <2>1 DEF CallsAt
    <2> QED
        BY <1>3, <1>4, <1>11, <2>1, <2>2, <2>3, <2>4
<1>12. CASE Staged(o)
    <2>1. /\ pc[o] = "stage" /\ CallReturns(o)
          /\ \/ Succeeded(o) /\ Goto(o, AfterStage(o), "none")
             \/ Goto(o, "abort", "error")
        BY <1>12 DEF Staged
    <2>2. AfterStage(o) \in {"diff", "commit"}
        BY DEF AfterStage
    <2> QED
        BY <1>11, <2>1, <2>2 DEF Verdict
<1>13. CASE Diffed(o)
    <2>1. /\ pc[o] = "diff" /\ CallReturns(o)
          /\ \/ call[o].st = "ok" /\ Goto(o, "commit", "none")
             \/ call[o].st = "empty" /\ Goto(o, "abort", "empty")
             \/ Goto(o, "abort", "error")
        BY <1>13 DEF Diffed
    <2> QED
        BY <1>11, <2>1 DEF Verdict
<1>14. CASE StageBlock(o)
    BY <1>5, <1>14 DEF StageBlock, Stage, StageRich, CallsAt, Cmd, StageCmd
<1>15. CASE ShowDiff(o)
    BY <1>5, <1>15 DEF ShowDiff, Diff, CallsAt, Cmd
<1>16. CASE CommitBlock(o)
    BY <1>5, <1>16 DEF CommitBlock, Commit, CallsAt, Cmd
<1>17. CASE AbortBlock(o)
    BY <1>5, <1>17 DEF AbortBlock, Abort, CallsAt, Cmd
<1>18. ASSUME CloseReturns(o), NEW v \in Verdict, Goto(o, "done", v),
              pc[o] \in {"commit", "abort"},
              pc[o] = "commit" /\ Succeeded(o) => v = "ok"
       PROVE  SharedInv'
    <2>1. /\ call'[o] = NoCall /\ pc'[o] = "done" /\ verdict'[o] = v /\ sess'[o] = "closed"
          /\ \A p \in Op \ {o} : call'[p] = call[p] /\ sess'[p] = sess[p]
          /\ UNCHANGED <<deviceVars, stray, cancelled>>
        BY <1>18 DEF CloseReturns, Goto, ApplyTypeOK, TypeOK
    <2>2. call[o].st \in {"ok", "empty", "error"}
        BY <1>2, <1>18, CallShape DEF CloseReturns, Answered, CallState
    <2>3. /\ ~Untouched(o)' /\ ~Absent(o)' /\ ~StagedWhole(o)' /\ Absent(o)
          /\ InForce(o) => InForce(o)'
        BY <1>18, <2>1, <2>2 DEF Untouched, StagedWhole, Absent, InForce
    <2>4. call'[o].cmd \in CallsAt("done") /\ "done" \in Pc
        BY <1>2, <2>1 DEF CallsAt, Pc
    <2> QED
        BY <1>3, <1>4, <1>18, <2>1, <2>3, <2>4
<1>19. CASE Committed(o)
    <2>1. /\ pc[o] = "commit" /\ CloseReturns(o)
          /\ \/ Succeeded(o) /\ Goto(o, "done", "ok")
             \/ ~Succeeded(o) /\ Goto(o, "done", "error")
        BY <1>19 DEF Committed
    <2> QED
        BY <1>18, <2>1 DEF Verdict
<1>20. CASE Aborted(o)
    <2>1. /\ pc[o] = "abort" /\ CloseReturns(o)
          /\ \/ Goto(o, "done", verdict[o])
             \/ Goto(o, "done", "error")
        BY <1>20 DEF Aborted
    <2> QED
        BY <1>1, <1>18, <2>1 DEF Verdict
<1> QED
    BY <1>6, <1>7, <1>8, <1>9, <1>10, <1>12, <1>13, <1>14, <1>15, <1>16, <1>17,
        <1>19, <1>20 DEF ApplyStep

-----------------------------------------------------------------------------
(***************************************************************************)
(* The device answers: only the session of the operation that waits        *)
(* changes, and whether it is there afterwards.                            *)
(***************************************************************************)
LEMMA SharedDeviceStep ==
    ASSUME ApplyTypeOK, SlotInv, SharedInv, SlotOrTurns,
           NEW o \in Op, Holding(o),
           UNCHANGED <<applyVars, slot, sess, cancelled, stray>>,
           \A p \in Op \ {o} : call'[p] = call[p],
           call'[o].cmd = call[o].cmd,
           NEW S, staged' = [staged EXCEPT ![NameOf[o]] = S],
           \/ live' = live \cup {NameOf[o]}
           \/ live' = live \ {NameOf[o]} /\ S = {},
           \A m \in Name : trial'[m] = {},
           \/ running' = running
           \/ running' = running \cup Block(o) /\ InForce(o)',
           InForce(o) => InForce(o)',
           SessionStands(o)'
    PROVE  SharedInv'
<1> DEFINE n == NameOf[o]
<1> USE DEF SharedInv, applyVars
<1>1. n \in Name /\ staged'[n] = S /\ \A m \in Name \ {n} : staged'[m] = staged[m]
    BY ConstantsAssumption DEF ApplyTypeOK, TypeOK
<1>2. Quiet' /\ CallMatchesPc' /\ NoTrial' /\ PcFitsSession' /\ InTurn'
    BY DEF Quiet, CallMatchesPc, NoTrial, PcFitsSession, InTurn
<1>3. LinesNeedSession'
    BY <1>1 DEF LinesNeedSession
<1>4. SessionsStand'
    <2> SUFFICES ASSUME NEW p \in Op, p # o
                 PROVE  SessionStands(p)'
        BY DEF SessionsStand
    <2>1. CASE Holding(p)
        <3>1. NameOf[p] \in Name \ {n}
            BY <2>1, NameHeldByOne, ConstantsAssumption
            DEF SlotInv, HoldersDiffer, SharedInv, PcFitsSession, Holding
        <3>2. staged'[NameOf[p]] = staged[NameOf[p]] /\ (NameOf[p] \in live' <=> NameOf[p] \in live)
            BY <1>1, <3>1
        <3>3. SessionStands(p)
            BY DEF SessionsStand
        <3> QED
            BY <3>2, <3>3
            DEF SessionStands, Untouched, StagedWhole, Absent, Succeeded, Block
    <2>2. CASE ~Holding(p)
        <3>1. pc[p] \in {"start", "done", "open"} /\ call[p].cmd \in {"none", "open"}
            BY <2>2 DEF PcFitsSession, Holding, CallMatchesPc, CallsAt
        <3>2. call[p].cmd # "open"
            BY <2>2 DEF SlotInv, CallOfHolder, Holding
        <3>3. call[p].st = "idle"
            BY <3>1, <3>2, CallShape DEF Cmd, StageCmd
        <3> QED
            BY <3>1, <3>3 DEF SessionStands, Untouched, StagedWhole, Absent
    <2> QED
        BY <2>1, <2>2
<1>5. LiveIsHeld'
    BY DEF LiveIsHeld, Holding
<1>6. OnlyCommitApplies'
    <2> SUFFICES ASSUME NothingPreloaded, NEW p \in Op, Block(p) \cap running' # {}
                 PROVE  InForce(p)'
        BY DEF OnlyCommitApplies, NothingPreloaded, Block
    <2>1. CASE p = o
        BY <2>1 DEF OnlyCommitApplies
    <2>2. CASE p # o
        <3>1. Block(p) \cap running # {}
            BY <2>2, BlocksDisjoint
        <3>2. InForce(p)
            BY <3>1 DEF OnlyCommitApplies
        <3> QED
            BY <2>2, <3>2 DEF InForce, Succeeded
    <2> QED
        BY <2>1, <2>2
<1> QED
    BY <1>2, <1>3, <1>4, <1>5, <1>6

\* Which request an operation is waiting for, and what it knows meanwhile.
LEMMA SharedWaiting ==
    ASSUME ApplyTypeOK, SlotInv, SharedInv, NEW o \in Op, call[o].st = "sent"
    PROVE  /\ call[o] \in [cmd : Cmd, st : CallState]
           /\ Holding(o)
           /\ NameOf[o] \in Name
           /\ \/ pc[o] = "open" /\ call[o].cmd = "open"
              \/ pc[o] = "stage" /\ call[o].cmd \in StageCmd
              \/ pc[o] = "diff" /\ call[o].cmd = "diff"
              \/ pc[o] = "commit" /\ call[o].cmd = "commit"
              \/ pc[o] = "abort" /\ call[o].cmd = "abort"
           /\ SessionStands(o)
           /\ ~InForce(o)
<1>1. call[o] \in [cmd : Cmd, st : CallState] /\ call[o].cmd \in Cmd
    BY CallShape
<1>2. call[o].cmd \in CallsAt(pc[o]) /\ call[o].cmd # "none"
    BY <1>1 DEF SharedInv, CallMatchesPc, Cmd, StageCmd
<1>3. Holding(o)
    BY <1>1 DEF SlotInv, CallOfHolder, Holding
<1>4. pc[o] \in {"open", "stage", "diff", "commit", "abort"}
    BY <1>2 DEF CallsAt
<1>5. SessionStands(o) /\ ~InForce(o)
    BY <1>4 DEF SharedInv, SessionsStand, InForce, Succeeded
<1> QED
    BY <1>1, <1>2, <1>3, <1>5, ConstantsAssumption DEF CallsAt

LEMMA SharedAnswer ==
    ASSUME ApplyTypeOK, SlotInv, SharedInv, SlotOrTurns, Undisturbed,
           NEW o \in Op, Answer(o), UNCHANGED applyVars
    PROVE  SharedInv'
<1> DEFINE n == NameOf[o]
           cmd == call[o].cmd
<1>1. /\ call[o].st = "sent" /\ call[o] \in [cmd : Cmd, st : CallState]
      /\ Holding(o) /\ n \in Name
      /\ \/ pc[o] = "open" /\ cmd = "open"
         \/ pc[o] = "stage" /\ cmd \in StageCmd
         \/ pc[o] = "diff" /\ cmd = "diff"
         \/ pc[o] = "commit" /\ cmd = "commit"
         \/ pc[o] = "abort" /\ cmd = "abort"
      /\ SessionStands(o) /\ ~InForce(o)
    BY SharedWaiting DEF Answer
<1>2. /\ \A m \in Name : trial[m] = {}
      /\ n \notin live => staged[n] = {}
      /\ staged = [staged EXCEPT ![n] = staged[n]]
      /\ trial \in [Name -> SUBSET Line] /\ staged \in [Name -> SUBSET Line]
    BY <1>1 DEF SharedInv, NoTrial, LinesNeedSession, ApplyTypeOK, TypeOK
<1>3. /\ UNCHANGED <<pc, verdict, slot, sess, cancelled, stray>>
      /\ \A p \in Op \ {o} : call'[p] = call[p]
      /\ call'[o].cmd = cmd
      /\ \/ Accept(o, cmd) /\ call'[o].st \in {"ok", "empty"}
         \/ Refuse(o, cmd) /\ call'[o].st = "error"
    BY <1>1 DEF Answer, applyVars, ApplyTypeOK, TypeOK
<1>4. ASSUME NEW S, staged' = [staged EXCEPT ![n] = S], \A m \in Name : trial'[m] = {},
             \/ live' = live \cup {n}
             \/ live' = live \ {n} /\ S = {},
             \/ running' = running
             \/ running' = running \cup Block(o) /\ InForce(o)',
             Untouched(o)' => S = {},
             StagedWhole(o)' => S = Block(o),
             Absent(o)' => live' = live \ {n}
      PROVE  SharedInv'
    <2>1. staged'[n] = S
        BY <1>1, <1>2, <1>4
    <2>2. SessionStands(o)'
        BY <1>4, <2>1 DEF SessionStands, Block
    <2> QED
        BY <1>1, <1>3, <1>4, <2>2, SharedDeviceStep DEF applyVars
<1>5. ASSUME UNCHANGED deviceVars,
             Untouched(o)' => staged[n] = {},
             StagedWhole(o)' => staged[n] = Block(o),
             Absent(o)' => n \notin live
      PROVE  SharedInv'
    <2>1. UNCHANGED <<live, staged, trial, running>>
        BY <1>5 DEF deviceVars
    <2>2. CASE n \in live
        <3>1. live' = live \cup {n}
            BY <2>1, <2>2
        <3> QED
            BY <1>2, <1>4, <1>5, <2>1, <2>2, <3>1
    <2>3. CASE n \notin live
        <3>1. live' = live \ {n}
            BY <2>1, <2>3
        <3> QED
            BY <1>2, <1>4, <1>5, <2>1, <2>3, <3>1
    <2> QED
        BY <2>2, <2>3
<1>6. CASE cmd = "open"
    <2>1. pc[o] = "open" /\ staged[n] = {} /\ n \notin live
        BY <1>1, <1>6 DEF SessionStands, Untouched, Absent, StageCmd
    <2>2. ~StagedWhole(o)'
        BY <1>3, <2>1 DEF StagedWhole
    <2>3. CASE Accept(o, cmd) /\ call'[o].st \in {"ok", "empty"}
        <3>1. EnterSession(n, {})
            BY <1>6, <2>3 DEF Accept, StageCmd
        <3>2. ~Absent(o)'
            BY <1>3, <2>1, <2>3 DEF Absent
        <3>3. /\ staged' = [staged EXCEPT ![n] = {}] /\ live' = live \cup {n}
              /\ trial' = trial /\ running' = running
            BY <1>2, <2>1, <3>1 DEF EnterSession
        <3> QED
            BY <1>2, <1>4, <2>2, <3>2, <3>3
    <2>4. CASE Refuse(o, cmd)
        BY <1>5, <1>6, <2>1, <2>2, <2>4 DEF Refuse, StageCmd
    <2> QED
        BY <1>3, <2>3, <2>4
<1>7. CASE cmd \in StageCmd
    <2>1. pc[o] = "stage" /\ staged[n] = {}
        BY <1>1, <1>7 DEF SessionStands, Untouched, StageCmd
    <2>2. ~Untouched(o)' /\ ~Absent(o)'
        BY <1>3, <2>1 DEF Untouched, Absent
    <2>3. CASE Accept(o, cmd)
        <3>1. EnterSession(n, Block(o))
            BY <1>7, <2>3 DEF Accept, StageCmd
        <3>2. /\ staged' = [staged EXCEPT ![n] = Block(o)] /\ live' = live \cup {n}
              /\ trial' = trial /\ running' = running
            BY <1>2, <2>1, <3>1 DEF EnterSession
        <3> QED
            BY <1>2, <1>4, <2>2, <3>2
    <2>4. CASE Refuse(o, cmd) /\ call'[o].st = "error"
        <3>1. ~StagedWhole(o)'
            BY <1>3, <2>1, <2>4 DEF StagedWhole, Succeeded
        <3>2. \E k \in 0 .. BlockLen - 1 : EnterSession(n, Prefix(o, k))
            BY <1>7, <2>4 DEF Refuse, StageCmd
        <3>3. PICK lines : EnterSession(n, lines)
            BY <3>2
        <3>4. /\ staged' = [staged EXCEPT ![n] = lines] /\ live' = live \cup {n}
              /\ trial' = trial /\ running' = running
            BY <1>2, <2>1, <3>3 DEF EnterSession
        <3> QED
            BY <1>2, <1>4, <2>2, <3>1, <3>4
    <2> QED
        BY <1>3, <2>3, <2>4
<1>8. CASE cmd = "diff"
    <2>1. pc[o] = "diff" /\ staged[n] = Block(o)
        BY <1>1, <1>8 DEF SessionStands, StagedWhole, StageCmd
    <2>2. ~Untouched(o)' /\ ~Absent(o)'
        BY <1>3, <2>1 DEF Untouched, Absent
    <2>3. UNCHANGED deviceVars
        BY <1>3, <1>8 DEF Accept, Refuse, StageCmd
    <2> QED
        BY <1>5, <2>1, <2>2, <2>3
<1>9. CASE cmd = "commit"
    <2>1. pc[o] = "commit" /\ staged[n] = Block(o)
        BY <1>1, <1>9 DEF SessionStands, StagedWhole, StageCmd
    <2>2. ~Untouched(o)' /\ ~StagedWhole(o)'
        BY <1>3, <2>1 DEF Untouched, StagedWhole
    <2>3. CASE Accept(o, cmd) /\ call'[o].st \in {"ok", "empty"}
        <3>1. CommitSession(n)
            BY <1>9, <2>3 DEF Accept, StageCmd
        <3>2. InForce(o)'
            BY <1>3, <2>1, <2>3 DEF InForce, Succeeded
        <3>3. /\ staged' = [staged EXCEPT ![n] = {}] /\ live' = live \ {n}
              /\ running' = running \cup Block(o) /\ \A m \in Name : trial'[m] = {}
            BY <1>2, <2>1, <3>1 DEF CommitSession
        <3> QED
            BY <1>4, <2>2, <3>2, <3>3
    <2>4. CASE Refuse(o, cmd)
        <3>1. n \notin live /\ UNCHANGED deviceVars
            BY <1>9, <2>4 DEF Refuse, StageCmd, Undisturbed
        <3> QED
            BY <1>5, <2>2, <3>1
    <2> QED
        BY <1>3, <2>3, <2>4
<1>10. CASE cmd = "abort"
    <2>1. pc[o] = "abort"
        BY <1>1, <1>10 DEF StageCmd
    <2>2. ~Untouched(o)' /\ ~StagedWhole(o)'
        BY <1>3, <2>1 DEF Untouched, StagedWhole
    <2>3. DropSession(n)
        BY <1>3, <1>10 DEF Accept, Refuse, StageCmd, Undisturbed
    <2>4. /\ staged' = [staged EXCEPT ![n] = {}] /\ live' = live \ {n}
          /\ running' = running /\ \A m \in Name : trial'[m] = {}
        BY <1>2, <2>3 DEF DropSession
    <2> QED
        BY <1>4, <2>2, <2>4
<1> QED
    BY <1>1, <1>6, <1>7, <1>8, <1>9, <1>10

LEMMA SharedNext ==
    ASSUME SlotOrTurns, Undisturbed
    PROVE  ApplyTypeOK /\ SlotInv /\ SharedInv /\ [ApplyNext]_allVars => SharedInv'
<1> SUFFICES ASSUME ApplyTypeOK, SlotInv, SharedInv, [ApplyNext]_allVars
             PROVE  SharedInv'
    OBVIOUS
<1>1. CASE UNCHANGED allVars
    <2> USE <1>1 DEF allVars, vars, processVars, deviceVars, applyVars
    <2>1. /\ Quiet' /\ CallMatchesPc' /\ NoTrial' /\ PcFitsSession' /\ LinesNeedSession'
          /\ InTurn'
        BY DEF SharedInv, Quiet, CallMatchesPc, NoTrial, PcFitsSession, LinesNeedSession, InTurn
    <2>2. SessionsStand' /\ LiveIsHeld' /\ OnlyCommitApplies'
        BY DEF SharedInv, SessionsStand, SessionStands, Untouched, StagedWhole, Absent,
            Succeeded, LiveIsHeld, Holding, OnlyCommitApplies, NothingPreloaded, InForce, Block
    <2> QED
        BY <2>1, <2>2 DEF SharedInv
<1>2. ASSUME NEW o \in Op, EnvStep(o)
      PROVE  SharedInv'
    <2>1. ~Lose(o) /\ ~CancelRich(o) /\ ~Cancel(o)
        BY DEF Lose, CancelRich, Cancel, Undisturbed, SharedInv, Quiet
    <2>2. \A cmd \in Cmd : ~ServeStray(o, cmd) /\ ~LoseStray(o, cmd)
        BY DEF ServeStray, LoseStray, SharedInv, Quiet
    <2> QED
        BY <1>2, <2>1, <2>2, SharedAnswer DEF EnvStep, NetworkStep
<1>3. ~ProviderCrash
    BY DEF ProviderCrash, Crash, Undisturbed
<1> QED
    BY <1>1, <1>2, <1>3, SharedApplyStep DEF ApplyNext, Quiesce

-----------------------------------------------------------------------------
LEMMA SharedSafe ==
    ASSUME SlotOrTurns, Undisturbed
    PROVE  ApplySpec => [](ApplyTypeOK /\ SlotInv /\ SharedInv)
<1>1. ApplyInit => ApplyTypeOK /\ SlotInv /\ SharedInv
    BY ApplyInitTypes, InitSlot, InitShared DEF ApplyInit
<1>2. ApplyTypeOK /\ SlotInv /\ SharedInv /\ [ApplyNext]_allVars
        => (ApplyTypeOK /\ SlotInv /\ SharedInv)'
    BY ApplyNextTypes, ApplyNextIsNext, NextSlot, SharedNext DEF ApplyTypeOK
<1> QED
    BY <1>1, <1>2, PTL DEF ApplySpec

\* "stages cmds inside a fresh configuration session": an operation about to
\* commit finds in its session what it staged itself and nothing else, in two
\* cases.  When every operation has a session name of its own, whatever is
\* refused, lost, delayed, cancelled or cut off by a crash.  When operations use
\* one name, through one Client or one after the other, as long as no commit or
\* abort is refused and nothing is lost, cancelled or cut off: a refused commit
\* leaves its lines to the next user of the name (stale_session), and two Clients
\* at once mix their lines in it (client_per_operation).
THEOREM SessionIsFresh ==
    ASSUME NamesDistinct \/ (SlotOrTurns /\ Undisturbed)
    PROVE  ApplySpec => []FreshSession
<1>1. CASE NamesDistinct
    <2>1. IInv => FreshSession
        BY DEF IInv, ApplyInv, WholeBlockStaged, StagedWhole, FreshSession, NoCall
    <2>2. IInv /\ [ApplyNext]_allVars => IInv'
        BY <1>1, NextIInv
    <2> QED
        BY <2>1, <2>2, InitIInv, PTL DEF ApplySpec
<1>2. CASE SlotOrTurns /\ Undisturbed
    <2>1. ApplyTypeOK /\ SharedInv => FreshSession
        BY SharedInvImplies
    <2>2. ApplySpec => [](ApplyTypeOK /\ SlotInv /\ SharedInv)
        BY <1>2, SharedSafe
    <2> QED
        BY <2>1, <2>2, PTL
<1> QED
    BY <1>1, <1>2

\* In the second of these cases, an operation that returned an error changed
\* nothing in running-config.
THEOREM FailureAppliesNothing ==
    ASSUME SlotOrTurns, Undisturbed, NothingPreloaded
    PROVE  ApplySpec => []FailedNotApplied
<1>1. ApplyTypeOK /\ SharedInv => FailedNotApplied
    BY SharedInvImplies
<1> QED
    BY <1>1, SharedSafe, PTL

\* "on any error the caller MUST call Abort": the apply functions do, and in the
\* second case no configuration session is left on the device when they have all
\* returned.
THEOREM NoSessionLeft ==
    ASSUME SlotOrTurns, Undisturbed
    PROVE  ApplySpec => []NoResidue
<1>1. ApplyTypeOK /\ SharedInv => NoResidue
    BY SharedInvImplies
<1> QED
    BY <1>1, SharedSafe, PTL
=============================================================================
