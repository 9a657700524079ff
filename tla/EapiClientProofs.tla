-------------------------- MODULE EapiClientProofs --------------------------
(***************************************************************************)
(* Proofs about EapiClient, for any number of operations, Clients and      *)
(* session names, any fault and any refusal of the device.                 *)
(***************************************************************************)
EXTENDS EapiClient, TLAPS

(***************************************************************************)
(* TypeOK is inductive as it stands.                                       *)
(***************************************************************************)

\* The device only ever holds lines of the operations.
LEMMA DeviceTypes ==
    ASSUME TypeOK, NEW o \in Op, NEW cmd \in Cmd, Accept(o, cmd) \/ Refuse(o, cmd)
    PROVE  /\ live' \subseteq Name
           /\ staged' \in [Name -> SUBSET Line]
           /\ trial' \in [Name -> SUBSET Line]
           /\ running' \subseteq Line
<1> DEFINE n == NameOf[o]
<1>1. n \in Name
    BY ConstantsAssumption
<1>2. Block(o) \subseteq Line /\ \A k \in 0 .. BlockLen - 1 : Prefix(o, k) \subseteq Line
    BY ConstantsAssumption DEF Block, Prefix, Line
<1> HIDE DEF n
<1>3. ASSUME NEW lines \in SUBSET Line, EnterSession(n, lines)
      PROVE  /\ live' \subseteq Name
             /\ staged' \in [Name -> SUBSET Line]
             /\ trial' \in [Name -> SUBSET Line]
             /\ running' \subseteq Line
    BY <1>1, <1>3 DEF TypeOK, EnterSession
<1>4. CASE Accept(o, cmd)
    <2>1. CASE EnterSession(n, {}) \/ EnterSession(n, Block(o))
        BY <2>1, <1>2, <1>3
    <2>2. CASE UNCHANGED deviceVars
        BY <2>2 DEF TypeOK, deviceVars
    <2>3. CASE TrySession(n)
        BY <2>3, <1>1 DEF TypeOK, TrySession
    <2>4. CASE CommitSession(n)
        BY <2>4, <1>1 DEF TypeOK, CommitSession
    <2>5. CASE DropSession(n)
        BY <2>5, <1>1 DEF TypeOK, DropSession
    <2> QED
        BY <1>4, <2>1, <2>2, <2>3, <2>4, <2>5 DEF Accept, n
<1>5. CASE Refuse(o, cmd)
    <2>1. CASE UNCHANGED deviceVars
        BY <2>1 DEF TypeOK, deviceVars
    <2>2. CASE \E k \in 0 .. BlockLen - 1 : EnterSession(n, Prefix(o, k))
        BY <2>2, <1>2, <1>3
    <2> QED
        BY <1>5, <2>1, <2>2 DEF Refuse, n
<1> QED
    BY <1>4, <1>5

\* A call in flight is a record of the type of calls.
LEMMA SentCall ==
    ASSUME TypeOK, NEW o \in Op, call[o] # NoCall
    PROVE  /\ call[o] \in [cmd : Cmd, st : CallState]
           /\ call[o].cmd \in Cmd
BY DEF TypeOK

LEMMA InitTypes == Init => TypeOK
BY ConstantsAssumption DEF Init, TypeOK, SessState

LEMMA ClientStepTypes ==
    ASSUME TypeOK, NEW o \in Op, ClientStep(o)
    PROVE  TypeOK'
<1>1. ClientOf[o] \in Client
    BY ConstantsAssumption
<1> USE <1>1 DEF TypeOK, deviceVars
<1>2. ASSUME NEW cmd \in Cmd, RunCmds(o, cmd)
      PROVE  call' \in [Op -> [cmd : Cmd, st : CallState] \cup {NoCall}]
    BY <1>2 DEF RunCmds, CallState
<1>3. ASSUME NEW cmd \in Cmd, Request(o, cmd)
      PROVE  TypeOK'
    BY <1>2, <1>3 DEF Request
<1>4. CASE OpenSession(o)
    BY <1>4 DEF OpenSession, SessState
<1>5. CASE Acquire(o)
    BY <1>5, <1>2 DEF Acquire, SessState, Cmd
<1>6. CASE AcquireCancelled(o)
    BY <1>6 DEF AcquireCancelled, SessState
<1>7. CASE OpenReturns(o)
    BY <1>7 DEF OpenReturns, Freed, SessState
<1>8. CASE \/ Stage(o) \/ StageRich(o) \/ Diff(o)
           \/ CommitTimer(o) \/ Commit(o) \/ Abort(o)
    BY <1>8, <1>3 DEF Stage, StageRich, Diff, CommitTimer, Commit, Abort, Cmd, StageCmd
<1>9. CASE CallReturns(o)
    BY <1>9 DEF CallReturns
<1>10. CASE CloseReturns(o)
    BY <1>10 DEF CloseReturns, Freed, SessState
<1> QED
    BY <1>4, <1>5, <1>6, <1>7, <1>8, <1>9, <1>10 DEF ClientStep

LEMMA NetworkStepTypes ==
    ASSUME TypeOK, NEW o \in Op, NetworkStep(o)
    PROVE  TypeOK'
<1>1. CASE Answer(o)
    <2>1. call[o] \in [cmd : Cmd, st : CallState] /\ call[o].cmd \in Cmd
        BY <1>1, SentCall DEF Answer, NoCall
    <2>2. Accept(o, call[o].cmd) \/ Refuse(o, call[o].cmd)
        BY <1>1 DEF Answer
    <2>3. call' \in [Op -> [cmd : Cmd, st : CallState] \cup {NoCall}]
        BY <1>1, <2>1 DEF Answer, TypeOK, CallState
    <2> QED
        BY <1>1, <2>1, <2>2, <2>3, DeviceTypes DEF Answer, TypeOK
<1>2. CASE Lose(o) \/ CancelRich(o)
    <2>1. GiveUp(o)
        BY <1>2 DEF Lose, CancelRich
    <2>2. call[o] \in [cmd : Cmd, st : CallState] /\ call[o].cmd \in Cmd
        BY <2>1, SentCall DEF GiveUp, NoCall
    <2> QED
        BY <2>1, <2>2 DEF GiveUp, TypeOK, CallState, deviceVars
<1>3. ASSUME NEW cmd \in Cmd, ServeStray(o, cmd)
      PROVE  TypeOK'
    BY <1>3, DeviceTypes DEF ServeStray, TypeOK, processVars
<1>4. ASSUME NEW cmd \in Cmd, LoseStray(o, cmd)
      PROVE  TypeOK'
    BY <1>4 DEF LoseStray, TypeOK, processVars, deviceVars
<1> QED
    BY <1>1, <1>2, <1>3, <1>4 DEF NetworkStep

LEMMA NextTypes == TypeOK /\ [Next]_vars => TypeOK'
<1> SUFFICES ASSUME TypeOK, [Next]_vars
             PROVE  TypeOK'
    OBVIOUS
<1>1. ASSUME NEW o \in Op, Cancel(o)
      PROVE  TypeOK'
    BY <1>1 DEF Cancel, TypeOK, deviceVars
<1>2. ASSUME NEW n \in Name, TimerLapses(n)
      PROVE  TypeOK'
    BY <1>2 DEF TimerLapses, DropSession, TypeOK, processVars
<1>3. CASE Crash
    <2>1. \A o \in Op : call[o].st = "sent" => call[o].cmd \in Cmd
        BY SentCall DEF NoCall
    <2>2. stray' \subseteq Op \X Cmd
        BY <1>3, <2>1 DEF Crash, TypeOK
    <2> QED
        BY <1>3, <2>2 DEF Crash, TypeOK, SessState, deviceVars
<1>4. CASE UNCHANGED vars
    BY <1>4 DEF vars, processVars, deviceVars, TypeOK
<1> QED
    BY <1>1, <1>2, <1>3, <1>4, ClientStepTypes, NetworkStepTypes DEF Next

\* The variables of the client and of the device keep their types whatever
\* order the package's functions are called in.
THEOREM TypeCorrect == Spec => []TypeOK
BY InitTypes, NextTypes, PTL DEF Spec

-----------------------------------------------------------------------------
(***************************************************************************)
(* The slot.  SlotHeldByOne is not inductive alone: that only the holder   *)
(* frees the slot needs to know that the call whose answer frees it        *)
(* belongs to an operation that opens or holds a Session.                  *)
(***************************************************************************)
CallOfHolder ==
    \A o \in Op : /\ call[o].cmd = "open" => sess[o] = "opening"
                  /\ call[o].cmd \in Cmd \ {"open"} => sess[o] = "open"

HoldersHaveSlot == \A o \in Op : Holding(o) => slot[ClientOf[o]]

HoldersDiffer ==
    \A o, p \in Op :
        Holding(o) /\ Holding(p) /\ ClientOf[o] = ClientOf[p] => o = p

SlotHasHolder ==
    \A c \in Client : slot[c] => \E o \in Op : ClientOf[o] = c /\ Holding(o)

SlotInv == CallOfHolder /\ HoldersHaveSlot /\ HoldersDiffer /\ SlotHasHolder

LEMMA SlotInvImplies == SlotInv => SlotHeldByOne
BY DEF SlotInv, HoldersHaveSlot, HoldersDiffer, SlotHasHolder, SlotHeldByOne

LEMMA InitSlot == Init => SlotInv
BY ConstantsAssumption DEF Init, SlotInv, CallOfHolder, HoldersHaveSlot,
    HoldersDiffer, SlotHasHolder, Holding, NoCall, Cmd, StageCmd

\* The steps that leave the slot and every Session as they are.
LEMMA SlotKept ==
    ASSUME SlotInv, UNCHANGED <<slot, sess>>, CallOfHolder'
    PROVE  SlotInv'
BY DEF SlotInv, HoldersHaveSlot, HoldersDiffer, SlotHasHolder, Holding

\* A call is made by a holder, and its outcome changes its state only.
LEMMA CallKept ==
    ASSUME TypeOK, SlotInv, UNCHANGED <<slot, sess>>, NEW o \in Op,
           NEW r, call' = [call EXCEPT ![o] = r],
           r.cmd = "open" => sess[o] = "opening",
           r.cmd \in Cmd \ {"open"} => sess[o] = "open"
    PROVE  SlotInv'
<1>1. CallOfHolder'
    BY DEF TypeOK, SlotInv, CallOfHolder
<1> QED
    BY <1>1, SlotKept

LEMMA ClientStepSlot ==
    ASSUME TypeOK, SlotInv, NEW o \in Op, ClientStep(o)
    PROVE  SlotInv'
<1> DEFINE c == ClientOf[o]
<1>1. ClientOf \in [Op -> Client] /\ c \in Client
    BY ConstantsAssumption
<1>2. "none" \notin Cmd
    BY DEF Cmd, StageCmd
<1> USE <1>1, <1>2 DEF TypeOK
<1>3. CASE OpenSession(o)
    <2>1. ~Holding(o) /\ ~Holding(o)' /\ \A p \in Op \ {o} : sess'[p] = sess[p]
        BY <1>3 DEF OpenSession, Holding
    <2>2. CallOfHolder'
        BY <1>3 DEF OpenSession, SlotInv, CallOfHolder, Cmd, StageCmd
    <2> QED
        BY <1>3, <2>1, <2>2 DEF OpenSession, SlotInv, HoldersHaveSlot,
            HoldersDiffer, SlotHasHolder, Holding
<1>4. CASE Acquire(o)
    <2>1. CallOfHolder'
        BY <1>4 DEF Acquire, RunCmds, SlotInv, CallOfHolder
    <2>2. \A p \in Op : ClientOf[p] = c => ~Holding(p)
        BY <1>4 DEF Acquire, SlotInv, HoldersHaveSlot
    <2>3. Holding(o)' /\ \A p \in Op \ {o} : Holding(p)' <=> Holding(p)
        BY <1>4 DEF Acquire, Holding
    <2>4. slot' = [slot EXCEPT ![c] = TRUE]
        BY <1>4 DEF Acquire
    <2>5. HoldersHaveSlot' /\ HoldersDiffer' /\ SlotHasHolder'
        BY <2>2, <2>3, <2>4 DEF SlotInv, HoldersHaveSlot, HoldersDiffer, SlotHasHolder
    <2> QED
        BY <2>1, <2>5 DEF SlotInv
<1>5. CASE AcquireCancelled(o)
    <2>1. ~Holding(o) /\ ~Holding(o)' /\ \A p \in Op \ {o} : sess'[p] = sess[p]
        BY <1>5 DEF AcquireCancelled, Holding
    <2>2. CallOfHolder'
        BY <1>5 DEF AcquireCancelled, SlotInv, CallOfHolder, Cmd, StageCmd
    <2> QED
        BY <1>5, <2>1, <2>2 DEF AcquireCancelled, SlotInv, HoldersHaveSlot,
            HoldersDiffer, SlotHasHolder, Holding
<1>6. ASSUME Holding(o), ~Holding(o)', slot' = Freed(o), CallOfHolder',
             \A p \in Op \ {o} : sess'[p] = sess[p]
      PROVE  SlotInv'
    <2>1. \A p \in Op \ {o} : Holding(p)' <=> Holding(p)
        BY <1>6 DEF Holding
    <2>2. \A p \in Op \ {o} : Holding(p) => ClientOf[p] # c
        BY <1>6 DEF SlotInv, HoldersDiffer
    <2>3. slot' = [slot EXCEPT ![c] = FALSE]
        BY <1>6 DEF Freed
    <2>4. HoldersHaveSlot' /\ HoldersDiffer' /\ SlotHasHolder'
        BY <1>6, <2>1, <2>2, <2>3
        DEF SlotInv, HoldersHaveSlot, HoldersDiffer, SlotHasHolder
    <2> QED
        BY <1>6, <2>4 DEF SlotInv
<1>7. CASE OpenReturns(o)
    <2>1. sess[o] = "opening"
        BY <1>7 DEF OpenReturns, Answered, SlotInv, CallOfHolder
    <2>2. CallOfHolder'
        BY <1>7, <2>1 DEF OpenReturns, NoCall, SlotInv, CallOfHolder
    <2>3. CASE Succeeded(o)
        <3>1. /\ Holding(o) /\ Holding(o)' /\ slot' = slot
              /\ \A p \in Op \ {o} : Holding(p)' <=> Holding(p)
            BY <1>7, <2>1, <2>3 DEF OpenReturns, Holding
        <3> QED
            BY <2>2, <3>1 DEF SlotInv, HoldersHaveSlot, HoldersDiffer, SlotHasHolder
    <2>4. CASE ~Succeeded(o)
        <3>1. Holding(o) /\ ~Holding(o)' /\ slot' = Freed(o)
            BY <1>7, <2>1, <2>4 DEF OpenReturns, Holding
        <3>2. \A p \in Op \ {o} : sess'[p] = sess[p]
            BY <1>7 DEF OpenReturns
        <3> QED
            BY <1>6, <2>2, <3>1, <3>2
    <2> QED
        BY <2>3, <2>4
<1>8. ASSUME NEW cmd \in Cmd \ {"open"}, Request(o, cmd)
      PROVE  SlotInv'
    <2> DEFINE r == [cmd |-> cmd, st |-> IF cancelled[o] THEN "error" ELSE "sent"]
    <2>1. r.cmd = cmd /\ call' = [call EXCEPT ![o] = r]
        BY <1>8 DEF Request, RunCmds
    <2>2. sess[o] = "open" /\ UNCHANGED <<slot, sess>>
        BY <1>8 DEF Request
    <2> QED
        BY <2>1, <2>2, CallKept
<1>9. CASE \/ Stage(o) \/ StageRich(o) \/ Diff(o)
           \/ CommitTimer(o) \/ Commit(o) \/ Abort(o)
    BY <1>9, <1>8 DEF Stage, StageRich, Diff, CommitTimer, Commit, Abort, Cmd, StageCmd
<1>10. CASE CallReturns(o)
    <2>1. NoCall.cmd = "none" /\ call' = [call EXCEPT ![o] = NoCall]
        BY <1>10 DEF CallReturns, NoCall
    <2> QED
        BY <1>10, <2>1, CallKept DEF CallReturns
<1>11. CASE CloseReturns(o)
    <2>1. sess[o] = "open"
        BY <1>11 DEF CloseReturns, Answered, SlotInv, CallOfHolder, Cmd
    <2>2. CallOfHolder'
        BY <1>11, <2>1 DEF CloseReturns, NoCall, SlotInv, CallOfHolder
    <2>3. Holding(o) /\ ~Holding(o)' /\ slot' = Freed(o)
        BY <1>11, <2>1 DEF CloseReturns, Holding
    <2>4. \A p \in Op \ {o} : sess'[p] = sess[p]
        BY <1>11 DEF CloseReturns
    <2> QED
        BY <1>6, <2>2, <2>3, <2>4
<1> QED
    BY <1>3, <1>4, <1>5, <1>7, <1>9, <1>10, <1>11 DEF ClientStep

LEMMA NetworkStepSlot ==
    ASSUME TypeOK, SlotInv, NEW o \in Op, NetworkStep(o)
    PROVE  SlotInv'
<1>1. ASSUME NEW st, call' = [call EXCEPT ![o].st = st], call[o].st = "sent",
             UNCHANGED <<slot, sess>>
      PROVE  SlotInv'
    <2>1. call[o] \in [cmd : Cmd, st : CallState]
        BY <1>1, SentCall DEF NoCall
    <2> DEFINE r == [call[o] EXCEPT !.st = st]
    <2>2. r.cmd = call[o].cmd /\ call' = [call EXCEPT ![o] = r]
        BY <1>1, <2>1
    <2>3. /\ call[o].cmd = "open" => sess[o] = "opening"
          /\ call[o].cmd \in Cmd \ {"open"} => sess[o] = "open"
        BY DEF SlotInv, CallOfHolder
    <2> HIDE DEF r
    <2> QED
        BY <1>1, <2>2, <2>3, CallKept
<1>2. CASE Answer(o)
    BY <1>1, <1>2 DEF Answer
<1>3. CASE Lose(o) \/ CancelRich(o)
    BY <1>1, <1>3 DEF Lose, CancelRich, GiveUp
<1>4. CASE UNCHANGED processVars
    <2>1. UNCHANGED <<slot, sess, call>>
        BY <1>4 DEF processVars
    <2>2. CallOfHolder'
        BY <2>1 DEF SlotInv, CallOfHolder
    <2> QED
        BY <2>1, <2>2, SlotKept
<1> QED
    BY <1>2, <1>3, <1>4 DEF NetworkStep, ServeStray, LoseStray

LEMMA NextSlot == TypeOK /\ SlotInv /\ [Next]_vars => SlotInv'
<1> SUFFICES ASSUME TypeOK, SlotInv, [Next]_vars
             PROVE  SlotInv'
    OBVIOUS
<1>1. CASE UNCHANGED <<slot, sess, call>>
    <2>1. CallOfHolder'
        BY <1>1 DEF SlotInv, CallOfHolder
    <2> QED
        BY <1>1, <2>1, SlotKept
<1>2. CASE Crash
    BY <1>2, ConstantsAssumption DEF Crash, SlotInv, CallOfHolder, HoldersHaveSlot,
        HoldersDiffer, SlotHasHolder, Holding, NoCall, Cmd, StageCmd
<1>3. ASSUME NEW o \in Op, Cancel(o)
      PROVE  SlotInv'
    BY <1>1, <1>3 DEF Cancel
<1>4. ASSUME NEW n \in Name, TimerLapses(n)
      PROVE  SlotInv'
    BY <1>1, <1>4 DEF TimerLapses, processVars
<1>5. CASE UNCHANGED vars
    BY <1>1, <1>5 DEF vars, processVars
<1> QED
    BY <1>2, <1>3, <1>4, <1>5, ClientStepSlot, NetworkStepSlot DEF Next

\* At most one operation opens or holds a Session of a Client, and the slot is
\* taken exactly then: no path out of OpenSession, Commit or Abort leaks the
\* token and none frees the token of another operation.
THEOREM SlotExclusive == Spec => []SlotHeldByOne
<1>1. Init => TypeOK /\ SlotInv
    BY InitTypes, InitSlot
<1>2. TypeOK /\ SlotInv /\ [Next]_vars => (TypeOK /\ SlotInv)'
    BY NextTypes, NextSlot
<1>3. TypeOK /\ SlotInv => SlotHeldByOne
    BY SlotInvImplies
<1> QED
    BY <1>1, <1>2, <1>3, PTL DEF Spec
=============================================================================
