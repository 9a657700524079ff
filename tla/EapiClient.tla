----------------------------- MODULE EapiClient -----------------------------
(***************************************************************************)
(* The eAPI client of internal/client/eapi/client.go: the one-slot session *)
(* semaphore of a Client, the life of a Session (OpenSession, Stage,       *)
(* StageRich, Diff, CommitTimer, Commit, Abort) and RunCmds, against an    *)
(* Arista EOS device that keeps named configuration sessions.              *)
(*                                                                         *)
(* An operation is one goroutine: a resource's CRUD call, with its context *)
(* and at most one Session.  Here its order of calls is free, as for any   *)
(* user of the package; ResourceApply fixes the order the resources use.   *)
(*                                                                         *)
(* The device and the transport are external.  What the code relies on is  *)
(* modelled: a session lives on the device under its name and `configure   *)
(* session N` creates it or re-enters it (Stage re-enters the session that *)
(* OpenSession created, in a request of its own); the commands of a        *)
(* request run in order and stop at the first one refused; a request whose *)
(* answer does not arrive may be executed at any later time, or never.     *)
(***************************************************************************)
EXTENDS Naturals, FiniteSets

CONSTANTS
    Op,         \* operations (goroutines holding at most one *Session each)
    Client,     \* *eapi.Client values
    Name,       \* session names
    ClientOf,   \* the Client an operation calls
    NameOf,     \* the name an operation gives its session
    BlockLen,   \* number of configuration lines each operation stages
    Rejects,    \* the requests the device may refuse
    Preloads,   \* sets of operations whose lines may be in place at first
    Faults,     \* which of "lost", "cancel", "crash" can happen
    MaxStray    \* bound on the requests given up on and still pending

StageCmd == {"stage", "stageRich"}
Cmd == StageCmd \cup {"open", "diff", "timer", "commit", "abort"}

ASSUME ConstantsAssumption ==
    /\ ClientOf \in [Op -> Client]
    /\ NameOf \in [Op -> Name]
    /\ BlockLen \in Nat \ {0}
    /\ Rejects \subseteq Cmd
    /\ Preloads \subseteq SUBSET Op
    /\ MaxStray \in Nat
    /\ Faults \subseteq {"lost", "cancel", "crash"}

VARIABLES
    \* the client process
    slot,       \* is the token in Client.sessionSlot?
    sess,       \* life of the operation's Session
    call,       \* the RunCmds / RunCmdsRich call the operation is in
    cancelled,  \* has the operation's context expired?
    \* the device
    live,       \* names of the configuration sessions that exist
    staged,     \* lines staged in each session
    trial,      \* lines a session put on trial with `commit timer`
    running,    \* lines confirmed in running-config
    stray       \* requests the client gave up on, not executed yet

processVars == <<slot, sess, call, cancelled>>
deviceVars == <<live, staged, trial, running>>
vars == <<processVars, deviceVars, stray>>

(***************************************************************************)
(* Lines carry the operation that renders them, so that a property can say *)
(* whose configuration reached the device.                                 *)
(***************************************************************************)
Line == Op \X (1 .. BlockLen)
Block(o) == {o} \X (1 .. BlockLen)
Prefix(o, k) == {o} \X (1 .. k)

NoCall == [cmd |-> "none", st |-> "idle"]
SessState == {"none", "acquiring", "opening", "open", "closed"}
CallState == {"sent", "ok", "empty", "error"}

(***************************************************************************)
(* Types.                                                                  *)
(***************************************************************************)
TypeOK ==
    /\ slot \in [Client -> BOOLEAN]
    /\ sess \in [Op -> SessState]
    /\ call \in [Op -> [cmd : Cmd, st : CallState] \cup {NoCall}]
    /\ cancelled \in [Op -> BOOLEAN]
    /\ live \subseteq Name
    /\ staged \in [Name -> SUBSET Line]
    /\ trial \in [Name -> SUBSET Line]
    /\ running \subseteq Line
    /\ stray \subseteq Op \X Cmd

Init ==
    /\ slot = [c \in Client |-> FALSE]
    /\ sess = [o \in Op |-> "none"]
    /\ call = [o \in Op |-> NoCall]
    /\ cancelled = [o \in Op |-> FALSE]
    /\ live = {}
    /\ staged = [n \in Name |-> {}]
    /\ trial = [n \in Name |-> {}]
    /\ \E pre \in Preloads : running = {l \in Line : l[1] \in pre}
    /\ stray = {}

-----------------------------------------------------------------------------
(***************************************************************************)
(* The device (external).                                                  *)
(***************************************************************************)

\* `configure session N`, and the lines that follow it
EnterSession(n, lines) ==
    /\ live' = live \cup {n}
    /\ staged' = [staged EXCEPT ![n] = @ \cup lines]
    /\ UNCHANGED <<trial, running>>

\* the session is gone: `no configure session N`, or its commit timer lapsed
DropSession(n) ==
    /\ live' = live \ {n}
    /\ staged' = [staged EXCEPT ![n] = {}]
    /\ trial' = [trial EXCEPT ![n] = {}]
    /\ UNCHANGED running

TrySession(n) ==
    /\ n \in live
    /\ trial' = [trial EXCEPT ![n] = staged[n]]
    /\ UNCHANGED <<live, staged, running>>

CommitSession(n) ==
    /\ n \in live
    /\ running' = running \cup staged[n]
    /\ live' = live \ {n}
    /\ staged' = [staged EXCEPT ![n] = {}]
    /\ trial' = [trial EXCEPT ![n] = {}]

OnTrial == UNION {trial[n] : n \in Name}

\* a refused request: one that stages keeps the lines before the refused one
Refuse(o, cmd) ==
    \/ /\ cmd \in Rejects \cap StageCmd
       /\ \E k \in 0 .. BlockLen - 1 : EnterSession(NameOf[o], Prefix(o, k))
    \/ /\ cmd \in Rejects \ StageCmd
       /\ UNCHANGED deviceVars
    \/ /\ cmd \in {"diff", "timer", "commit"}
       /\ NameOf[o] \notin live
       /\ UNCHANGED deviceVars

Accept(o, cmd) ==
    \/ cmd = "open" /\ EnterSession(NameOf[o], {})
    \/ cmd \in StageCmd /\ EnterSession(NameOf[o], Block(o))
    \/ cmd = "diff" /\ NameOf[o] \in live /\ UNCHANGED deviceVars
    \/ cmd = "timer" /\ TrySession(NameOf[o])
    \/ cmd = "commit" /\ CommitSession(NameOf[o])
    \/ cmd = "abort" /\ DropSession(NameOf[o])

\* `show session-config named N diffs` shows nothing
DiffEmpty(n) == staged[n] \subseteq running \cup OnTrial

TimerLapses(n) ==
    /\ trial[n] # {}
    /\ DropSession(n)
    /\ UNCHANGED <<processVars, stray>>

-----------------------------------------------------------------------------
(***************************************************************************)
(* RunCmds and RunCmdsRich.  An expired context is looked at once, before  *)
(* the request leaves.                                                     *)
(***************************************************************************)
RunCmds(o, cmd) ==
    /\ call[o] = NoCall
    /\ call' = [call EXCEPT ![o] =
                  [cmd |-> cmd, st |-> IF cancelled[o] THEN "error" ELSE "sent"]]

\* The device executes the request and its answer arrives.
Answer(o) ==
    /\ call[o].st = "sent"
    /\ \/ /\ Accept(o, call[o].cmd)
          /\ call' = [call EXCEPT ![o].st =
                        IF call[o].cmd = "diff" /\ DiffEmpty(NameOf[o])
                        THEN "empty" ELSE "ok"]
       \/ /\ Refuse(o, call[o].cmd)
          /\ call' = [call EXCEPT ![o].st = "error"]
    /\ UNCHANGED <<slot, sess, cancelled, stray>>

GiveUp_Silent(o) ==
    /\ call[o].st = "sent"
    /\ call' = [call EXCEPT ![o].st = "idle"]
    /\ stray' = stray \cup {<<o, call[o].cmd>>}
    /\ Cardinality(stray') <= MaxStray
    /\ UNCHANGED <<slot, sess, cancelled, deviceVars>>

GiveUp(o) ==
    /\ call[o].st = "sent"
    /\ call' = [call EXCEPT ![o].st = "error"]
    /\ stray' = stray \cup {<<o, call[o].cmd>>}
    /\ Cardinality(stray') <= MaxStray
    /\ UNCHANGED <<slot, sess, cancelled, deviceVars>>

\* transport error or timeout, before or after the device saw the request
Lose(o) == "lost" \in Faults /\ GiveUp(o)

\* only RunCmdsRich hands its context to the HTTP request
CancelRich(o) == cancelled[o] /\ call[o].cmd = "stageRich" /\ GiveUp(o)

ServeStray(o, cmd) ==
    /\ <<o, cmd>> \in stray
    /\ stray' = stray \ {<<o, cmd>>}
    /\ Accept(o, cmd) \/ Refuse(o, cmd)
    /\ UNCHANGED processVars

\* the device never gets the request
LoseStray(o, cmd) ==
    /\ <<o, cmd>> \in stray
    /\ stray' = stray \ {<<o, cmd>>}
    /\ UNCHANGED <<processVars, deviceVars>>

-----------------------------------------------------------------------------
(***************************************************************************)
(* The Session API.  A method called on a Session that is not open returns *)
(* without a request, so it is no step.                                    *)
(***************************************************************************)
Holding(o) == sess[o] \in {"opening", "open"}

OpenSession(o) ==
    /\ sess[o] \in {"none", "closed"}
    /\ sess' = [sess EXCEPT ![o] = "acquiring"]
    /\ cancelled' = [cancelled EXCEPT ![o] = FALSE]
    /\ UNCHANGED <<slot, call, deviceVars, stray>>

Acquire_Reentrant(o) ==
    /\ sess[o] = "acquiring"
    /\ slot' = [slot EXCEPT ![ClientOf[o]] = TRUE]
    /\ sess' = [sess EXCEPT ![o] = "opening"]
    /\ RunCmds(o, "open")
    /\ UNCHANGED <<cancelled, deviceVars, stray>>

\* the select of OpenSession, first arm: the token goes in the channel
Acquire(o) ==
    /\ sess[o] = "acquiring"
    /\ ~slot[ClientOf[o]]
    /\ slot' = [slot EXCEPT ![ClientOf[o]] = TRUE]
    /\ sess' = [sess EXCEPT ![o] = "opening"]
    /\ RunCmds(o, "open")
    /\ UNCHANGED <<cancelled, deviceVars, stray>>

AcquireCancelled_Blocking(o) == FALSE /\ UNCHANGED vars

\* second arm: the context expires first
AcquireCancelled(o) ==
    /\ sess[o] = "acquiring"
    /\ cancelled[o]
    /\ sess' = [sess EXCEPT ![o] = "none"]
    /\ UNCHANGED <<slot, call, cancelled, deviceVars, stray>>

Answered(o, cmds) == call[o].cmd \in cmds /\ call[o].st # "sent"
Succeeded(o) == call[o].st \in {"ok", "empty"}
Freed(o) == [slot EXCEPT ![ClientOf[o]] = FALSE]

OpenReturns_LeakSlot(o) ==
    /\ Answered(o, {"open"})
    /\ sess' = [sess EXCEPT ![o] = IF Succeeded(o) THEN "open" ELSE "none"]
    /\ call' = [call EXCEPT ![o] = NoCall]
    /\ UNCHANGED <<slot, cancelled, deviceVars, stray>>

OpenReturns(o) ==
    /\ Answered(o, {"open"})
    /\ sess' = [sess EXCEPT ![o] = IF Succeeded(o) THEN "open" ELSE "none"]
    /\ slot' = IF Succeeded(o) THEN slot ELSE Freed(o)
    /\ call' = [call EXCEPT ![o] = NoCall]
    /\ UNCHANGED <<cancelled, deviceVars, stray>>

Request(o, cmd) ==
    /\ sess[o] = "open"
    /\ RunCmds(o, cmd)
    /\ UNCHANGED <<slot, sess, cancelled, deviceVars, stray>>

Stage(o) == Request(o, "stage")
StageRich(o) == Request(o, "stageRich")
Diff(o) == Request(o, "diff")
CommitTimer(o) == Request(o, "timer")
Commit(o) == Request(o, "commit")
Abort_Commits(o) == Request(o, "commit")
Abort(o) == Request(o, "abort")

\* Stage, StageRich, Diff and CommitTimer hand the answer to their caller
CallReturns(o) ==
    /\ Answered(o, StageCmd \cup {"diff", "timer"})
    /\ call' = [call EXCEPT ![o] = NoCall]
    /\ UNCHANGED <<slot, sess, cancelled, deviceVars, stray>>

\* Commit and Abort close the Session and free the slot whatever the answer
CloseReturns(o) ==
    /\ Answered(o, {"commit", "abort"})
    /\ sess' = [sess EXCEPT ![o] = "closed"]
    /\ slot' = Freed(o)
    /\ call' = [call EXCEPT ![o] = NoCall]
    /\ UNCHANGED <<cancelled, deviceVars, stray>>

Cancel(o) ==
    /\ "cancel" \in Faults
    /\ sess[o] \in {"acquiring", "opening", "open"}
    /\ ~cancelled[o]
    /\ cancelled' = [cancelled EXCEPT ![o] = TRUE]
    /\ UNCHANGED <<slot, sess, call, deviceVars, stray>>

(***************************************************************************)
(* The provider process dies.  What it sent may still be executed.         *)
(***************************************************************************)
Crash ==
    /\ "crash" \in Faults
    /\ \E o \in Op : sess[o] \notin {"none", "closed"}
    /\ slot' = [c \in Client |-> FALSE]
    /\ sess' = [o \in Op |-> "none"]
    /\ call' = [o \in Op |-> NoCall]
    /\ stray' = stray \cup
                {<<o, call[o].cmd>> : o \in {p \in Op : call[p].st = "sent"}}
    /\ Cardinality(stray') <= MaxStray
    /\ UNCHANGED <<cancelled, deviceVars>>

-----------------------------------------------------------------------------
ClientStep(o) ==
    \/ OpenSession(o) \/ Acquire(o) \/ AcquireCancelled(o) \/ OpenReturns(o)
    \/ Stage(o) \/ StageRich(o) \/ Diff(o) \/ CommitTimer(o)
    \/ Commit(o) \/ Abort(o) \/ CallReturns(o) \/ CloseReturns(o)

NetworkStep(o) ==
    \/ Answer(o) \/ Lose(o) \/ CancelRich(o)
    \/ \E cmd \in Cmd : ServeStray(o, cmd) \/ LoseStray(o, cmd)

Next ==
    \/ \E o \in Op : ClientStep(o) \/ NetworkStep(o) \/ Cancel(o)
    \/ \E n \in Name : TimerLapses(n)
    \/ Crash

Spec == Init /\ [][Next]_vars

(***************************************************************************)
(* The scheduler runs a goroutine whose select can proceed.                *)
(***************************************************************************)
FairSpec == Spec /\ \A o \in Op : WF_vars(AcquireCancelled(o))

-----------------------------------------------------------------------------
(***************************************************************************)
(* Properties.                                                             *)
(***************************************************************************)

\* "At most one configuration session may be active at a time per Client":
\* the slot's token is there exactly while one operation is opening or holds
\* an open Session, on every path out of OpenSession, Commit and Abort.
SlotHeldByOne ==
    \A c \in Client :
        LET holders == {o \in Op : ClientOf[o] = c /\ Holding(o)}
        IN  /\ slot[c] <=> holders # {}
            /\ \A o, p \in holders : o = p

\* "OpenSession waits for it to close or for ctx to expire": a caller whose
\* context expires while it waits for the slot is not left waiting, even if
\* the holder never closes its Session.
ExpiredOpenReturns ==
    \A o \in Op : (sess[o] = "acquiring" /\ cancelled[o]) ~> (sess[o] # "acquiring")
=============================================================================
