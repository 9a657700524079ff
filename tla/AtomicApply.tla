----------------------------- MODULE AtomicApply ----------------------------
(***************************************************************************)
(* What a resource operation promises: its block of configuration reaches  *)
(* running-config as a whole, at one instant, and only if it did may the   *)
(* operation report success.  An operation that reports failure promises   *)
(* nothing more: a commit whose answer was lost may already be in force,   *)
(* or come into force later, but then as a whole too.                      *)
(***************************************************************************)
CONSTANT Op

VARIABLES
    applied,    \* operations whose block is in running-config
    outcome     \* what each operation reported

vars == <<applied, outcome>>

TypeOK ==
    /\ applied \subseteq Op
    /\ outcome \in [Op -> {"none", "ok", "error"}]

Init ==
    /\ applied \in SUBSET Op
    /\ outcome = [o \in Op |-> "none"]

Apply(o) ==
    /\ outcome[o] # "ok"
    /\ applied' = applied \cup {o}
    /\ UNCHANGED outcome

Succeed(o) ==
    /\ outcome[o] = "none"
    /\ o \in applied
    /\ outcome' = [outcome EXCEPT ![o] = "ok"]
    /\ UNCHANGED applied

\* one operation fails, or a crash of the provider takes several with it
Fail(S) ==
    /\ \A o \in S : outcome[o] = "none"
    /\ outcome' = [o \in Op |-> IF o \in S THEN "error" ELSE outcome[o]]
    /\ UNCHANGED applied

Next ==
    \/ \E o \in Op : Apply(o) \/ Succeed(o)
    \/ \E S \in SUBSET Op : Fail(S)

Spec == Init /\ [][Next]_vars
=============================================================================
