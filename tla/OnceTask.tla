------------------------------ MODULE OnceTask ------------------------------
(***************************************************************************)
(* What the official-client task queue promises its callers: one task is   *)
(* open at a time, its prompt is run at most once, it succeeds only after  *)
(* it was run, and its outcome is final.                                   *)
(***************************************************************************)
EXTENDS Naturals

CONSTANT Tasks

VARIABLES outcome,  \* per task: "none", "open", "ok" or "notok"
          runs      \* per task: how often its prompt reached a device

vars == <<outcome, runs>>

Init ==
  /\ outcome = [t \in Tasks |-> "none"]
  /\ runs = [t \in Tasks |-> 0]

\* A task opens while no other is open.
Open(t) ==
  /\ outcome[t] = "none"
  /\ \A u \in Tasks : outcome[u] # "open"
  /\ outcome' = [outcome EXCEPT ![t] = "open"]
  /\ UNCHANGED runs

\* The prompt reaches a device; the task may have been closed meanwhile.
Run(t) ==
  /\ outcome[t] # "none"
  /\ runs[t] = 0
  /\ runs' = [runs EXCEPT ![t] = 1]
  /\ UNCHANGED outcome

Succeed(t) ==
  /\ outcome[t] = "open"
  /\ runs[t] = 1
  /\ outcome' = [outcome EXCEPT ![t] = "ok"]
  /\ UNCHANGED runs

Fail(t) ==
  /\ outcome[t] = "open"
  /\ outcome' = [outcome EXCEPT ![t] = "notok"]
  /\ UNCHANGED runs

Next == \E t \in Tasks : Open(t) \/ Run(t) \/ Succeed(t) \/ Fail(t)

Spec == Init /\ [][Next]_vars
=============================================================================
