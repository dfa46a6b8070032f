------------------------------- MODULE TaskPool -------------------------------
(***************************************************************************)
(* What Scheduler promises its user: a job handed to schedule() is begun   *)
(* once and ended once, by a started pool; stop() returns when no job is   *)
(* left.  How threads, fibers and the queue do that is not said here.      *)
(***************************************************************************)
CONSTANT Job
VARIABLES life, user

vars == <<life, user>>

Init == life = [j \in Job |-> "fresh"] /\ user = "stopped"

advance(j, from, to) ==
  /\ life[j] = from
  /\ life' = [life EXCEPT ![j] = to]
  /\ UNCHANGED user

\* The user schedules a job, except during stop(); a running job always may.
Submit(j) == /\ user # "stopping" \/ \E k \in Job : life[k] = "begun"
             /\ advance(j, "fresh", "scheduled")
Begin(j)  == user # "stopped" /\ advance(j, "scheduled", "begun")
End(j)    == user # "stopped" /\ advance(j, "begun", "ended")

Start  == user = "stopped" /\ user' = "started" /\ UNCHANGED life
Stop   == user = "started" /\ user' = "stopping" /\ UNCHANGED life
Return == /\ user = "stopping" /\ \A j \in Job : life[j] \in {"fresh", "ended"}
          /\ user' = "stopped" /\ UNCHANGED life

Next == \/ \E j \in Job : Submit(j) \/ Begin(j) \/ End(j)
        \/ Start \/ Stop \/ Return

Spec == Init /\ [][Next]_vars

\* A scheduled job is begun and ended, and stop() returns.
FairSpec == /\ Spec
            /\ \A j \in Job : WF_vars(Begin(j)) /\ WF_vars(End(j))
            /\ WF_vars(Return)
=============================================================================
