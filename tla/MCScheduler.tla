----------------------------- MODULE MCScheduler -----------------------------
(* Model checking of Scheduler: the workers and the jobs are interchangeable *)
(* where no job is pinned to one worker and only safety is checked.          *)
EXTENDS Scheduler, TLC

Symmetry == Permutations(Thread) \cup Permutations(Job)

\* Where some jobs are pinned to t1 only the jobs are interchangeable.
JobSymmetry == Permutations(Job)
=============================================================================
