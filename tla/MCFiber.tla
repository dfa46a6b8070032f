------------------------------- MODULE MCFiber -------------------------------
(* Model checking of Fiber: threads, and fibers, are interchangeable. *)
EXTENDS Fiber, TLC

Symmetry == Permutations(Thread) \cup Permutations(Fiber)
=============================================================================
