----------------------------- MODULE MCIOManager -----------------------------
(* Model checking of IOManager: threads are interchangeable.  Both descriptors *)
(* are beyond the first table; a wait for 90 makes it larger, one for 40 may   *)
(* make it smaller again.                                                      *)
EXTENDS IOManager, TLC

MCWaits  == {<<40, "READ">>, <<40, "WRITE">>, <<90, "READ">>}
Symmetry == Permutations(Proc)
=============================================================================
