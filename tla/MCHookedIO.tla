------------------------------ MODULE MCHookedIO ------------------------------
(* Model checking of HookedIO: a reader and a writer of one socket. *)
EXTENDS HookedIO, TLC

MCEventOf == "reader" :> "READ" @@ "writer" :> "WRITE"
MCTimeval == {<<0, 1500>>}
=============================================================================
