------------------------------ MODULE Durations ------------------------------
(***************************************************************************)
(* How the hooked calls of EVA01 (hook.cpp) turn durations into the        *)
(* milliseconds of a timer, in the integers of the build: unsigned int and *)
(* int of 32 bits, uint64_t of 64.                                         *)
(***************************************************************************)
EXTENDS Integers

CONSTANTS
  Word,   \* 2^32
  Long    \* 2^64

ASSUME WidthAssumption == Word \in Nat /\ Long \in Nat /\ 1 < Word /\ Word < Long

u32(n) == n % Word
i32(n) == IF 2 * (n % Word) < Word THEN n % Word ELSE (n % Word) - Word
u64(n) == n % Long

\* sleep(): unsigned int * int.
sleep_ms(seconds) == u32(seconds * 1000)

\* usleep()
usleep_ms(usec) == usec \div 1000

\* nanosleep(): a long assigned to an int, which addTimer() takes as uint64_t.
nanosleep_ms(tv_sec, tv_nsec) == u64(i32(tv_sec * 1000 + (tv_nsec \div 1000) \div 1000))

\* setsockopt(): longs, passed to setTimeout() as uint64_t.
timeval_ms(tv_sec, tv_usec) == u64(tv_sec * 1000 + tv_usec \div 1000)
=============================================================================
