--------------------------- MODULE HookedIOProofs ---------------------------
(***************************************************************************)
(* Proofs about HookedIO, for any calls on a socket, and about the         *)
(* durations of the hooked calls, for any width of the integers.           *)
(***************************************************************************)
EXTENDS HookedIO, TLAPS

\* Steps are for Zenon; those about numbers, records or sequences name SMT.
USE ZenonT(40)

LEMMA Remainder ==
  ASSUME NEW n \in Int, NEW w \in Nat, 0 < w
  PROVE  /\ n % w \in 0..w - 1
         /\ 0 <= n /\ n < w => n % w = n
BY SMTT(60)

\* sleep() never asks for more than it was called with, asks for exactly that as
\* long as the product fits an unsigned int, and for less as soon as it does not.
THEOREM SleepIsExactOrShort ==
  ASSUME NEW seconds \in Nat
  PROVE  /\ sleep_ms(seconds) <= seconds * 1000
         /\ sleep_ms(seconds) = seconds * 1000 <=> seconds * 1000 < Word
<1>1. seconds * 1000 \in Nat /\ Word \in Nat /\ 0 < Word
  BY WidthAssumption, SMTT(60)
<1>2. u32(seconds * 1000) \in 0..Word - 1
      /\ (seconds * 1000 < Word => u32(seconds * 1000) = seconds * 1000)
  BY <1>1, Remainder, SMTT(60) DEF u32
<1> QED BY <1>1, <1>2, SMTT(60) DEF sleep_ms

\* usleep() drops what is below a millisecond, and nothing else.
THEOREM UsleepShortByLessThanOne ==
  ASSUME NEW usec \in Nat
  PROVE  usleep_ms(usec) * 1000 <= usec /\ usec < (usleep_ms(usec) + 1) * 1000
BY SMTT(60) DEF usleep_ms

\* nanosleep() asks for the milliseconds of its argument while they fit an int.
THEOREM NanosleepIsExact ==
  ASSUME NEW tv_sec \in Nat, NEW tv_nsec \in Nat,
         2 * (tv_sec * 1000 + (tv_nsec \div 1000) \div 1000) < Word
  PROVE  nanosleep_ms(tv_sec, tv_nsec) = tv_sec * 1000 + (tv_nsec \div 1000) \div 1000
<1> DEFINE ms == tv_sec * 1000 + (tv_nsec \div 1000) \div 1000
<1>1. ms \in Nat /\ 2 * ms < Word /\ Word \in Nat /\ Long \in Nat /\ Word < Long
  BY WidthAssumption, SMTT(60)
<1> HIDE DEF ms
<1>2. ms % Word = ms
  BY <1>1, Remainder, SMTT(60)
<1>3. i32(ms) = ms
  BY <1>1, <1>2, SMTT(60) DEF i32
<1>4. u64(ms) = ms
  BY <1>1, Remainder, SMTT(60) DEF u64
<1> QED BY <1>3, <1>4, SMTT(60) DEF nanosleep_ms, ms

-----------------------------------------------------------------------------

\* Beside the types and WokenByOne: a callback is that of a call with a timeout,
\* and a call that timed out was cancelled by one.
HookInv ==
  /\ TypeOK /\ WokenByOne
  /\ \A c \in Call : /\ queued[c] > 0 => c \in timed
                     /\ result[c] = "ETIMEDOUT" => c \in cancelled

\* A timeout of the FdCtx was asked for, and so is what a call goes with.
Asked ==
  /\ \A o \in Option : timeout[o] # Long - 1 => o \in asked
  /\ \A c \in timed : c \in Connect \/ timeout_so(c) \in asked

LEMMA HookInit == Init => HookInv /\ Asked
<1> SUFFICES ASSUME Init PROVE HookInv /\ Asked
  OBVIOUS
<1> USE HookAssumption, WidthAssumption DEF Init
<1>1. TypeOK
  <2>1. timeout \in [Option -> 0..Long - 1]
    BY SMTT(60)
  <2> QED BY <2>1, SMTT(60) DEF TypeOK
<1>2. WokenByOne /\ Asked
  BY DEF WokenByOne, Asked
<1> QED BY <1>1, <1>2, SMTT(60) DEF HookInv

LEMMA MillisecondsType ==
  ASSUME NEW tv \in Timeval PROVE timeval_ms(tv[1], tv[2]) \in 0..Long - 1
<1>1. tv[1] \in Nat /\ tv[2] \in Nat
  BY HookAssumption
<1>2. tv[1] * 1000 + tv[2] \div 1000 \in Int
  BY <1>1, SMTT(60)
<1> QED BY <1>2, Remainder, WidthAssumption, SMTT(60) DEF timeval_ms, u64

\* Waking registered waiters keeps the balance of registrations and wakeups.
LEMMA WakeKeeps ==
  ASSUME TypeOK, WokenByOne, NEW W \in SUBSET waiting, wake(W), cpc' = cpc
  PROVE  waiting' \subseteq Call /\ wakeups' \in [Call -> 0..1] /\ WokenByOne'
<1>1. waiting' \subseteq Call
  BY DEF wake, TypeOK
<1>2. ASSUME NEW c \in W PROVE wakeups[c] = 0 /\ cpc[c] \in {"yield", "parked"}
  BY DEF WokenByOne, TypeOK
<1>3. wakeups' \in [Call -> 0..1]
  BY <1>2, SMTT(60) DEF wake, TypeOK
<1>4. WokenByOne'
  BY <1>2, SMTT(60) DEF wake, TypeOK, WokenByOne
<1> QED BY <1>1, <1>3, <1>4

\* The steps of a call
LEMMA CallKeeps == ASSUME HookInv, NEW c \in Call, CallStep(c) PROVE HookInv'
<1> USE HookAssumption DEF HookInv, timerVars, optVars, Goto, return
<1>1. CASE Try(c)
  <2> USE <1>1 DEF Try
  <2>1. TypeOK'
    BY SMTT(60) DEF TypeOK
  <2>2. WokenByOne'
    BY ZenonT(60) DEF TypeOK, WokenByOne
  <2> QED BY <2>1, <2>2, SMTT(60) DEF TypeOK
<1>2. CASE Arm(c)
  <2> USE <1>2 DEF Arm
  <2>1. TypeOK'
    BY DEF TypeOK
  <2>2. WokenByOne'
    BY DEF TypeOK, WokenByOne
  <2> QED BY <2>1, <2>2 DEF TypeOK
<1>3. CASE Add(c)
  <2> USE <1>3 DEF Add
  <2>1. TypeOK'
    BY SMTT(60) DEF TypeOK
  <2>2. WokenByOne'
    BY SMTT(60) DEF TypeOK, WokenByOne
  <2> QED BY <2>1, <2>2 DEF TypeOK
<1>4. CASE Yield(c)
  <2> USE <1>4 DEF Yield
  <2>1. TypeOK'
    BY DEF TypeOK
  <2>2. WokenByOne'
    BY DEF TypeOK, WokenByOne
  <2> QED BY <2>1, <2>2 DEF TypeOK
<1>5. CASE Resume(c)
  <2> USE <1>5 DEF Resume
  <2>1. TypeOK'
    BY SMTT(60) DEF TypeOK
  <2>2. WokenByOne'
    BY SMTT(60) DEF TypeOK, WokenByOne
  <2> QED BY <2>1, <2>2, SMTT(60) DEF TypeOK
<1> QED BY <1>1, <1>2, <1>3, <1>4, <1>5 DEF CallStep

\* The steps of its timer
LEMMA TimerKeeps == ASSUME HookInv, NEW c \in Call, TimerStep(c) PROVE HookInv'
<1> USE HookAssumption DEF HookInv, timerVars, optVars
<1>1. CASE Expire(c)
  <2> USE <1>1 DEF Expire
  <2>1. TypeOK'
    BY SMTT(60) DEF TypeOK
  <2>2. WokenByOne'
    BY DEF TypeOK, WokenByOne
  <2> QED BY <2>1, <2>2, SMTT(60) DEF TypeOK
<1>2. CASE Callback(c)
  <2> USE <1>2 DEF Callback
  <2>1. TypeOK'
    BY SMTT(60) DEF TypeOK
  <2>2. WokenByOne'
    BY DEF TypeOK, WokenByOne
  <2> QED BY <2>1, <2>2, SMTT(60) DEF TypeOK
<1>3. CASE CancelEvent(c)
  <2> DEFINE W == {d \in waiting : EventOf[d] = EventOf[c]}
  <2>1. CASE W # {} /\ socket = "closed"
    BY <1>3, <2>1, SMTT(60) DEF CancelEvent, TypeOK, WokenByOne
  <2>2. CASE ~(W # {} /\ socket = "closed")
    <3>1. /\ wake(W) /\ firing[c] > 0 /\ firing' = [firing EXCEPT ![c] = @ - 1]
          /\ UNCHANGED <<cpc, result, cancelled, optVars, timed, armed, queued, used, ready,
                         socket, fault>>
      BY <1>3, <2>2 DEF CancelEvent
    <3>2. waiting' \subseteq Call /\ wakeups' \in [Call -> 0..1] /\ WokenByOne'
      BY <3>1, WakeKeeps
    <3>3. firing' \in [Call -> Nat]
      BY <3>1, SMTT(60) DEF TypeOK
    <3>4. TypeOK'
      BY <3>1, <3>2, <3>3 DEF TypeOK
    <3> QED BY <3>1, <3>2, <3>4
  <2> QED BY <2>1, <2>2
<1> QED BY <1>1, <1>2, <1>3 DEF TimerStep

\* The socket and its options
LEMMA SocketKeeps ==
  ASSUME HookInv,
         \/ \E e \in Event : Arrive(e) \/ Deliver(e)
         \/ \E o \in Option, tv \in Timeval : SetTimeout(o, tv)
         \/ Close \/ Del \/ CloseFd
  PROVE  HookInv'
<1> USE HookAssumption DEF HookInv, timerVars, optVars
<1>1. ASSUME NEW e \in Event, Arrive(e) PROVE HookInv'
  BY <1>1 DEF Arrive, TypeOK, WokenByOne
<1>2. ASSUME NEW e \in Event, Deliver(e) PROVE HookInv'
  <2> DEFINE W == {c \in waiting : EventOf[c] = e}
  <2>1. wake(W) /\ cpc' = cpc
    BY <1>2 DEF Deliver
  <2>2. waiting' \subseteq Call /\ wakeups' \in [Call -> 0..1] /\ WokenByOne'
    BY <2>1, WakeKeeps
  <2> QED BY <1>2, <2>2 DEF Deliver, TypeOK
<1>3. ASSUME NEW o \in Option, NEW tv \in Timeval, SetTimeout(o, tv) PROVE HookInv'
  BY <1>3, MillisecondsType DEF SetTimeout, TypeOK, WokenByOne
<1>4. CASE Close
  <2>1. wake(waiting) /\ cpc' = cpc
    BY <1>4 DEF Close
  <2>2. waiting' \subseteq Call /\ wakeups' \in [Call -> 0..1] /\ WokenByOne'
    BY <2>1, WakeKeeps
  <2> QED BY <1>4, <2>2 DEF Close, TypeOK
<1>5. CASE Del \/ CloseFd
  BY <1>5 DEF Del, CloseFd, TypeOK, WokenByOne
<1> QED BY <1>1, <1>2, <1>3, <1>4, <1>5

LEMMA HookStep == ASSUME HookInv, [Next]_vars PROVE HookInv'
<1>1. CASE UNCHANGED vars
  BY <1>1 DEF vars, timerVars, optVars, HookInv, TypeOK, WokenByOne
<1>2. CASE Halt
  BY <1>1, <1>2 DEF Halt
<1> QED BY <1>1, <1>2, CallKeeps, TimerKeeps, SocketKeeps DEF Next

\* The timeouts users set are not zero.
NoZero == <<0, 0>> \notin Timeval

LEMMA AskedStep == ASSUME NoZero, HookInv, Asked, [Next]_vars PROVE Asked'
<1> USE HookAssumption DEF HookInv, timerVars, optVars
<1>1. ASSUME NEW c \in Call, Try(c) PROVE Asked'
  BY <1>1, SMTT(60) DEF Try, getTimeout, timeout_so, Option, Asked, TypeOK
<1>2. ASSUME NEW o \in Option, NEW tv \in Timeval, SetTimeout(o, tv) PROVE Asked'
  <2>1. tv # <<0, 0>>
    BY DEF NoZero
  <2> QED BY <1>2, <2>1 DEF SetTimeout, Asked, TypeOK
<1>3. CASE UNCHANGED <<timeout, asked, timed>>
  BY <1>3 DEF Asked
<1>4. ASSUME NEW c \in Call, Arm(c) \/ Add(c) \/ Yield(c) \/ Resume(c) \/ TimerStep(c)
      PROVE  UNCHANGED <<timeout, asked, timed>>
  BY <1>4 DEF Arm, Add, Yield, Resume, TimerStep, Expire, Callback, CancelEvent
<1>5. ASSUME NEW e \in Event, Arrive(e) \/ Deliver(e) PROVE UNCHANGED <<timeout, asked, timed>>
  BY <1>5 DEF Arrive, Deliver
<1>6. CASE Close \/ Del \/ CloseFd \/ Halt \/ UNCHANGED vars
  BY <1>3, <1>6 DEF Close, Del, CloseFd, Halt, vars
<1> QED BY <1>1, <1>2, <1>3, <1>4, <1>5, <1>6 DEF Next, CallStep

\* The invariant holds for any calls, events and timeouts, closing or not.
THEOREM HookInvariant == Spec => []HookInv
<1>1. HookInv /\ [Next]_vars => HookInv'
  BY HookStep
<1> QED BY <1>1, HookInit, PTL DEF Spec

\* Exactly one of the event, the timeout and close() wakes a waiting fiber.
THEOREM FibersWokenByOne == Spec => []WokenByOne
<1>1. HookInv => WokenByOne
  BY DEF HookInv
<1> QED BY <1>1, HookInvariant, PTL

\* A call times out only if it is a connect() or a timeout was set for it.
THEOREM TimeoutsWereAsked == ASSUME NoZero PROVE Spec => []TimesOutOnlyIfAsked
<1>1. Asked /\ HookInv /\ [Next]_vars => Asked'
  BY AskedStep
<1>2. HookInv /\ Asked => TimesOutOnlyIfAsked
  BY DEF HookInv, Asked, timeout_so, TypeOK, TimesOutOnlyIfAsked
<1> QED BY <1>1, <1>2, HookInit, HookInvariant, PTL DEF Spec
=============================================================================
