----------------------------- MODULE FiberProofs -----------------------------
(***************************************************************************)
(* Proofs about Fiber, for any threads and fibers whose users do no more   *)
(* than scheduler.cpp does: a thread comes back to the call() it made, a   *)
(* fiber goes on where it left, and no ASSERT fails.                       *)
(*                                                                         *)
(* The properties speak of fibers at rest and of threads under way; what   *)
(* ties them together is Fits: on the stack a thread is on, the program    *)
(* counter, the fiber's state and the reference of MainFunc() agree.       *)
(***************************************************************************)
EXTENDS Fiber, TLAPS

\* Steps are for Zenon; those about numbers, records or sequences name SMT.
USE ZenonT(40)

\* A fiber that a thread is on is kept by its caller, and its state and its
\* reference to itself are those of the place where its code is.
Fits(f) ==
  /\ f \in held
  /\ \/ pc[f] = "entry" /\ m_state[f] = "RUNNING" /\ f \notin own
     \/ pc[f] = "run"   /\ m_state[f] = "RUNNING" /\ f \in own
     \/ pc[f] = "yield" /\ m_state[f] \in {"SUSPEND", "READY"} /\ f \in own
     \/ pc[f] = "end"   /\ isDone(f) /\ f \notin own

Located(t) ==
  /\ t_main_fiber[t] \in {t, Null}
  /\ t_main_fiber[t] = t => m_state[t] = "RUNNING"
  /\ on[t] = t => pc[t] \in {"run", "exited"}
  /\ on[t] # t => on[t] \in Fiber /\ t_main_fiber[t] = t /\ Fits(on[t])

FiberInv ==
  /\ TypeOK /\ ComesBackToMain /\ GoesOnWhereItLeft /\ FreedWhenDone /\ NoFault
  /\ \A t \in Thread : Located(t)

LEMMA FiberInit == Init => FiberInv
<1> SUFFICES ASSUME Init PROVE FiberInv
  OBVIOUS
<1> USE DEF Init, Stack, at
<1>1. TypeOK
  BY DEF TypeOK, Context, Faults
<1>2. ComesBackToMain /\ GoesOnWhereItLeft /\ FreedWhenDone /\ NoFault
  BY DEF ComesBackToMain, GoesOnWhereItLeft, FreedWhenDone, NoFault
<1>3. \A t \in Thread : Located(t)
  BY FiberAssumption DEF Located
<1> QED BY <1>1, <1>2, <1>3 DEF FiberInv

\* Making, resetting and dropping fibers, and the end of a thread.
LEMMA ObjectsKeep ==
  ASSUME Misuse = {}, FiberInv, NEW t \in Thread,
         MakeMain(t) \/ Exit(t) \/ \E f \in Fiber : New(t, f) \/ Reset(t, f) \/ Drop(t, f)
  PROVE  FiberInv'
<1> USE FiberAssumption DEF Stack, inUser, at, fresh, isDone
<1>0. TypeOK /\ ComesBackToMain /\ GoesOnWhereItLeft /\ FreedWhenDone /\ NoFault
      /\ \A u \in Thread : Located(u)
  BY DEF FiberInv
<1>1. CASE MakeMain(t)
  <2> USE <1>1 DEF MakeMain
  <2>1. TypeOK'
    BY <1>0 DEF TypeOK, Context
  <2>2. ComesBackToMain' /\ FreedWhenDone' /\ NoFault'
    BY <1>0, SMTT(60) DEF ComesBackToMain, FreedWhenDone, NoFault, TypeOK
  <2>3. GoesOnWhereItLeft'
    BY <1>0, SMTT(60) DEF GoesOnWhereItLeft, TypeOK
  <2>4. \A u \in Thread : Located(u)'
    BY <1>0, SMTT(60) DEF Located, Fits, TypeOK
  <2> QED BY <2>1, <2>2, <2>3, <2>4 DEF FiberInv
<1>2. CASE Exit(t)
  <2>1. ~ (t_main_fiber[t] # Null /\ m_state[t] # "RUNNING")
    BY <1>0 DEF Located
  <2> USE <1>2, <2>1 DEF Exit
  <2>2. TypeOK'
    BY <1>0, SMTT(60) DEF TypeOK, Context
  <2>3. ComesBackToMain' /\ FreedWhenDone' /\ NoFault'
    BY <1>0, SMTT(60) DEF ComesBackToMain, FreedWhenDone, NoFault, TypeOK, Located
  <2>4. GoesOnWhereItLeft'
    BY <1>0, SMTT(60) DEF GoesOnWhereItLeft, TypeOK
  <2>5. \A u \in Thread : Located(u)'
    BY <1>0, SMTT(60) DEF Located, Fits, TypeOK
  <2> QED BY <2>2, <2>3, <2>4, <2>5 DEF FiberInv
<1>3. ASSUME NEW f \in Fiber, New(t, f) PROVE FiberInv'
  <2> USE <1>3 DEF New
  <2>1. TypeOK'
    BY <1>0 DEF TypeOK, Context
  <2>2. ComesBackToMain' /\ FreedWhenDone' /\ NoFault'
    BY <1>0, ZenonT(60) DEF ComesBackToMain, FreedWhenDone, NoFault, TypeOK, Located
  <2>3. \A u \in Thread : on[u] # f
    BY <1>0, SMTT(60) DEF Located, Fits
  <2>4. GoesOnWhereItLeft'
    BY <1>0, <2>3, SMTT(60) DEF GoesOnWhereItLeft, TypeOK, FreedWhenDone
  <2>5. \A u \in Thread : Located(u)'
    BY <1>0, <2>3, SMTT(60) DEF Located, Fits, TypeOK
  <2> QED BY <2>1, <2>2, <2>4, <2>5 DEF FiberInv
<1>4. ASSUME NEW f \in Fiber, Reset(t, f) PROVE FiberInv'
  <2> USE <1>4 DEF Reset, reset
  <2>1. TypeOK'
    BY <1>0 DEF TypeOK, Context
  <2>2. ComesBackToMain' /\ FreedWhenDone' /\ NoFault'
    BY <1>0, SMTT(60) DEF ComesBackToMain, FreedWhenDone, NoFault, TypeOK, Located
  <2>4. GoesOnWhereItLeft'
    BY <1>0, SMTT(60) DEF GoesOnWhereItLeft, TypeOK, FreedWhenDone
  <2>5. \A u \in Thread : Located(u)'
    BY <1>0, SMTT(60) DEF Located, Fits, TypeOK
  <2> QED BY <2>1, <2>2, <2>4, <2>5 DEF FiberInv
<1>5. ASSUME NEW f \in Fiber, Drop(t, f) PROVE FiberInv'
  <2>1. \A u \in Thread : on[u] # f
    BY <1>5 DEF Drop
  <2>2. m_state[f] # "RUNNING"
    BY <1>0, <1>5, <2>1 DEF GoesOnWhereItLeft, FreedWhenDone, Drop
  <2> USE <1>5, <2>2 DEF Drop
  <2>3. TypeOK'
    BY <1>0, SMTT(60) DEF TypeOK, Context
  <2>4. ComesBackToMain' /\ FreedWhenDone' /\ NoFault'
    BY <1>0, SMTT(60) DEF ComesBackToMain, FreedWhenDone, NoFault, TypeOK, Located
  <2>5. GoesOnWhereItLeft'
    BY <1>0, <2>1, SMTT(60) DEF GoesOnWhereItLeft, TypeOK, FreedWhenDone
  <2>6. \A u \in Thread : Located(u)'
    BY <1>0, <2>1, SMTT(60) DEF Located, Fits, TypeOK
  <2> QED BY <2>3, <2>4, <2>5, <2>6 DEF FiberInv
<1> QED BY <1>1, <1>2, <1>3, <1>4, <1>5

\* The way into a fiber: call() and the begin of MainFunc().
LEMMA CallKeeps ==
  ASSUME Misuse = {}, FiberInv, NEW t \in Thread,
         Enter(t) \/ \E f \in Fiber : Call(t, f)
  PROVE  FiberInv'
<1> USE FiberAssumption DEF Stack, inUser, at, fresh, isDone
<1>0. TypeOK /\ ComesBackToMain /\ GoesOnWhereItLeft /\ FreedWhenDone /\ NoFault
      /\ \A u \in Thread : Located(u)
  BY DEF FiberInv
<1>1. CASE Enter(t)
  <2>1. on[t] \in Fiber /\ t_fiber[t] = on[t] /\ t_main_fiber[t] = t
    <3>1. on[t] # t
      BY <1>0, <1>1 DEF Enter, Located
    <3>2. on[t] \in Fiber /\ t_main_fiber[t] = t
      BY <1>0, <3>1 DEF Located
    <3>3. t_main_fiber[t] # Null
      BY <3>2
    <3>4. pc[on[t]] = "entry"
      BY <1>1 DEF Enter
    <3>5. t_fiber[t] = IF pc[on[t]] = "yield" THEN t ELSE on[t]
      BY <1>0, <3>1, <3>3 DEF ComesBackToMain
    <3> QED BY <3>2, <3>4, <3>5
  <2> USE <1>1, <2>1 DEF Enter
  <2>2. TypeOK'
    BY <1>0, SMTT(60) DEF TypeOK
  <2>3. \A u \in Thread : u # t => on[u] # on[t]
    <3>1. m_state[on[t]] # "none"
      BY <1>0 DEF Located, Fits
    <3> QED BY <1>0, <3>1, ZenonT(60) DEF GoesOnWhereItLeft
  <2>4. ComesBackToMain'
    BY <1>0, <2>3, ZenonT(60) DEF ComesBackToMain, Located, Fits, TypeOK
  <2>5. FreedWhenDone' /\ NoFault'
    BY <1>0, SMTT(60) DEF FreedWhenDone, NoFault, Located, Fits
  <2>6. GoesOnWhereItLeft'
    BY <1>0, SMTT(60) DEF GoesOnWhereItLeft, TypeOK
  <2>7. \A u \in Thread : Located(u)'
    BY <1>0, <2>3, SMTT(60) DEF Located, Fits, TypeOK
  <2> QED BY <2>2, <2>4, <2>5, <2>6, <2>7 DEF FiberInv
<1>2. ASSUME NEW f \in Fiber, Call(t, f) PROVE FiberInv'
  <2>1. /\ inUser(t) /\ t_main_fiber[t] = t /\ f \in held /\ on[t] = t
        /\ \A u \in Thread : on[u] # f
        /\ ~isDone(f)
    BY <1>0, <1>2 DEF Call, call, Located
  <2>2. /\ m_state[f] \notin {"RUNNING", "TERM", "none"}
        /\ m_ctx[f] = at(f, IF f \in own THEN "run" ELSE "entry")
    BY <1>0, <2>1 DEF GoesOnWhereItLeft, FreedWhenDone
  <2>3. /\ t_fiber' = [t_fiber EXCEPT ![t] = f]
        /\ m_state' = [m_state EXCEPT ![f] = "RUNNING"]
        /\ m_ctx' = [m_ctx EXCEPT ![t] = at(t, "run")]
        /\ on' = [on EXCEPT ![t] = f]
        /\ pc' = [pc EXCEPT ![f] = IF f \in own THEN "run" ELSE "entry"]
        /\ UNCHANGED <<t_main_fiber, uc_link, own, held, fault>>
    BY <1>2, <2>1, <2>2, SMTT(60) DEF Call, call, swapcontext
  <2> USE <2>1, <2>2, <2>3
  <2>4. TypeOK'
    BY <1>0 DEF TypeOK, Context
  <2>5. ComesBackToMain'
    BY <1>0, SMTT(60) DEF ComesBackToMain, Located, TypeOK
  <2>6. FreedWhenDone' /\ NoFault'
    BY <1>0 DEF FreedWhenDone, NoFault, TypeOK
  <2>7. GoesOnWhereItLeft'
    BY <1>0, SMTT(60) DEF GoesOnWhereItLeft, TypeOK
  <2>8. \A u \in Thread : Located(u)'
    BY <1>0, SMTT(60) DEF Located, Fits, TypeOK
  <2> QED BY <2>4, <2>5, <2>6, <2>7, <2>8 DEF FiberInv
<1> QED BY <1>1, <1>2

\* The way out: Yield() and YieldReady(), the end of MainFunc(), and the swaps.
LEMMA ReturnKeeps ==
  ASSUME Misuse = {}, FiberInv, NEW t \in Thread,
         \/ Swap(t) \/ Leave(t)
         \/ \E state \in {"SUSPEND", "READY"} : Yield(t, state)
         \/ \E state \in {"TERM", "EXCEPT"} : Finish(t, state)
  PROVE  FiberInv'
<1> USE FiberAssumption DEF Stack, inUser, at, isDone
<1>0. TypeOK /\ ComesBackToMain /\ GoesOnWhereItLeft /\ FreedWhenDone /\ NoFault
      /\ \A u \in Thread : Located(u)
  BY DEF FiberInv
<1> DEFINE f == on[t]
<1>1. /\ f \in Fiber /\ t_main_fiber[t] = t /\ Fits(f)
      /\ m_ctx[t] = at(t, "run") /\ pc[t] = "run"
      /\ t_fiber[t] = IF pc[f] = "yield" THEN t ELSE f
      /\ \A u \in Thread : u # t => on[u] # f
  <2>1. f # t
    BY <1>0 DEF Swap, Leave, Yield, Finish, Located
  <2>2. f \in Fiber /\ t_main_fiber[t] = t /\ Fits(f)
    BY <1>0, <2>1 DEF Located
  <2>3. /\ m_ctx[t] = at(t, "run") /\ pc[t] = "run"
        /\ t_fiber[t] = IF pc[f] = "yield" THEN t ELSE f
    BY <1>0, <2>1, <2>2, SMTT(60) DEF ComesBackToMain
  <2>4. m_state[f] # "none"
    BY <2>2 DEF Fits
  <2>5. \A u \in Thread : u # t => on[u] # f
    BY <1>0, <2>2, <2>4 DEF GoesOnWhereItLeft
  <2> QED BY <2>2, <2>3, <2>5
<1>2. ASSUME NEW label \in {"run", "over"}, pc[f] \in {"yield", "end"},
             label = "over" <=> pc[f] = "end",
             t_fiber' = [t_fiber EXCEPT ![t] = t],
             swapcontext(t, f, label, t),
             UNCHANGED <<t_main_fiber, m_state, uc_link, own, held, fault>>
      PROVE  FiberInv'
  <2>1. /\ m_ctx' = [m_ctx EXCEPT ![f] = at(f, label)]
        /\ on' = [on EXCEPT ![t] = t] /\ pc' = [pc EXCEPT ![t] = "run"]
    BY <1>1, <1>2, SMTT(60) DEF swapcontext
  <2> USE <1>1, <1>2, <2>1
  <2>2. TypeOK'
    BY <1>0 DEF TypeOK, Context
  <2>3. ComesBackToMain'
    BY <1>0, SMTT(60) DEF ComesBackToMain, Located, TypeOK
  <2>4. FreedWhenDone' /\ NoFault'
    BY <1>0 DEF FreedWhenDone, NoFault, TypeOK
  <2>5. GoesOnWhereItLeft'
    BY <1>0, SMTT(60) DEF GoesOnWhereItLeft, TypeOK, Fits, Located
  <2>6. \A u \in Thread : Located(u)'
    BY <1>0, SMTT(60) DEF Located, Fits, TypeOK
  <2> QED BY <2>2, <2>3, <2>4, <2>5, <2>6 DEF FiberInv
<1>3. CASE Swap(t)
  <2>1. t_fiber' = [t_fiber EXCEPT ![t] = t]
    BY <1>0, <1>1, <1>3 DEF Swap, TypeOK
  <2> QED BY <1>1, <1>2, <1>3, <2>1 DEF Swap
<1>4. CASE Leave(t)
  BY <1>1, <1>2, <1>4 DEF Leave
<1>5. ASSUME NEW state \in {"SUSPEND", "READY"}, Yield(t, state) PROVE FiberInv'
  <2>1. pc[f] = "run" /\ f \in own
    BY <1>1, <1>5 DEF Yield, Fits
  <2>2. /\ m_state' = [m_state EXCEPT ![f] = state] /\ t_fiber' = [t_fiber EXCEPT ![t] = t]
        /\ pc' = [pc EXCEPT ![f] = "yield"]
        /\ UNCHANGED <<t_main_fiber, m_ctx, uc_link, on, own, held, fault>>
    BY <1>1, <1>5, <2>1 DEF Yield
  <2> USE <1>1, <2>1, <2>2
  <2>3. TypeOK'
    BY <1>0 DEF TypeOK
  <2>4. ComesBackToMain'
    BY <1>0, SMTT(60) DEF ComesBackToMain, Located, TypeOK
  <2>5. FreedWhenDone' /\ NoFault'
    BY <1>0 DEF FreedWhenDone, NoFault, TypeOK
  <2>6. GoesOnWhereItLeft'
    BY <1>0, SMTT(60) DEF GoesOnWhereItLeft, TypeOK
  <2>7. \A u \in Thread : Located(u)'
    BY <1>0, SMTT(60) DEF Located, Fits, TypeOK
  <2> QED BY <2>3, <2>4, <2>5, <2>6, <2>7 DEF FiberInv
<1>6. ASSUME NEW state \in {"TERM", "EXCEPT"}, Finish(t, state) PROVE FiberInv'
  <2>1. /\ m_state' = [m_state EXCEPT ![f] = state] /\ own' = own \ {f}
        /\ pc' = [pc EXCEPT ![f] = "end"] /\ pc[f] = "run"
        /\ UNCHANGED <<t_fiber, t_main_fiber, m_ctx, uc_link, on, held, fault>>
    BY <1>1, <1>6 DEF Finish, Fits
  <2> USE <1>1, <2>1
  <2>3. TypeOK'
    BY <1>0 DEF TypeOK
  <2>4. ComesBackToMain'
    BY <1>0, SMTT(60) DEF ComesBackToMain, Located, TypeOK
  <2>5. FreedWhenDone' /\ NoFault'
    BY <1>0 DEF FreedWhenDone, NoFault, TypeOK, Fits
  <2>6. GoesOnWhereItLeft'
    BY <1>0, SMTT(60) DEF GoesOnWhereItLeft, TypeOK
  <2>7. \A u \in Thread : Located(u)'
    BY <1>0, SMTT(60) DEF Located, Fits, TypeOK
  <2> QED BY <2>3, <2>4, <2>5, <2>6, <2>7 DEF FiberInv
<1> QED BY <1>3, <1>4, <1>5, <1>6

\* The inductive invariant, for users that keep to what scheduler.cpp does.
THEOREM FiberInvariant ==
  ASSUME Misuse = {}
  PROVE  Spec => []FiberInv
<1>1. FiberInv /\ [Next]_vars => FiberInv'
  <2> SUFFICES ASSUME FiberInv, [Next]_vars PROVE FiberInv'
    OBVIOUS
  <2>1. CASE UNCHANGED vars
    BY <2>1, SMTT(60) DEF vars, FiberInv, TypeOK, ComesBackToMain, GoesOnWhereItLeft, FreedWhenDone,
                NoFault, Located, Fits, isDone
  <2>2. ASSUME NEW t \in Thread, Step(t) PROVE FiberInv'
    BY <2>2, ObjectsKeep, CallKeeps, ReturnKeeps DEF Step
  <2> QED BY <2>1, <2>2 DEF Next, Halt
<1> QED BY <1>1, FiberInit, PTL DEF Spec

\* Yield(), YieldReady() and the end of MainFunc() return to the call() that the
\* thread made (fiber.cpp:105-138, 200).
THEOREM ThreadsComeBack ==
  ASSUME Misuse = {}
  PROVE  Spec => []ComesBackToMain
<1>1. FiberInv => ComesBackToMain
  BY DEF FiberInv
<1> QED BY <1>1, FiberInvariant, PTL

\* A fiber at rest goes on, on whatever thread, where it left (fiber.cpp:35, 111, 136).
THEOREM FibersGoOn ==
  ASSUME Misuse = {}
  PROVE  Spec => []GoesOnWhereItLeft
<1>1. FiberInv => GoesOnWhereItLeft
  BY DEF FiberInv
<1> QED BY <1>1, FiberInvariant, PTL

\* A fiber lives as long as it is referred to, and no longer (fiber.cpp:185, 198).
THEOREM FibersAreFreed ==
  ASSUME Misuse = {}
  PROVE  Spec => []FreedWhenDone
<1>1. FiberInv => FreedWhenDone
  BY DEF FiberInv
<1> QED BY <1>1, FiberInvariant, PTL

\* No ASSERT of fiber.cpp fails and MainFunc() never returns (fiber.cpp:64, 107, 200).
THEOREM FibersNeverFault ==
  ASSUME Misuse = {}
  PROVE  Spec => []NoFault
<1>1. FiberInv => NoFault
  BY DEF FiberInv
<1> QED BY <1>1, FiberInvariant, PTL
=============================================================================
