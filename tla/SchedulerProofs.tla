-------------------------- MODULE SchedulerProofs ---------------------------
(***************************************************************************)
(* Proofs about Scheduler, for any number of threads, fibers and jobs.     *)
(* First what every step keeps: the types and the two counters; the        *)
(* condition under which a worker may leave; the fiber of a job that has   *)
(* begun; and, if no job suspends, that each task, fiber and job is in one *)
(* place.  Then, at the end, the theorems.                                 *)
(***************************************************************************)
EXTENDS Scheduler, TLAPS

\* Steps are for Zenon; those about numbers, records or sequences name SMT.
USE ZenonT(40)

-----------------------------------------------------------------------------
(* The inductive invariant of the counters *)

\* A worker executing a task's code is on the stack of a fiber: cur is the
\* fiber call() switched to until swapcontext returns (fiber.cpp:101-140).
RunsAFiber == \A t \in Thread : pc[t] = "run" => cur[t] \in Fiber

\* m_stopping is up exactly while stop() is (scheduler.cpp:74-96).
FlagsAgree == m_stopping <=> user = "stopping"

\* Outside start()..stop() there are no worker threads.
OffWhenStopped == user = "stopped" => \A t \in Thread : pc[t] = "off"

SchedulerInv == /\ TypeOK /\ RunsAFiber /\ FlagsAgree /\ OffWhenStopped
                /\ IdleCountExact /\ ActiveCountCovers /\ EndsOnlyWhileStopping

\* What counting needs to know of the sizes of sets.  Thread and Fiber are finite,
\* so this holds (SizesHold).
Sizes ==
  /\ \A S \in SUBSET Thread : Cardinality(S) \in Nat /\ (Cardinality(S) = 0 <=> S = {})
  /\ \A S \in SUBSET Thread, t \in Thread :
       /\ t \notin S => Cardinality(S \cup {t}) = Cardinality(S) + 1
       /\ t \in S => Cardinality(S \ {t}) = Cardinality(S) - 1
  /\ \A S \in SUBSET Fiber : Cardinality(S) \in Nat

-----------------------------------------------------------------------------
(* Lemmas on the operators of the model *)

\* A worker at one of the labels L is counted among those there.
LEMMA SomeoneThere ==
  ASSUME Sizes, NEW p, NEW t \in Thread, NEW L, p[t] \in L
  PROVE  Cardinality(At(p, L)) \in Nat /\ Cardinality(At(p, L)) > 0
<1>1. At(p, L) \in SUBSET Thread /\ t \in At(p, L)
  BY DEF At
<1>2. Cardinality(At(p, L)) \in Nat /\ Cardinality(At(p, L)) # 0
  BY <1>1 DEF Sizes
<1> QED BY <1>2, SMTT(60)

\* How many workers are at labels L after one of them has moved.
LEMMA MoveCounts ==
  ASSUME Sizes, NEW p, NEW t \in Thread, NEW l, NEW L,
         NEW q, q[t] = l, \A u \in Thread \ {t} : q[u] = p[u]
  PROVE  /\ Cardinality(At(p, L)) \in Nat
         /\ (p[t] \in L <=> l \in L) => Cardinality(At(q, L)) = Cardinality(At(p, L))
         /\ p[t] \notin L /\ l \in L =>
              Cardinality(At(q, L)) = Cardinality(At(p, L)) + 1
         /\ p[t] \in L /\ l \notin L =>
              Cardinality(At(q, L)) = Cardinality(At(p, L)) - 1
<1>1. At(p, L) \in SUBSET Thread
  BY DEF At
<1>2. Cardinality(At(p, L)) \in Nat
  BY <1>1 DEF Sizes
<1>3. ASSUME p[t] \in L <=> l \in L PROVE At(q, L) = At(p, L)
  BY <1>3, SMTT(60) DEF At
<1>4. ASSUME p[t] \notin L, l \in L
      PROVE  Cardinality(At(q, L)) = Cardinality(At(p, L)) + 1
  <2>1. At(q, L) = At(p, L) \cup {t} /\ t \notin At(p, L)
    BY <1>4, SMTT(60) DEF At
  <2> QED BY <2>1, <1>1 DEF Sizes
<1>5. ASSUME p[t] \in L, l \notin L
      PROVE  Cardinality(At(q, L)) = Cardinality(At(p, L)) - 1
  <2>1. At(q, L) = At(p, L) \ {t} /\ t \in At(p, L)
    BY <1>5, SMTT(60) DEF At
  <2> QED BY <2>1, <1>1 DEF Sizes
<1> QED BY <1>2, <1>3, <1>4, <1>5

\* A function on an initial segment of the naturals is a sequence.
LEMMA FunctionIsSeq ==
  ASSUME NEW S, NEW n \in Nat, NEW s \in [1..n -> S]
  PROVE  s \in Seq(S)
BY SMTT(60)

\* What a queue holds after schedule() has added to it:
LEMMA SeqAppend ==
  ASSUME NEW S, NEW s \in Seq(S), NEW e \in Seq(S)
  PROVE  /\ s \o e \in Seq(S)
         /\ \A i \in DOMAIN s : i \in DOMAIN (s \o e) /\ (s \o e)[i] = s[i]
BY SMTT(60)

\* one task more is at one place more,
LEMMA SeqOneMore ==
  ASSUME NEW S, NEW s \in Seq(S), NEW x \in S
  PROVE  \E n \in DOMAIN (s \o <<x>>) :
           /\ (s \o <<x>>)[n] = x /\ n \notin DOMAIN s
           /\ \A i \in DOMAIN (s \o <<x>>) : i \in DOMAIN s \/ i = n
<1>1. /\ Len(s) + 1 \in DOMAIN (s \o <<x>>) /\ (s \o <<x>>)[Len(s) + 1] = x
      /\ Len(s) + 1 \notin DOMAIN s
      /\ \A i \in DOMAIN (s \o <<x>>) : i \in DOMAIN s \/ i = Len(s) + 1
  BY SMTT(60)
<1> QED BY <1>1

\* and without its head every other one is a place further on.
LEMMA SeqHeadTail ==
  ASSUME NEW S, NEW s \in Seq(S), s # <<>>
  PROVE  /\ Head(s) \in S /\ Tail(s) \in Seq(S) /\ 1 \in DOMAIN s /\ Head(s) = s[1]
         /\ \A i \in DOMAIN Tail(s) : /\ i \in Nat /\ i + 1 \in DOMAIN s
                                      /\ Tail(s)[i] = s[i + 1] /\ i + 1 # 1
         /\ \A i \in DOMAIN s : i = 1 \/ (i - 1 \in DOMAIN Tail(s) /\ (i - 1) + 1 = i)
BY SMTT(60)

\* The timers a worker has listed are elements of the sequence it holds.
LEMMA SeqElements ==
  ASSUME NEW S, NEW s \in Seq(S)
  PROVE  Len(s) \in Nat /\ DOMAIN s = 1..Len(s) /\ \A i \in 1..Len(s) : s[i] \in S
BY SMTT(60)

\* A new scheduler's queue is empty.
LEMMA SeqEmpty == ASSUME NEW S PROVE <<>> \in Seq(S) /\ DOMAIN <<>> = {}
BY SMTT(60)

\* The fiber target() names exists when run() may call it.
LEMMA TargetIsFiber ==
  ASSUME TypeOK, NEW t \in Thread,
         tk[t].fiber # Null \/ func_fiber[t] # Null \/ \E f \in Fiber : ~inUse(f)
  PROVE  target(t) \in Fiber
<1>1. tk[t].fiber \in Fiber \cup {Null} /\ func_fiber[t] \in Fiber \cup {Null}
  BY DEF TypeOK, Task
<1>2. (\E f \in Fiber : ~inUse(f)) => NewFiber \in Fiber
  BY DEF NewFiber
<1> QED BY <1>1, <1>2 DEF target

\* schedule() keeps the type of the queue.
LEMMA ScheduleType ==
  ASSUME TypeOK, NEW new \in Seq(Task), schedule(new)
  PROVE  m_tasks' \in Seq(Task) /\ m_mutex' \in Thread \cup {Null} /\ tickled' \in BOOLEAN
BY SeqAppend DEF TypeOK, schedule, tickle

-----------------------------------------------------------------------------
(* Every step keeps the types *)

\* Looking for a task, under m_mutex.
LEMMA FindTypes ==
  ASSUME SchedulerInv, NEW t \in Thread, Find(t)
  PROVE  TypeOK'
<1> USE DEF SchedulerInv, TypeOK, Labels, queueVars, countVars, fiberVars, runVars,
            idleVars, restVars, waitVars, jobVars, userVars, Goto
<1>1. CASE TakeTask(t)
  <2>1. Head(m_tasks) \in Task /\ Tail(m_tasks) \in Seq(Task)
    BY <1>1, SeqHeadTail DEF TakeTask
  <2> QED BY <1>1, <2>1 DEF TakeTask
<1>2. CASE TakeRunning(t)
  BY <1>2 DEF TakeRunning, abort
<1>3. CASE MeetPinned(t)
  BY <1>3 DEF MeetPinned
<1>4. CASE FindNothing(t)
  BY <1>4, ConstantsAssumption, ZenonT(60) DEF FindNothing, EmptyTask, Task
<1> QED BY <1>1, <1>2, <1>3, <1>4 DEF Find

\* Counting in and resuming the fiber of the task found.
LEMMA ResumeTypes ==
  ASSUME SchedulerInv, NEW t \in Thread, Resume(t)
  PROVE  TypeOK'
<1> USE DEF SchedulerInv, TypeOK, Labels, queueVars, countVars, fiberVars, runVars,
            idleVars, restVars, waitVars, jobVars, userVars, Goto
<1>1. CASE CountActive(t)
  BY <1>1, SMTT(60) DEF CountActive
<1>2. CASE CallFiber(t)
  <2>1. tk[t].fiber \in Fiber
    BY <1>2 DEF CallFiber, Task
  <2>2. life' \in [Job -> {"fresh", "scheduled", "begun", "ended"}]
    BY <1>2 DEF CallFiber, call
  <2> QED BY <1>2, <2>1, <2>2, SMTT(60) DEF CallFiber, call, tickleOthers, tickle, States
<1>3. CASE CallFunc(t)
  <2>1. target(t) \in Fiber
    BY <1>3, TargetIsFiber DEF CallFunc
  <2>2. life' \in [Job -> {"fresh", "scheduled", "begun", "ended"}]
    BY <1>3 DEF CallFunc, call
  <2>3. EmptyTask \in Task /\ tk[t].func \in Func \cup {Null}
    BY DEF EmptyTask, Task
  <2> HIDE DEF Goto
  <2>4. /\ cur' \in [Thread -> Fiber \cup {Null}] /\ m_state' \in [Fiber -> States]
        /\ pc' \in [Thread -> Labels] /\ tickled' \in BOOLEAN
        /\ UNCHANGED <<m_tasks, m_mutex>>
    BY <1>3, <2>1 DEF CallFunc, call, tickleOthers, tickle, States, Goto
  <2>5. /\ m_func' \in [Fiber -> Func \cup {Null}] /\ tk' \in [Thread -> Task]
        /\ func_fiber' \in [Thread -> Fiber \cup {Null}]
    BY <1>3, <2>1, <2>3 DEF CallFunc
  <2> QED BY <1>3, <2>2, <2>4, <2>5, ZenonT(60) DEF CallFunc
<1>4. CASE CallShared(t)
  BY <1>4 DEF CallShared, abort
<1>5. CASE SkipDone(t)
  BY <1>5, ZenonT(60) DEF SkipDone, tickleOthers, tickle
<1> QED BY <1>1, <1>2, <1>3, <1>4, <1>5, ZenonT(60) DEF Resume

\* Handing over a job, as a function or as a new fiber.
LEMMA SubmitTypes ==
  ASSUME TypeOK, NEW j \in Job, NEW kind \in Kinds, NEW thr \in Pins,
         Submit(j, kind, thr)
  PROVE  /\ m_tasks' \in Seq(Task) /\ m_mutex' \in Thread \cup {Null}
         /\ tickled' \in BOOLEAN
         /\ m_state' \in [Fiber -> States] /\ m_func' \in [Fiber -> Func \cup {Null}]
         /\ life' \in [Job -> {"fresh", "scheduled", "begun", "ended"}]
<1>1. thr \in Thread \cup {Null} /\ j \in Func
  BY ConstantsAssumption DEF Func
<1>2. life' \in [Job -> {"fresh", "scheduled", "begun", "ended"}]
  BY DEF Submit, TypeOK
<1>3. CASE kind = "func"
  <2>1. schedule(<<FuncTask(j, thr)>>) /\ UNCHANGED fiberVars
    BY <1>3 DEF Submit
  <2>2. <<FuncTask(j, thr)>> \in Seq(Task)
    BY <1>1, SMTT(60) DEF FuncTask, Task
  <2> QED BY <1>2, <2>1, <2>2, ScheduleType DEF TypeOK, fiberVars
<1>4. CASE kind = "fiber"
  <2>1. /\ NewFiber \in Fiber /\ schedule(<<FiberTask(NewFiber, thr)>>)
        /\ m_state' = [m_state EXCEPT ![NewFiber] = "READY"]
        /\ m_func' = [m_func EXCEPT ![NewFiber] = j]
    BY <1>4 DEF Submit, NewFiber
  <2>2. <<FiberTask(NewFiber, thr)>> \in Seq(Task)
    BY <1>1, <2>1, SMTT(60) DEF FiberTask, Task
  <2> QED BY <1>1, <1>2, <2>1, <2>2, ScheduleType, ZenonT(60) DEF TypeOK, States
<1> QED BY <1>3, <1>4 DEF Submit

\* operate() keeps the operation counters below their bound.
LEMMA OperateType ==
  ASSUME TypeOK, NEW t \in Thread, NEW op, \E j \in Job : operate(t, j, op)
  PROVE  ops' \in [Job -> 0..MaxOps]
<1>1. PICK j \in Job : ops[j] < MaxOps /\ ops' = [ops EXCEPT ![j] = ops[j] + 1]
  BY DEF operate
<1>2. MaxOps \in Nat /\ ops \in [Job -> 0..MaxOps]
  BY ConstantsAssumption DEF TypeOK
<1> QED BY <1>1, <1>2, SMTT(60)

\* What the fiber on the stack of a worker does.
LEMMA BodyTypes ==
  ASSUME SchedulerInv, NEW t \in Thread, Body(t)
  PROVE  TypeOK'
<1> USE DEF SchedulerInv, TypeOK, Labels, queueVars, countVars, fiberVars, runVars,
            idleVars, restVars, waitVars, jobVars, userVars, Goto
<1>1. CASE Return(t)
  BY <1>1 DEF Return, leaveAs, States
<1>2. CASE Throw(t)
  BY <1>2, ZenonT(60) DEF Throw, leaveAs, States
<1>3. CASE WakeSleeper(t)
  <2>1. PICK f \in Fiber : schedule(<<FiberTask(f, Null)>>)
    BY <1>3 DEF WakeSleeper
  <2>2. <<FiberTask(f, Null)>> \in Seq(Task)
    BY SMTT(60) DEF FiberTask, Task
  <2>3. m_tasks' \in Seq(Task) /\ m_mutex' \in Thread \cup {Null} /\ tickled' \in BOOLEAN
    BY <2>1, <2>2, ScheduleType
  <2> QED BY <1>3, <2>3 DEF WakeSleeper, leaveAs, States
<1>4. CASE YieldReady(t)
  <2>1. ops' \in [Job -> 0..MaxOps]
    BY <1>4, OperateType DEF YieldReady
  <2> QED BY <1>4, <2>1 DEF YieldReady, leaveAs, States
<1>5. CASE Sleep(t)
  <2>1. ops' \in [Job -> 0..MaxOps]
    BY <1>5, OperateType DEF Sleep
  <2>2. timers' \in [Fiber -> Nat] /\ tickled' \in BOOLEAN
    <3>1. timers' = [timers EXCEPT ![cur[t]] = timers[cur[t]] + 1]
      BY <1>5 DEF Sleep
    <3>2. cur[t] \in Fiber
      BY <1>5 DEF Sleep, operate, running, RunsAFiber
    <3>3. timers' \in [Fiber -> Nat]
      BY <3>1, <3>2, SMTT(60)
    <3>4. tickled' \in BOOLEAN
      BY <1>5, ZenonT(60) DEF Sleep, tickle
    <3> QED BY <3>3, <3>4
  <2> QED BY <1>5, <2>1, <2>2 DEF Sleep
<1>6. CASE WaitEvent(t)
  <2>1. ops' \in [Job -> 0..MaxOps]
    BY <1>6, OperateType DEF WaitEvent
  <2> QED BY <1>6, <2>1, SMTT(60) DEF WaitEvent, operate, running, RunsAFiber
<1>7. CASE Yield(t)
  BY <1>7, ZenonT(60) DEF Yield, leaveAs, States
<1>8. CASE Spawn(t)
  <2>1. ops' \in [Job -> 0..MaxOps]
    BY <1>8, OperateType DEF Spawn
  <2>2. PICK j \in Job, kind \in Kinds, thr \in Pins : Submit(j, kind, thr)
    BY <1>8 DEF Spawn
  <2>3. /\ m_tasks' \in Seq(Task) /\ m_mutex' \in Thread \cup {Null}
        /\ tickled' \in BOOLEAN
        /\ m_state' \in [Fiber -> States] /\ m_func' \in [Fiber -> Func \cup {Null}]
        /\ life' \in [Job -> {"fresh", "scheduled", "begun", "ended"}]
    <3> HIDE DEF TypeOK
    <3> QED BY <2>2, SubmitTypes
  <2> QED BY <1>8, <2>1, <2>3, ZenonT(60) DEF Spawn
<1>9. CASE ScheduleSelf(t)
  <2>1. ops' \in [Job -> 0..MaxOps]
    BY <1>9, OperateType DEF ScheduleSelf
  <2>2. <<FiberTask(cur[t], Null)>> \in Seq(Task)
    BY SMTT(60) DEF FiberTask, Task
  <2>3. m_tasks' \in Seq(Task) /\ m_mutex' \in Thread \cup {Null} /\ tickled' \in BOOLEAN
    BY <1>9, <2>2, ScheduleType, ZenonT(60) DEF ScheduleSelf
  <2> QED BY <1>9, <2>1, <2>3 DEF ScheduleSelf
<1>10. CASE Swap(t)
  BY <1>10, SMTT(60) DEF Swap
<1> QED BY <1>1, <1>2, <1>3, <1>4, <1>5, <1>6, <1>7, <1>8, <1>9, <1>10, ZenonT(60) DEF Body

\* Back in run(): the counter goes down, the fiber is put back or let go.
LEMMA AfterTypes ==
  ASSUME SchedulerInv, Sizes, NEW t \in Thread, After(t)
  PROVE  TypeOK'
<1> USE DEF SchedulerInv, TypeOK, Labels, queueVars, countVars, fiberVars, runVars,
            idleVars, restVars, waitVars, jobVars, userVars, Goto
<1>0. left(t) \in Fiber \cup {Null} /\ EmptyTask \in Task
  BY DEF left, Task, EmptyTask
<1>1. CASE CountInactive(t)
  <2>1. Cardinality(At(pc, ActiveLabels)) > 0 /\ Cardinality(At(pc, ActiveLabels)) \in Nat
    BY <1>1, SomeoneThere DEF CountInactive, ActiveLabels
  <2>2. m_active_threads' \in Nat
    BY <1>1, <2>1, SMTT(60) DEF CountInactive, ActiveCountCovers
  <2> QED BY <1>1, <2>2, SMTT(60) DEF CountInactive
<1>2. CASE Reschedule(t)
  <2>1. <<FiberTask(left(t), Null)>> \in Seq(Task)
    BY <1>0, SMTT(60) DEF FiberTask, Task
  <2>2. m_tasks' \in Seq(Task) /\ m_mutex' \in Thread \cup {Null} /\ tickled' \in BOOLEAN
    BY <1>2, <2>1, ScheduleType, ZenonT(60) DEF Reschedule
  <2> QED BY <1>0, <1>2, <2>2, ZenonT(60) DEF Reschedule
<1>3. CASE KeepFuncFiber(t)
  BY <1>3, ZenonT(60) DEF KeepFuncFiber, States
<1>4. CASE ResetShared(t)
  BY <1>4 DEF ResetShared, abort
<1>5. CASE LetGo(t)
  BY <1>0, <1>5, SMTT(60) DEF LetGo
<1> QED BY <1>1, <1>2, <1>3, <1>4, <1>5, ZenonT(60) DEF After

\* In and around the idle fiber; IdleCountExact keeps the counter from wrapping.
LEMMA IdleTypes ==
  ASSUME SchedulerInv, Sizes, NEW t \in Thread, Idle(t)
  PROVE  TypeOK'
<1> USE DEF SchedulerInv, TypeOK, Labels, queueVars, countVars, fiberVars, runVars,
            idleVars, restVars, waitVars, jobVars, userVars, Goto
<1>1. CASE Exit(t)
  BY <1>1, SMTT(60) DEF Exit, EmptyTask, Task
<1>2. CASE EnterIdle(t)
  BY <1>2, SMTT(60) DEF EnterIdle
<1>3. CASE CheckTimers(t)
  BY <1>3, ZenonT(60) DEF CheckTimers
<1>4. CASE CheckDone(t)
  BY <1>4, ZenonT(60) DEF CheckDone
<1>5. CASE EpollWait(t)
  <2>1. PICK fired \in SUBSET events : ready' = [ready EXCEPT ![t] = fired]
    BY <1>5 DEF EpollWait
  <2>2. ready' \in [Thread -> SUBSET Fiber]
    BY <2>1
  <2> QED BY <1>5, <2>2 DEF EpollWait
<1>6. CASE CollectExpired(t)
  <2>1. PICK due \in SUBSET {f \in Fiber : timers[f] > 0} :
          /\ timers' = [f \in Fiber |-> IF f \in due THEN timers[f] - 1 ELSE timers[f]]
          /\ \E order \in [1..Cardinality(due) -> due] :
               expired' = [expired EXCEPT ![t] =
                             [i \in 1..Cardinality(due) |-> WakeUp(order[i])]]
          /\ Goto(t, IF due = {} THEN "leave" ELSE "enqueue")
    <3> HIDE DEF SchedulerInv, TypeOK, Goto
    <3> QED BY <1>6, ZenonT(60) DEF CollectExpired
  <2>2. timers' \in [Fiber -> Nat] /\ pc' \in [Thread -> Labels]
    BY <2>1, SMTT(60)
  <2>3. Cardinality(due) \in Nat
    <3>1. due \in SUBSET Fiber
      BY <2>1
    <3> QED BY <3>1 DEF Sizes
  <2>4. PICK order \in [1..Cardinality(due) -> due] :
          expired' = [expired EXCEPT ![t] =
                        [i \in 1..Cardinality(due) |-> WakeUp(order[i])]]
    BY <2>1
  <2>5. [i \in 1..Cardinality(due) |-> WakeUp(order[i])] \in Seq(WakeUps)
    <3>1. \A i \in 1..Cardinality(due) : order[i] \in Fiber
      BY <2>4, <2>1
    <3>2. [i \in 1..Cardinality(due) |-> WakeUp(order[i])] \in [1..Cardinality(due) -> WakeUps]
      BY <3>1 DEF WakeUps
    <3> QED BY <2>3, <3>2, FunctionIsSeq
  <2>6. expired' \in [Thread -> Seq(WakeUps)]
    BY <2>4, <2>5, ZenonT(60)
  <2> QED BY <1>6, <2>2, <2>6 DEF CollectExpired
<1>7. CASE EnqueueExpired(t)
  <2> DEFINE new == [i \in 1..Len(expired[t]) |-> FuncTask(expired[t][i], Null)]
  <2>1. new \in Seq(Task)
    <3>1. Len(expired[t]) \in Nat /\ \A i \in 1..Len(expired[t]) : expired[t][i] \in WakeUps
      BY SeqElements
    <3>2. \A i \in 1..Len(expired[t]) : FuncTask(expired[t][i], Null) \in Task
      BY <3>1 DEF FuncTask, Task, Func
    <3>3. new \in [1..Len(expired[t]) -> Task]
      BY <3>2, ZenonT(60)
    <3> QED BY <3>1, <3>3, FunctionIsSeq
  <2>2. m_tasks' \in Seq(Task) /\ m_mutex' \in Thread \cup {Null} /\ tickled' \in BOOLEAN
    BY <1>7, <2>1, ScheduleType, ZenonT(60) DEF EnqueueExpired
  <2> QED BY <1>7, <2>2, SMTT(60) DEF EnqueueExpired
<1>8. CASE HandleEvent(t)
  <2>1. PICK f \in ready[t] :
          /\ ready' = [ready EXCEPT ![t] = ready[t] \ {f}]
          /\ IF f \in events THEN schedule(<<FiberTask(f, Null)>>)
                             ELSE UNCHANGED queueVars
          /\ events' = events \ {f}
    BY <1>8 DEF HandleEvent
  <2>2. <<FiberTask(f, Null)>> \in Seq(Task)
    BY SMTT(60) DEF FiberTask, Task
  <2>3. m_tasks' \in Seq(Task) /\ m_mutex' \in Thread \cup {Null} /\ tickled' \in BOOLEAN
    BY <2>1, <2>2, ScheduleType
  <2>4. ready' \in [Thread -> SUBSET Fiber] /\ events' \subseteq Fiber
    BY <2>1
  <2> QED BY <1>8, <2>3, <2>4, SMTT(60) DEF HandleEvent
<1>9. CASE LeaveIdle(t)
  <2>1. Cardinality(At(pc, IdleLabels)) > 0 /\ Cardinality(At(pc, IdleLabels)) \in Nat
    BY <1>9, SomeoneThere, ZenonT(60) DEF LeaveIdle, IdleLabels
  <2>2. m_idle_threads' \in Nat
    BY <1>9, <2>1, SMTT(60) DEF LeaveIdle, IdleCountExact
  <2> QED BY <1>9, <2>2, SMTT(60) DEF LeaveIdle
<1>10. CASE Drain(t)
  BY <1>10 DEF Drain
<1> QED BY <1>1, <1>2, <1>3, <1>4, <1>5, <1>6, <1>7, <1>8, <1>9, <1>10 DEF Idle

\* start(), schedule() and stop().
LEMMA UserTypes ==
  ASSUME SchedulerInv, Sizes, UserStep
  PROVE  TypeOK'
<1> USE DEF SchedulerInv, TypeOK, Labels, queueVars, countVars, fiberVars, runVars,
            idleVars, restVars, waitVars, jobVars, userVars, Goto
<1>0. Cardinality(Thread) \in Nat /\ MaxStarts \in Nat
  BY ConstantsAssumption DEF Sizes
<1>1. CASE StopTickle
  BY <1>0, <1>1, SMTT(60) DEF StopTickle, tickle
<1>2. CASE StopReturn
  BY <1>2 DEF StopReturn
<1>3. CASE Start
  BY <1>0, <1>3, SMTT(60) DEF Start
<1>4. CASE UserSchedule
  <2>1. PICK j \in Job, kind \in Kinds, thr \in Pins : Submit(j, kind, thr)
    BY <1>4 DEF UserSchedule
  <2> QED BY <1>4, <2>1, SubmitTypes DEF UserSchedule
<1>5. CASE Stop
  BY <1>0, <1>5, SMTT(60) DEF Stop
<1> QED BY <1>1, <1>2, <1>3, <1>4, <1>5, ZenonT(60) DEF UserStep, StopStep

-----------------------------------------------------------------------------
(* How a step of worker t moves it to label l, and what that does to the    *)
(* counters, to its idle fiber and to the stack it is on                    *)

Move(t, l) ==
  /\ pc' = [pc EXCEPT ![t] = l] /\ pc[t] # "off"
  /\ m_idle_threads' =
       IF pc[t] \in IdleLabels /\ l \notin IdleLabels THEN m_idle_threads - 1
       ELSE IF pc[t] \notin IdleLabels /\ l \in IdleLabels THEN m_idle_threads + 1
       ELSE m_idle_threads
  /\ \/ m_active_threads' = m_active_threads /\ (l \in ActiveLabels => pc[t] \in ActiveLabels)
     \/ m_active_threads' = m_active_threads + 1 /\ pc[t] \notin ActiveLabels
     \/ m_active_threads' = m_active_threads - 1 /\ pc[t] \in ActiveLabels
          /\ l \notin ActiveLabels
  /\ \A u \in Thread : idle_done'[u] => idle_done[u] \/ (u = t /\ m_stopping)
  /\ \A u \in Thread \ {t} : cur'[u] = cur[u]
  /\ l = "run" => cur'[t] \in Fiber
  /\ UNCHANGED <<user, m_stopping>>

\* Where a step that looks for a task takes its worker.
LEMMA FindMoves ==
  ASSUME SchedulerInv, NEW t \in Thread, Find(t)
  PROVE  \E l \in Labels : Move(t, l)
<1> USE DEF Move, IdleLabels, ActiveLabels, Labels, queueVars, countVars, fiberVars,
            runVars, idleVars, restVars, waitVars, jobVars, userVars, Goto
<1>0. TypeOK /\ RunsAFiber /\ pc = [pc EXCEPT ![t] = pc[t]]
  BY DEF SchedulerInv, TypeOK
<1>1. CASE TakeTask(t)
  BY <1>0, <1>1, Move(t, "count") DEF TakeTask
<1>2. CASE TakeRunning(t)
  BY <1>0, <1>2, Move(t, pc[t]) DEF TakeRunning, abort, RunsAFiber
<1>3. CASE MeetPinned(t)
  BY <1>0, <1>3, Move(t, "spin") DEF MeetPinned
<1>4. CASE FindNothing(t)
  BY <1>0, <1>4, Move(t, "notask") DEF FindNothing
<1> QED BY <1>1, <1>2, <1>3, <1>4 DEF Find

\* Where a step that resumes a fiber takes its worker.
LEMMA ResumeMoves ==
  ASSUME SchedulerInv, NEW t \in Thread, Resume(t)
  PROVE  \E l \in Labels : Move(t, l)
<1> USE DEF Move, IdleLabels, ActiveLabels, Labels, queueVars, countVars, fiberVars,
            runVars, idleVars, restVars, waitVars, jobVars, userVars, Goto
<1>0. TypeOK /\ RunsAFiber /\ pc = [pc EXCEPT ![t] = pc[t]]
  BY DEF SchedulerInv, TypeOK
<1>1. CASE CountActive(t)
  BY <1>0, <1>1, Move(t, "dispatch") DEF CountActive
<1>2. CASE CallFiber(t)
  <2>1. tk[t].fiber \in Fiber
    BY <1>0, <1>2 DEF CallFiber, TypeOK, Task
  <2> QED BY <1>0, <1>2, <2>1, Move(t, "run") DEF CallFiber, call, TypeOK
<1>3. CASE CallFunc(t)
  <2>1. target(t) \in Fiber
    BY <1>0, <1>3, TargetIsFiber DEF CallFunc
  <2> QED BY <1>0, <1>3, <2>1, Move(t, "run") DEF CallFunc, call, TypeOK
<1>4. CASE CallShared(t)
  BY <1>0, <1>4, Move(t, pc[t]) DEF CallShared, abort
<1>5. CASE SkipDone(t)
  BY <1>0, <1>5, Move(t, "notask") DEF SkipDone
<1> QED BY <1>1, <1>2, <1>3, <1>4, <1>5, ZenonT(60) DEF Resume

\* Where a step of the running fiber takes its worker.
LEMMA BodyMoves ==
  ASSUME SchedulerInv, NEW t \in Thread, Body(t)
  PROVE  \E l \in Labels : Move(t, l)
<1> USE DEF Move, IdleLabels, ActiveLabels, Labels, queueVars, countVars, fiberVars,
            runVars, idleVars, restVars, waitVars, jobVars, userVars, Goto
<1>0. TypeOK /\ RunsAFiber /\ pc = [pc EXCEPT ![t] = pc[t]]
  BY DEF SchedulerInv, TypeOK
<1>1. CASE Return(t)
  BY <1>0, <1>1, Move(t, "swap") DEF Return, leaveAs, running
<1>2. CASE Throw(t)
  BY <1>0, <1>2, Move(t, "swap") DEF Throw, leaveAs, running
<1>3. CASE WakeSleeper(t)
  BY <1>0, <1>3, Move(t, "swap") DEF WakeSleeper, leaveAs, running
<1>4. CASE YieldReady(t)
  BY <1>0, <1>4, Move(t, "swap") DEF YieldReady, leaveAs, operate, running
<1>5. CASE Sleep(t)
  BY <1>0, <1>5, Move(t, "park") DEF Sleep, operate, running
<1>6. CASE WaitEvent(t)
  BY <1>0, <1>6, Move(t, "park") DEF WaitEvent, operate, running
<1>7. CASE Yield(t)
  BY <1>0, <1>7, Move(t, "swap") DEF Yield, leaveAs
<1>8. CASE Spawn(t)
  BY <1>0, <1>8, Move(t, pc[t]) DEF Spawn, operate, running, RunsAFiber
<1>9. CASE ScheduleSelf(t)
  BY <1>0, <1>9, Move(t, pc[t]) DEF ScheduleSelf, operate, running, RunsAFiber
<1>10. CASE Swap(t)
  BY <1>0, <1>10, Move(t, "back") DEF Swap, TypeOK
<1> QED BY <1>1, <1>2, <1>3, <1>4, <1>5, <1>6, <1>7, <1>8, <1>9, <1>10, ZenonT(60) DEF Body

\* Where a step after the fiber has left takes its worker.
LEMMA AfterMoves ==
  ASSUME SchedulerInv, NEW t \in Thread, After(t)
  PROVE  \E l \in Labels : Move(t, l)
<1> USE DEF Move, IdleLabels, ActiveLabels, Labels, queueVars, countVars, fiberVars,
            runVars, idleVars, restVars, waitVars, jobVars, userVars, Goto
<1>0. TypeOK /\ RunsAFiber /\ pc = [pc EXCEPT ![t] = pc[t]]
  BY DEF SchedulerInv, TypeOK
<1>1. CASE CountInactive(t)
  BY <1>0, <1>1, Move(t, "resched") DEF CountInactive
<1>2. CASE Reschedule(t)
  BY <1>0, <1>2, Move(t, "find") DEF Reschedule
<1>3. CASE KeepFuncFiber(t)
  BY <1>0, <1>3, Move(t, "find") DEF KeepFuncFiber
<1>4. CASE ResetShared(t)
  BY <1>0, <1>4, Move(t, pc[t]) DEF ResetShared, abort
<1>5. CASE LetGo(t)
  BY <1>0, <1>5, Move(t, "find") DEF LetGo
<1> QED BY <1>1, <1>2, <1>3, <1>4, <1>5 DEF After

\* Where a step in or around the idle fiber takes its worker.
LEMMA IdleMoves ==
  ASSUME SchedulerInv, NEW t \in Thread, Idle(t)
  PROVE  \E l \in Labels : Move(t, l)
<1> USE DEF Move, IdleLabels, ActiveLabels, Labels, queueVars, countVars, fiberVars,
            runVars, idleVars, restVars, waitVars, jobVars, userVars, Goto
<1>0. TypeOK /\ RunsAFiber /\ pc = [pc EXCEPT ![t] = pc[t]]
  BY DEF SchedulerInv, TypeOK
<1>1. CASE Exit(t)
  BY <1>0, <1>1, Move(t, "exited") DEF Exit
<1>2. CASE EnterIdle(t)
  BY <1>0, <1>2, Move(t, "idle") DEF EnterIdle
<1>3. CASE CheckTimers(t)
  BY <1>0, <1>3, Move(t, "epoll") \/ Move(t, "check") DEF CheckTimers
<1>4. CASE CheckDone(t)
  BY <1>0, <1>4, Move(t, "leave") \/ Move(t, "epoll") DEF CheckDone, TypeOK
<1>5. CASE EpollWait(t)
  BY <1>0, <1>5, Move(t, "collect") DEF EpollWait
<1>6. CASE CollectExpired(t)
  BY <1>0, <1>6, Move(t, "leave") \/ Move(t, "enqueue") DEF CollectExpired
<1>7. CASE EnqueueExpired(t)
  BY <1>0, <1>7, Move(t, "leave") DEF EnqueueExpired
<1>8. CASE HandleEvent(t)
  BY <1>0, <1>8, Move(t, pc[t]) DEF HandleEvent
<1>9. CASE LeaveIdle(t)
  BY <1>0, <1>9, Move(t, "find") DEF LeaveIdle
<1>10. CASE Drain(t)
  BY <1>0, <1>10, Move(t, pc[t]) DEF Drain
<1> QED BY <1>1, <1>2, <1>3, <1>4, <1>5, <1>6, <1>7, <1>8, <1>9, <1>10, ZenonT(60) DEF Idle

Control == /\ RunsAFiber /\ FlagsAgree /\ OffWhenStopped
           /\ IdleCountExact /\ ActiveCountCovers /\ EndsOnlyWhileStopping

\* A worker's step keeps the counters and the conditions on its whereabouts.
LEMMA WorkerControl ==
  ASSUME SchedulerInv, Sizes, NEW t \in Thread, Worker(t)
  PROVE  Control'
<1>1. PICK l \in Labels : Move(t, l)
  BY FindMoves, ResumeMoves, BodyMoves, AfterMoves, IdleMoves DEF Worker
<1>2. pc \in [Thread -> Labels] /\ m_active_threads \in Nat
  BY DEF SchedulerInv, TypeOK
<1>3. pc' = [pc EXCEPT ![t] = l] /\ pc[t] # "off"
  BY <1>1 DEF Move
<1>4. RunsAFiber'
  BY <1>1, <1>2, <1>3 DEF Move, RunsAFiber, SchedulerInv
<1>5. FlagsAgree' /\ OffWhenStopped'
  BY <1>1, <1>3 DEF Move, FlagsAgree, OffWhenStopped, SchedulerInv
<1>6. IdleCountExact'
  <2> DEFINE L == IdleLabels
  <2>1. /\ Cardinality(At(pc, L)) \in Nat
        /\ (pc[t] \in L <=> l \in L) => Cardinality(At(pc', L)) = Cardinality(At(pc, L))
        /\ pc[t] \notin L /\ l \in L =>
             Cardinality(At(pc', L)) = Cardinality(At(pc, L)) + 1
        /\ pc[t] \in L /\ l \notin L =>
             Cardinality(At(pc', L)) = Cardinality(At(pc, L)) - 1
    <3>1. pc'[t] = l /\ \A u \in Thread \ {t} : pc'[u] = pc[u]
      BY <1>2, <1>3, ZenonT(60)
    <3> QED BY <1>2, <3>1, MoveCounts, SMTT(60)
  <2> QED BY <1>1, <1>2, <2>1, ZenonT(60) DEF Move, IdleCountExact, SchedulerInv
<1>7. ActiveCountCovers'
  <2> DEFINE L == ActiveLabels
  <2>1. /\ Cardinality(At(pc, L)) \in Nat
        /\ (pc[t] \in L <=> l \in L) => Cardinality(At(pc', L)) = Cardinality(At(pc, L))
        /\ pc[t] \notin L /\ l \in L =>
             Cardinality(At(pc', L)) = Cardinality(At(pc, L)) + 1
        /\ pc[t] \in L /\ l \notin L =>
             Cardinality(At(pc', L)) = Cardinality(At(pc, L)) - 1
    <3>1. pc'[t] = l /\ \A u \in Thread \ {t} : pc'[u] = pc[u]
      BY <1>2, <1>3
    <3> QED BY <1>2, <3>1, MoveCounts, SMTT(60)
  <2> QED BY <1>1, <1>2, <2>1, SMTT(60) DEF Move, ActiveCountCovers, SchedulerInv
<1>8. EndsOnlyWhileStopping'
  BY <1>1, <1>2, <1>3 DEF Move, EndsOnlyWhileStopping, FlagsAgree, SchedulerInv
<1> QED BY <1>4, <1>5, <1>6, <1>7, <1>8 DEF Control

\* A step of the user thread keeps the counters and the conditions on the workers.
LEMMA UserControl ==
  ASSUME SchedulerInv, UserStep
  PROVE  Control'
<1> USE DEF SchedulerInv, Control, queueVars, countVars, fiberVars, runVars,
            idleVars, waitVars, jobVars, userVars
<1>0. TypeOK
  OBVIOUS
<1>1. CASE StopTickle
  BY <1>1 DEF StopTickle, RunsAFiber, FlagsAgree, OffWhenStopped, IdleCountExact,
              ActiveCountCovers, EndsOnlyWhileStopping, At
<1>2. CASE StopReturn
  <2>1. /\ user' = "stopped" /\ ~m_stopping' /\ pc' = [t \in Thread |-> "off"]
        /\ \A t \in Thread : pc[t] = "exited"
        /\ UNCHANGED countVars
    BY <1>2 DEF StopReturn, joined
  <2>2. /\ At(pc, IdleLabels) = {} /\ At(pc', IdleLabels) = {}
        /\ At(pc, ActiveLabels) = {} /\ At(pc', ActiveLabels) = {}
    BY <2>1 DEF At, IdleLabels, ActiveLabels
  <2> QED BY <2>1, <2>2 DEF RunsAFiber, FlagsAgree, OffWhenStopped, IdleCountExact,
                           ActiveCountCovers, EndsOnlyWhileStopping
<1>3. CASE Start
  <2>1. /\ user' = "started" /\ ~m_stopping' /\ pc' = [t \in Thread |-> "find"]
        /\ \A t \in Thread : pc[t] = "off" /\ ~idle_done'[t]
        /\ UNCHANGED countVars
    BY <1>3 DEF Start, OffWhenStopped
  <2>2. /\ At(pc, IdleLabels) = {} /\ At(pc', IdleLabels) = {}
        /\ At(pc, ActiveLabels) = {} /\ At(pc', ActiveLabels) = {}
    BY <2>1 DEF At, IdleLabels, ActiveLabels
  <2> QED BY <2>1, <2>2 DEF RunsAFiber, FlagsAgree, OffWhenStopped, IdleCountExact,
                           ActiveCountCovers, EndsOnlyWhileStopping
<1>4. CASE UserSchedule
  BY <1>4 DEF UserSchedule, RunsAFiber, FlagsAgree, OffWhenStopped, IdleCountExact,
              ActiveCountCovers, EndsOnlyWhileStopping, At
<1>5. CASE Stop
  BY <1>5 DEF Stop, RunsAFiber, FlagsAgree, OffWhenStopped, IdleCountExact,
              ActiveCountCovers, EndsOnlyWhileStopping, At
<1> QED BY <1>1, <1>2, <1>3, <1>4, <1>5, ZenonT(60) DEF UserStep, StopStep

\* A worker that meets no task already done counts itself in and out exactly once.
LEMMA ExactCount ==
  ASSUME SchedulerInv, Sizes, ActiveCountExact, NEW t \in Thread, Worker(t), ~SkipDone(t)
  PROVE  ActiveCountExact'
<1> USE DEF queueVars, countVars, fiberVars, runVars, idleVars, restVars, waitVars,
            jobVars, userVars, Goto
<1>0. TypeOK
  BY DEF SchedulerInv
<1>1. PICK l \in Labels : /\ pc'[t] = l /\ \A u \in Thread \ {t} : pc'[u] = pc[u]
  BY <1>0, FindMoves, ResumeMoves, BodyMoves, AfterMoves, IdleMoves, SMTT(60) DEF Worker, Move, TypeOK
<1>2. CASE CountActive(t)
  <2>1. pc[t] \notin ActiveLabels /\ l \in ActiveLabels /\ m_active_threads' = m_active_threads + 1
    BY <1>0, <1>1, <1>2 DEF CountActive, ActiveLabels, TypeOK
  <2> QED BY <1>1, <2>1, MoveCounts, SMTT(60) DEF ActiveCountExact
<1>3. CASE CountInactive(t)
  <2>1. pc[t] \in ActiveLabels /\ l \notin ActiveLabels /\ m_active_threads' = m_active_threads - 1
    BY <1>0, <1>1, <1>3 DEF CountInactive, ActiveLabels, TypeOK
  <2> QED BY <1>1, <2>1, MoveCounts, SMTT(60) DEF ActiveCountExact
<1>4. CASE ~CountActive(t) /\ ~CountInactive(t)
  <2>1. m_active_threads' = m_active_threads /\ (pc[t] \in ActiveLabels <=> pc'[t] \in ActiveLabels)
    <3>1. CASE Find(t)
      BY <1>0, <3>1 DEF Find, TakeTask, TakeRunning, MeetPinned, FindNothing, abort, TypeOK, ActiveLabels
    <3>2. CASE Resume(t)
      BY <1>0, <1>4, <3>2 DEF Resume, CallFiber, CallFunc, CallShared, abort, call,
                  TypeOK, ActiveLabels
    <3>3. CASE Body(t)
      BY <1>0, <3>3 DEF Body, Return, Throw, WakeSleeper, YieldReady, Sleep, WaitEvent, Yield, Spawn,
                  ScheduleSelf, Swap, leaveAs, operate, running, TypeOK, ActiveLabels
    <3>4. CASE After(t)
      BY <1>0, <1>4, <3>4, SMTT(60) DEF After, Reschedule, KeepFuncFiber, ResetShared, LetGo, abort,
                  TypeOK, ActiveLabels
    <3>5. CASE Idle(t)
      BY <1>0, <3>5 DEF Idle, Exit, EnterIdle, CheckTimers, CheckDone, EpollWait, CollectExpired,
                  EnqueueExpired, HandleEvent, Drain, LeaveIdle, TypeOK, ActiveLabels
    <3> QED BY <3>1, <3>2, <3>3, <3>4, <3>5 DEF Worker
  <2> QED BY <1>1, <2>1, MoveCounts, SMTT(60) DEF ActiveCountExact
<1> QED BY <1>2, <1>3, <1>4

\* What a step of one worker leaves alone of the others.
LEMMA OthersStay ==
  ASSUME TypeOK, NEW t \in Thread, Worker(t)
  PROVE  \A u \in Thread \ {t} : pc'[u] = pc[u] /\ tk'[u] = tk[u]
<1> USE DEF queueVars, countVars, fiberVars, runVars, idleVars, restVars, waitVars,
            jobVars, userVars, Goto, TypeOK
<1>1. CASE Find(t)
  BY <1>1 DEF Find, TakeTask, TakeRunning, MeetPinned, FindNothing, abort
<1>2. CASE Resume(t)
  BY <1>2 DEF Resume, CountActive, CallFiber, CallFunc, CallShared, SkipDone, abort, call
<1>3. CASE Body(t)
  BY <1>3 DEF Body, Return, Throw, WakeSleeper, YieldReady, Sleep, WaitEvent, Yield, Spawn,
              ScheduleSelf, Swap, leaveAs
<1>4. CASE After(t)
  BY <1>4 DEF After, CountInactive, Reschedule, KeepFuncFiber, ResetShared, LetGo, abort
<1>5. CASE Idle(t)
  BY <1>5, ZenonT(60) DEF Idle, Exit, EnterIdle, CheckTimers, CheckDone, EpollWait, CollectExpired,
              EnqueueExpired, HandleEvent, Drain, LeaveIdle
<1> QED BY <1>1, <1>2, <1>3, <1>4, <1>5, ZenonT(60) DEF Worker

-----------------------------------------------------------------------------
(* Continuations: whose fiber is whose *)

\* A worker in these places has a task in tk, or has just run one.
Busy  == {"count", "dispatch", "run", "park", "swap", "back", "resched"}
Stack == {"run", "park", "swap"}
runsFunc(t) == pc[t] \in Stack \cup {"back", "resched"} /\ tk[t].fiber = Null

\* The fiber a worker runs is the task's, or func_fiber (scheduler.cpp:142-166).
OnItsFiber ==
  \A t \in Thread : /\ pc[t] \in Stack => cur[t] \in Fiber /\ cur[t] = left(t)
                    /\ runsFunc(t) => func_fiber[t] # Null

\* No two workers have the same func_fiber.
FuncFiberOwn ==
  \A t, u \in Thread : func_fiber[t] # Null /\ func_fiber[t] = func_fiber[u] => t = u

\* While a worker runs no function, its func_fiber has none (scheduler.cpp:170).
FuncFiberFree ==
  \A t \in Thread : func_fiber[t] # Null /\ ~runsFunc(t) => m_func[func_fiber[t]] = Null

queued(f)   == \E i \in DOMAIN m_tasks : m_tasks[i].fiber = f
holds(t, f) == func_fiber[t] = f \/ (pc[t] \in Busy /\ tk[t].fiber = f)

\* A fiber with a job to finish is not allocated again: it runs, is suspended, or
\* a worker or the queue has it.
LiveHeld ==
  \A f \in Fiber : m_func[f] \in Job /\ ~isDone(f) =>
    m_state[f] \in {"RUNNING", "SUSPEND"} \/ queued(f) \/ \E t \in Thread : holds(t, f)

NoneIsEmpty == \A f \in Fiber : m_state[f] = "NONE" => m_func[f] = Null

FiberInv == OnItsFiber /\ FuncFiberOwn /\ FuncFiberFree /\ LiveHeld /\ NoneIsEmpty
            /\ ContinuationKept

\* What the labels tell of a worker is the same before and after a step.
SamePlace(t) == /\ pc'[t] \in Busy <=> pc[t] \in Busy
                /\ pc'[t] \in Stack <=> pc[t] \in Stack
                /\ pc'[t] \in {"back", "resched"} <=> pc[t] \in {"back", "resched"}

\* A fiber not in use is nobody's func_fiber, and has no job to finish.
LEMMA FreeFiber ==
  ASSUME FiberInv, NEW f \in Fiber, ~inUse(f)
  PROVE  /\ \A t \in Thread : func_fiber[t] # f /\ tk[t].fiber # f /\ cur[t] # f
         /\ ~queued(f) /\ (m_func[f] \in Job => isDone(f))
<1>1. /\ \A t \in Thread : func_fiber[t] # f /\ tk[t].fiber # f /\ cur[t] # f
      /\ ~queued(f) /\ m_state[f] \notin {"RUNNING", "SUSPEND"}
  BY DEF inUse, queued
<1> QED BY <1>1 DEF FiberInv, LiveHeld, holds

\* A task that schedule() makes is a fiber or a function (scheduler.h:73-79).
LEMMA TaskFields ==
  ASSUME NEW thr \in Thread \cup {Null}
  PROVE  /\ \A f \in Fiber : \E x \in Task :
              x = FiberTask(f, thr) /\ x.fiber = f /\ x.func = Null
         /\ \A fn \in Func : \E x \in Task :
              x = FuncTask(fn, thr) /\ x.fiber = Null /\ x.func = fn
<1>1. \A f \in Fiber : /\ FiberTask(f, thr) \in Task
                       /\ FiberTask(f, thr).fiber = f /\ FiberTask(f, thr).func = Null
  BY SMTT(60) DEF FiberTask, Task
<1>2. \A fn \in Func : /\ FuncTask(fn, thr) \in Task
                       /\ FuncTask(fn, thr).fiber = Null /\ FuncTask(fn, thr).func = fn
  BY SMTT(60) DEF FuncTask, Task
<1> QED BY <1>1, <1>2

\* schedule() puts one task more at the end of the queue,
LEMMA OneMore ==
  ASSUME TypeOK, NEW x \in Task, schedule(<<x>>)
  PROVE  \E n \in DOMAIN m_tasks' :
           /\ m_tasks'[n] = x /\ n \notin DOMAIN m_tasks
           /\ \A i \in DOMAIN m_tasks : i \in DOMAIN m_tasks' /\ m_tasks'[i] = m_tasks[i]
           /\ \A i \in DOMAIN m_tasks' : i \in DOMAIN m_tasks \/ i = n
<1>1. m_tasks \in Seq(Task) /\ m_tasks' = m_tasks \o <<x>>
  BY DEF TypeOK, schedule
<1>2. <<x>> \in Seq(Task)
  BY SMTT(60)
<1>3. \A i \in DOMAIN m_tasks : i \in DOMAIN m_tasks' /\ m_tasks'[i] = m_tasks[i]
  BY <1>1, <1>2, SeqAppend
<1>4. PICK n \in DOMAIN m_tasks' : /\ m_tasks'[n] = x /\ n \notin DOMAIN m_tasks
                                    /\ \A i \in DOMAIN m_tasks' : i \in DOMAIN m_tasks \/ i = n
  <2>1. \E n \in DOMAIN (m_tasks \o <<x>>) :
           /\ (m_tasks \o <<x>>)[n] = x /\ n \notin DOMAIN m_tasks
           /\ \A i \in DOMAIN (m_tasks \o <<x>>) : i \in DOMAIN m_tasks \/ i = n
    BY <1>1, SeqOneMore
  <2> QED BY <2>1, <1>1
<1> QED BY <1>3, <1>4

\* and the first one taken moves the others up.
Shifted(one, up) ==
  /\ \A k \in DOMAIN m_tasks' : /\ up[k] \in DOMAIN m_tasks /\ up[k] # one
                                /\ m_tasks'[k] = m_tasks[up[k]]
  /\ \A i, k \in DOMAIN m_tasks' : i # k => up[i] # up[k]
  /\ \A i \in DOMAIN m_tasks : i = one \/ \E k \in DOMAIN m_tasks' : up[k] = i

\* The task a worker takes is one less in the queue.
LEMMA OneLess ==
  ASSUME TypeOK, m_tasks # <<>>, m_tasks' = Tail(m_tasks)
  PROVE  \E one, up :
           /\ one \in DOMAIN m_tasks
           /\ Head(m_tasks) = m_tasks[one] /\ Head(m_tasks) \in Task /\ Shifted(one, up)
<1> DEFINE up == [k \in DOMAIN m_tasks' |-> k + 1]
<1>1. m_tasks \in Seq(Task)
  BY DEF TypeOK
<1>2. /\ 1 \in DOMAIN m_tasks /\ Head(m_tasks) = m_tasks[1] /\ Head(m_tasks) \in Task
      /\ \A i \in DOMAIN m_tasks' : /\ i \in Nat /\ i + 1 \in DOMAIN m_tasks
                                    /\ m_tasks'[i] = m_tasks[i + 1] /\ i + 1 # 1
      /\ \A i \in DOMAIN m_tasks : i = 1 \/ (i - 1 \in DOMAIN m_tasks' /\ (i - 1) + 1 = i)
  BY <1>1, SeqHeadTail
<1>3. \A i, k \in DOMAIN m_tasks' : i # k => up[i] # up[k]
  BY <1>2, SMTT(60)
<1>4. Shifted(1, up)
  BY <1>2, <1>3 DEF Shifted
<1> HIDE DEF up
<1> QED BY <1>2, <1>4

\* schedule() of one task puts its fiber on the queue and takes none away.
LEMMA ScheduleQueues ==
  ASSUME TypeOK, NEW x \in Task, schedule(<<x>>)
  PROVE  \A f \in Fiber : queued(f)' <=> queued(f) \/ x.fiber = f
BY OneMore DEF queued

\* schedule() of any tasks takes no fiber off the queue.
LEMMA ScheduleKeepsQueue ==
  ASSUME TypeOK, NEW new \in Seq(Task), schedule(new)
  PROVE  \A f \in Fiber : queued(f) => queued(f)'
<1>1. \A i \in DOMAIN m_tasks : i \in DOMAIN m_tasks' /\ m_tasks'[i] = m_tasks[i]
  BY SeqAppend DEF TypeOK, schedule
<1> QED BY <1>1 DEF queued

\* Taking the first task takes one fiber off the queue.
LEMMA TakeQueues ==
  ASSUME TypeOK, m_tasks # <<>>, m_tasks' = Tail(m_tasks)
  PROVE  /\ Head(m_tasks) \in Task
         /\ \A f \in Fiber : queued(f) => queued(f)' \/ Head(m_tasks).fiber = f
<1>1. PICK one, up :
        /\ one \in DOMAIN m_tasks
        /\ Head(m_tasks) = m_tasks[one] /\ Head(m_tasks) \in Task /\ Shifted(one, up)
  BY OneLess
<1>2. \A i \in DOMAIN m_tasks : i = one \/ \E k \in DOMAIN m_tasks' : m_tasks'[k] = m_tasks[i]
  <2> TAKE i \in DOMAIN m_tasks
  <2>1. i = one \/ \E k \in DOMAIN m_tasks' : up[k] = i
    BY <1>1 DEF Shifted
  <2>2. \A k \in DOMAIN m_tasks' : m_tasks'[k] = m_tasks[up[k]]
    BY <1>1 DEF Shifted
  <2> QED BY <2>1, <2>2
<1> QED BY <1>1, <1>2 DEF queued

\* A step that only moves workers between like places and adds to the queue.
LEMMA QuietKeeps ==
  ASSUME FiberInv, UNCHANGED <<fiberVars, tk, func_fiber, cur, life>>,
         \A t \in Thread : SamePlace(t), \A f \in Fiber : queued(f) => queued(f)'
  PROVE  FiberInv'
<1> USE DEF FiberInv, fiberVars, SamePlace
<1>1. \A t \in Thread : left(t)' = left(t) /\ (runsFunc(t)' <=> runsFunc(t))
  BY DEF left, isFiberTask, runsFunc
<1>2. \A t \in Thread, f \in Fiber : holds(t, f) => holds(t, f)'
  BY DEF holds
<1>3. OnItsFiber' /\ FuncFiberOwn' /\ FuncFiberFree'
  BY <1>1 DEF OnItsFiber, FuncFiberOwn, FuncFiberFree
<1>4. LiveHeld' /\ NoneIsEmpty' /\ ContinuationKept'
  BY <1>2 DEF LiveHeld, NoneIsEmpty, ContinuationKept, isDone
<1> QED BY <1>3, <1>4

-----------------------------------------------------------------------------
(* Every step keeps the continuations *)

\* A worker takes a task off the queue, or finds none.
LEMMA FindFibers ==
  ASSUME TypeOK, FiberInv, NEW t \in Thread, Find(t)
  PROVE  FiberInv'
<1> USE DEF queueVars, countVars, fiberVars, runVars, idleVars, restVars, waitVars,
            jobVars, userVars, Goto
<1>1. CASE TakeTask(t) \/ FindNothing(t)
  <2>1. /\ pc[t] = "find" /\ pc'[t] \in {"count", "notask"}
        /\ \A u \in Thread \ {t} : pc'[u] = pc[u] /\ tk'[u] = tk[u]
        /\ UNCHANGED <<m_state, m_func, func_fiber, cur, life>>
    BY <1>1 DEF TakeTask, FindNothing, TypeOK
  <2>2. \A f \in Fiber : queued(f) => queued(f)' \/ holds(t, f)'
    <3>1. CASE TakeTask(t)
      BY <3>1, TakeQueues DEF TakeTask, holds, Busy, TypeOK
    <3>2. CASE FindNothing(t)
      BY <3>2 DEF FindNothing, queued
    <3> QED BY <1>1, <3>1, <3>2
  <2>3. \A u \in Thread : runsFunc(u)' <=> runsFunc(u)
    BY <2>1 DEF runsFunc, Stack
  <2>4. \A u \in Thread : pc'[u] \in Stack => pc[u] \in Stack /\ left(u)' = left(u)
    BY <2>1 DEF Stack, left, isFiberTask
  <2>5. \A u \in Thread, f \in Fiber : holds(u, f) => holds(u, f)'
    BY <2>1 DEF holds, Busy
  <2>6. OnItsFiber' /\ FuncFiberOwn' /\ FuncFiberFree'
    BY <2>1, <2>3, <2>4 DEF FiberInv, OnItsFiber, FuncFiberOwn, FuncFiberFree
  <2>7. LiveHeld' /\ NoneIsEmpty' /\ ContinuationKept'
    BY <2>1, <2>2, <2>5 DEF FiberInv, LiveHeld, NoneIsEmpty, ContinuationKept, isDone
  <2> QED BY <2>6, <2>7 DEF FiberInv
<1>2. CASE TakeRunning(t) \/ MeetPinned(t)
  <2>1. UNCHANGED <<fiberVars, tk, func_fiber, cur, life, m_tasks>>
    BY <1>2 DEF TakeRunning, MeetPinned, abort
  <2>2. \A u \in Thread : SamePlace(u)
    BY <1>2, ZenonT(60) DEF TakeRunning, MeetPinned, abort, SamePlace, Busy, Stack, TypeOK
  <2> QED BY <2>1, <2>2, QuietKeeps DEF queued
<1> QED BY <1>1, <1>2 DEF Find

\* call(): the fiber called is the worker's alone, and its job has begun.
LEMMA CallFibers ==
  ASSUME TypeOK, FiberInv, NEW t \in Thread, CallFiber(t) \/ CallFunc(t)
  PROVE  FiberInv'
<1> USE DEF queueVars, countVars, fiberVars, runVars, idleVars, restVars, waitVars,
            jobVars, userVars, Goto
<1>0. PICK f \in Fiber : f = target(t)
  BY TargetIsFiber DEF CallFiber, CallFunc, TypeOK
<1>1. /\ pc[t] = "dispatch" /\ pc'[t] = "run" /\ cur'[t] = f /\ m_state'[f] = "RUNNING"
      /\ \A u \in Thread \ {t} : /\ pc'[u] = pc[u] /\ cur'[u] = cur[u] /\ tk'[u] = tk[u]
                                 /\ func_fiber'[u] = func_fiber[u]
      /\ \A g \in Fiber \ {f} : m_state'[g] = m_state[g] /\ m_func'[g] = m_func[g]
      /\ \A g \in Fiber : queued(g)' <=> queued(g)
      /\ \A j \in Job : life'[j] = "begun" => life[j] = "begun" \/ m_func'[f] = j
  <2>1. CASE CallFiber(t)
    <3>1. f = tk[t].fiber
      BY <1>0, <2>1 DEF CallFiber, target
    <3>2. m_tasks' = m_tasks /\ m_func' = m_func /\ call(t, f, m_func[f])
      BY <2>1, <3>1 DEF CallFiber, tickleOthers
    <3> QED BY <2>1, <3>1, <3>2, SMTT(60) DEF CallFiber, call, queued, TypeOK
  <2>2. CASE CallFunc(t)
    <3>1. m_tasks' = m_tasks /\ call(t, f, tk[t].func) /\ m_func' = [m_func EXCEPT ![f] = tk[t].func]
      BY <1>0, <2>2 DEF CallFunc, tickleOthers
    <3> QED BY <2>2, <1>0, <3>1, SMTT(60) DEF CallFunc, call, queued, TypeOK
  <2> QED BY <2>1, <2>2
<1>2. \A u \in Thread \ {t} : /\ left(u)' = left(u) /\ (runsFunc(u)' <=> runsFunc(u))
                              /\ \A g \in Fiber : holds(u, g)' <=> holds(u, g)
  BY <1>1 DEF left, isFiberTask, runsFunc, holds
<1>3. CASE CallFiber(t)
  <2>1. /\ f = tk[t].fiber /\ UNCHANGED <<tk, func_fiber, m_func>>
    BY <1>0, <1>3 DEF CallFiber, target
  <2>2. left(t)' = f /\ ~runsFunc(t) /\ ~runsFunc(t)' /\ \A g \in Fiber : holds(t, g)' <=> holds(t, g)
    <3>1. pc[t] = "dispatch" /\ pc'[t] = "run" /\ tk[t].fiber = f /\ f # Null
      BY <1>1, <2>1, ConstantsAssumption
    <3>2. left(t)' = f /\ ~runsFunc(t) /\ ~runsFunc(t)'
      BY <2>1, <3>1 DEF left, isFiberTask, runsFunc
    <3> QED BY <2>1, <3>1, <3>2 DEF holds, Busy
  <2>3. OnItsFiber' /\ FuncFiberOwn' /\ FuncFiberFree'
    <3>1. OnItsFiber'
      <4>1. ASSUME NEW u \in Thread
            PROVE  /\ pc'[u] \in Stack => cur'[u] \in Fiber /\ cur'[u] = left(u)'
                   /\ runsFunc(u)' => func_fiber'[u] # Null
        <5>1. CASE u = t
          BY <1>1, <2>2, <5>1
        <5>2. CASE u # t
          BY <1>1, <1>2, <5>2 DEF FiberInv, OnItsFiber
        <5> QED BY <5>1, <5>2
      <4> QED BY <4>1 DEF OnItsFiber
    <3>2. FuncFiberOwn'
      BY <2>1 DEF FiberInv, FuncFiberOwn
    <3>3. FuncFiberFree'
      BY <1>2, <2>1, <2>2 DEF FiberInv, FuncFiberFree
    <3> QED BY <3>1, <3>2, <3>3
  <2>4. LiveHeld' /\ NoneIsEmpty'
    BY <1>1, <1>2, <2>1, <2>2 DEF FiberInv, LiveHeld, NoneIsEmpty, isDone
  <2>5. ContinuationKept'
    <3>1. \A g \in Fiber : ~isDone(g) => ~isDone(g)'
      BY <1>1 DEF isDone
    <3>2. \A j \in Job : life'[j] = "begun" =>
            \/ \E g \in Fiber : m_func[g] = j /\ ~isDone(g)
            \/ m_func'[f] = j /\ ~isDone(f)'
      BY <1>1 DEF FiberInv, ContinuationKept, isDone
    <3> QED BY <2>1, <3>1, <3>2 DEF ContinuationKept, isDone
  <2> QED BY <2>3, <2>4, <2>5 DEF FiberInv
<1>4. CASE CallFunc(t)
  <2>1. /\ tk[t].fiber = Null /\ tk'[t].fiber = Null /\ func_fiber'[t] = f
        /\ (func_fiber[t] = Null => ~inUse(f)) /\ (func_fiber[t] # Null => func_fiber[t] = f)
    <3>1. tk[t].fiber = Null /\ f = IF func_fiber[t] # Null THEN func_fiber[t] ELSE NewFiber
      BY <1>0, <1>4 DEF CallFunc, target
    <3>2. func_fiber[t] = Null => ~inUse(NewFiber)
      BY <1>4 DEF CallFunc, NewFiber
    <3> QED BY <1>0, <1>4, <3>1, <3>2 DEF CallFunc, EmptyTask, TypeOK
  <2>2. /\ \A u \in Thread \ {t} : func_fiber[u] # f
        /\ m_func[f] \in Job => isDone(f)
    <3>1. CASE func_fiber[t] = Null
      BY <2>1, <3>1, FreeFiber
    <3>2. CASE func_fiber[t] # Null
      <4>1. m_func[f] = Null
        BY <1>1, <2>1, <3>2 DEF FiberInv, FuncFiberFree, runsFunc, Stack
      <4> QED BY <2>1, <3>2, <4>1, ConstantsAssumption DEF FiberInv, FuncFiberOwn, Func
    <3> QED BY <3>1, <3>2
  <2>3. left(t)' = f /\ runsFunc(t)'
    BY <1>1, <2>1 DEF left, isFiberTask, runsFunc, Stack
  <2>4. \A g \in Fiber : holds(t, g) => holds(t, g)'
    BY <2>1, ConstantsAssumption DEF holds
  <2>5. OnItsFiber' /\ FuncFiberOwn'
    <3>1. OnItsFiber'
      <4>1. ASSUME NEW u \in Thread
            PROVE  /\ pc'[u] \in Stack => cur'[u] \in Fiber /\ cur'[u] = left(u)'
                   /\ runsFunc(u)' => func_fiber'[u] # Null
        <5>1. CASE u = t
          <6>1. cur'[t] = f /\ func_fiber'[t] = f /\ f # Null
            BY <1>1, <2>1, ConstantsAssumption
          <6> QED BY <2>3, <5>1, <6>1
        <5>2. CASE u # t
          BY <1>1, <1>2, <5>2 DEF FiberInv, OnItsFiber
        <5> QED BY <5>1, <5>2
      <4> QED BY <4>1 DEF OnItsFiber
    <3>2. /\ func_fiber'[t] = f
          /\ \A u \in Thread \ {t} : func_fiber'[u] = func_fiber[u] /\ func_fiber[u] # f
      BY <1>1, <2>1, <2>2
    <3>3. FuncFiberOwn'
      BY <3>2 DEF FiberInv, FuncFiberOwn
    <3> QED BY <3>1, <3>3
  <2>6. FuncFiberFree'
    <3>1. ASSUME NEW u \in Thread \ {t}, func_fiber'[u] # Null, ~runsFunc(u)'
          PROVE  m_func'[func_fiber'[u]] = Null
      <4>0. func_fiber'[u] = func_fiber[u] /\ func_fiber[u] # f
        BY <1>1, <2>2, <3>1
      <4>1. func_fiber[u] \in Fiber \ {f}
        BY <3>1, <4>0 DEF TypeOK
      <4> QED BY <1>1, <1>2, <3>1, <4>1, ZenonT(60) DEF FiberInv, FuncFiberFree
    <3> QED BY <2>3, <3>1 DEF FuncFiberFree
  <2>7. LiveHeld' /\ NoneIsEmpty'
    BY <1>1, <1>2, <2>4, ZenonT(60) DEF FiberInv, LiveHeld, NoneIsEmpty, isDone
  <2>8. ContinuationKept'
    <3>1. ASSUME NEW j \in Job, life'[j] = "begun", m_func'[f] # j
          PROVE  \E g \in Fiber : m_func'[g] = j /\ ~isDone(g)'
      <4>1. PICK g \in Fiber : m_func[g] = j /\ ~isDone(g)
        BY <1>1, <3>1 DEF FiberInv, ContinuationKept
      <4>2. g # f
        BY <2>2, <4>1
      <4> QED BY <1>1, <4>1, <4>2 DEF isDone
    <3>2. ~isDone(f)'
      BY <1>1 DEF isDone
    <3> QED BY <3>1, <3>2 DEF ContinuationKept, isDone
  <2> QED BY <2>5, <2>6, <2>7, <2>8 DEF FiberInv
<1> QED BY <1>3, <1>4

\* run() up to the call.
LEMMA ResumeFibers ==
  ASSUME TypeOK, FiberInv, NEW t \in Thread, Resume(t)
  PROVE  FiberInv'
<1> USE DEF queueVars, countVars, fiberVars, runVars, idleVars, restVars, waitVars,
            jobVars, userVars, Goto
<1>1. CASE CallFiber(t) \/ CallFunc(t)
  BY <1>1, CallFibers
<1>2. CASE CountActive(t) \/ CallShared(t)
  <2>1. UNCHANGED <<fiberVars, tk, func_fiber, cur, life, m_tasks>>
    BY <1>2 DEF CountActive, CallShared, abort
  <2>2. \A u \in Thread : SamePlace(u)
    BY <1>2 DEF CountActive, CallShared, abort, SamePlace, Busy, Stack, TypeOK
  <2> QED BY <2>1, <2>2, QuietKeeps DEF queued
<1>3. CASE SkipDone(t)
  <2>1. /\ pc[t] = "dispatch" /\ pc'[t] = "notask" /\ isDone(tk[t].fiber)
        /\ \A u \in Thread \ {t} : pc'[u] = pc[u]
        /\ UNCHANGED <<m_state, m_func, tk, func_fiber, cur, life, m_tasks>>
    BY <1>3 DEF SkipDone, tickleOthers, TypeOK
  <2>2. \A u \in Thread : left(u)' = left(u) /\ (runsFunc(u)' <=> runsFunc(u))
    BY <2>1 DEF left, isFiberTask, runsFunc, Stack
  <2>3. \A u \in Thread, f \in Fiber : holds(u, f) => holds(u, f)' \/ isDone(f)
    BY <2>1 DEF holds
  <2>4. OnItsFiber' /\ FuncFiberOwn' /\ FuncFiberFree'
    BY <2>1, <2>2 DEF FiberInv, OnItsFiber, FuncFiberOwn, FuncFiberFree, Stack
  <2>5. LiveHeld' /\ NoneIsEmpty' /\ ContinuationKept'
    BY <2>1, <2>3 DEF FiberInv, LiveHeld, NoneIsEmpty, ContinuationKept, isDone, queued
  <2> QED BY <2>4, <2>5 DEF FiberInv
<1> QED BY <1>1, <1>2, <1>3 DEF Resume

\* The fiber gives up its stack: only the job that ends loses its fiber.
LEMMA LeaveFibers ==
  ASSUME TypeOK, FiberInv, NEW t \in Thread, pc[t] \in {"run", "park"},
         NEW state \in {"READY", "SUSPEND", "TERM", "EXCEPT"}, leaveAs(t, state),
         UNCHANGED <<m_func, tk, func_fiber, cur>>,
         \A f \in Fiber : queued(f) => queued(f)',
         \A j \in Job : life'[j] = "begun" =>
           life[j] = "begun" /\ (state \in {"TERM", "EXCEPT"} => m_func[cur[t]] # j)
  PROVE  FiberInv'
<1>1. /\ cur[t] \in Fiber /\ cur[t] = left(t) /\ pc'[t] = "swap" /\ m_state'[cur[t]] = state
      /\ \A u \in Thread \ {t} : pc'[u] = pc[u]
      /\ \A g \in Fiber \ {cur[t]} : m_state'[g] = m_state[g]
  BY DEF leaveAs, Goto, TypeOK, FiberInv, OnItsFiber, Stack
<1>2. \A u \in Thread : left(u)' = left(u) /\ (runsFunc(u)' <=> runsFunc(u))
  BY <1>1 DEF left, isFiberTask, runsFunc, Stack
<1>3. /\ \A u \in Thread, f \in Fiber : holds(u, f) => holds(u, f)'
      /\ holds(t, cur[t])'
  BY <1>1 DEF holds, Busy, left, isFiberTask
<1>4. OnItsFiber' /\ FuncFiberOwn' /\ FuncFiberFree'
  <2>1. OnItsFiber'
    BY <1>1, <1>2 DEF FiberInv, OnItsFiber, Stack
  <2> QED BY <1>2, <2>1 DEF FiberInv, FuncFiberOwn, FuncFiberFree
<1>5. LiveHeld' /\ NoneIsEmpty'
  <2>1. \A f \in Fiber \ {cur[t]} : /\ m_state'[f] = m_state[f]
                                    /\ isDone(f)' <=> isDone(f)
    BY <1>1 DEF isDone
  <2>2. LiveHeld'
    BY <1>3, <2>1 DEF FiberInv, LiveHeld
  <2>3. m_state'[cur[t]] # "NONE"
    BY <1>1
  <2> QED BY <2>1, <2>2, <2>3 DEF FiberInv, NoneIsEmpty
<1>6. ContinuationKept'
  <2>1. ASSUME NEW j \in Job, life'[j] = "begun"
        PROVE  \E f \in Fiber : m_func'[f] = j /\ ~isDone(f)'
    <3>1. PICK f \in Fiber : m_func[f] = j /\ ~isDone(f)
      BY <2>1 DEF FiberInv, ContinuationKept, isDone
    <3>2. CASE f = cur[t]
      BY <1>1, <2>1, <3>1, <3>2 DEF isDone
    <3>3. CASE f # cur[t]
      BY <1>1, <3>1, <3>3 DEF isDone
    <3> QED BY <3>1, <3>2, <3>3
  <2> QED BY <2>1 DEF ContinuationKept, isDone
<1> QED BY <1>4, <1>5, <1>6 DEF FiberInv

\* A new fiber is one that is not in use.
LEMMA SubmitFibers ==
  ASSUME TypeOK, FiberInv, UNCHANGED <<pc, tk, func_fiber, cur>>,
         NEW j \in Job, NEW kind \in Kinds, NEW thr \in Pins, Submit(j, kind, thr)
  PROVE  FiberInv'
<1>0. \A x \in Job : life'[x] = "begun" => life[x] = "begun"
  BY DEF Submit, TypeOK
<1>1. thr \in Thread \cup {Null} /\ j \in Func
  BY ConstantsAssumption DEF Func
<1>2. \A u \in Thread : left(u)' = left(u) /\ (runsFunc(u)' <=> runsFunc(u))
  BY DEF left, isFiberTask, runsFunc
<1>3. \A u \in Thread, f \in Fiber : holds(u, f)' <=> holds(u, f)
  BY DEF holds
<1>4. OnItsFiber' /\ FuncFiberOwn'
  BY <1>2 DEF FiberInv, OnItsFiber, FuncFiberOwn
<1>5. CASE kind = "func"
  <2>1. schedule(<<FuncTask(j, thr)>>) /\ UNCHANGED <<m_state, m_func>>
    BY <1>5 DEF Submit, fiberVars
  <2>2. FuncTask(j, thr) \in Task
    BY <1>1 DEF FuncTask, Task
  <2>3. \A f \in Fiber : queued(f) => queued(f)'
    BY <2>1, <2>2, ScheduleQueues
  <2> QED BY <1>0, <1>2, <1>3, <1>4, <2>1, <2>3
          DEF FiberInv, FuncFiberFree, LiveHeld, NoneIsEmpty, ContinuationKept, isDone
<1>6. CASE kind = "fiber"
  <2>1. PICK f \in Fiber : /\ ~inUse(f) /\ schedule(<<FiberTask(f, thr)>>)
                           /\ m_state' = [m_state EXCEPT ![f] = "READY"]
                           /\ m_func' = [m_func EXCEPT ![f] = j]
    BY <1>6 DEF Submit, NewFiber
  <2>2. FiberTask(f, thr) \in Task /\ FiberTask(f, thr).fiber = f
    BY <1>1 DEF FiberTask, Task
  <2>3. queued(f)' /\ \A g \in Fiber : queued(g) => queued(g)'
    BY <2>1, <2>2, ScheduleQueues
  <2>4. /\ \A t \in Thread : func_fiber[t] # f
        /\ m_func[f] \in Job => isDone(f)
    BY <2>1, FreeFiber
  <2>5. /\ m_state'[f] = "READY" /\ m_func'[f] = j
        /\ \A g \in Fiber \ {f} : m_state'[g] = m_state[g] /\ m_func'[g] = m_func[g]
    BY <2>1 DEF TypeOK
  <2>6. FuncFiberFree'
    <3>1. \A t \in Thread : func_fiber[t] # Null => func_fiber[t] \in Fiber \ {f}
      BY <2>4 DEF TypeOK
    <3> QED BY <1>2, <2>5, <3>1 DEF FiberInv, FuncFiberFree
  <2>7. LiveHeld' /\ NoneIsEmpty'
    BY <1>3, <2>3, <2>5 DEF FiberInv, LiveHeld, NoneIsEmpty, isDone
  <2>8. ContinuationKept'
    <3>1. ASSUME NEW x \in Job, life'[x] = "begun"
          PROVE  \E g \in Fiber : m_func'[g] = x /\ ~isDone(g)'
      <4>1. PICK g \in Fiber : m_func[g] = x /\ ~isDone(g)
        BY <1>0, <3>1 DEF FiberInv, ContinuationKept, isDone
      <4>2. g # f
        BY <2>4, <4>1
      <4> QED BY <2>5, <4>1, <4>2 DEF isDone
    <3> QED BY <3>1 DEF ContinuationKept, isDone
  <2> QED BY <1>4, <2>6, <2>7, <2>8 DEF FiberInv
<1> QED BY <1>5, <1>6 DEF Submit

\* What the running fiber does.
LEMMA BodyFibers ==
  ASSUME TypeOK, FiberInv, NEW t \in Thread, Body(t)
  PROVE  FiberInv'
<1> USE DEF queueVars, countVars, fiberVars, runVars, idleVars, restVars, waitVars,
            jobVars, userVars, Goto
<1>1. CASE Return(t) \/ Throw(t)
  <2>1. /\ pc[t] = "run" /\ UNCHANGED <<m_func, tk, func_fiber, cur, m_tasks>>
        /\ leaveAs(t, "TERM") \/ leaveAs(t, "EXCEPT")
    BY <1>1 DEF Return, Throw, running
  <2>2. \A j \in Job : life'[j] = "begun" => life[j] = "begun" /\ m_func[cur[t]] # j
    BY <1>1, ConstantsAssumption, SMTT(60) DEF Return, Throw, running, TypeOK, Func
  <2> QED BY <2>1, <2>2, LeaveFibers DEF queued
<1>2. CASE WakeSleeper(t)
  <2>1. PICK f \in Fiber : running(t, WakeUp(f)) /\ schedule(<<FiberTask(f, Null)>>)
    BY <1>2 DEF WakeSleeper
  <2>2. /\ pc[t] = "run" /\ UNCHANGED <<m_func, tk, func_fiber, cur, life>> /\ leaveAs(t, "TERM")
    BY <1>2, <2>1 DEF WakeSleeper, running
  <2>3. \A j \in Job : m_func[cur[t]] # j
    BY <2>1, ConstantsAssumption DEF running, WakeUps
  <2>4. FiberTask(f, Null) \in Task
    BY DEF FiberTask, Task
  <2>5. \A g \in Fiber : queued(g) => queued(g)'
    BY <2>1, <2>4, ScheduleQueues
  <2> QED BY <2>2, <2>3, <2>5, LeaveFibers
<1>3. CASE YieldReady(t) \/ Yield(t)
  <2>1. /\ pc[t] \in {"run", "park"} /\ UNCHANGED <<m_func, tk, func_fiber, cur, m_tasks, life>>
        /\ leaveAs(t, "READY") \/ leaveAs(t, "SUSPEND")
    BY <1>3 DEF YieldReady, Yield, operate, running
  <2> QED BY <2>1, LeaveFibers DEF queued
<1>4. CASE Sleep(t) \/ WaitEvent(t)
  <2>1. UNCHANGED <<fiberVars, tk, func_fiber, cur, life, m_tasks>>
    BY <1>4 DEF Sleep, WaitEvent
  <2>2. pc[t] = "run" /\ pc'[t] = "park" /\ \A u \in Thread \ {t} : pc'[u] = pc[u]
    BY <1>4 DEF Sleep, WaitEvent, operate, running, TypeOK
  <2>3. \A u \in Thread : SamePlace(u)
    BY <2>2 DEF SamePlace, Busy, Stack
  <2> QED BY <2>1, <2>3, QuietKeeps DEF queued
<1>5. CASE Spawn(t)
  <2>1. PICK j \in Job, kind \in Kinds, thr \in Pins : Submit(j, kind, thr)
    BY <1>5 DEF Spawn
  <2>2. UNCHANGED <<pc, tk, func_fiber, cur>>
    BY <1>5 DEF Spawn
  <2> QED BY <2>1, <2>2, SubmitFibers
<1>6. CASE ScheduleSelf(t)
  <2>1. UNCHANGED <<pc, fiberVars, tk, func_fiber, cur, life>> /\ schedule(<<FiberTask(cur[t], Null)>>)
    BY <1>6 DEF ScheduleSelf
  <2>2. FiberTask(cur[t], Null) \in Task
    BY DEF FiberTask, Task, TypeOK
  <2>3. \A g \in Fiber : queued(g) => queued(g)'
    BY <2>1, <2>2, ScheduleQueues
  <2> QED BY <2>1, <2>3, QuietKeeps DEF SamePlace
<1>7. CASE Swap(t)
  <2>1. /\ pc[t] = "swap" /\ pc'[t] = "back"
        /\ \A u \in Thread \ {t} : pc'[u] = pc[u] /\ cur'[u] = cur[u]
        /\ UNCHANGED <<m_state, m_func, tk, func_fiber, life, m_tasks>>
    BY <1>7 DEF Swap, TypeOK
  <2>2. \A u \in Thread : left(u)' = left(u) /\ (runsFunc(u)' <=> runsFunc(u))
    BY <2>1 DEF left, isFiberTask, runsFunc, Stack
  <2>3. \A u \in Thread, f \in Fiber : holds(u, f) => holds(u, f)'
    BY <2>1 DEF holds, Busy
  <2>4. OnItsFiber' /\ FuncFiberOwn' /\ FuncFiberFree'
    BY <2>1, <2>2 DEF FiberInv, OnItsFiber, FuncFiberOwn, FuncFiberFree, Stack
  <2>5. LiveHeld' /\ NoneIsEmpty' /\ ContinuationKept'
    BY <2>1, <2>3 DEF FiberInv, LiveHeld, NoneIsEmpty, ContinuationKept, isDone, queued
  <2> QED BY <2>4, <2>5 DEF FiberInv
<1> QED BY <1>1, <1>2, <1>3, <1>4, <1>5, <1>6, <1>7 DEF Body

\* Back in run(): a fiber that is not done is put back, or is left by all but
\* whoever will wake it; func_fiber is kept only without a function.
LEMMA AfterFibers ==
  ASSUME TypeOK, FiberInv, NEW t \in Thread, After(t)
  PROVE  FiberInv'
<1> USE DEF queueVars, countVars, fiberVars, runVars, idleVars, restVars, waitVars,
            jobVars, userVars, Goto
<1>1. CASE CountInactive(t) \/ ResetShared(t)
  <2>1. UNCHANGED <<fiberVars, tk, func_fiber, cur, life, m_tasks>>
    BY <1>1 DEF CountInactive, ResetShared, abort
  <2>2. \A u \in Thread : SamePlace(u)
    BY <1>1 DEF CountInactive, ResetShared, abort, SamePlace, Busy, Stack, TypeOK
  <2> QED BY <2>1, <2>2, QuietKeeps DEF queued
<1>2. CASE Reschedule(t) \/ LetGo(t)
  <2>1. /\ pc[t] = "resched" /\ pc'[t] = "find" /\ tk'[t].fiber = Null
        /\ func_fiber'[t] = IF isFiberTask(t) THEN func_fiber[t] ELSE Null
        /\ \A u \in Thread \ {t} : /\ pc'[u] = pc[u] /\ tk'[u] = tk[u]
                                   /\ func_fiber'[u] = func_fiber[u]
        /\ UNCHANGED <<m_state, m_func, cur, life>>
    BY <1>2, SMTT(60) DEF Reschedule, LetGo, EmptyTask, TypeOK
  <2>2. \A f \in Fiber : queued(f) \/ (f = left(t) /\ m_state[f] = "READY") => queued(f)'
    <3>1. CASE Reschedule(t)
      <4>1. schedule(<<FiberTask(left(t), Null)>>)
        BY <3>1 DEF Reschedule
      <4>2. FiberTask(left(t), Null) \in Task /\ FiberTask(left(t), Null).fiber = left(t)
        BY DEF FiberTask, Task, left, TypeOK
      <4>3. \A f \in Fiber : queued(f)' <=> queued(f) \/ left(t) = f
        BY <4>1, <4>2, ScheduleQueues
      <4> QED BY <4>3
    <3>2. CASE LetGo(t)
      BY <3>2 DEF LetGo, queued
    <3> QED BY <1>2, <3>1, <3>2
  <2>3. \A u \in Thread \ {t} : /\ left(u)' = left(u) /\ (runsFunc(u)' <=> runsFunc(u))
                                /\ \A f \in Fiber : holds(u, f)' <=> holds(u, f)
    BY <2>1 DEF left, isFiberTask, runsFunc, holds
  <2>4. \A f \in Fiber : holds(t, f) => holds(t, f)' \/ f = left(t)
    BY <2>1 DEF holds, left, isFiberTask
  <2>5. OnItsFiber' /\ FuncFiberOwn'
    <3>1. OnItsFiber'
      BY <2>1, <2>3 DEF FiberInv, OnItsFiber, runsFunc, Stack
    <3>2. \A u \in Thread : func_fiber'[u] # Null => func_fiber'[u] = func_fiber[u]
      BY <2>1
    <3> QED BY <3>1, <3>2 DEF FiberInv, FuncFiberOwn
  <2>6. FuncFiberFree'
    <3>1. func_fiber'[t] # Null => func_fiber'[t] = func_fiber[t] /\ ~runsFunc(t)
      BY <2>1 DEF isFiberTask, runsFunc
    <3> QED BY <2>1, <2>3, <3>1 DEF FiberInv, FuncFiberFree
  <2>7. LiveHeld'
    <3>1. \A f \in Fiber : m_func[f] \in Job /\ ~isDone(f) =>
            m_state[f] \in {"RUNNING", "SUSPEND", "READY"}
      BY ConstantsAssumption, ZenonT(60) DEF FiberInv, NoneIsEmpty, isDone, TypeOK, States, Func
    <3> QED BY <2>1, <2>2, <2>3, <2>4, <3>1 DEF FiberInv, LiveHeld, isDone
  <2>8. NoneIsEmpty' /\ ContinuationKept'
    BY <2>1 DEF FiberInv, NoneIsEmpty, ContinuationKept, isDone
  <2> QED BY <2>5, <2>6, <2>7, <2>8 DEF FiberInv
<1>3. CASE KeepFuncFiber(t)
  <2>1. PICK f \in Fiber : f = left(t) /\ f = func_fiber[t]
    BY <1>3 DEF KeepFuncFiber, left, isFiberTask, FiberInv, OnItsFiber, runsFunc, Stack, TypeOK
  <2>2. /\ pc[t] = "resched" /\ pc'[t] = "find" /\ isDone(f) /\ tk[t].fiber = Null
        /\ m_state'[f] = "READY" /\ m_func'[f] = Null
        /\ \A u \in Thread \ {t} : pc'[u] = pc[u]
        /\ \A g \in Fiber \ {f} : m_state'[g] = m_state[g] /\ m_func'[g] = m_func[g]
        /\ UNCHANGED <<tk, func_fiber, cur, life, m_tasks>>
    BY <1>3, <2>1 DEF KeepFuncFiber, isFiberTask, TypeOK
  <2>3. \A u \in Thread \ {t} : left(u)' = left(u) /\ (runsFunc(u)' <=> runsFunc(u))
    BY <2>2 DEF left, isFiberTask, runsFunc
  <2>4. \A u \in Thread, g \in Fiber : holds(u, g) => holds(u, g)'
    <3>1. tk[t].fiber \notin Fiber
      BY <2>2, ConstantsAssumption
    <3> QED BY <2>2, <3>1 DEF holds
  <2>5. OnItsFiber' /\ FuncFiberOwn'
    BY <2>2, <2>3 DEF FiberInv, OnItsFiber, FuncFiberOwn, runsFunc, Stack
  <2>6. FuncFiberFree'
    <3>1. ASSUME NEW u \in Thread, func_fiber[u] # Null, ~runsFunc(u)'
          PROVE  m_func'[func_fiber[u]] = Null
      <4>1. CASE u = t
        BY <2>1, <2>2, <4>1
      <4>2. CASE u # t
        <5>1. func_fiber[u] \in Fiber \ {f}
          BY <2>1, <3>1, <4>2, ConstantsAssumption DEF FiberInv, FuncFiberOwn, TypeOK
        <5> QED BY <2>2, <2>3, <3>1, <4>2, <5>1 DEF FiberInv, FuncFiberFree
      <4> QED BY <4>1, <4>2
    <3> QED BY <2>2, <3>1 DEF FuncFiberFree
  <2>7. LiveHeld' /\ NoneIsEmpty'
    <3>1. \A g \in Fiber \ {f} : isDone(g)' <=> isDone(g)
      BY <2>2 DEF isDone
    <3>2. m_func'[f] \notin Job /\ m_state'[f] # "NONE"
      BY <2>2, ConstantsAssumption DEF Func
    <3>3. LiveHeld'
      BY <2>2, <2>4, <3>1, <3>2 DEF FiberInv, LiveHeld, queued
    <3> QED BY <2>2, <3>2, <3>3 DEF FiberInv, NoneIsEmpty
  <2>8. ContinuationKept'
    <3>1. ASSUME NEW j \in Job, life'[j] = "begun"
          PROVE  \E g \in Fiber : m_func'[g] = j /\ ~isDone(g)'
      <4>1. PICK g \in Fiber : m_func[g] = j /\ ~isDone(g)
        BY <2>2, <3>1 DEF FiberInv, ContinuationKept, isDone
      <4>2. g # f
        BY <2>2, <4>1
      <4> QED BY <2>2, <4>1, <4>2 DEF isDone
    <3> QED BY <3>1 DEF ContinuationKept, isDone
  <2> QED BY <2>5, <2>6, <2>7, <2>8 DEF FiberInv
<1> QED BY <1>1, <1>2, <1>3 DEF After

\* The functions of expired timers as tasks.
LEMMA ExpiredTasks ==
  ASSUME TypeOK, NEW t \in Thread
  PROVE  [i \in 1..Len(expired[t]) |-> FuncTask(expired[t][i], Null)] \in Seq(Task)
<1>1. Len(expired[t]) \in Nat /\ \A i \in 1..Len(expired[t]) : expired[t][i] \in WakeUps
  BY SeqElements DEF TypeOK
<1>2. \A i \in 1..Len(expired[t]) : FuncTask(expired[t][i], Null) \in Task
  BY <1>1 DEF FuncTask, Task, Func
<1> QED BY <1>1, <1>2, FunctionIsSeq

\* In and around the idle fiber; a worker that exits has a func_fiber without a
\* function.
LEMMA IdleFibers ==
  ASSUME TypeOK, FiberInv, NEW t \in Thread, Idle(t)
  PROVE  FiberInv'
<1> USE DEF queueVars, countVars, fiberVars, runVars, idleVars, restVars, waitVars,
            jobVars, userVars, Goto
<1>1. CASE Exit(t)
  <2>1. /\ pc[t] = "notask" /\ pc'[t] = "exited" /\ func_fiber'[t] = Null
        /\ \A u \in Thread \ {t} : /\ pc'[u] = pc[u] /\ tk'[u] = tk[u]
                                   /\ func_fiber'[u] = func_fiber[u]
        /\ UNCHANGED <<m_state, m_func, cur, life, m_tasks>>
    BY <1>1 DEF Exit, TypeOK
  <2>2. \A u \in Thread \ {t} : /\ left(u)' = left(u) /\ (runsFunc(u)' <=> runsFunc(u))
                                /\ \A f \in Fiber : holds(u, f)' <=> holds(u, f)
    BY <2>1 DEF left, isFiberTask, runsFunc, holds
  <2>3. \A f \in Fiber : holds(t, f) => m_func[f] = Null
    BY <2>1, ConstantsAssumption DEF holds, Busy, FiberInv, FuncFiberFree, runsFunc, Stack
  <2>4. OnItsFiber' /\ FuncFiberOwn' /\ FuncFiberFree'
    <3>1. pc'[t] \notin Stack /\ ~runsFunc(t)'
      BY <2>1 DEF runsFunc, Stack
    <3>2. OnItsFiber'
      BY <2>1, <2>2, <3>1 DEF FiberInv, OnItsFiber
    <3>3. FuncFiberOwn'
      BY <2>1 DEF FiberInv, FuncFiberOwn
    <3>4. FuncFiberFree'
      BY <2>1, <2>2 DEF FiberInv, FuncFiberFree
    <3> QED BY <3>2, <3>3, <3>4
  <2>5. LiveHeld'
    <3>1. \A f \in Fiber : m_func[f] \in Job => ~holds(t, f)
      BY <2>3, ConstantsAssumption DEF Func
    <3> QED BY <2>1, <2>2, <3>1 DEF FiberInv, LiveHeld, isDone, queued
  <2>6. NoneIsEmpty' /\ ContinuationKept'
    BY <2>1 DEF FiberInv, NoneIsEmpty, ContinuationKept, isDone
  <2> QED BY <2>4, <2>5, <2>6 DEF FiberInv
<1>2. CASE ~Exit(t)
  <2>1. /\ pc[t] \in IdleLabels \cup {"notask"} /\ pc'[t] \in IdleLabels \cup {"find"}
        /\ \A u \in Thread \ {t} : pc'[u] = pc[u]
    BY <1>2, ZenonT(60) DEF Idle, EnterIdle, CheckTimers, CheckDone, EpollWait, CollectExpired,
                EnqueueExpired, HandleEvent, Drain, LeaveIdle, IdleLabels, TypeOK
  <2>2. UNCHANGED <<fiberVars, tk, func_fiber, cur, life>>
    BY <1>2 DEF Idle, EnterIdle, CheckTimers, CheckDone, EpollWait, CollectExpired,
                EnqueueExpired, HandleEvent, Drain, LeaveIdle
  <2>3. m_tasks' = m_tasks \/ \E new \in Seq(Task) : schedule(new)
    <3>1. CASE EnqueueExpired(t)
      <4>1. [i \in 1..Len(expired[t]) |-> FuncTask(expired[t][i], Null)] \in Seq(Task)
        BY ExpiredTasks
      <4> QED BY <3>1, <4>1 DEF EnqueueExpired
    <3>2. CASE HandleEvent(t)
      <4>1. ASSUME NEW f \in Fiber PROVE <<FiberTask(f, Null)>> \in Seq(Task)
        BY SMTT(60) DEF FiberTask, Task
      <4> QED BY <3>2, <4>1 DEF HandleEvent, TypeOK
    <3> QED BY <1>2, <3>1, <3>2 DEF Idle, EnterIdle, CheckTimers, CheckDone, EpollWait,
               CollectExpired, Drain, LeaveIdle
  <2>4. \A f \in Fiber : queued(f) => queued(f)'
    BY <2>3, ScheduleKeepsQueue DEF queued
  <2>5. \A u \in Thread : SamePlace(u)
    BY <2>1 DEF SamePlace, Busy, Stack, IdleLabels
  <2> QED BY <2>2, <2>4, <2>5, QuietKeeps
<1> QED BY <1>1, <1>2

\* The user thread: workers begin and end outside their tasks.
LEMMA UserFibers ==
  ASSUME SchedulerInv, FiberInv, UserStep
  PROVE  FiberInv'
<1> USE DEF queueVars, countVars, fiberVars, runVars, idleVars, restVars, waitVars,
            jobVars, userVars
<1>1. CASE UserSchedule
  <2>1. PICK j \in Job, kind \in Kinds, thr \in Pins : Submit(j, kind, thr)
    BY <1>1 DEF UserSchedule
  <2>2. UNCHANGED <<pc, tk, func_fiber, cur>>
    BY <1>1 DEF UserSchedule
  <2> QED BY <2>1, <2>2, SubmitFibers DEF SchedulerInv
<1>2. CASE ~UserSchedule
  <2>1. UNCHANGED <<fiberVars, tk, func_fiber, cur, life, m_tasks>>
    BY <1>2 DEF UserStep, StopStep, StopTickle, StopReturn, Start, Stop
  <2>2. \A u \in Thread : SamePlace(u)
    <3>1. CASE Start
      BY <3>1 DEF Start, SchedulerInv, OffWhenStopped, SamePlace, Busy, Stack
    <3>2. CASE StopReturn
      BY <3>2 DEF StopReturn, joined, SamePlace, Busy, Stack
    <3> QED BY <1>2, <3>1, <3>2 DEF UserStep, StopStep, StopTickle, Stop, SamePlace
  <2> QED BY <2>1, <2>2, QuietKeeps DEF queued
<1> QED BY <1>1, <1>2

\* No fiber is anybody's when start() has returned.
LEMMA InitFibers ==
  ASSUME Init
  PROVE  FiberInv
BY ConstantsAssumption, SMTT(60) DEF Init, FiberInv, OnItsFiber, FuncFiberOwn, FuncFiberFree,
       LiveHeld, NoneIsEmpty, ContinuationKept, runsFunc, Stack, Func

\* Every step of a worker or of user code keeps whose fiber is whose.
LEMMA StepFibers ==
  ASSUME SchedulerInv, FiberInv, [Next]_vars
  PROVE  FiberInv'
<1>0. TypeOK
  BY DEF SchedulerInv
<1>1. ASSUME NEW t \in Thread, Worker(t) PROVE FiberInv'
  BY <1>0, <1>1, FindFibers, ResumeFibers, BodyFibers, AfterFibers, IdleFibers DEF Worker
<1>2. CASE UserStep
  BY <1>2, UserFibers
<1>3. CASE UNCHANGED vars
  BY <1>3, QuietKeeps DEF vars, queueVars, fiberVars, runVars, jobVars, queued, SamePlace
<1> QED BY <1>1, <1>2, <1>3 DEF Next, Spin, Rest

-----------------------------------------------------------------------------
(* The pool whose jobs do not suspend *)

\* No job sleeps, waits for IO or schedules its own fiber.
NoWaits == Ops \cap {"sleep", "wait", "self"} = {}

\* Worker t has taken function fn and not called it yet.
Taking == {"count", "dispatch"}
has(t, fn)     == pc[t] \in Taking /\ tk[t].func = fn
funcQueued(fn) == \E i \in DOMAIN m_tasks : m_tasks[i].func = fn

\* A task is a fiber or a function, and nothing is in the queue twice.
Proper(x) == x.fiber = Null <=> x.func # Null
Clash(x, y) == \/ x.fiber = y.fiber /\ x.fiber # Null
               \/ x.func = y.func /\ x.func # Null
QueueApart == /\ \A i \in DOMAIN m_tasks : Proper(m_tasks[i])
              /\ \A i, k \in DOMAIN m_tasks : i # k => ~Clash(m_tasks[i], m_tasks[k])

\* No timer or IO event is ever registered, and no function is a timer's.
NoWakeUps ==
  /\ \A fn \in WakeUps : ~funcQueued(fn)
  /\ \A fn \in WakeUps, f \in Fiber : m_func[f] # fn
  /\ \A fn \in WakeUps, t \in Thread : ~has(t, fn)
NobodyWaits ==
  /\ \A f \in Fiber : timers[f] = 0
  /\ events = {}
  /\ \A t \in Thread : pc[t] \notin {"park", "enqueue"}

\* A fiber in the queue is READY and no worker has it,
QueuedReady ==
  \A f \in Fiber : queued(f) => m_state[f] = "READY" /\ \A t \in Thread : ~holds(t, f)
\* no two workers have the same fiber,
OneHolder == \A f \in Fiber, t, u \in Thread : holds(t, f) /\ holds(u, f) => t = u
\* a worker's task is not its func_fiber,
OwnTask ==
  \A t \in Thread : pc[t] \in Busy /\ tk[t].fiber # Null => tk[t].fiber # func_fiber[t]
\* and the fiber a worker has taken is READY until it calls it.
TakenReady ==
  \A t \in Thread : pc[t] \in Taking =>
    Proper(tk[t]) /\ (tk[t].fiber # Null => m_state[tk[t].fiber] = "READY")

\* The fibers on workers' stacks are the running ones.
OnStack     == \A t \in Thread : cur[t] # Null => pc[t] \in Stack
RunsRunning == \A t \in Thread : pc[t] = "run" => m_state[cur[t]] = "RUNNING"
RunningRuns == \A f \in Fiber : m_state[f] \in {"RUNNING", "SUSPEND"} =>
                 \E t \in Thread : pc[t] = "run" /\ cur[t] = f

\* A job has one fiber,
OneFiber == \A f, g \in Fiber : m_func[f] \in Job /\ m_func[f] = m_func[g] => f = g
\* or is a function in the queue or with one worker, not called yet;
FuncOnce ==
  /\ \A j \in Job, t \in Thread : ~(funcQueued(j) /\ has(t, j))
  /\ \A j \in Job, t, u \in Thread : has(t, j) /\ has(u, j) => t = u
pending(j) == funcQueued(j) \/ \E t \in Thread : has(t, j)
PendingIsNew ==
  \A j \in Job : pending(j) => life[j] = "scheduled" /\ \A f \in Fiber : m_func[f] # j
\* life tells which.
FiberLife == \A f \in Fiber, j \in Job : m_func[f] = j =>
               life[j] # "fresh" /\ (life[j] = "ended" => isDone(f))
RunsBegun == \A t \in Thread, j \in Job : pc[t] = "run" /\ m_func[cur[t]] = j => life[j] = "begun"
JobsHeld  == \A j \in Job : life[j] = "scheduled" =>
               pending(j) \/ \E f \in Fiber : m_func[f] = j /\ ~isDone(f)

PoolCore == /\ QueueApart /\ NoWakeUps /\ NobodyWaits
            /\ QueuedReady /\ OneHolder /\ OwnTask /\ TakenReady
            /\ OnStack /\ RunsRunning /\ RunningRuns
            /\ OneFiber /\ FuncOnce /\ PendingIsNew /\ FiberLife /\ RunsBegun /\ JobsHeld

\* While there are tasks some worker is there to take them: one whose idle
\* fiber has ended exits only after it has seen an empty queue.
leaves(t) == pc[t] = "exited" \/ (pc[t] = "notask" /\ idle_done[t])
SomeoneLeft ==
  /\ user # "stopped" /\ m_tasks # <<>> => \E t \in Thread : ~leaves(t)
  /\ \A t \in Thread : pc[t] = "exited" => idle_done[t]

PoolTaskInv == PoolCore /\ SomeoneLeft /\ NoFault /\ ActiveCountExact

\* schedule() of a task whose fiber or function is not in the queue yet.
LEMMA ScheduleApart ==
  ASSUME TypeOK, QueueApart, NEW x \in Task, schedule(<<x>>), Proper(x),
         x.fiber # Null => ~queued(x.fiber), x.func # Null => ~funcQueued(x.func)
  PROVE  /\ QueueApart'
         /\ \A f \in Fiber : queued(f)' <=> queued(f) \/ x.fiber = f
         /\ \A fn \in Func : funcQueued(fn)' <=> funcQueued(fn) \/ x.func = fn
<1>2. PICK n \in DOMAIN m_tasks' :
        /\ m_tasks'[n] = x /\ n \notin DOMAIN m_tasks
        /\ \A i \in DOMAIN m_tasks : i \in DOMAIN m_tasks' /\ m_tasks'[i] = m_tasks[i]
        /\ \A i \in DOMAIN m_tasks' : i \in DOMAIN m_tasks \/ i = n
  BY OneMore
<1>3. \A f \in Fiber : queued(f)' <=> queued(f) \/ x.fiber = f
  BY <1>2 DEF queued
<1>4. \A fn \in Func : funcQueued(fn)' <=> funcQueued(fn) \/ x.func = fn
  BY <1>2 DEF funcQueued
<1>5. \A i \in DOMAIN m_tasks : ~Clash(x, m_tasks[i]) /\ ~Clash(m_tasks[i], x)
  BY DEF queued, funcQueued, Clash
<1>6. \A i \in DOMAIN m_tasks' : Proper(m_tasks'[i])
  BY <1>2 DEF QueueApart
<1>7. \A i, k \in DOMAIN m_tasks' : i # k => ~Clash(m_tasks'[i], m_tasks'[k])
  BY <1>2, <1>5 DEF QueueApart
<1>8. QueueApart'
  BY <1>6, <1>7 DEF QueueApart, Proper, Clash
<1> QED BY <1>3, <1>4, <1>8

\* What the first task names is in the queue no longer once it is taken.
LEMMA ShiftApart ==
  ASSUME QueueApart, NEW one \in DOMAIN m_tasks, NEW up, Shifted(one, up)
  PROVE  /\ QueueApart' /\ Proper(m_tasks[one])
         /\ \A f \in Fiber : queued(f)' <=> queued(f) /\ m_tasks[one].fiber # f
         /\ \A fn \in Func : funcQueued(fn)' <=> funcQueued(fn) /\ m_tasks[one].func # fn
<1>1. \A i \in DOMAIN m_tasks : Proper(m_tasks[i])
  BY DEF QueueApart
<1>2. \A i, k \in DOMAIN m_tasks : i # k => ~Clash(m_tasks[i], m_tasks[k])
  BY DEF QueueApart
<1>3. \A k \in DOMAIN m_tasks' : Proper(m_tasks'[k]) /\ ~Clash(m_tasks'[k], m_tasks[one])
  BY <1>1, <1>2 DEF Shifted
<1>4. \A i, k \in DOMAIN m_tasks' : i # k => ~Clash(m_tasks'[i], m_tasks'[k])
  <2> SUFFICES ASSUME NEW i \in DOMAIN m_tasks', NEW k \in DOMAIN m_tasks', i # k
               PROVE  ~Clash(m_tasks'[i], m_tasks'[k])
    OBVIOUS
  <2>1. up[i] \in DOMAIN m_tasks /\ up[k] \in DOMAIN m_tasks /\ up[i] # up[k]
    BY DEF Shifted
  <2>2. ~Clash(m_tasks[up[i]], m_tasks[up[k]])
    BY <2>1, <1>2
  <2> QED BY <2>2 DEF Shifted
<1>5. QueueApart'
  BY <1>3, <1>4 DEF QueueApart, Proper, Clash
<1>6. \A f \in Fiber : queued(f)' <=> queued(f) /\ m_tasks[one].fiber # f
  <2> SUFFICES ASSUME NEW f \in Fiber PROVE queued(f)' <=> queued(f) /\ m_tasks[one].fiber # f
    OBVIOUS
  <2>1. f # Null
    BY ConstantsAssumption
  <2>2. ASSUME NEW k \in DOMAIN m_tasks', m_tasks'[k].fiber = f
        PROVE  queued(f) /\ m_tasks[one].fiber # f
    BY <1>3, <2>1, <2>2 DEF queued, Clash, Shifted
  <2>3. ASSUME NEW i \in DOMAIN m_tasks, m_tasks[i].fiber = f, m_tasks[one].fiber # f
        PROVE  queued(f)'
    BY <2>3, SMTT(60) DEF queued, Shifted
  <2> QED BY <2>2, <2>3 DEF queued
<1>7. \A fn \in Func : funcQueued(fn)' <=> funcQueued(fn) /\ m_tasks[one].func # fn
  <2> SUFFICES ASSUME NEW fn \in Func
               PROVE  funcQueued(fn)' <=> funcQueued(fn) /\ m_tasks[one].func # fn
    OBVIOUS
  <2>1. fn # Null
    BY ConstantsAssumption
  <2>2. ASSUME NEW k \in DOMAIN m_tasks', m_tasks'[k].func = fn
        PROVE  funcQueued(fn) /\ m_tasks[one].func # fn
    BY <1>3, <2>1, <2>2 DEF funcQueued, Clash, Shifted
  <2>3. ASSUME NEW i \in DOMAIN m_tasks, m_tasks[i].func = fn, m_tasks[one].func # fn
        PROVE  funcQueued(fn)'
    BY <2>3, SMTT(60) DEF funcQueued, Shifted
  <2> QED BY <2>2, <2>3 DEF funcQueued
<1> QED BY <1>1, <1>5, <1>6, <1>7

\* A task taken is apart from all that stay in the queue.
LEMMA TakeApart ==
  ASSUME TypeOK, QueueApart, m_tasks # <<>>, m_tasks' = Tail(m_tasks)
  PROVE  \E x \in Task :
         /\ x = Head(m_tasks) /\ QueueApart' /\ Proper(x)
         /\ \A f \in Fiber : queued(f)' <=> queued(f) /\ x.fiber # f
         /\ \A fn \in Func : funcQueued(fn)' <=> funcQueued(fn) /\ x.func # fn
         /\ \A f \in Fiber : x.fiber = f => queued(f)
         /\ \A fn \in Func : x.func = fn => funcQueued(fn)
<1>1. PICK one, up :
        /\ one \in DOMAIN m_tasks
        /\ Head(m_tasks) = m_tasks[one] /\ Head(m_tasks) \in Task /\ Shifted(one, up)
  BY OneLess
<1>2. /\ QueueApart' /\ Proper(m_tasks[one])
      /\ \A f \in Fiber : queued(f)' <=> queued(f) /\ m_tasks[one].fiber # f
      /\ \A fn \in Func : funcQueued(fn)' <=> funcQueued(fn) /\ m_tasks[one].func # fn
  BY <1>1, ShiftApart
<1>3. /\ \A f \in Fiber : m_tasks[one].fiber = f => queued(f)
      /\ \A fn \in Func : m_tasks[one].func = fn => funcQueued(fn)
  BY <1>1 DEF queued, funcQueued
<1>4. m_tasks[one] \in Task /\ m_tasks[one] = Head(m_tasks)
  BY <1>1
<1> HIDE DEF QueueApart
<1> QED BY <1>2, <1>3, <1>4

-----------------------------------------------------------------------------
(* Every step keeps tasks, fibers and jobs apart *)

\* Worker t keeps the task it has, or has put it down.
Still(t) == /\ pc'[t] \in Taking <=> pc[t] \in Taking
            /\ pc[t] \in Taking => tk'[t] = tk[t]
            /\ pc'[t] = "run" <=> pc[t] = "run"
            /\ pc[t] = "run" => cur'[t] = cur[t]
            /\ cur'[t] # Null => pc'[t] \in Stack
            /\ pc'[t] \in Busy => /\ pc[t] \in Busy /\ tk'[t] = tk[t]
                                  /\ func_fiber'[t] = func_fiber[t]
            /\ \A f \in Fiber : holds(t, f)' => holds(t, f)

SameFuncs == \A fn \in Func : funcQueued(fn)' <=> funcQueued(fn)

\* A step that begins, ends and takes no task.
LEMMA StillCore ==
  ASSUME PoolCore, QueueApart', QueuedReady', NobodyWaits', SameFuncs,
         UNCHANGED <<m_state, m_func, life>>, \A t \in Thread : Still(t)
  PROVE  PoolCore'
<1>1. \A t \in Thread, fn \in Func : has(t, fn)' <=> has(t, fn)
  BY DEF has, Still
<1>2. \A fn \in Func : funcQueued(fn)' <=> funcQueued(fn)
  BY DEF SameFuncs
<1>3. \A f \in Fiber : isDone(f)' <=> isDone(f)
  BY DEF isDone
<1>4. NoWakeUps'
  BY <1>1, <1>2 DEF PoolCore, NoWakeUps, Func
<1>5. OneHolder'
  BY DEF PoolCore, OneHolder, Still
<1>6. OwnTask'
  BY DEF PoolCore, OwnTask, Still
<1>7. TakenReady'
  BY DEF PoolCore, TakenReady, Still
<1>8. OnStack'
  BY DEF PoolCore, OnStack, Still
<1>9. RunsRunning'
  <2> SUFFICES ASSUME NEW t \in Thread, pc'[t] = "run" PROVE m_state'[cur'[t]] = "RUNNING"
    BY DEF RunsRunning
  <2>1. pc[t] = "run" /\ cur'[t] = cur[t]
    BY DEF Still
  <2> QED BY <2>1 DEF PoolCore, RunsRunning
<1>10. RunningRuns'
  <2> SUFFICES ASSUME NEW f \in Fiber, m_state'[f] \in {"RUNNING", "SUSPEND"}
               PROVE  \E t \in Thread : pc'[t] = "run" /\ cur'[t] = f
    BY DEF RunningRuns
  <2>1. PICK t \in Thread : pc[t] = "run" /\ cur[t] = f
    BY DEF PoolCore, RunningRuns
  <2> QED BY <2>1 DEF Still
<1>11. OneFiber'
  BY DEF PoolCore, OneFiber
<1>12. FuncOnce'
  BY <1>1, <1>2 DEF PoolCore, FuncOnce, Func
<1>13. \A j \in Job : pending(j)' <=> pending(j)
  BY <1>1, <1>2 DEF pending, Func
<1>14. PendingIsNew'
  BY <1>13 DEF PoolCore, PendingIsNew
<1>15. FiberLife'
  BY <1>3 DEF PoolCore, FiberLife
<1>16. RunsBegun'
  <2> SUFFICES ASSUME NEW t \in Thread, NEW j \in Job, pc'[t] = "run", m_func'[cur'[t]] = j
               PROVE  life'[j] = "begun"
    BY DEF RunsBegun
  <2>1. pc[t] = "run" /\ cur'[t] = cur[t]
    BY DEF Still
  <2> QED BY <2>1 DEF PoolCore, RunsBegun
<1>17. JobsHeld'
  BY <1>3, <1>13 DEF PoolCore, JobsHeld
<1> QED BY <1>4, <1>5, <1>6, <1>7, <1>8, <1>9, <1>10, <1>11, <1>12, <1>14, <1>15, <1>16, <1>17
        DEF PoolCore

\* Worker t keeps the task it has, if it has one.
SameTask(t) == /\ SamePlace(t) /\ (pc[t] \in Busy => tk'[t] = tk[t])
               /\ pc'[t] \in Taking <=> pc[t] \in Taking
               /\ pc'[t] = "run" <=> pc[t] = "run"

\* A step that moves no task.
LEMMA QuietCore ==
  ASSUME PoolCore, UNCHANGED <<m_tasks, m_state, m_func, func_fiber, cur, life>>,
         NobodyWaits', \A t \in Thread : SameTask(t)
  PROVE  PoolCore'
<1>1. \A t \in Thread : Still(t)
  <2>1. /\ \A t \in Thread, f \in Fiber : holds(t, f)' <=> holds(t, f)
        /\ \A t \in Thread : pc[t] \in Taking => pc[t] \in Busy
    BY DEF holds, Taking, Busy, SameTask, SamePlace
  <2>2. \A t \in Thread : cur[t] # Null => pc[t] \in Stack
    BY DEF PoolCore, OnStack
  <2> QED BY <2>1, <2>2 DEF Still, SameTask, SamePlace
<1>2. QueueApart'
  <2>1. QueueApart /\ m_tasks' = m_tasks
    BY DEF PoolCore
  <2> QED BY <2>1 DEF QueueApart
<1>3. QueuedReady'
  BY <1>1 DEF PoolCore, QueuedReady, queued, Still
<1>4. SameFuncs
  BY DEF funcQueued, SameFuncs
<1> QED BY <1>1, <1>2, <1>3, <1>4, StillCore

\* A task moves from the queue to a worker.
LEMMA TakeCore ==
  ASSUME TypeOK, PoolCore, NEW t \in Thread, TakeTask(t)
  PROVE  PoolCore'
<1> USE DEF queueVars, countVars, fiberVars, runVars, idleVars, restVars, waitVars,
            jobVars, userVars, Goto
<1>1. PICK x \in Task :
         /\ x = Head(m_tasks) /\ QueueApart' /\ Proper(x)
         /\ \A f \in Fiber : queued(f)' <=> queued(f) /\ x.fiber # f
         /\ \A fn \in Func : funcQueued(fn)' <=> funcQueued(fn) /\ x.func # fn
         /\ \A f \in Fiber : x.fiber = f => queued(f)
         /\ \A fn \in Func : x.func = fn => funcQueued(fn)
  BY TakeApart DEF TakeTask, PoolCore
<1>2. /\ pc[t] = "find" /\ pc'[t] = "count" /\ tk'[t] = x
      /\ \A u \in Thread \ {t} : pc'[u] = pc[u] /\ tk'[u] = tk[u]
      /\ UNCHANGED <<timers, events, m_state, m_func, func_fiber, cur, life>>
  BY <1>1 DEF TakeTask, TypeOK
<1>3. /\ \A f \in Fiber : holds(t, f)' <=> holds(t, f) \/ x.fiber = f
      /\ \A u \in Thread \ {t}, f \in Fiber : holds(u, f)' <=> holds(u, f)
  BY <1>2 DEF holds, Busy
<1>4. /\ \A fn \in Func : ~has(t, fn) /\ (has(t, fn)' <=> x.func = fn)
      /\ \A u \in Thread \ {t}, fn \in Func : has(u, fn)' <=> has(u, fn)
  BY <1>2 DEF has, Taking
<1>5. \A f \in Fiber : isDone(f)' <=> isDone(f)
  BY <1>2 DEF isDone
<1>6. \A j \in Job : pending(j)' <=> pending(j)
  BY <1>1, <1>4 DEF pending, Func
<1>7. x.fiber # Null => /\ queued(x.fiber) /\ m_state[x.fiber] = "READY"
                        /\ \A u \in Thread : ~holds(u, x.fiber)
  BY <1>1 DEF PoolCore, QueuedReady, Task
<1>8. QueueApart' /\ NobodyWaits'
  BY <1>1, <1>2 DEF PoolCore, NobodyWaits
<1>9. NoWakeUps'
  BY <1>1, <1>2, <1>4 DEF PoolCore, NoWakeUps, Func
<1>10. QueuedReady'
  BY <1>1, <1>2, <1>3 DEF PoolCore, QueuedReady
<1>11. OneHolder'
  <2> SUFFICES ASSUME NEW f \in Fiber, NEW u \in Thread, NEW v \in Thread,
                      holds(u, f)', holds(v, f)'
               PROVE  u = v
    BY DEF OneHolder
  <2>1. CASE x.fiber = f
    <3>1. \A w \in Thread : ~holds(w, f)
      BY <1>7, <2>1, ConstantsAssumption
    <3> QED BY <1>3, <3>1
  <2>2. CASE x.fiber # f
    BY <1>3, <2>2 DEF PoolCore, OneHolder
  <2> QED BY <2>1, <2>2
<1>12. OwnTask'
  <2>1. x.fiber # Null => x.fiber # func_fiber[t]
    BY <1>7 DEF holds
  <2> QED BY <1>2, <2>1 DEF PoolCore, OwnTask
<1>13. TakenReady'
  BY <1>1, <1>2, <1>7 DEF PoolCore, TakenReady, Proper
<1>14. OnStack' /\ RunsRunning'
  BY <1>2 DEF PoolCore, OnStack, RunsRunning, Stack
<1>15. RunningRuns'
  <2> SUFFICES ASSUME NEW f \in Fiber, m_state'[f] \in {"RUNNING", "SUSPEND"}
               PROVE  \E u \in Thread : pc'[u] = "run" /\ cur'[u] = f
    BY DEF RunningRuns
  <2>1. PICK u \in Thread : pc[u] = "run" /\ cur[u] = f
    BY <1>2 DEF PoolCore, RunningRuns
  <2> QED BY <1>2, <2>1
<1>16. FuncOnce'
  <2>1. \A j \in Job, u \in Thread : ~(funcQueued(j)' /\ has(u, j)')
    BY <1>1, <1>4 DEF PoolCore, FuncOnce, Func
  <2>2. \A j \in Job, u, v \in Thread : has(u, j)' /\ has(v, j)' => u = v
    BY <1>1, <1>4 DEF PoolCore, FuncOnce, Func
  <2> QED BY <2>1, <2>2 DEF FuncOnce
<1>17. PendingIsNew' /\ JobsHeld'
  BY <1>2, <1>5, <1>6 DEF PoolCore, PendingIsNew, JobsHeld
<1>18. OneFiber' /\ FiberLife' /\ RunsBegun'
  BY <1>2, <1>5 DEF PoolCore, OneFiber, FiberLife, RunsBegun
<1> QED BY <1>8, <1>9, <1>10, <1>11, <1>12, <1>13, <1>14, <1>15, <1>16, <1>17, <1>18 DEF PoolCore

\* run() resumes the fiber of its task.
LEMMA CallFiberCore ==
  ASSUME TypeOK, FiberInv, PoolCore, NEW t \in Thread, CallFiber(t)
  PROVE  PoolCore'
<1> USE DEF queueVars, countVars, fiberVars, runVars, idleVars, restVars, waitVars,
            jobVars, userVars, Goto
<1>1. PICK f \in Fiber : f = tk[t].fiber
  BY DEF CallFiber, TypeOK, Task
<1>2. /\ pc[t] = "dispatch" /\ pc'[t] = "run" /\ cur'[t] = f
      /\ \A u \in Thread \ {t} : pc'[u] = pc[u] /\ cur'[u] = cur[u]
  BY <1>1 DEF CallFiber, call, TypeOK
<1>s. m_state'[f] = "RUNNING" /\ \A g \in Fiber \ {f} : m_state'[g] = m_state[g]
  BY <1>1 DEF CallFiber, call, TypeOK
<1>l. /\ \A j \in Job : m_func[f] = j => life'[j] = "begun"
      /\ \A j \in Job : m_func[f] # j => life'[j] = life[j]
  BY <1>1 DEF CallFiber, call, TypeOK
<1>u. UNCHANGED <<m_tasks, tk, func_fiber, m_func, timers, events>>
  BY DEF CallFiber, tickleOthers
<1>3. tk[t].func = Null /\ m_state[f] = "READY" /\ f # Null
  <2>1. f # Null /\ pc[t] \in Taking
    BY <1>2, ConstantsAssumption DEF Taking
  <2> QED BY <1>1, <2>1 DEF PoolCore, TakenReady, Proper
<1>4. /\ \A u \in Thread, g \in Fiber : holds(u, g)' <=> holds(u, g)
      /\ holds(t, f) /\ ~queued(f)
      /\ \A u \in Thread : pc'[u] \in Busy => pc[u] \in Busy
  <2>1. \A u \in Thread : pc'[u] \in Busy <=> pc[u] \in Busy
    BY <1>2 DEF Busy
  <2>2. holds(t, f)
    BY <1>1, <1>2 DEF holds, Busy
  <2> QED BY <1>u, <2>1, <2>2 DEF PoolCore, QueuedReady, holds
<1>5. \A u \in Thread, fn \in Func : has(u, fn)' <=> has(u, fn)
  <2>1. \A fn \in Func : fn # Null
    BY ConstantsAssumption
  <2> QED BY <1>2, <1>u, <1>3, <2>1 DEF has, Taking
<1>6. /\ \A g \in Fiber : queued(g)' <=> queued(g)
      /\ \A fn \in Func : funcQueued(fn)' <=> funcQueued(fn)
      /\ \A g \in Fiber : isDone(g)' <=> isDone(g)
  BY <1>s, <1>u, <1>3 DEF queued, funcQueued, isDone
<1>7. \A j \in Job : pending(j)' <=> pending(j)
  BY <1>5, <1>6 DEF pending, Func
<1>8. QueueApart' /\ NobodyWaits'
  BY <1>2, <1>u DEF PoolCore, QueueApart, NobodyWaits
<1>9. NoWakeUps'
  BY <1>u, <1>5, <1>6 DEF PoolCore, NoWakeUps, Func
<1>10. QueuedReady'
  <2> SUFFICES ASSUME NEW g \in Fiber, queued(g)'
               PROVE  m_state'[g] = "READY" /\ \A u \in Thread : ~holds(u, g)'
    BY DEF QueuedReady
  <2>1. queued(g) /\ g # f
    BY <1>4, <1>6
  <2> QED BY <1>s, <1>4, <2>1 DEF PoolCore, QueuedReady
<1>11. OneHolder' /\ OwnTask'
  BY <1>u, <1>4 DEF PoolCore, OneHolder, OwnTask
<1>12. TakenReady'
  <2> SUFFICES ASSUME NEW u \in Thread, pc'[u] \in Taking
               PROVE  Proper(tk[u]) /\ (tk[u].fiber # Null => m_state'[tk[u].fiber] = "READY")
    BY <1>u DEF TakenReady, Proper
  <2>1. u # t /\ pc[u] \in Taking
    BY <1>2 DEF Taking
  <2>2. ~holds(u, f)
    BY <1>4, <2>1 DEF PoolCore, OneHolder
  <2>3. tk[u].fiber # f
    BY <2>1, <2>2 DEF holds, Taking, Busy
  <2>4. tk[u].fiber \in Fiber \cup {Null}
    BY DEF TypeOK, Task
  <2> QED BY <1>s, <2>1, <2>3, <2>4 DEF PoolCore, TakenReady
<1>13. \A u \in Thread : pc[u] = "run" => cur[u] \in Fiber /\ cur[u] # f
  <2>1. \A u \in Thread : pc[u] = "run" => cur[u] \in Fiber
    BY DEF FiberInv, OnItsFiber, Stack
  <2>2. \A u \in Thread : pc[u] = "run" => m_state[cur[u]] # "READY"
    BY DEF PoolCore, RunsRunning
  <2> QED BY <1>3, <2>1, <2>2
<1>14. OnStack'
  BY <1>2 DEF PoolCore, OnStack, Stack
<1>15. RunsRunning'
  <2> SUFFICES ASSUME NEW u \in Thread, pc'[u] = "run" PROVE m_state'[cur'[u]] = "RUNNING"
    BY DEF RunsRunning
  <2>1. CASE u # t
    <3>1. pc[u] = "run" /\ cur'[u] = cur[u] /\ cur[u] \in Fiber \ {f}
      BY <1>2, <1>13, <2>1
    <3> QED BY <1>s, <3>1 DEF PoolCore, RunsRunning
  <2> QED BY <1>2, <1>s, <2>1
<1>16. RunningRuns'
  <2> SUFFICES ASSUME NEW g \in Fiber, m_state'[g] \in {"RUNNING", "SUSPEND"}
               PROVE  \E u \in Thread : pc'[u] = "run" /\ cur'[u] = g
    BY DEF RunningRuns
  <2>1. CASE g # f
    <3>1. PICK u \in Thread : pc[u] = "run" /\ cur[u] = g
      BY <1>s, <2>1 DEF PoolCore, RunningRuns
    <3> QED BY <1>2, <3>1
  <2> QED BY <1>2, <2>1
<1>17. OneFiber' /\ FuncOnce'
  BY <1>u, <1>5, <1>6 DEF PoolCore, OneFiber, FuncOnce, Func
<1>18. PendingIsNew'
  <2>1. \A j \in Job : pending(j) => m_func[f] # j
    BY DEF PoolCore, PendingIsNew
  <2> QED BY <1>l, <1>u, <1>7, <2>1 DEF PoolCore, PendingIsNew
<1>19. FiberLife'
  <2> SUFFICES ASSUME NEW g \in Fiber, NEW j \in Job, m_func[g] = j
               PROVE  life'[j] # "fresh" /\ (life'[j] = "ended" => isDone(g)')
    BY <1>u DEF FiberLife
  <2>1. CASE m_func[f] = j
    BY <1>l, <2>1
  <2>2. CASE m_func[f] # j
    BY <1>l, <1>6, <2>2 DEF PoolCore, FiberLife
  <2> QED BY <2>1, <2>2
<1>20. RunsBegun'
  <2> SUFFICES ASSUME NEW u \in Thread, NEW j \in Job, pc'[u] = "run", m_func[cur'[u]] = j
               PROVE  life'[j] = "begun"
    BY <1>u DEF RunsBegun
  <2>1. CASE m_func[f] = j
    BY <1>l, <2>1
  <2>2. CASE m_func[f] # j
    <3>1. pc[u] = "run" /\ cur'[u] = cur[u]
      BY <1>2, <2>2
    <3> QED BY <1>l, <2>2, <3>1 DEF PoolCore, RunsBegun
  <2> QED BY <2>1, <2>2
<1>21. JobsHeld'
  BY <1>l, <1>u, <1>6, <1>7 DEF PoolCore, JobsHeld
<1> QED BY <1>8, <1>9, <1>10, <1>11, <1>12, <1>14, <1>15, <1>16, <1>17, <1>18, <1>19, <1>20, <1>21
        DEF PoolCore

\* A worker on a stack has the fiber, and no other worker is on it.
LEMMA StackIsOwn ==
  ASSUME FiberInv, PoolCore
  PROVE  /\ \A t \in Thread : pc[t] \in Stack => cur[t] \in Fiber /\ holds(t, cur[t])
         /\ \A t, u \in Thread : pc[t] \in Stack /\ pc[u] \in Stack /\ cur[t] = cur[u] => t = u
         /\ \A t \in Thread, f \in Fiber : cur[t] = f => pc[t] \in Stack
<1>1. \A t \in Thread : pc[t] \in Stack => cur[t] \in Fiber /\ holds(t, cur[t])
  BY DEF FiberInv, OnItsFiber, left, isFiberTask, holds, Stack, Busy
<1>2. \A t \in Thread, f \in Fiber : cur[t] = f => pc[t] \in Stack
  BY ConstantsAssumption DEF PoolCore, OnStack
<1> QED BY <1>1, <1>2 DEF PoolCore, OneHolder

\* The fiber run() calls a function in is nobody else's and has no job to finish.
LEMMA FuncFiberIsOwn ==
  ASSUME FiberInv, PoolCore, NEW t \in Thread, CallFunc(t), NEW f \in Fiber, f = target(t)
  PROVE  /\ ~queued(f) /\ (m_func[f] \in Job => isDone(f))
         /\ \A u \in Thread \ {t} : ~holds(u, f) /\ (pc[u] \in Stack => cur[u] # f)
<1>1. pc[t] = "dispatch" /\ f = IF func_fiber[t] # Null THEN func_fiber[t] ELSE NewFiber
  BY DEF CallFunc, target
<1>2. CASE func_fiber[t] = Null
  <2>1. ~inUse(f)
    BY <1>1, <1>2 DEF CallFunc, NewFiber
  <2> QED BY <1>2, <2>1, FreeFiber DEF holds
<1>3. CASE func_fiber[t] # Null
  <2>1. f = func_fiber[t] /\ holds(t, f) /\ m_func[f] = Null
    BY <1>1, <1>3 DEF holds, FiberInv, FuncFiberFree, runsFunc, Stack
  <2>2. ~queued(f) /\ \A u \in Thread \ {t} : ~holds(u, f)
    BY <2>1 DEF PoolCore, QueuedReady, OneHolder
  <2>3. Null \notin Job
    BY ConstantsAssumption DEF Func
  <2> QED BY <2>1, <2>2, <2>3, StackIsOwn
<1> QED BY <1>2, <1>3

\* run() calls the function of its task in func_fiber.
LEMMA CallFuncCore ==
  ASSUME TypeOK, FiberInv, PoolCore, NEW t \in Thread, CallFunc(t)
  PROVE  PoolCore'
<1> USE DEF queueVars, countVars, fiberVars, runVars, idleVars, restVars, waitVars,
            jobVars, userVars, Goto
<1>1. PICK f \in Fiber : f = target(t)
  BY TargetIsFiber DEF CallFunc
<1>2. PICK j \in Job : j = tk[t].func
  <2>1. pc[t] \in Taking /\ tk[t].fiber = Null
    BY DEF CallFunc, Taking
  <2>2. tk[t].func \in Func
    BY <2>1 DEF PoolCore, TakenReady, Proper, TypeOK, Task
  <2>3. tk[t].func \notin WakeUps
    BY <2>1 DEF PoolCore, NoWakeUps, has
  <2> QED BY <2>2, <2>3 DEF Func
<1>c. pc[t] = "dispatch" /\ call(t, f, j)
  BY <1>1, <1>2 DEF CallFunc
<1>p. /\ pc[t] = "dispatch" /\ pc'[t] = "run" /\ cur'[t] = f
      /\ \A u \in Thread \ {t} : pc'[u] = pc[u] /\ cur'[u] = cur[u]
  BY <1>c DEF call, TypeOK
<1>k. /\ tk[t].fiber = Null /\ tk'[t].fiber = Null /\ func_fiber'[t] = f
      /\ \A u \in Thread \ {t} : tk'[u] = tk[u] /\ func_fiber'[u] = func_fiber[u]
  <2>1. /\ tk[t].fiber = Null /\ func_fiber' = [func_fiber EXCEPT ![t] = f]
        /\ tk' = [tk EXCEPT ![t] = EmptyTask]
    BY <1>1 DEF CallFunc
  <2>2. func_fiber'[t] = f /\ \A u \in Thread \ {t} : func_fiber'[u] = func_fiber[u]
    BY <2>1 DEF TypeOK
  <2>3. tk'[t] = EmptyTask /\ \A u \in Thread \ {t} : tk'[u] = tk[u]
    BY <2>1 DEF TypeOK
  <2>4. EmptyTask.fiber = Null
    BY DEF EmptyTask
  <2> QED BY <2>1, <2>2, <2>3, <2>4
<1>s. m_state'[f] = "RUNNING" /\ \A g \in Fiber \ {f} : m_state'[g] = m_state[g]
  BY <1>c DEF call, TypeOK
<1>m. m_func'[f] = j /\ \A g \in Fiber \ {f} : m_func'[g] = m_func[g]
  BY <1>1, <1>2 DEF CallFunc, TypeOK
<1>l. life'[j] = "begun" /\ \A i \in Job \ {j} : life'[i] = life[i]
  BY <1>c DEF call, TypeOK
<1>u. UNCHANGED <<m_tasks, timers, events>>
  BY DEF CallFunc, tickleOthers
<1>3. /\ ~queued(f) /\ (m_func[f] \in Job => isDone(f))
      /\ \A u \in Thread \ {t} : ~holds(u, f) /\ (pc[u] \in Stack => cur[u] # f)
  BY <1>1, FuncFiberIsOwn
<1>4. /\ \A u \in Thread \ {t}, g \in Fiber : holds(u, g)' <=> holds(u, g)
      /\ \A g \in Fiber : holds(t, g)' <=> g = f
  <2>1. \A g \in Fiber : g # Null
    BY ConstantsAssumption
  <2> QED BY <1>p, <1>k, <2>1 DEF holds
<1>5. /\ \A u \in Thread \ {t}, fn \in Func : has(u, fn)' <=> has(u, fn)
      /\ \A fn \in Func : ~has(t, fn)' /\ (has(t, fn) <=> fn = j)
  BY <1>2, <1>p, <1>k DEF has, Taking
<1>6. /\ \A g \in Fiber : queued(g)' <=> queued(g)
      /\ \A fn \in Func : funcQueued(fn)' <=> funcQueued(fn)
  BY <1>u DEF queued, funcQueued
<1>7. ~isDone(f)' /\ \A g \in Fiber \ {f} : isDone(g)' <=> isDone(g)
  BY <1>s DEF isDone
<1>8. /\ j \in Func /\ has(t, j) /\ life[j] = "scheduled" /\ (\A g \in Fiber : m_func[g] # j)
      /\ ~funcQueued(j) /\ \A u \in Thread \ {t} : ~has(u, j)
  <2>1. j \in Func /\ has(t, j)
    BY <1>5 DEF Func
  <2>2. ~funcQueued(j) /\ \A u \in Thread \ {t} : ~has(u, j)
    BY <2>1 DEF PoolCore, FuncOnce
  <2> QED BY <2>1, <2>2 DEF PoolCore, PendingIsNew, pending
<1>9. ~pending(j)' /\ \A i \in Job \ {j} : pending(i)' <=> pending(i)
  BY <1>5, <1>6, <1>8 DEF pending, Func
<1>10. QueueApart' /\ NobodyWaits'
  BY <1>p, <1>u DEF PoolCore, QueueApart, NobodyWaits
<1>11. NoWakeUps'
  <2>1. j \notin WakeUps
    BY ConstantsAssumption
  <2>2. \A fn \in WakeUps, g \in Fiber : m_func'[g] # fn
    BY <1>m, <2>1 DEF PoolCore, NoWakeUps
  <2>3. \A fn \in WakeUps : ~funcQueued(fn)' /\ \A u \in Thread : ~has(u, fn)'
    BY <1>5, <1>6 DEF PoolCore, NoWakeUps, Func
  <2> QED BY <2>2, <2>3 DEF NoWakeUps
<1>12. QueuedReady'
  <2> SUFFICES ASSUME NEW g \in Fiber, queued(g)'
               PROVE  m_state'[g] = "READY" /\ \A u \in Thread : ~holds(u, g)'
    BY DEF QueuedReady
  <2>1. queued(g) /\ g # f
    BY <1>3, <1>6
  <2>2. m_state[g] = "READY" /\ \A u \in Thread : ~holds(u, g)
    BY <2>1 DEF PoolCore, QueuedReady
  <2> QED BY <1>s, <1>4, <2>1, <2>2
<1>13. OneHolder'
  <2> SUFFICES ASSUME NEW g \in Fiber, NEW u \in Thread, NEW v \in Thread,
                      holds(u, g)', holds(v, g)'
               PROVE  u = v
    BY DEF OneHolder
  <2>1. CASE g = f
    BY <1>3, <1>4, <2>1
  <2>2. CASE g # f
    BY <1>4, <2>2 DEF PoolCore, OneHolder
  <2> QED BY <2>1, <2>2
<1>14. OwnTask'
  BY <1>p, <1>k DEF PoolCore, OwnTask
<1>15. TakenReady'
  <2> SUFFICES ASSUME NEW u \in Thread, pc'[u] \in Taking
               PROVE  Proper(tk'[u]) /\ (tk'[u].fiber # Null => m_state'[tk'[u].fiber] = "READY")
    BY DEF TakenReady, Proper
  <2>1. u # t /\ pc[u] \in Taking /\ tk'[u] = tk[u]
    BY <1>p, <1>k DEF Taking
  <2>2. tk[u].fiber # f
    BY <1>3, <2>1 DEF holds, Taking, Busy
  <2>3. tk[u].fiber \in Fiber \cup {Null}
    BY DEF TypeOK, Task
  <2> QED BY <1>s, <2>1, <2>2, <2>3 DEF PoolCore, TakenReady
<1>16. \A u \in Thread \ {t} : pc[u] = "run" => cur[u] \in Fiber \ {f}
  BY <1>3, StackIsOwn DEF Stack
<1>17. OnStack'
  BY <1>p DEF PoolCore, OnStack, Stack
<1>18. RunsRunning'
  <2> SUFFICES ASSUME NEW u \in Thread, pc'[u] = "run" PROVE m_state'[cur'[u]] = "RUNNING"
    BY DEF RunsRunning
  <2>1. CASE u # t
    <3>1. pc[u] = "run" /\ cur'[u] = cur[u] /\ cur[u] \in Fiber \ {f}
      BY <1>p, <1>16, <2>1
    <3> QED BY <1>s, <3>1 DEF PoolCore, RunsRunning
  <2> QED BY <1>p, <1>s, <2>1
<1>19. RunningRuns'
  <2> SUFFICES ASSUME NEW g \in Fiber, m_state'[g] \in {"RUNNING", "SUSPEND"}
               PROVE  \E u \in Thread : pc'[u] = "run" /\ cur'[u] = g
    BY DEF RunningRuns
  <2>1. CASE g # f
    <3>1. PICK u \in Thread : pc[u] = "run" /\ cur[u] = g
      BY <1>s, <2>1 DEF PoolCore, RunningRuns
    <3> QED BY <1>p, <3>1
  <2> QED BY <1>p, <2>1
<1>20. OneFiber'
  <2> SUFFICES ASSUME NEW g \in Fiber, NEW e \in Fiber, m_func'[g] \in Job, m_func'[g] = m_func'[e]
               PROVE  g = e
    BY DEF OneFiber
  <2>1. CASE g = f \/ e = f
    BY <1>m, <1>8, <2>1
  <2>2. CASE g # f /\ e # f
    BY <1>m, <2>2 DEF PoolCore, OneFiber
  <2> QED BY <2>1, <2>2
<1>21. FuncOnce'
  BY <1>5, <1>6 DEF PoolCore, FuncOnce, Func
<1>22. PendingIsNew'
  <2> SUFFICES ASSUME NEW i \in Job, pending(i)'
               PROVE  life'[i] = "scheduled" /\ \A g \in Fiber : m_func'[g] # i
    BY DEF PendingIsNew
  <2>1. i # j /\ pending(i)
    BY <1>9
  <2> QED BY <1>m, <1>l, <2>1 DEF PoolCore, PendingIsNew
<1>23. FiberLife'
  <2> SUFFICES ASSUME NEW g \in Fiber, NEW i \in Job, m_func'[g] = i
               PROVE  life'[i] # "fresh" /\ (life'[i] = "ended" => isDone(g)')
    BY DEF FiberLife
  <2>1. CASE g = f
    BY <1>m, <1>l, <2>1
  <2>2. CASE g # f
    <3>1. m_func[g] = i /\ i # j
      BY <1>m, <1>8, <2>2
    <3> QED BY <1>l, <1>7, <2>2, <3>1 DEF PoolCore, FiberLife
  <2> QED BY <2>1, <2>2
<1>24. RunsBegun'
  <2> SUFFICES ASSUME NEW u \in Thread, NEW i \in Job, pc'[u] = "run", m_func'[cur'[u]] = i
               PROVE  life'[i] = "begun"
    BY DEF RunsBegun
  <2>1. CASE u = t
    BY <1>p, <1>m, <1>l, <2>1
  <2>2. CASE u # t
    <3>1. pc[u] = "run" /\ cur'[u] = cur[u] /\ cur[u] \in Fiber \ {f}
      BY <1>p, <1>16, <2>2
    <3>2. m_func[cur[u]] = i /\ i # j
      BY <1>m, <1>8, <3>1
    <3> QED BY <1>l, <3>1, <3>2 DEF PoolCore, RunsBegun
  <2> QED BY <2>1, <2>2
<1>25. JobsHeld'
  <2> SUFFICES ASSUME NEW i \in Job, life'[i] = "scheduled"
               PROVE  pending(i)' \/ \E g \in Fiber : m_func'[g] = i /\ ~isDone(g)'
    BY DEF JobsHeld
  <2>1. i # j /\ life[i] = "scheduled"
    BY <1>l
  <2>2. ASSUME NEW g \in Fiber, m_func[g] = i, ~isDone(g) PROVE m_func'[g] = i /\ ~isDone(g)'
    BY <1>m, <1>3, <1>7, <2>2
  <2> QED BY <1>9, <2>1, <2>2 DEF PoolCore, JobsHeld
<1> QED BY <1>10, <1>11, <1>12, <1>13, <1>14, <1>15, <1>17, <1>18, <1>19, <1>20, <1>21, <1>22,
           <1>23, <1>24, <1>25 DEF PoolCore

\* The running fiber ends or yields.
LEMMA LeaveCore ==
  ASSUME TypeOK, FiberInv, PoolCore, NEW t \in Thread, pc[t] = "run",
         NEW state \in {"READY", "TERM", "EXCEPT"}, leaveAs(t, state),
         UNCHANGED <<m_tasks, m_func, tk, func_fiber, cur, timers, events>>,
         \A j \in Job : m_func[cur[t]] # j => life'[j] = life[j],
         \A j \in Job : m_func[cur[t]] = j => IF state = "READY" THEN life'[j] = life[j]
                                                                 ELSE life'[j] = "ended"
  PROVE  PoolCore'
<1>1. PICK f \in Fiber : f = cur[t]
  BY DEF FiberInv, OnItsFiber, Stack
<1>p. pc'[t] = "swap" /\ \A u \in Thread \ {t} : pc'[u] = pc[u]
  BY DEF leaveAs, Goto, TypeOK
<1>s. m_state'[f] = state /\ \A g \in Fiber \ {f} : m_state'[g] = m_state[g]
  BY <1>1 DEF leaveAs, TypeOK
<1>l. \A j \in Job : life'[j] # life[j] => m_func[f] = j /\ life'[j] = "ended" /\ state # "READY"
  BY <1>1
<1>2. /\ holds(t, f) /\ ~queued(f) /\ \A u \in Thread \ {t} : ~holds(u, f)
      /\ \A u \in Thread \ {t} : pc[u] \in Stack => cur[u] \in Fiber \ {f}
  <2>1. holds(t, f) /\ \A u \in Thread \ {t} : pc[u] \in Stack => cur[u] \in Fiber \ {f}
    BY <1>1, StackIsOwn DEF Stack
  <2> QED BY <2>1 DEF PoolCore, QueuedReady, OneHolder
<1>3. /\ \A u \in Thread, g \in Fiber : holds(u, g)' <=> holds(u, g)
      /\ \A u \in Thread : pc'[u] \in Busy => pc[u] \in Busy
  BY <1>p DEF holds, Busy
<1>4. \A u \in Thread, fn \in Func : has(u, fn)' <=> has(u, fn)
  BY <1>p DEF has, Taking
<1>5. /\ \A g \in Fiber : queued(g)' <=> queued(g)
      /\ \A fn \in Func : funcQueued(fn)' <=> funcQueued(fn)
  BY DEF queued, funcQueued
<1>6. /\ \A g \in Fiber \ {f} : isDone(g)' <=> isDone(g)
      /\ state # "READY" => isDone(f)'
  BY <1>s DEF isDone
<1>7. \A j \in Job : pending(j)' <=> pending(j)
  BY <1>4, <1>5 DEF pending, Func
<1>8. \A j \in Job : m_func[f] = j => /\ life[j] = "begun" /\ ~pending(j)
                                      /\ \A g \in Fiber : m_func[g] = j => g = f
  <2>1. \A j \in Job : m_func[f] = j => life[j] = "begun"
    BY <1>1 DEF PoolCore, RunsBegun
  <2>2. \A j \in Job : m_func[f] = j => ~pending(j)
    BY DEF PoolCore, PendingIsNew
  <2> QED BY <2>1, <2>2 DEF PoolCore, OneFiber
<1>9. QueueApart' /\ NobodyWaits'
  BY <1>p DEF PoolCore, QueueApart, NobodyWaits
<1>10. NoWakeUps'
  BY <1>4, <1>5 DEF PoolCore, NoWakeUps, Func
<1>11. QueuedReady'
  <2> SUFFICES ASSUME NEW g \in Fiber, queued(g)'
               PROVE  m_state'[g] = "READY" /\ \A u \in Thread : ~holds(u, g)'
    BY DEF QueuedReady
  <2>1. queued(g) /\ g # f
    BY <1>2, <1>5
  <2> QED BY <1>s, <1>3, <2>1 DEF PoolCore, QueuedReady
<1>12. OneHolder' /\ OwnTask'
  BY <1>3 DEF PoolCore, OneHolder, OwnTask
<1>13. TakenReady'
  <2> SUFFICES ASSUME NEW u \in Thread, pc'[u] \in Taking
               PROVE  Proper(tk[u]) /\ (tk[u].fiber # Null => m_state'[tk[u].fiber] = "READY")
    BY DEF TakenReady, Proper
  <2>1. u # t /\ pc[u] \in Taking
    BY <1>p DEF Taking
  <2>2. tk[u].fiber # f
    BY <1>2, <2>1 DEF holds, Taking, Busy
  <2>3. tk[u].fiber \in Fiber \cup {Null}
    BY DEF TypeOK, Task
  <2> QED BY <1>s, <2>1, <2>2, <2>3 DEF PoolCore, TakenReady
<1>14. OnStack'
  BY <1>p DEF PoolCore, OnStack, Stack
<1>15. \A u \in Thread : pc'[u] = "run" => u # t /\ pc[u] = "run" /\ cur[u] \in Fiber \ {f}
  BY <1>p, <1>2 DEF Stack
<1>16. RunsRunning'
  BY <1>s, <1>15 DEF PoolCore, RunsRunning
<1>17. RunningRuns'
  <2> SUFFICES ASSUME NEW g \in Fiber, m_state'[g] \in {"RUNNING", "SUSPEND"}
               PROVE  \E u \in Thread : pc'[u] = "run" /\ cur[u] = g
    BY DEF RunningRuns
  <2>1. g # f
    BY <1>s
  <2>2. PICK u \in Thread : pc[u] = "run" /\ cur[u] = g
    BY <1>s, <2>1 DEF PoolCore, RunningRuns
  <2> QED BY <1>1, <1>p, <2>1, <2>2
<1>18. OneFiber' /\ FuncOnce'
  BY <1>4, <1>5 DEF PoolCore, OneFiber, FuncOnce, Func
<1>19. PendingIsNew'
  <2> SUFFICES ASSUME NEW j \in Job, pending(j)
               PROVE  life'[j] = "scheduled" /\ \A g \in Fiber : m_func[g] # j
    BY <1>7 DEF PendingIsNew
  <2>1. life[j] = "scheduled" /\ \A g \in Fiber : m_func[g] # j
    BY DEF PoolCore, PendingIsNew
  <2> QED BY <1>l, <2>1
<1>20. FiberLife'
  <2> SUFFICES ASSUME NEW g \in Fiber, NEW j \in Job, m_func[g] = j
               PROVE  life'[j] # "fresh" /\ (life'[j] = "ended" => isDone(g)')
    BY DEF FiberLife
  <2>1. CASE g = f
    BY <1>l, <1>6, <1>8, <2>1
  <2>2. CASE g # f
    <3>1. life'[j] = life[j]
      BY <1>l, <1>8, <2>2
    <3> QED BY <1>6, <2>2, <3>1 DEF PoolCore, FiberLife
  <2> QED BY <2>1, <2>2
<1>21. RunsBegun'
  <2> SUFFICES ASSUME NEW u \in Thread, NEW j \in Job, pc'[u] = "run", m_func[cur[u]] = j
               PROVE  life'[j] = "begun"
    BY DEF RunsBegun
  <2>1. pc[u] = "run" /\ life'[j] = life[j]
    BY <1>l, <1>8, <1>15
  <2> QED BY <2>1 DEF PoolCore, RunsBegun
<1>22. JobsHeld'
  <2> SUFFICES ASSUME NEW j \in Job, life'[j] = "scheduled"
               PROVE  pending(j) \/ \E g \in Fiber : m_func[g] = j /\ ~isDone(g)'
    BY <1>7 DEF JobsHeld
  <2>1. life[j] = "scheduled"
    BY <1>l
  <2>2. m_func[f] # j
    BY <1>8, <2>1
  <2> QED BY <1>6, <2>1, <2>2 DEF PoolCore, JobsHeld
<1> QED BY <1>9, <1>10, <1>11, <1>12, <1>13, <1>14, <1>16, <1>17, <1>18, <1>19, <1>20, <1>21,
           <1>22 DEF PoolCore

\* A job not handed over yet is nowhere in the pool.
LEMMA FreshJob ==
  ASSUME PoolCore, NEW j \in Job, life[j] = "fresh"
  PROVE  /\ ~funcQueued(j) /\ (\A t \in Thread : ~has(t, j)) /\ \A f \in Fiber : m_func[f] # j
<1>1. \A f \in Fiber : m_func[f] # j
  BY DEF PoolCore, FiberLife
<1>2. ~pending(j)
  BY DEF PoolCore, PendingIsNew
<1> QED BY <1>1, <1>2 DEF pending

\* A job is handed over as a function,
LEMMA SubmitFuncCore ==
  ASSUME TypeOK, PoolCore, NEW j \in Job, NEW x \in Task, x.fiber = Null, x.func = j,
         life[j] = "fresh", life'[j] = "scheduled", \A i \in Job \ {j} : life'[i] = life[i],
         schedule(<<x>>),
         UNCHANGED <<m_state, m_func, pc, tk, func_fiber, cur, timers, events>>
  PROVE  PoolCore'
<1>1. j \in Func /\ j # Null /\ j \notin WakeUps
  BY ConstantsAssumption DEF Func
<1>2. ~funcQueued(j) /\ (\A t \in Thread : ~has(t, j)) /\ \A f \in Fiber : m_func[f] # j
  BY FreshJob
<1>3. x.fiber = Null /\ x.func = j /\ Proper(x)
  BY <1>1 DEF Proper
<1>4. /\ QueueApart'
      /\ \A f \in Fiber : queued(f)' <=> queued(f) \/ x.fiber = f
      /\ \A fn \in Func : funcQueued(fn)' <=> funcQueued(fn) \/ x.func = fn
  BY <1>2, <1>3, ScheduleApart DEF PoolCore
<1>5. /\ \A f \in Fiber : queued(f)' <=> queued(f)
      /\ \A fn \in Func : funcQueued(fn)' <=> funcQueued(fn) \/ fn = j
  BY <1>3, <1>4, ConstantsAssumption
<1>6. /\ \A t \in Thread, f \in Fiber : holds(t, f)' <=> holds(t, f)
      /\ \A t \in Thread, fn \in Func : has(t, fn)' <=> has(t, fn)
      /\ \A f \in Fiber : isDone(f)' <=> isDone(f)
  BY DEF holds, has, isDone
<1>7. pending(j)' /\ \A i \in Job \ {j} : pending(i)' <=> pending(i)
  BY <1>5, <1>6 DEF pending, Func
<1>8. NobodyWaits' /\ TakenReady'
  BY DEF PoolCore, NobodyWaits, TakenReady
<1>9. NoWakeUps'
  BY <1>1, <1>5, <1>6 DEF PoolCore, NoWakeUps, Func
<1>10. QueuedReady'
  BY <1>5, <1>6 DEF PoolCore, QueuedReady
<1>11. OneHolder' /\ OwnTask'
  BY <1>6 DEF PoolCore, OneHolder, OwnTask
<1>12. OnStack' /\ RunsRunning'
  BY DEF PoolCore, OnStack, RunsRunning
<1>18. RunningRuns' /\ OneFiber'
  BY DEF PoolCore, RunningRuns, OneFiber
<1>13. FuncOnce'
  <2>1. \A i \in Job, t \in Thread : ~(funcQueued(i)' /\ has(t, i)')
    <3>1. \A i \in Job, t \in Thread : ~(funcQueued(i) /\ has(t, i))
      BY DEF PoolCore, FuncOnce
    <3> QED BY <1>2, <1>5, <1>6, <3>1 DEF Func
  <2>2. \A i \in Job, t, u \in Thread : has(t, i)' /\ has(u, i)' => t = u
    BY <1>6 DEF PoolCore, FuncOnce, Func
  <2> QED BY <2>1, <2>2 DEF FuncOnce
<1>14. PendingIsNew'
  <2> SUFFICES ASSUME NEW i \in Job, pending(i)'
               PROVE  life'[i] = "scheduled" /\ \A f \in Fiber : m_func[f] # i
    BY DEF PendingIsNew
  <2>1. CASE i # j
    BY <1>7, <2>1 DEF PoolCore, PendingIsNew
  <2> QED BY <1>2, <2>1
<1>15. FiberLife'
  <2> SUFFICES ASSUME NEW f \in Fiber, NEW i \in Job, m_func[f] = i
               PROVE  life'[i] # "fresh" /\ (life'[i] = "ended" => isDone(f))
    BY <1>6 DEF FiberLife
  <2>1. i # j
    BY <1>2
  <2> QED BY <2>1 DEF PoolCore, FiberLife
<1>16. RunsBegun'
  <2> SUFFICES ASSUME NEW t \in Thread, NEW i \in Job, pc[t] = "run", m_func[cur[t]] = i
               PROVE  life'[i] = "begun"
    BY DEF RunsBegun
  <2>1. life[i] = "begun"
    BY DEF PoolCore, RunsBegun
  <2>2. i # j
    BY <2>1
  <2> QED BY <2>1, <2>2
<1>17. JobsHeld'
  <2> SUFFICES ASSUME NEW i \in Job, life'[i] = "scheduled"
               PROVE  pending(i)' \/ \E f \in Fiber : m_func[f] = i /\ ~isDone(f)
    BY <1>6 DEF JobsHeld
  <2>1. CASE i # j
    BY <1>7, <2>1 DEF PoolCore, JobsHeld
  <2> QED BY <1>7, <2>1
<1> QED BY <1>4, <1>8, <1>9, <1>10, <1>11, <1>12, <1>13, <1>14, <1>15, <1>16, <1>17, <1>18
        DEF PoolCore

\* or in a fiber not in use.
LEMMA SubmitFiberCore ==
  ASSUME TypeOK, FiberInv, PoolCore, NEW j \in Job, NEW f \in Fiber, ~inUse(f),
         NEW x \in Task, x.fiber = f, x.func = Null, schedule(<<x>>),
         life[j] = "fresh", life' = [life EXCEPT ![j] = "scheduled"],
         m_state' = [m_state EXCEPT ![f] = "READY"], m_func' = [m_func EXCEPT ![f] = j],
         UNCHANGED <<pc, tk, func_fiber, cur, timers, events>>
  PROVE  PoolCore'
<1>1. j \in Func /\ j \notin WakeUps /\ f # Null
  BY ConstantsAssumption DEF Func
<1>2. ~funcQueued(j) /\ (\A t \in Thread : ~has(t, j)) /\ \A g \in Fiber : m_func[g] # j
  BY FreshJob
<1>3. /\ ~queued(f) /\ (m_func[f] \in Job => isDone(f))
      /\ \A t \in Thread : tk[t].fiber # f /\ cur[t] # f /\ ~holds(t, f)
  BY FreeFiber DEF holds
<1>4. x.fiber = f /\ x.func = Null /\ Proper(x)
  BY <1>1 DEF Proper
<1>5. /\ QueueApart'
      /\ \A g \in Fiber : queued(g)' <=> queued(g) \/ x.fiber = g
      /\ \A fn \in Func : funcQueued(fn)' <=> funcQueued(fn) \/ x.func = fn
  BY <1>3, <1>4, ScheduleApart DEF PoolCore
<1>6. /\ \A g \in Fiber : queued(g)' <=> queued(g) \/ g = f
      /\ \A fn \in Func : funcQueued(fn)' <=> funcQueued(fn)
  BY <1>4, <1>5, ConstantsAssumption
<1>l. life'[j] = "scheduled" /\ \A i \in Job \ {j} : life'[i] = life[i]
  BY DEF TypeOK
<1>s. m_state'[f] = "READY" /\ \A g \in Fiber \ {f} : m_state'[g] = m_state[g]
  BY DEF TypeOK
<1>m. m_func'[f] = j /\ \A g \in Fiber \ {f} : m_func'[g] = m_func[g]
  BY DEF TypeOK
<1>u. UNCHANGED <<pc, tk, func_fiber, cur, timers, events>>
  OBVIOUS
<1>7. /\ \A t \in Thread, g \in Fiber : holds(t, g)' <=> holds(t, g)
      /\ \A t \in Thread, fn \in Func : has(t, fn)' <=> has(t, fn)
  BY DEF holds, has
<1>8. ~isDone(f)' /\ \A g \in Fiber \ {f} : isDone(g)' <=> isDone(g)
  BY <1>s DEF isDone
<1>9. ~pending(j) /\ \A i \in Job : pending(i)' <=> pending(i)
  BY <1>2, <1>6, <1>7 DEF pending, Func
<1>10. NobodyWaits' /\ OnStack'
  BY DEF PoolCore, NobodyWaits, OnStack
<1>11. NoWakeUps'
  <2>1. \A fn \in WakeUps, g \in Fiber : m_func'[g] # fn
    BY <1>1, <1>m DEF PoolCore, NoWakeUps
  <2>2. \A fn \in WakeUps : ~funcQueued(fn)' /\ \A t \in Thread : ~has(t, fn)'
    BY <1>6, <1>7 DEF PoolCore, NoWakeUps, Func
  <2> QED BY <2>1, <2>2 DEF NoWakeUps
<1>12. QueuedReady'
  <2> SUFFICES ASSUME NEW g \in Fiber, queued(g)'
               PROVE  m_state'[g] = "READY" /\ \A t \in Thread : ~holds(t, g)
    BY <1>7 DEF QueuedReady
  <2>1. CASE g # f
    BY <1>s, <1>6, <2>1 DEF PoolCore, QueuedReady
  <2> QED BY <1>s, <1>3, <2>1
<1>13. OneHolder' /\ OwnTask'
  BY <1>7 DEF PoolCore, OneHolder, OwnTask
<1>14. TakenReady'
  <2> SUFFICES ASSUME NEW t \in Thread, pc[t] \in Taking
               PROVE  Proper(tk[t]) /\ (tk[t].fiber # Null => m_state'[tk[t].fiber] = "READY")
    BY <1>u DEF TakenReady, Proper
  <2>1. tk[t].fiber \in Fiber \cup {Null}
    BY DEF TypeOK, Task
  <2> QED BY <1>s, <1>3, <2>1 DEF PoolCore, TakenReady
<1>15. \A t \in Thread : pc[t] = "run" => cur[t] \in Fiber \ {f}
  BY <1>3 DEF FiberInv, OnItsFiber, Stack
<1>16. RunsRunning'
  BY <1>s, <1>u, <1>15 DEF PoolCore, RunsRunning
<1>17. RunningRuns'
  <2> SUFFICES ASSUME NEW g \in Fiber, m_state'[g] \in {"RUNNING", "SUSPEND"}
               PROVE  \E t \in Thread : pc'[t] = "run" /\ cur'[t] = g
    BY DEF RunningRuns
  <2>1. g # f
    BY <1>s
  <2>2. PICK t \in Thread : pc[t] = "run" /\ cur[t] = g
    BY <1>s, <2>1 DEF PoolCore, RunningRuns
  <2> QED BY <1>u, <2>2
<1>18. OneFiber'
  <2> SUFFICES ASSUME NEW g \in Fiber, NEW e \in Fiber, m_func'[g] \in Job, m_func'[g] = m_func'[e]
               PROVE  g = e
    BY DEF OneFiber
  <2>1. CASE g = f \/ e = f
    BY <1>m, <1>2, <2>1
  <2>2. CASE g # f /\ e # f
    BY <1>m, <2>2 DEF PoolCore, OneFiber
  <2> QED BY <2>1, <2>2
<1>19. FuncOnce'
  BY <1>6, <1>7 DEF PoolCore, FuncOnce, Func
<1>20. PendingIsNew'
  <2> SUFFICES ASSUME NEW i \in Job, pending(i)
               PROVE  life'[i] = "scheduled" /\ \A g \in Fiber : m_func'[g] # i
    BY <1>9 DEF PendingIsNew
  <2>1. i # j /\ life[i] = "scheduled" /\ \A g \in Fiber : m_func[g] # i
    BY <1>9 DEF PoolCore, PendingIsNew
  <2>2. \A g \in Fiber : m_func'[g] # i
    BY <1>m, <2>1
  <2> QED BY <1>l, <2>1, <2>2
<1>21. FiberLife'
  <2> SUFFICES ASSUME NEW g \in Fiber, NEW i \in Job, m_func'[g] = i
               PROVE  life'[i] # "fresh" /\ (life'[i] = "ended" => isDone(g)')
    BY DEF FiberLife
  <2>1. CASE g = f
    BY <1>l, <1>m, <2>1
  <2>2. CASE g # f
    <3>1. m_func[g] = i /\ i # j
      BY <1>m, <1>2, <2>2
    <3> QED BY <1>l, <1>8, <2>2, <3>1 DEF PoolCore, FiberLife
  <2> QED BY <2>1, <2>2
<1>22. RunsBegun'
  <2> SUFFICES ASSUME NEW t \in Thread, NEW i \in Job, pc[t] = "run", m_func'[cur[t]] = i
               PROVE  life'[i] = "begun"
    BY <1>u DEF RunsBegun
  <2>1. m_func[cur[t]] = i /\ i # j
    BY <1>m, <1>2, <1>15
  <2> QED BY <1>l, <2>1 DEF PoolCore, RunsBegun
<1>23. JobsHeld'
  <2> SUFFICES ASSUME NEW i \in Job, life'[i] = "scheduled"
               PROVE  pending(i) \/ \E g \in Fiber : m_func'[g] = i /\ ~isDone(g)'
    BY <1>9 DEF JobsHeld
  <2>1. CASE i # j
    <3>1. ASSUME NEW g \in Fiber, m_func[g] = i, ~isDone(g) PROVE m_func'[g] = i /\ ~isDone(g)'
      BY <1>m, <1>3, <1>8, <3>1
    <3> QED BY <1>l, <2>1, <3>1 DEF PoolCore, JobsHeld
  <2> QED BY <1>m, <1>8, <2>1
<1> QED BY <1>5, <1>10, <1>11, <1>12, <1>13, <1>14, <1>16, <1>17, <1>18, <1>19, <1>20, <1>21,
           <1>22, <1>23 DEF PoolCore

\* A job is handed over, by the user or by another job.
LEMMA SubmitCore ==
  ASSUME TypeOK, FiberInv, PoolCore, NEW j \in Job, NEW kind \in Kinds, NEW thr \in Pins,
         Submit(j, kind, thr), UNCHANGED <<pc, tk, func_fiber, cur, timers, events>>
  PROVE  PoolCore'
<1>1. j \in Func /\ thr \in Thread \cup {Null}
  BY ConstantsAssumption DEF Func
<1>2. life[j] = "fresh" /\ life' = [life EXCEPT ![j] = "scheduled"]
  BY DEF Submit
<1>3. CASE /\ schedule(<<FuncTask(j, thr)>>) /\ UNCHANGED fiberVars
  <2>1. PICK x \in Task : x = FuncTask(j, thr) /\ x.fiber = Null /\ x.func = j
    BY <1>1, TaskFields
  <2>2. life'[j] = "scheduled" /\ \A i \in Job \ {j} : life'[i] = life[i]
    BY <1>2 DEF TypeOK
  <2>3. schedule(<<x>>) /\ UNCHANGED <<m_state, m_func>>
    BY <1>3, <2>1 DEF fiberVars
  <2> QED BY <1>2, <2>1, <2>2, <2>3, SubmitFuncCore
<1>4. CASE /\ \E f \in Fiber : ~inUse(f)
           /\ schedule(<<FiberTask(NewFiber, thr)>>)
           /\ m_state' = [m_state EXCEPT ![NewFiber] = "READY"]
           /\ m_func' = [m_func EXCEPT ![NewFiber] = j]
  <2>1. PICK f \in Fiber : f = NewFiber /\ ~inUse(f)
    BY <1>4 DEF NewFiber
  <2>2. PICK x \in Task : x = FiberTask(f, thr) /\ x.fiber = f /\ x.func = Null
    BY <1>1, TaskFields
  <2>3. schedule(<<x>>) /\ m_state' = [m_state EXCEPT ![f] = "READY"]
        /\ m_func' = [m_func EXCEPT ![f] = j]
    BY <1>4, <2>1, <2>2
  <2> QED BY <1>2, <2>1, <2>2, <2>3, SubmitFiberCore
<1> QED BY <1>3, <1>4 DEF Submit

\* The worker is off the fiber's stack.
LEMMA SwapCore ==
  ASSUME TypeOK, PoolCore, NEW t \in Thread, Swap(t)
  PROVE  PoolCore'
<1>1. /\ pc[t] = "swap" /\ pc'[t] = "back" /\ cur'[t] = Null
      /\ \A u \in Thread \ {t} : pc'[u] = pc[u] /\ cur'[u] = cur[u]
  BY DEF Swap, TypeOK, Goto
<1>2. UNCHANGED <<m_tasks, tk, func_fiber, m_state, m_func, life, timers, events>>
  BY DEF Swap, queueVars, fiberVars, restVars, waitVars, jobVars
<1>3. Still(t)
  <2>1. \A f \in Fiber : holds(t, f)' => holds(t, f)
    BY <1>1, <1>2 DEF holds, Busy
  <2> QED BY <1>1, <1>2, <2>1 DEF Still, Taking, Busy
<1>4. \A u \in Thread \ {t} : Still(u)
  <2>1. \A u \in Thread \ {t}, f \in Fiber : holds(u, f)' => holds(u, f)
    BY <1>1, <1>2 DEF holds
  <2> QED BY <1>1, <1>2, <2>1 DEF Still, PoolCore, OnStack
<1>5. QueueApart' /\ NobodyWaits'
  BY <1>1, <1>2 DEF PoolCore, QueueApart, NobodyWaits
<1>6. QueuedReady'
  BY <1>2, <1>3, <1>4 DEF PoolCore, QueuedReady, queued, Still
<1>7. SameFuncs
  BY <1>2 DEF SameFuncs, funcQueued
<1> QED BY <1>2, <1>3, <1>4, <1>5, <1>6, <1>7, StillCore

\* A fiber that yielded goes back to the queue,
LEMMA RescheduleCore ==
  ASSUME TypeOK, FiberInv, PoolCore, NEW t \in Thread, Reschedule(t)
  PROVE  QueueApart' /\ QueuedReady' /\ SameFuncs
<1>p. pc[t] = "resched" /\ pc'[t] = "find" /\ \A u \in Thread \ {t} : pc'[u] = pc[u]
  BY DEF Reschedule, Goto, TypeOK
<1>k. \A u \in Thread \ {t} : tk'[u] = tk[u] /\ func_fiber'[u] = func_fiber[u]
  BY DEF Reschedule, TypeOK
<1>1. PICK f \in Fiber : f = left(t)
  BY <1>p DEF FiberInv, OnItsFiber, runsFunc, left, isFiberTask, TypeOK, Task
<1>2. m_state[f] = "READY" /\ UNCHANGED m_state /\ schedule(<<FiberTask(f, Null)>>)
  BY <1>1 DEF Reschedule, fiberVars
<1>3. holds(t, f) /\ ~holds(t, f)'
  <2>1. CASE isFiberTask(t)
    <3>1. f = tk[t].fiber /\ f # Null
      BY <1>1, <2>1 DEF left, isFiberTask
    <3>2. f # func_fiber[t]
      BY <1>p, <3>1 DEF PoolCore, OwnTask, Busy
    <3>3. func_fiber'[t] = func_fiber[t]
      BY <2>1 DEF Reschedule, TypeOK
    <3> QED BY <1>p, <3>1, <3>2, <3>3 DEF holds, Busy
  <2>2. CASE ~isFiberTask(t)
    <3>1. f = func_fiber[t]
      BY <1>1, <2>2 DEF left
    <3>2. func_fiber'[t] = Null
      BY <2>2 DEF Reschedule, TypeOK
    <3> QED BY <1>p, <3>1, <3>2, ConstantsAssumption DEF holds, Busy
  <2> QED BY <2>1, <2>2
<1>4. /\ \A u \in Thread \ {t}, g \in Fiber : holds(u, g)' <=> holds(u, g)
      /\ \A g \in Fiber : holds(t, g)' => holds(t, g)
  <2>1. func_fiber'[t] \in {func_fiber[t], Null}
    BY DEF Reschedule, TypeOK
  <2>2. \A u \in Thread \ {t}, g \in Fiber : holds(u, g)' <=> holds(u, g)
    BY <1>p, <1>k DEF holds
  <2>3. \A g \in Fiber : func_fiber'[t] = g => func_fiber[t] = g
    BY <2>1, ConstantsAssumption
  <2>4. \A g \in Fiber : holds(t, g)' => holds(t, g)
    BY <1>p, <2>3 DEF holds, Busy
  <2> QED BY <2>2, <2>4
<1>5. ~queued(f) /\ \A u \in Thread : ~holds(u, f)'
  BY <1>3, <1>4 DEF PoolCore, QueuedReady, OneHolder
<1>6. PICK x \in Task : x = FiberTask(f, Null) /\ x.fiber = f /\ x.func = Null
  BY TaskFields
<1>7. schedule(<<x>>) /\ Proper(x)
  BY <1>2, <1>6, ConstantsAssumption DEF Proper
<1>8. /\ QueueApart'
      /\ \A g \in Fiber : queued(g)' <=> queued(g) \/ x.fiber = g
      /\ \A fn \in Func : funcQueued(fn)' <=> funcQueued(fn) \/ x.func = fn
  BY <1>5, <1>6, <1>7, ScheduleApart DEF PoolCore
<1>9. SameFuncs
  BY <1>6, <1>8, ConstantsAssumption DEF SameFuncs
<1>10. QueuedReady'
  <2> SUFFICES ASSUME NEW g \in Fiber, queued(g)'
               PROVE  m_state'[g] = "READY" /\ \A u \in Thread : ~holds(u, g)'
    BY DEF QueuedReady
  <2>1. CASE g # f
    <3>1. m_state[g] = "READY" /\ \A u \in Thread : ~holds(u, g)
      BY <1>6, <1>8, <2>1 DEF PoolCore, QueuedReady
    <3> QED BY <1>2, <1>4, <3>1
  <2> QED BY <1>2, <1>5, <2>1
<1> QED BY <1>8, <1>9, <1>10

\* and one that is done is let go.
LEMMA ReleaseCore ==
  ASSUME TypeOK, FiberInv, PoolCore, NEW t \in Thread, Reschedule(t) \/ LetGo(t) \/ Exit(t)
  PROVE  PoolCore'
<1> USE DEF queueVars, countVars, fiberVars, runVars, idleVars, restVars, waitVars,
            jobVars, userVars, Goto
<1>p. /\ pc[t] \in {"resched", "notask"} /\ pc'[t] \in {"find", "exited"}
      /\ \A u \in Thread \ {t} : pc'[u] = pc[u]
  BY DEF Reschedule, LetGo, Exit, TypeOK
<1>k. \A u \in Thread \ {t} : tk'[u] = tk[u]
  BY DEF Reschedule, LetGo, Exit, TypeOK
<1>f. /\ func_fiber'[t] \in {func_fiber[t], Null}
      /\ \A u \in Thread \ {t} : func_fiber'[u] = func_fiber[u]
  BY DEF Reschedule, LetGo, Exit, TypeOK
<1>u. UNCHANGED <<m_state, m_func, cur, life, timers, events>>
  BY DEF Reschedule, LetGo, Exit
<1>1. Still(t)
  <2>1. \A g \in Fiber : func_fiber'[t] = g => func_fiber[t] = g
    BY <1>f, ConstantsAssumption
  <2>2. \A g \in Fiber : holds(t, g)' => holds(t, g)
    BY <1>p, <2>1 DEF holds, Busy
  <2>3. cur'[t] = Null
    BY <1>p, <1>u DEF PoolCore, OnStack, Stack
  <2> QED BY <1>p, <2>2, <2>3 DEF Still, Taking, Busy
<1>2. \A u \in Thread \ {t} : Still(u)
  <2>1. \A u \in Thread \ {t}, g \in Fiber : holds(u, g)' <=> holds(u, g)
    BY <1>p, <1>k, <1>f DEF holds
  <2>2. \A u \in Thread \ {t} : cur'[u] # Null => pc'[u] \in Stack
    BY <1>p, <1>u DEF PoolCore, OnStack
  <2> QED BY <1>p, <1>k, <1>f, <1>u, <2>1, <2>2 DEF Still
<1>3. NobodyWaits'
  BY <1>p, <1>u DEF PoolCore, NobodyWaits
<1>4. QueueApart' /\ QueuedReady' /\ SameFuncs
  <2>1. CASE Reschedule(t)
    BY <2>1, RescheduleCore
  <2>2. CASE LetGo(t) \/ Exit(t)
    <3>1. m_tasks' = m_tasks
      BY <2>2 DEF LetGo, Exit
    <3>2. QueueApart' /\ SameFuncs
      BY <3>1 DEF PoolCore, QueueApart, SameFuncs, funcQueued
    <3>3. \A g \in Fiber : queued(g)' <=> queued(g)
      BY <3>1 DEF queued
    <3>4. QueuedReady'
      BY <1>1, <1>2, <1>u, <3>3 DEF PoolCore, QueuedReady, Still
    <3> QED BY <3>2, <3>4
  <2> QED BY <2>1, <2>2
<1> QED BY <1>1, <1>2, <1>3, <1>4, <1>u, StillCore

\* func_fiber is kept for the next function, without the job it has finished.
LEMMA KeepCore ==
  ASSUME TypeOK, FiberInv, PoolCore, NEW t \in Thread, KeepFuncFiber(t)
  PROVE  PoolCore'
<1> USE DEF queueVars, countVars, fiberVars, runVars, idleVars, restVars, waitVars,
            jobVars, userVars, Goto
<1>1. PICK f \in Fiber : f = left(t) /\ f = func_fiber[t]
  BY DEF KeepFuncFiber, left, isFiberTask, FiberInv, OnItsFiber, runsFunc, Stack, TypeOK
<1>p. /\ pc[t] = "resched" /\ pc'[t] = "find" /\ tk[t].fiber = Null /\ isDone(f)
      /\ \A u \in Thread \ {t} : pc'[u] = pc[u]
  BY <1>1 DEF KeepFuncFiber, isFiberTask, TypeOK
<1>s. m_state'[f] = "READY" /\ \A g \in Fiber \ {f} : m_state'[g] = m_state[g]
  BY <1>1 DEF KeepFuncFiber, TypeOK
<1>m. m_func'[f] = Null /\ \A g \in Fiber \ {f} : m_func'[g] = m_func[g]
  BY <1>1 DEF KeepFuncFiber, TypeOK
<1>u. UNCHANGED <<tk, func_fiber, cur, life, m_tasks, timers, events>>
  BY DEF KeepFuncFiber
<1>2. Null \notin Job /\ Null \notin WakeUps /\ f # Null
  BY ConstantsAssumption DEF Func
<1>3. /\ \A u \in Thread, g \in Fiber : holds(u, g)' <=> holds(u, g)
      /\ \A u \in Thread : pc'[u] \in Busy => pc[u] \in Busy
  <2>1. \A g \in Fiber : g # Null
    BY ConstantsAssumption
  <2> QED BY <1>p, <1>u, <2>1 DEF holds, Busy
<1>4. \A u \in Thread, fn \in Func : has(u, fn)' <=> has(u, fn)
  BY <1>p, <1>u DEF has, Taking
<1>5. /\ \A g \in Fiber : queued(g)' <=> queued(g)
      /\ \A fn \in Func : funcQueued(fn)' <=> funcQueued(fn)
  BY <1>u DEF queued, funcQueued
<1>6. \A g \in Fiber \ {f} : isDone(g)' <=> isDone(g)
  BY <1>s DEF isDone
<1>7. \A j \in Job : pending(j)' <=> pending(j)
  BY <1>4, <1>5 DEF pending, Func
<1>8. QueueApart' /\ NobodyWaits'
  BY <1>p, <1>u DEF PoolCore, QueueApart, NobodyWaits
<1>9. NoWakeUps'
  <2>1. \A fn \in WakeUps, g \in Fiber : m_func'[g] # fn
    BY <1>m, <1>2 DEF PoolCore, NoWakeUps
  <2>2. \A fn \in WakeUps : ~funcQueued(fn)' /\ \A u \in Thread : ~has(u, fn)'
    BY <1>4, <1>5 DEF PoolCore, NoWakeUps, Func
  <2> QED BY <2>1, <2>2 DEF NoWakeUps
<1>10. QueuedReady'
  BY <1>s, <1>3, <1>5 DEF PoolCore, QueuedReady
<1>11. OneHolder' /\ OwnTask'
  BY <1>3, <1>u DEF PoolCore, OneHolder, OwnTask
<1>12. TakenReady'
  <2> SUFFICES ASSUME NEW u \in Thread, pc'[u] \in Taking
               PROVE  Proper(tk[u]) /\ (tk[u].fiber # Null => m_state'[tk[u].fiber] = "READY")
    BY <1>u DEF TakenReady, Proper
  <2>1. pc[u] \in Taking
    BY <1>p DEF Taking
  <2>2. tk[u].fiber \in Fiber \cup {Null}
    BY DEF TypeOK, Task
  <2> QED BY <1>s, <2>1, <2>2 DEF PoolCore, TakenReady
<1>13. \A u \in Thread : pc[u] = "run" => cur[u] \in Fiber \ {f}
  <2>1. \A u \in Thread : pc[u] = "run" => cur[u] \in Fiber
    BY DEF FiberInv, OnItsFiber, Stack
  <2>2. \A u \in Thread : pc[u] = "run" => m_state[cur[u]] = "RUNNING"
    BY DEF PoolCore, RunsRunning
  <2> QED BY <1>p, <2>1, <2>2 DEF isDone
<1>14. OnStack'
  BY <1>p, <1>u DEF PoolCore, OnStack, Stack
<1>15. \A u \in Thread : pc'[u] = "run" <=> pc[u] = "run"
  BY <1>p
<1>16. RunsRunning'
  BY <1>s, <1>u, <1>13, <1>15 DEF PoolCore, RunsRunning
<1>17. RunningRuns'
  <2> SUFFICES ASSUME NEW g \in Fiber, m_state'[g] \in {"RUNNING", "SUSPEND"}
               PROVE  \E u \in Thread : pc'[u] = "run" /\ cur'[u] = g
    BY DEF RunningRuns
  <2>1. g # f
    BY <1>s
  <2>2. PICK u \in Thread : pc[u] = "run" /\ cur[u] = g
    BY <1>s, <2>1 DEF PoolCore, RunningRuns
  <2> QED BY <1>u, <1>15, <2>2
<1>18. OneFiber'
  <2> SUFFICES ASSUME NEW g \in Fiber, NEW e \in Fiber, m_func'[g] \in Job, m_func'[g] = m_func'[e]
               PROVE  g = e
    BY DEF OneFiber
  <2>1. g # f /\ e # f
    BY <1>m, <1>2
  <2> QED BY <1>m, <2>1 DEF PoolCore, OneFiber
<1>19. FuncOnce'
  BY <1>4, <1>5 DEF PoolCore, FuncOnce, Func
<1>20. PendingIsNew'
  <2> SUFFICES ASSUME NEW j \in Job, pending(j)
               PROVE  life'[j] = "scheduled" /\ \A g \in Fiber : m_func'[g] # j
    BY <1>7 DEF PendingIsNew
  <2>1. life[j] = "scheduled" /\ \A g \in Fiber : m_func[g] # j
    BY DEF PoolCore, PendingIsNew
  <2>2. \A g \in Fiber : m_func'[g] # j
    BY <1>m, <1>2, <2>1
  <2> QED BY <1>u, <2>1, <2>2
<1>21. FiberLife'
  <2> SUFFICES ASSUME NEW g \in Fiber, NEW j \in Job, m_func'[g] = j
               PROVE  life[j] # "fresh" /\ (life[j] = "ended" => isDone(g)')
    BY <1>u DEF FiberLife
  <2>1. g # f /\ m_func[g] = j
    BY <1>m, <1>2
  <2> QED BY <1>6, <2>1 DEF PoolCore, FiberLife
<1>22. RunsBegun'
  <2> SUFFICES ASSUME NEW u \in Thread, NEW j \in Job, pc[u] = "run", m_func'[cur[u]] = j
               PROVE  life[j] = "begun"
    BY <1>u, <1>15 DEF RunsBegun
  <2>1. m_func[cur[u]] = j
    BY <1>m, <1>13
  <2> QED BY <2>1 DEF PoolCore, RunsBegun
<1>23. JobsHeld'
  <2> SUFFICES ASSUME NEW j \in Job, life[j] = "scheduled"
               PROVE  pending(j) \/ \E g \in Fiber : m_func'[g] = j /\ ~isDone(g)'
    BY <1>u, <1>7 DEF JobsHeld
  <2>1. ASSUME NEW g \in Fiber, m_func[g] = j, ~isDone(g) PROVE m_func'[g] = j /\ ~isDone(g)'
    BY <1>p, <1>m, <1>6, <2>1
  <2> QED BY <2>1 DEF PoolCore, JobsHeld
<1> QED BY <1>8, <1>9, <1>10, <1>11, <1>12, <1>14, <1>16, <1>17, <1>18, <1>19, <1>20, <1>21,
           <1>22, <1>23 DEF PoolCore

\* The first task is in the queue.
LEMMA HeadIsQueued ==
  ASSUME TypeOK, PoolCore, m_tasks # <<>>
  PROVE  \E x \in Task : /\ x = Head(m_tasks) /\ Proper(x)
                         /\ \A f \in Fiber : x.fiber = f => queued(f)
<1>1. m_tasks \in Seq(Task)
  BY DEF TypeOK
<1>2. Head(m_tasks) = m_tasks[1] /\ Head(m_tasks) \in Task /\ 1 \in DOMAIN m_tasks
  BY <1>1, SeqHeadTail
<1> QED BY <1>2 DEF PoolCore, QueueApart, queued

\* Every step of a worker.
LEMMA WorkerCore ==
  ASSUME TypeOK, FiberInv, PoolCore, NoWaits, NEW t \in Thread, Worker(t)
  PROVE  PoolCore' /\ ~SkipDone(t) /\ fault' = fault
<1> USE DEF queueVars, countVars, fiberVars, runVars, idleVars, restVars, waitVars,
            jobVars, userVars, Goto
<1>0. /\ \A f \in Fiber : timers[f] = 0
      /\ events = {} /\ \A u \in Thread : pc[u] \notin {"park", "enqueue"}
  BY DEF PoolCore, NobodyWaits
<1>1. CASE Find(t)
  <2>1. CASE TakeTask(t)
    BY <2>1, TakeCore DEF TakeTask, SkipDone
  <2>2. CASE TakeRunning(t)
    <3>1. PICK x \in Task : x = Head(m_tasks) /\ Proper(x) /\ \A f \in Fiber : x.fiber = f => queued(f)
      BY <2>2, HeadIsQueued DEF TakeRunning
    <3>2. x.fiber \in Fiber /\ m_state[x.fiber] = "RUNNING"
      BY <2>2, <3>1 DEF TakeRunning, Proper, Task
    <3> QED BY <3>1, <3>2 DEF PoolCore, QueuedReady
  <2>3. CASE MeetPinned(t) \/ FindNothing(t)
    <3>1. /\ pc[t] = "find" /\ pc'[t] \in {"spin", "notask"}
          /\ \A u \in Thread \ {t} : pc'[u] = pc[u] /\ tk'[u] = tk[u]
          /\ UNCHANGED <<m_tasks, timers, events, m_state, m_func, func_fiber, cur, life, fault>>
      BY <2>3 DEF MeetPinned, FindNothing, TypeOK
    <3>2. \A u \in Thread : SameTask(u)
      BY <1>0, <3>1 DEF SameTask, SamePlace, Busy, Stack, Taking
    <3>3. NobodyWaits'
      BY <1>0, <3>1 DEF NobodyWaits
    <3> QED BY <3>1, <3>2, <3>3, QuietCore DEF SkipDone
  <2> QED BY <1>1, <2>1, <2>2, <2>3 DEF Find
<1>2. CASE Resume(t)
  <2>1. ~SkipDone(t)
    BY DEF SkipDone, isDone, PoolCore, TakenReady, Taking
  <2>2. CASE CountActive(t)
    <3>1. /\ pc[t] = "count" /\ pc'[t] = "dispatch" /\ \A u \in Thread \ {t} : pc'[u] = pc[u]
          /\ UNCHANGED <<m_tasks, timers, events, m_state, m_func, tk, func_fiber, cur, life, fault>>
      BY <2>2 DEF CountActive, TypeOK
    <3>2. \A u \in Thread : SameTask(u)
      BY <1>0, <3>1 DEF SameTask, SamePlace, Busy, Stack, Taking
    <3>3. NobodyWaits'
      BY <1>0, <3>1 DEF NobodyWaits
    <3> QED BY <2>1, <3>1, <3>2, <3>3, QuietCore
  <2>3. CASE CallFiber(t)
    BY <2>1, <2>3, CallFiberCore DEF CallFiber
  <2>4. CASE CallFunc(t)
    BY <2>1, <2>4, CallFuncCore DEF CallFunc
  <2>5. CASE CallShared(t)
    <3>1. /\ pc[t] = "dispatch" /\ (tk[t].fiber # Null \/ func_fiber[t] # Null)
          /\ onOtherStack(t, target(t))
      BY <2>5 DEF CallShared
    <3>2. target(t) \in Fiber /\ holds(t, target(t))
      BY <3>1 DEF target, holds, Busy, TypeOK, Task
    <3>3. PICK u \in Thread \ {t} : cur[u] = target(t)
      BY <3>1 DEF onOtherStack
    <3>4. holds(u, target(t))
      BY <3>2, <3>3, StackIsOwn
    <3> QED BY <3>2, <3>3, <3>4 DEF PoolCore, OneHolder
  <2> QED BY <1>2, <2>1, <2>2, <2>3, <2>4, <2>5 DEF Resume
<1>3. CASE Body(t)
  <2>0. pc[t] # "dispatch"
    BY <1>3 DEF Body, Return, Throw, WakeSleeper, YieldReady, Sleep, WaitEvent, Yield, Spawn,
                ScheduleSelf, Swap, operate, running
  <2>1. CASE Return(t) \/ Throw(t)
    <3>1. /\ pc[t] = "run" /\ UNCHANGED <<m_tasks, m_func, tk, func_fiber, cur, timers, events, fault>>
          /\ leaveAs(t, "TERM") \/ leaveAs(t, "EXCEPT")
      BY <2>1 DEF Return, Throw, running
    <3>2. /\ \A j \in Job : m_func[cur[t]] = j => life'[j] = "ended"
          /\ \A j \in Job : m_func[cur[t]] # j => life'[j] = life[j]
      <4>1. CASE \E j \in Job : m_func[cur[t]] = j /\ life' = [life EXCEPT ![j] = "ended"]
        BY <4>1 DEF TypeOK
      <4>2. CASE m_func[cur[t]] = Null /\ UNCHANGED life
        <5>1. Null \notin Job
          BY ConstantsAssumption DEF Func
        <5> QED BY <4>2, <5>1
      <4> QED BY <2>1, <4>1, <4>2 DEF Return, Throw, running
    <3> QED BY <2>0, <3>1, <3>2, LeaveCore DEF SkipDone
  <2>2. CASE YieldReady(t)
    <3>1. /\ pc[t] = "run" /\ leaveAs(t, "READY")
          /\ UNCHANGED <<m_tasks, m_func, tk, func_fiber, cur, timers, events, life, fault>>
      BY <2>2 DEF YieldReady, operate, running
    <3> QED BY <2>0, <3>1, LeaveCore DEF SkipDone
  <2>3. CASE Spawn(t)
    <3>1. PICK j \in Job, kind \in Kinds, thr \in Pins : Submit(j, kind, thr)
      BY <2>3 DEF Spawn
    <3>2. UNCHANGED <<pc, tk, func_fiber, cur, timers, events, fault>>
      BY <2>3 DEF Spawn
    <3> QED BY <2>0, <3>1, <3>2, SubmitCore DEF SkipDone
  <2>4. CASE Swap(t)
    BY <2>4, SwapCore DEF Swap, SkipDone
  <2>5. ~Sleep(t) /\ ~WaitEvent(t) /\ ~ScheduleSelf(t) /\ ~Yield(t)
    BY <1>0 DEF Sleep, WaitEvent, ScheduleSelf, operate, Yield, NoWaits
  <2>6. ~WakeSleeper(t)
    <3>1. pc[t] = "run" => cur[t] \in Fiber
      BY DEF FiberInv, OnItsFiber, Stack
    <3> QED BY <3>1 DEF WakeSleeper, running, PoolCore, NoWakeUps, WakeUps
  <2> QED BY <1>3, <2>1, <2>2, <2>3, <2>4, <2>5, <2>6 DEF Body
<1>4. CASE After(t)
  <2>1. CASE CountInactive(t)
    <3>1. /\ pc[t] = "back" /\ pc'[t] = "resched" /\ \A u \in Thread \ {t} : pc'[u] = pc[u]
          /\ UNCHANGED <<m_tasks, timers, events, m_state, m_func, tk, func_fiber, cur, life, fault>>
      BY <2>1 DEF CountInactive, TypeOK
    <3>2. \A u \in Thread : SameTask(u)
      BY <1>0, <3>1 DEF SameTask, SamePlace, Busy, Stack, Taking
    <3>3. NobodyWaits'
      BY <1>0, <3>1 DEF NobodyWaits
    <3> QED BY <3>1, <3>2, <3>3, QuietCore DEF SkipDone
  <2>2. CASE Reschedule(t) \/ LetGo(t)
    BY <2>2, ReleaseCore DEF Reschedule, LetGo, SkipDone
  <2>3. CASE KeepFuncFiber(t)
    BY <2>3, KeepCore DEF KeepFuncFiber, SkipDone
  <2>4. CASE ResetShared(t)
    <3>1. pc[t] = "resched" /\ ~isFiberTask(t) /\ onOtherStack(t, left(t))
      BY <2>4 DEF ResetShared
    <3>2. left(t) \in Fiber /\ holds(t, left(t))
      BY <3>1 DEF left, isFiberTask, holds, FiberInv, OnItsFiber, runsFunc, Stack, TypeOK
    <3>3. PICK u \in Thread \ {t} : cur[u] = left(t)
      BY <3>1 DEF onOtherStack
    <3>4. holds(u, left(t))
      BY <3>2, <3>3, StackIsOwn
    <3> QED BY <3>2, <3>3, <3>4 DEF PoolCore, OneHolder
  <2> QED BY <1>4, <2>1, <2>2, <2>3, <2>4 DEF After
<1>5. CASE Idle(t)
  <2>1. CASE Exit(t)
    BY <2>1, ReleaseCore DEF Exit, SkipDone
  <2>2. CASE ~Exit(t)
    <3>1. /\ pc[t] \in IdleLabels \cup {"notask"} /\ pc'[t] \in IdleLabels \cup {"find"}
          /\ \A u \in Thread \ {t} : pc'[u] = pc[u]
      BY <1>5, <2>2 DEF Idle, EnterIdle, CheckTimers, CheckDone, EpollWait, CollectExpired,
                  EnqueueExpired, HandleEvent, Drain, LeaveIdle, IdleLabels, TypeOK
    <3>2. UNCHANGED <<m_state, m_func, tk, func_fiber, cur, life, fault>>
      BY <1>5, <2>2 DEF Idle, EnterIdle, CheckTimers, CheckDone, EpollWait, CollectExpired,
                  EnqueueExpired, HandleEvent, Drain, LeaveIdle
    <3> DEFINE still == /\ UNCHANGED m_tasks /\ events' = {} /\ \A f \in Fiber : timers'[f] = 0
                        /\ pc'[t] \notin {"park", "enqueue"}
    <3>3. ASSUME CollectExpired(t) PROVE still
      <4>1. {f \in Fiber : timers[f] > 0} = {}
        BY <1>0, SMTT(60)
      <4>2. PICK due \in SUBSET {f \in Fiber : timers[f] > 0} :
              /\ timers' = [f \in Fiber |-> IF f \in due THEN timers[f] - 1 ELSE timers[f]]
              /\ Goto(t, IF due = {} THEN "leave" ELSE "enqueue")
        BY <3>3 DEF CollectExpired
      <4>3. due = {}
        BY <4>1
      <4>4. (\A f \in Fiber : timers'[f] = 0) /\ pc' = [pc EXCEPT ![t] = "leave"]
        BY <1>0, <4>2, <4>3
      <4> QED BY <1>0, <3>3, <4>4 DEF CollectExpired, TypeOK
    <3>4. ASSUME HandleEvent(t) PROVE still
      BY <1>0, <3>4 DEF HandleEvent
    <3>5. ASSUME \/ EnterIdle(t) \/ CheckTimers(t) \/ CheckDone(t)
                 \/ EpollWait(t) \/ Drain(t) \/ LeaveIdle(t)
          PROVE  still
      BY <1>0, <3>5 DEF EnterIdle, CheckTimers, CheckDone, EpollWait, Drain, LeaveIdle, TypeOK
    <3>6. ~EnqueueExpired(t)
      BY <1>0 DEF EnqueueExpired
    <3>7. still
      BY <1>5, <2>2, <3>3, <3>4, <3>5, <3>6 DEF Idle
    <3>8. \A u \in Thread : SameTask(u)
      <4>1. SameTask(t)
        <5>1. pc[t] \notin Busy /\ pc'[t] \notin Busy
          BY <3>1 DEF Busy, IdleLabels
        <5>2. "run" \in Busy /\ Taking \subseteq Busy /\ Stack \subseteq Busy
              /\ {"back", "resched"} \subseteq Busy
          BY DEF Busy, Taking, Stack
        <5> QED BY <3>7, <5>1, <5>2 DEF SameTask, SamePlace
      <4> QED BY <1>0, <3>1, <3>2, <4>1 DEF SameTask, SamePlace
    <3>9. NobodyWaits'
      BY <1>0, <3>1, <3>7 DEF NobodyWaits
    <3>10. ~SkipDone(t)
      BY <3>1 DEF SkipDone, IdleLabels
    <3> QED BY <3>2, <3>7, <3>8, <3>9, <3>10, QuietCore
  <2> QED BY <2>1, <2>2
<1> QED BY <1>1, <1>2, <1>3, <1>4, <1>5 DEF Worker

\* Every step of the user thread.
LEMMA UserCore ==
  ASSUME SchedulerInv, FiberInv, PoolCore, UserStep
  PROVE  PoolCore' /\ fault' = fault
<1> USE DEF queueVars, countVars, fiberVars, runVars, idleVars, restVars, waitVars,
            jobVars, userVars
<1>0. /\ \A f \in Fiber : timers[f] = 0
      /\ events = {} /\ \A u \in Thread : pc[u] \notin {"park", "enqueue"}
  BY DEF PoolCore, NobodyWaits
<1>1. CASE UserSchedule
  <2>1. PICK j \in Job, kind \in Kinds, thr \in Pins : Submit(j, kind, thr)
    BY <1>1 DEF UserSchedule
  <2>2. UNCHANGED <<pc, tk, func_fiber, cur, timers, events, fault>>
    BY <1>1 DEF UserSchedule
  <2> QED BY <2>1, <2>2, SubmitCore DEF SchedulerInv
<1>2. CASE ~UserSchedule
  <2>1. UNCHANGED <<m_tasks, timers, events, m_state, m_func, tk, func_fiber, cur, life, fault>>
    BY <1>2 DEF UserStep, StopStep, StopTickle, StopReturn, Start, Stop
  <2>2. \A u \in Thread : SameTask(u)
    <3>1. CASE Start
      BY <1>0, <2>1, <3>1 DEF Start, SchedulerInv, OffWhenStopped, SameTask, SamePlace, Busy, Stack, Taking
    <3>2. CASE StopReturn
      BY <1>0, <2>1, <3>2 DEF StopReturn, joined, SameTask, SamePlace, Busy, Stack, Taking
    <3> QED BY <1>0, <1>2, <2>1, <3>1, <3>2
            DEF UserStep, StopStep, StopTickle, Stop, SameTask, SamePlace
  <2>3. NobodyWaits'
    <3>1. \A u \in Thread : pc'[u] \notin {"park", "enqueue"}
      BY <1>0, <1>2 DEF UserStep, StopStep, StopTickle, StopReturn, Start, Stop
    <3> QED BY <1>0, <2>1, <3>1 DEF NobodyWaits
  <2> QED BY <2>1, <2>2, <2>3, QuietCore
<1> QED BY <1>1, <1>2

\* A worker that leaves has just seen an empty queue; whoever adds to the queue
\* then stays to look at it.
LEMMA WorkerStays ==
  ASSUME TypeOK, PoolCore, SomeoneLeft, NEW t \in Thread, Worker(t), ~SkipDone(t)
  PROVE  SomeoneLeft'
<1> USE DEF queueVars, countVars, fiberVars, runVars, idleVars, restVars, waitVars,
            jobVars, userVars, Goto
<1>1. UNCHANGED user /\ \A u \in Thread \ {t} : idle_done'[u] = idle_done[u]
  <2>1. CASE Find(t)
    BY <2>1 DEF Find, TakeTask, TakeRunning, MeetPinned, FindNothing, abort
  <2>2. CASE Resume(t)
    BY <2>2 DEF Resume, CountActive, CallFiber, CallFunc, CallShared, abort
  <2>3. CASE Body(t)
    BY <2>3 DEF Body, Return, Throw, WakeSleeper, YieldReady, Sleep, WaitEvent, Yield, Spawn,
                ScheduleSelf, Swap
  <2>4. CASE After(t)
    BY <2>4 DEF After, CountInactive, Reschedule, KeepFuncFiber, ResetShared, LetGo, abort
  <2>5. CASE Idle(t)
    BY <2>5 DEF Idle, Exit, EnterIdle, CheckTimers, CheckDone, EpollWait, CollectExpired,
                EnqueueExpired, HandleEvent, Drain, LeaveIdle, TypeOK
  <2> QED BY <2>1, <2>2, <2>3, <2>4, <2>5 DEF Worker
<1>0. \A u \in Thread \ {t} : (leaves(u)' <=> leaves(u)) /\ pc'[u] = pc[u]
  BY <1>1, OthersStay DEF leaves
<1>2. CASE FindNothing(t)
  BY <1>0, <1>1, <1>2 DEF FindNothing, SomeoneLeft, TypeOK
<1>3. CASE Exit(t)
  <2>1. leaves(t) /\ idle_done'[t] /\ m_tasks' = m_tasks
    BY <1>3 DEF Exit, leaves
  <2> QED BY <1>0, <1>1, <2>1 DEF SomeoneLeft
<1>4. CASE ~FindNothing(t) /\ ~Exit(t)
  <2>1. pc'[t] \notin {"notask", "exited"}
    <3>1. CASE Find(t)
      BY <1>4, <3>1 DEF Find, TakeTask, TakeRunning, MeetPinned, abort, TypeOK
    <3>2. CASE Resume(t)
      BY <3>2 DEF Resume, CountActive, CallFiber, CallFunc, CallShared, abort, call, TypeOK
    <3>3. CASE Body(t)
      BY <3>3 DEF Body, Return, Throw, WakeSleeper, YieldReady, Sleep, WaitEvent, Yield, Spawn,
                  ScheduleSelf, Swap, leaveAs, operate, running, TypeOK
    <3>4. CASE After(t)
      BY <3>4 DEF After, CountInactive, Reschedule, KeepFuncFiber, ResetShared, LetGo, abort,
                  TypeOK
    <3>5. CASE Idle(t)
      BY <1>4, <3>5 DEF Idle, EnterIdle, CheckTimers, CheckDone, EpollWait, CollectExpired,
                  EnqueueExpired, HandleEvent, Drain, LeaveIdle, TypeOK
    <3> QED BY <3>1, <3>2, <3>3, <3>4, <3>5 DEF Worker
  <2> QED BY <1>0, <1>1, <2>1 DEF SomeoneLeft, leaves
<1> QED BY <1>2, <1>3, <1>4

\* The user adds to the queue while no worker has left, or none is there.
LEMMA UserStays ==
  ASSUME SchedulerInv, SomeoneLeft, UserStep
  PROVE  SomeoneLeft' /\ (ActiveCountExact => ActiveCountExact')
<1> USE DEF queueVars, countVars, fiberVars, runVars, idleVars, restVars, waitVars,
            jobVars, userVars
<1>1. PICK t \in Thread : TRUE
  BY ConstantsAssumption
<1>2. CASE UserSchedule
  <2>1. UNCHANGED <<pc, idle_done, user, m_active_threads>> /\ user \in {"stopped", "started"}
    BY <1>2 DEF UserSchedule
  <2>2. user = "started" => ~leaves(t)
    BY DEF SchedulerInv, EndsOnlyWhileStopping, SomeoneLeft, leaves
  <2>3. user = "started" => ~leaves(t)'
    BY <2>1, <2>2 DEF leaves
  <2> QED BY <2>1, <2>3 DEF SomeoneLeft, ActiveCountExact, At
<1>3. CASE Start
  <2>1. pc' = [u \in Thread |-> "find"] /\ m_active_threads' = m_active_threads
        /\ \A u \in Thread : pc[u] = "off"
    BY <1>3 DEF Start, SchedulerInv, OffWhenStopped
  <2>2. At(pc, ActiveLabels) = {} /\ At(pc', ActiveLabels) = {}
    BY <2>1 DEF At, ActiveLabels
  <2> QED BY <1>1, <2>1, <2>2 DEF SomeoneLeft, leaves, ActiveCountExact
<1>4. CASE StopReturn
  <2>1. /\ pc' = [u \in Thread |-> "off"] /\ m_active_threads' = m_active_threads
        /\ user' = "stopped" /\ \A u \in Thread : pc[u] = "exited"
    BY <1>4 DEF StopReturn, joined
  <2>2. At(pc, ActiveLabels) = {} /\ At(pc', ActiveLabels) = {}
    BY <2>1 DEF At, ActiveLabels
  <2> QED BY <2>1, <2>2 DEF SomeoneLeft, ActiveCountExact
<1>5. CASE Stop \/ StopTickle
  <2>1. UNCHANGED <<pc, idle_done, m_active_threads, m_tasks>> /\ user # "stopped"
    BY <1>5 DEF Stop, StopTickle
  <2> QED BY <2>1 DEF SomeoneLeft, leaves, ActiveCountExact, At
<1> QED BY <1>2, <1>3, <1>4, <1>5 DEF UserStep, StopStep

\* Nothing is in two places when start() has returned.
LEMMA InitPool ==
  ASSUME Init, Sizes
  PROVE  PoolTaskInv
<1>1. DOMAIN m_tasks = {}
  BY SeqEmpty DEF Init
<1>2. /\ \A f \in Fiber : ~queued(f)
      /\ \A fn \in Func : ~funcQueued(fn)
      /\ \A t \in Thread, fn \in Func : ~has(t, fn)
      /\ \A t \in Thread, f \in Fiber : ~holds(t, f)
  BY <1>1, ConstantsAssumption DEF Init, queued, funcQueued, has, holds, Taking, Busy
<1>3. \A f \in Fiber : m_func[f] = Null /\ m_state[f] = "NONE"
  BY DEF Init
<1>4. Null \notin Job /\ Null \notin WakeUps /\ \A j \in Job : ~pending(j) /\ life[j] = "fresh"
  BY <1>2, ConstantsAssumption DEF Init, pending, Func
<1>5. QueueApart /\ NobodyWaits
  BY <1>1 DEF Init, QueueApart, NobodyWaits
<1>6. NoWakeUps
  BY <1>2, <1>3, <1>4 DEF NoWakeUps, Func
<1>9. QueuedReady /\ OneHolder
  BY <1>2 DEF QueuedReady, OneHolder
<1>10. OwnTask /\ TakenReady /\ OnStack /\ RunsRunning
  BY DEF Init, OwnTask, TakenReady, OnStack, RunsRunning, Busy, Taking
<1>11. RunningRuns /\ OneFiber /\ FiberLife
  BY <1>3, <1>4 DEF RunningRuns, OneFiber, FiberLife
<1>12. FuncOnce /\ PendingIsNew /\ JobsHeld
  BY <1>2, <1>4 DEF FuncOnce, PendingIsNew, JobsHeld, Func
<1>13. RunsBegun
  BY DEF Init, RunsBegun
<1>7. SomeoneLeft /\ NoFault
  BY DEF Init, SomeoneLeft, NoFault
<1>8. ActiveCountExact
  <2>1. At(pc, ActiveLabels) = {}
    BY DEF Init, At, ActiveLabels
  <2> QED BY <2>1 DEF Sizes, Init, ActiveCountExact
<1> QED BY <1>5, <1>6, <1>7, <1>8, <1>9, <1>10, <1>11, <1>12, <1>13 DEF PoolTaskInv, PoolCore

\* Every step keeps each task, fiber and job in one place.
LEMMA StepPool ==
  ASSUME SchedulerInv, Sizes, FiberInv, PoolTaskInv, NoWaits, [Next]_vars
  PROVE  PoolTaskInv'
<1>0. TypeOK /\ PoolCore /\ SomeoneLeft /\ fault = "none" /\ ActiveCountExact
  BY DEF PoolTaskInv, SchedulerInv, NoFault
<1>1. PoolTaskInv' <=> PoolCore' /\ SomeoneLeft' /\ NoFault' /\ ActiveCountExact'
  BY DEF PoolTaskInv
<1>2. ASSUME NEW t \in Thread, Worker(t) PROVE PoolTaskInv'
  <2>1. PoolCore' /\ ~SkipDone(t) /\ fault' = fault
    BY <1>0, <1>2, WorkerCore
  <2>2. ActiveCountExact' /\ SomeoneLeft'
    BY <1>0, <1>2, <2>1, ExactCount, WorkerStays
  <2> QED BY <1>0, <1>1, <2>1, <2>2 DEF NoFault
<1>3. CASE UserStep
  BY <1>0, <1>1, <1>3, UserCore, UserStays DEF NoFault
<1>4. CASE UNCHANGED vars
  <2> USE DEF vars, queueVars, countVars, waitVars, fiberVars, runVars, idleVars, jobVars, userVars
  <2>1. PoolCore'
    <3>1. NobodyWaits'
      BY <1>0, <1>4 DEF PoolCore, NobodyWaits
    <3>2. \A t \in Thread : SameTask(t)
      BY <1>4 DEF SameTask, SamePlace
    <3> QED BY <1>0, <1>4, <3>1, <3>2, QuietCore
  <2>2. SomeoneLeft' /\ NoFault' /\ ActiveCountExact'
    BY <1>0, <1>4 DEF SomeoneLeft, leaves, NoFault, ActiveCountExact, At
  <2> QED BY <1>1, <2>1, <2>2
<1> QED BY <1>2, <1>3, <1>4 DEF Next, Spin, Rest

-----------------------------------------------------------------------------
(* stop() and the abstract pool *)

\* When every worker has exited no job is waiting or under way: its function or its
\* fiber would be in the queue or with a worker.
LEMMA NothingLeft ==
  ASSUME SchedulerInv, FiberInv, PoolTaskInv, joined
  PROVE  m_tasks = <<>> /\ \A j \in Job : life[j] \in {"fresh", "ended"}
<1>1. \A t \in Thread : pc[t] = "exited" /\ user = "stopping"
  BY DEF joined
<1>2. m_tasks = <<>>
  BY <1>1, ConstantsAssumption DEF PoolTaskInv, SomeoneLeft, leaves
<1>3. /\ \A f \in Fiber : ~queued(f)
      /\ \A fn \in Func : ~funcQueued(fn)
      /\ \A t \in Thread, fn \in Func : ~has(t, fn)
  <2>1. DOMAIN m_tasks = {}
    BY <1>2, SMTT(60)
  <2> QED BY <1>1, <2>1 DEF queued, funcQueued, has, Taking
<1>4. \A f \in Fiber : m_func[f] \in Job => isDone(f)
  <2> SUFFICES ASSUME NEW f \in Fiber, m_func[f] \in Job, ~isDone(f) PROVE FALSE
    OBVIOUS
  <2>1. m_state[f] \notin {"RUNNING", "SUSPEND"}
    BY <1>1 DEF PoolTaskInv, PoolCore, RunningRuns
  <2>2. PICK t \in Thread : holds(t, f)
    BY <1>3, <2>1 DEF FiberInv, LiveHeld
  <2>3. func_fiber[t] = f /\ ~runsFunc(t)
    BY <1>1, <2>2 DEF holds, Busy, runsFunc, Stack
  <2> QED BY <2>3, ConstantsAssumption DEF FiberInv, FuncFiberFree, Func
<1>5. \A j \in Job : life[j] \notin {"scheduled", "begun"}
  BY <1>3, <1>4 DEF PoolTaskInv, PoolCore, JobsHeld, pending, FiberInv, ContinuationKept, Func
<1> QED BY <1>2, <1>5 DEF SchedulerInv, TypeOK

\* What a step of a worker does to the jobs: one is begun or ended, or one that is
\* running hands over another.
LEMMA WorkerRefines ==
  ASSUME SchedulerInv, FiberInv, PoolTaskInv, NoWaits, NEW t \in Thread, Worker(t)
  PROVE  [Pool!Next]_(Pool!vars)
<1> USE DEF queueVars, countVars, fiberVars, runVars, idleVars, restVars, waitVars,
            jobVars, userVars, Goto, Pool!vars
<1>0. TypeOK /\ PoolCore
  BY DEF SchedulerInv, PoolTaskInv
<1>1. pc[t] # "off" => user # "stopped"
  BY DEF SchedulerInv, OffWhenStopped
<1>2. CASE Find(t)
  BY <1>2 DEF Find, TakeTask, TakeRunning, MeetPinned, FindNothing, abort
<1>3. CASE Resume(t)
  <2>1. ASSUME NEW f, NEW fn, call(t, f, fn), pc[t] = "dispatch", UNCHANGED user,
               fn \in Job => life[fn] \in {"scheduled", "begun"}
        PROVE  [Pool!Next]_(Pool!vars)
    <3>1. CASE fn \in Job /\ life[fn] = "scheduled"
      <4>1. Pool!Begin(fn)
        BY <1>1, <2>1, <3>1 DEF call, Pool!Begin, Pool!advance
      <4> QED BY <3>1, <4>1 DEF Pool!Next
    <3>2. CASE fn \in Job /\ life[fn] = "begun"
      BY <1>0, <2>1, <3>2 DEF call, TypeOK
    <3>3. CASE fn \notin Job
      BY <2>1, <3>3 DEF call
    <3> QED BY <2>1, <3>1, <3>2, <3>3
  <2>2. CASE CallFiber(t)
    <3>1. PICK f \in Fiber : f = tk[t].fiber
      BY <1>0, <2>2 DEF CallFiber, TypeOK, Task
    <3>2. call(t, f, m_func[f]) /\ ~isDone(f) /\ pc[t] = "dispatch" /\ UNCHANGED user
      BY <2>2, <3>1 DEF CallFiber
    <3>3. m_func[f] \in Job => life[m_func[f]] \notin {"fresh", "ended"}
      BY <3>2 DEF PoolTaskInv, PoolCore, FiberLife
    <3>4. m_func[f] \in Job => life[m_func[f]] \in {"scheduled", "begun"}
      BY <1>0, <3>3 DEF TypeOK
    <3> QED BY <2>1, <3>2, <3>4
  <2>3. CASE CallFunc(t)
    <3>1. call(t, target(t), tk[t].func) /\ pc[t] = "dispatch" /\ UNCHANGED user
      BY <2>3 DEF CallFunc
    <3>2. tk[t].func \in Job => life[tk[t].func] = "scheduled"
      BY <3>1 DEF PoolTaskInv, PoolCore, PendingIsNew, pending, has, Taking
    <3> QED BY <2>1, <3>1, <3>2
  <2>4. CASE CountActive(t) \/ CallShared(t) \/ SkipDone(t)
    BY <2>4 DEF CountActive, CallShared, SkipDone, abort
  <2> QED BY <1>3, <2>2, <2>3, <2>4 DEF Resume
<1>4. CASE Body(t)
  <2>1. ASSUME NEW j \in Job, running(t, j) PROVE life[j] = "begun" /\ user # "stopped"
    BY <1>1, <2>1 DEF running, PoolTaskInv, PoolCore, RunsBegun
  <2>2. ASSUME NEW j \in Job, running(t, j), life' = [life EXCEPT ![j] = "ended"], UNCHANGED user
        PROVE  [Pool!Next]_(Pool!vars)
    <3>1. Pool!End(j)
      BY <2>1, <2>2 DEF Pool!End, Pool!advance
    <3> QED BY <3>1 DEF Pool!Next
  <2>3. CASE Return(t) \/ Throw(t)
    BY <2>2, <2>3 DEF Return, Throw
  <2>4. CASE Spawn(t)
    <3>1. PICK k \in Job : running(t, k)
      BY <2>4 DEF Spawn, operate
    <3>2. PICK j \in Job, kind \in Kinds, thr \in Pins : Submit(j, kind, thr)
      BY <2>4 DEF Spawn
    <3>3. UNCHANGED user
      BY <2>4 DEF Spawn
    <3>4. Pool!Submit(j)
      BY <2>1, <3>1, <3>2, <3>3 DEF Submit, Pool!Submit, Pool!advance
    <3> QED BY <3>4 DEF Pool!Next
  <2>5. CASE ~Return(t) /\ ~Throw(t) /\ ~Spawn(t)
    BY <1>4, <2>5 DEF Body, WakeSleeper, YieldReady, Sleep, WaitEvent, Yield, ScheduleSelf, Swap
  <2> QED BY <2>3, <2>4, <2>5
<1>5. CASE After(t)
  BY <1>5 DEF After, CountInactive, Reschedule, KeepFuncFiber, ResetShared, LetGo, abort
<1>6. CASE Idle(t)
  BY <1>6 DEF Idle, Exit, EnterIdle, CheckTimers, CheckDone, EpollWait, CollectExpired,
              EnqueueExpired, HandleEvent, Drain, LeaveIdle
<1> QED BY <1>2, <1>3, <1>4, <1>5, <1>6 DEF Worker

\* What a step of the user thread does to the jobs and the pool.
LEMMA UserRefines ==
  ASSUME SchedulerInv, FiberInv, PoolTaskInv, UserStep
  PROVE  [Pool!Next]_(Pool!vars)
<1> USE DEF jobVars, userVars, Pool!vars
<1>1. CASE UserSchedule
  <2>1. PICK j \in Job, kind \in Kinds, thr \in Pins : Submit(j, kind, thr)
    BY <1>1 DEF UserSchedule
  <2>2. user # "stopping" /\ UNCHANGED user
    BY <1>1 DEF UserSchedule
  <2>3. Pool!Submit(j)
    BY <2>1, <2>2 DEF Submit, Pool!Submit, Pool!advance
  <2> QED BY <2>3 DEF Pool!Next
<1>2. CASE Start
  BY <1>2 DEF Start, Pool!Next, Pool!Start
<1>3. CASE Stop
  BY <1>3 DEF Stop, Pool!Next, Pool!Stop
<1>4. CASE StopReturn
  BY <1>4, NothingLeft DEF StopReturn, joined, Pool!Next, Pool!Return
<1>5. CASE StopTickle
  BY <1>5 DEF StopTickle
<1> QED BY <1>1, <1>2, <1>3, <1>4, <1>5 DEF UserStep, StopStep

-----------------------------------------------------------------------------
(* The theorems *)

INSTANCE FiniteSetTheorems

\* The sets of threads and of fibers are finite, as the counters need.
LEMMA SizesHold == Sizes
<1>1. ASSUME NEW S \in SUBSET Thread
      PROVE  /\ Cardinality(S) \in Nat /\ (Cardinality(S) = 0 <=> S = {})
             /\ \A t \in Thread : /\ t \notin S => Cardinality(S \cup {t}) = Cardinality(S) + 1
                                  /\ t \in S => Cardinality(S \ {t}) = Cardinality(S) - 1
  <2>1. IsFiniteSet(S)
    BY ConstantsAssumption, FS_Subset
  <2>2. Cardinality(S) \in Nat /\ (Cardinality(S) = 0 <=> S = {})
    BY <2>1, FS_CardinalityType, FS_EmptySet
  <2> QED BY <2>1, <2>2, FS_AddElement, FS_RemoveElement
<1>2. ASSUME NEW S \in SUBSET Fiber PROVE Cardinality(S) \in Nat
  BY ConstantsAssumption, FS_Subset, FS_CardinalityType
<1> QED BY <1>1, <1>2 DEF Sizes

-----------------------------------------------------------------------------
(* Counters and control *)

\* The invariant holds initially and is kept by every step of any worker or of
\* the user thread.
THEOREM SchedulerInvariant == Spec => []SchedulerInv
<1>1. Init => SchedulerInv
  <2> SUFFICES ASSUME Init PROVE SchedulerInv
    OBVIOUS
  <2>1. TypeOK
    <3>1. <<>> \in Seq(Task) /\ <<>> \in Seq(WakeUps) /\ EmptyTask \in Task
      BY SeqEmpty, SMTT(60) DEF Task, EmptyTask
    <3>2. 0 \in 0..Cardinality(Thread) /\ 0 \in 0..MaxStarts /\ 0 \in 0..MaxOps
      BY ConstantsAssumption, SizesHold, SMTT(60) DEF Sizes
    <3> QED BY <3>1, <3>2 DEF Init, TypeOK, Labels, States
  <2>2. At(pc, IdleLabels) = {} /\ At(pc, ActiveLabels) = {}
    BY DEF Init, At, IdleLabels, ActiveLabels
  <2>3. IdleCountExact /\ ActiveCountCovers
    <3>1. Cardinality({}) = 0
      BY SizesHold DEF Sizes
    <3>2. /\ Cardinality(At(pc, IdleLabels)) = 0
          /\ Cardinality(At(pc, ActiveLabels)) = 0
      BY <2>2, <3>1, Zenon
    <3> QED BY <3>2, SMTT(60) DEF Init, IdleCountExact, ActiveCountCovers
  <2> QED BY <2>1, <2>3 DEF Init, SchedulerInv, RunsAFiber, FlagsAgree,
                           OffWhenStopped, EndsOnlyWhileStopping
<1>2. SchedulerInv /\ [Next]_vars => SchedulerInv'
  <2> SUFFICES ASSUME SchedulerInv, [Next]_vars PROVE SchedulerInv'
    OBVIOUS
  <2>1. SchedulerInv <=> TypeOK /\ Control
    BY DEF SchedulerInv, Control
  <2>2. SchedulerInv' <=> TypeOK' /\ Control'
    BY DEF SchedulerInv, Control
  <2>3. ASSUME NEW t \in Thread, Worker(t) PROVE SchedulerInv'
    <3>1. TypeOK'
      BY <2>3, SizesHold, FindTypes, ResumeTypes, BodyTypes, AfterTypes, IdleTypes, ZenonT(60) DEF Worker
    <3> QED BY <2>2, <2>3, <3>1, SizesHold, WorkerControl
  <2>4. CASE UserStep
    BY <2>2, <2>4, SizesHold, UserTypes, UserControl, ZenonT(60)
  <2>5. CASE UNCHANGED vars
    BY <2>5, ZenonT(60) DEF vars, queueVars, countVars, waitVars, fiberVars, runVars, idleVars,
       jobVars, userVars, SchedulerInv, TypeOK, RunsAFiber, FlagsAgree,
       OffWhenStopped, IdleCountExact, ActiveCountCovers, EndsOnlyWhileStopping, At
  <2> QED BY <2>3, <2>4, <2>5 DEF Next, Spin, Rest
<1> QED BY <1>1, <1>2, PTL DEF Spec

\* The variables keep their types; the counters never pass below zero.
THEOREM TypeCorrect == Spec => []TypeOK
BY SchedulerInvariant, PTL DEF SchedulerInv

\* m_idle_threads counts the workers inside idle().
THEOREM IdleCount == Spec => []IdleCountExact
BY SchedulerInvariant, PTL DEF SchedulerInv

\* m_active_threads never understates the workers running a task.
THEOREM ActiveCount == Spec => []ActiveCountCovers
BY SchedulerInvariant, PTL DEF SchedulerInv

\* No worker leaves unless stop() is waiting for it.
THEOREM EndsWhileStopping == Spec => []EndsOnlyWhileStopping
BY SchedulerInvariant, PTL DEF SchedulerInv

-----------------------------------------------------------------------------
(* Continuations *)

\* Whose fiber is whose is clear in every reachable state.
THEOREM FiberInvariant == Spec => []FiberInv
BY InitFibers, StepFibers, SchedulerInvariant, PTL DEF Spec

\* The continuation of a job that has begun is kept until it ends, whatever the
\* jobs do and however many threads there are (scheduler.cpp:160-177).
THEOREM ContinuationsAreKept == Spec => []ContinuationKept
BY FiberInvariant, PTL DEF FiberInv

-----------------------------------------------------------------------------
(* The pool whose jobs do not suspend *)

\* Tasks, fibers and jobs stay apart in every reachable state.
THEOREM PoolInvariant == ASSUME NoWaits PROVE Spec => []PoolTaskInv
<1>1. Init => PoolTaskInv
  BY InitPool, SizesHold
<1>2. SchedulerInv /\ FiberInv /\ PoolTaskInv /\ [Next]_vars => PoolTaskInv'
  BY StepPool, SizesHold
<1> QED BY <1>1, <1>2, SchedulerInvariant, FiberInvariant, PTL DEF Spec

\* If no job suspends, no ASSERT on a task's fiber fails and no stack is shared,
\* however many workers there are (scheduler.cpp:122, fiber.cpp:107).
THEOREM NeverFaults == ASSUME NoWaits PROVE Spec => []NoFault
BY PoolInvariant, PTL DEF PoolTaskInv

\* If no job suspends, m_active_threads is the number of workers running a task
\* (scheduler.cpp:137, 150, 167).
THEOREM ActiveCountIsExact == ASSUME NoWaits PROVE Spec => []ActiveCountExact
BY PoolInvariant, PTL DEF PoolTaskInv

\* If no job suspends, nothing is left behind when stop() has joined the workers
\* (scheduler.cpp:212-217).
THEOREM StopDrainsPool == ASSUME NoWaits PROVE Spec => []StopDrains
<1>1. SchedulerInv /\ FiberInv /\ PoolTaskInv => StopDrains
  <2> SUFFICES ASSUME SchedulerInv, FiberInv, PoolTaskInv, joined PROVE StopDrains
    BY DEF StopDrains
  <2>1. m_tasks = <<>> /\ \A j \in Job : life[j] \in {"fresh", "ended"}
    BY NothingLeft
  <2>2. events = {} /\ \A f \in Fiber : timers[f] = 0
    BY DEF PoolTaskInv, PoolCore, NobodyWaits
  <2>3. ~hasTimers
    BY <2>2, SMTT(60) DEF hasTimers
  <2> QED BY <2>1, <2>2, <2>3 DEF StopDrains
<1> QED BY <1>1, SchedulerInvariant, FiberInvariant, PoolInvariant, PTL

\* If no job suspends, the workers implement the abstract pool: a job is begun
\* once and ended once, and stop() returns only when no job is left, for any
\* number of workers, fibers and jobs (scheduler.cpp:72-194).
THEOREM RefinesTaskPool == ASSUME NoWaits PROVE Spec => ImplementsTaskPool
<1>1. Init => Pool!Init
  BY DEF Init, Pool!Init
<1>2. SchedulerInv /\ FiberInv /\ PoolTaskInv /\ [Next]_vars => [Pool!Next]_(Pool!vars)
  <2> SUFFICES ASSUME SchedulerInv, FiberInv, PoolTaskInv, [Next]_vars
               PROVE  [Pool!Next]_(Pool!vars)
    OBVIOUS
  <2>1. CASE UNCHANGED vars
    BY <2>1 DEF vars, jobVars, userVars, Pool!vars
  <2> QED BY <2>1, WorkerRefines, UserRefines DEF Next, Spin, Rest
<1> QED BY <1>1, <1>2, SchedulerInvariant, FiberInvariant, PoolInvariant, PTL
        DEF Spec, ImplementsTaskPool, Pool!Spec
=============================================================================
