------------------------------ MODULE Scheduler ------------------------------
(***************************************************************************)
(* The thread pool of EVA01: scheduler.cpp and scheduler.h, with the parts *)
(* of fiber.cpp, hook.cpp, timer.cpp and iomanager.cpp a worker executes.  *)
(*                                                                         *)
(* Each worker runs Scheduler::run(): take a task from m_tasks under       *)
(* m_mutex, count itself active, resume the task's fiber, count itself     *)
(* inactive, put the fiber back if it is READY; with no task it enters its *)
(* idle fiber, which checks shouldStop(), sleeps in epoll_wait, turns      *)
(* expired timers and IO events into tasks, and yields.  One user thread   *)
(* calls start(), schedule() and stop().                                   *)
(*                                                                         *)
(* A section under m_mutex is one step, except shouldStop(), whose two     *)
(* reads of state m_mutex does not protect are two steps.  Time is left    *)
(* out: a timer may expire, and epoll_wait time out, at any moment.        *)
(***************************************************************************)
EXTENDS Naturals, Sequences, FiniteSets

CONSTANTS
  Thread,     \* the worker threads, m_thread_count of them
  Fiber,      \* Fiber objects: a pool large enough never to run out
  Job,        \* the user's functions, each scheduled at most once
  Null,       \* nullptr, an empty std::function, thread id -1
  Ops,        \* what a job may do besides returning
  Kinds,      \* how a job is first scheduled: as "func" or as "fiber"
  Pins,       \* the thread ids jobs are scheduled with
  MaxOps,     \* bound on the operations one job performs
  MaxStarts   \* bound on the calls of start()

\* The function hook.cpp's sleep() gives its timer: schedule(fiber, -1).
WakeUp(f) == [wake |-> f]
WakeUps == {WakeUp(f) : f \in Fiber}
Func == Job \cup WakeUps

ASSUME ConstantsAssumption ==
  /\ IsFiniteSet(Thread) /\ Thread # {} /\ IsFiniteSet(Fiber)
  /\ Null \notin Thread \cup Fiber \cup Func
  /\ Job \cap WakeUps = {}
  /\ Ops \subseteq {"throw", "ready", "sleep", "wait", "spawn", "self"}
  /\ Kinds \subseteq {"func", "fiber"}
  /\ Pins \subseteq Thread \cup {Null}
  /\ MaxOps \in Nat /\ MaxStarts \in Nat

VARIABLES
  m_tasks,          \* the task queue
  m_mutex,          \* the worker holding m_mutex across steps, or Null
  m_stopping,       \* m_stopping and m_auto_stop, always assigned together
  m_active_threads,
  m_idle_threads,
  tickled,          \* the tickle pipe has an edge epoll has not delivered
  timers,           \* how many pending timers wake each fiber
  events,           \* fibers with a registered IO event: m_pending_count
  m_state,          \* Fiber::m_state; "NONE" before the first allocation
  m_func,           \* Fiber::m_func
  pc,               \* where each worker is in run() and idle()
  tk,               \* local tk of run()
  need_tickle,      \* local need_tickle of run()
  func_fiber,       \* local func_fiber of run()
  cur,              \* the fiber whose stack the worker is on, or Null
  idle_done,        \* idle_fiber->isDone()
  expired,          \* local expired_funcs of idle()
  ready,            \* the IO events epoll_wait returned, not yet handled
  drain,            \* workers to which it returned a tickle, not yet read
  life,             \* history: how far each job got
  ops,              \* operations each job has performed
  user,             \* where the user thread is in start() and stop()
  tickles,          \* tickles stop() has yet to send
  starts,           \* calls of start() so far
  fault             \* the failed ASSERT or the undefined behaviour reached

queueVars == <<m_tasks, m_mutex, tickled>>
countVars == <<m_active_threads, m_idle_threads>>
waitVars  == <<timers, events>>
fiberVars == <<m_state, m_func>>
runVars   == <<tk, need_tickle, func_fiber, cur>>
idleVars  == <<idle_done, expired, ready, drain>>
jobVars   == <<life, ops>>
userVars  == <<m_stopping, user, tickles, starts>>
restVars  == <<waitVars, jobVars, userVars, fault>>
vars == <<queueVars, countVars, waitVars, fiberVars, pc, runVars, idleVars,
          jobVars, userVars, fault>>

Task == [fiber : Fiber \cup {Null}, func : Func \cup {Null},
         thread_id : Thread \cup {Null}]
EmptyTask == [fiber |-> Null, func |-> Null, thread_id |-> Null]
FiberTask(f, thr) == [fiber |-> f, func |-> Null, thread_id |-> thr]
FuncTask(fn, thr) == [fiber |-> Null, func |-> fn, thread_id |-> thr]

States == {"NONE", "READY", "SUSPEND", "RUNNING", "TERM", "EXCEPT"}
isDone(f) == m_state[f] \in {"TERM", "EXCEPT"}

Init ==
  /\ m_tasks = <<>> /\ m_mutex = Null /\ tickled = FALSE
  /\ m_stopping = FALSE /\ user = "stopped" /\ tickles = 0 /\ starts = 0
  /\ m_active_threads = 0 /\ m_idle_threads = 0
  /\ timers = [f \in Fiber |-> 0] /\ events = {}
  /\ m_state = [f \in Fiber |-> "NONE"] /\ m_func = [f \in Fiber |-> Null]
  /\ pc = [t \in Thread |-> "off"]
  /\ tk = [t \in Thread |-> EmptyTask]
  /\ need_tickle = [t \in Thread |-> FALSE]
  /\ func_fiber = [t \in Thread |-> Null]
  /\ cur = [t \in Thread |-> Null]
  /\ idle_done = [t \in Thread |-> FALSE]
  /\ expired = [t \in Thread |-> <<>>]
  /\ ready = [t \in Thread |-> {}] /\ drain = {}
  /\ life = [j \in Job |-> "fresh"] /\ ops = [j \in Job |-> 0]
  /\ fault = "none"

Goto(t, label) == pc' = [pc EXCEPT ![t] = label]

\* A failed ASSERT aborts the process; undefined behaviour is not followed.
abort(why) ==
  /\ fault' = why
  /\ UNCHANGED <<queueVars, countVars, waitVars, fiberVars, pc, runVars, idleVars,
                 jobVars, userVars>>

hasTimers == \E f \in Fiber : timers[f] > 0

-----------------------------------------------------------------------------
(* schedule() and tickle() *)

\* tickle(): writes to the pipe only while some worker counts as idle.  The
\* pipe is registered edge-triggered, so undelivered writes are one event.
tickle == tickled' = (tickled \/ m_idle_threads > 0)

\* Both schedule() templates: append under m_mutex, tickle if it was empty.
schedule(new) ==
  /\ m_mutex = Null
  /\ m_tasks' = m_tasks \o new
  /\ IF m_tasks = <<>> THEN tickle ELSE UNCHANGED tickled
  /\ UNCHANGED m_mutex

\* Some smart pointer or some thread's stack still refers to fiber f.
inUse(f) ==
  \/ m_state[f] \in {"RUNNING", "SUSPEND"}
  \/ timers[f] > 0 \/ f \in events
  \/ \E t \in Thread :
        \/ f \in {func_fiber[t], tk[t].fiber, cur[t]}
        \/ tk[t].func = WakeUp(f)
        \/ \E i \in DOMAIN expired[t] : expired[t][i] = WakeUp(f)
  \/ \E i \in DOMAIN m_tasks :
        m_tasks[i].fiber = f \/ m_tasks[i].func = WakeUp(f)
  \/ \E g \in Fiber : m_func[g] = WakeUp(f)

\* Fiber(func): allocates some fiber object not in use.
NewFiber == CHOOSE f \in Fiber : ~inUse(f)

\* The user's code hands over a job for the first time.
Submit(j, kind, thr) ==
  /\ life[j] = "fresh"
  /\ life' = [life EXCEPT ![j] = "scheduled"]
  /\ \/ /\ kind = "func"
        /\ schedule(<<FuncTask(j, thr)>>)
        /\ UNCHANGED fiberVars
     \/ /\ kind = "fiber"
        /\ \E f \in Fiber : ~inUse(f)
        /\ schedule(<<FiberTask(NewFiber, thr)>>)
        /\ m_state' = [m_state EXCEPT ![NewFiber] = "READY"]
        /\ m_func' = [m_func EXCEPT ![NewFiber] = j]

-----------------------------------------------------------------------------
(* run(): finding a task, lines 109-130, one step under m_mutex *)

\* Mutant of TakeTask: the task is copied but not erased from the list.
TakeTaskCopied(t) ==
  /\ pc[t] = "find" /\ m_mutex = Null /\ m_tasks # <<>>
  /\ tk' = [tk EXCEPT ![t] = Head(m_tasks)]
  /\ need_tickle' = [need_tickle EXCEPT ![t] = TRUE]
  /\ Goto(t, "count")
  /\ UNCHANGED <<queueVars, countVars, fiberVars, func_fiber, cur, idleVars, restVars>>

\* A task at the head that this worker may take is moved to tk.
TakeTask(t) ==
  /\ pc[t] = "find" /\ m_mutex = Null /\ m_tasks # <<>>
  /\ LET head == Head(m_tasks) IN
       /\ head.thread_id \in {Null, t}
       /\ head.func = Null => m_state[head.fiber] # "RUNNING"
       /\ tk' = [tk EXCEPT ![t] = head]
  /\ m_tasks' = Tail(m_tasks)
  /\ need_tickle' = [need_tickle EXCEPT ![t] = Tail(m_tasks) # <<>>]
  /\ Goto(t, "count")
  /\ UNCHANGED <<m_mutex, tickled, countVars, fiberVars, func_fiber, cur,
                 idleVars, restVars>>

\* The ASSERT at line 122: the task at the head is a fiber that is running.
TakeRunning(t) ==
  /\ pc[t] = "find" /\ m_mutex = Null /\ m_tasks # <<>>
  /\ LET head == Head(m_tasks) IN
       /\ head.thread_id \in {Null, t}
       /\ head.func = Null /\ m_state[head.fiber] = "RUNNING"
  /\ abort("assert_take_running")

\* A task at the head pinned to another thread: `continue` does not advance
\* the iterator, so the loop never ends and never releases m_mutex.
MeetPinned(t) ==
  /\ pc[t] = "find" /\ m_mutex = Null /\ m_tasks # <<>>
  /\ Head(m_tasks).thread_id \notin {Null, t}
  /\ m_mutex' = t
  /\ Goto(t, "spin")
  /\ UNCHANGED <<m_tasks, tickled, countVars, fiberVars, runVars, idleVars,
                 restVars>>

Spin(t) == pc[t] = "spin" /\ UNCHANGED vars

FindNothing(t) ==
  /\ pc[t] = "find" /\ m_mutex = Null /\ m_tasks = <<>>
  /\ tk' = [tk EXCEPT ![t] = EmptyTask]
  /\ need_tickle' = [need_tickle EXCEPT ![t] = FALSE]
  /\ Goto(t, "notask")
  /\ UNCHANGED <<queueVars, countVars, fiberVars, func_fiber, cur, idleVars,
                 restVars>>

\* Mutant of CountActive: only function tasks are counted.
CountActiveFuncs(t) ==
  /\ pc[t] = "count"
  /\ m_active_threads' = m_active_threads + (IF tk[t].func # Null THEN 1 ELSE 0)
  /\ Goto(t, "dispatch")
  /\ UNCHANGED <<queueVars, m_idle_threads, fiberVars, runVars, idleVars, restVars>>

\* Lines 136-138: outside m_mutex.
CountActive(t) ==
  /\ pc[t] = "count"
  /\ m_active_threads' = m_active_threads + 1
  /\ Goto(t, "dispatch")
  /\ UNCHANGED <<queueVars, m_idle_threads, fiberVars, runVars, idleVars,
                 restVars>>

-----------------------------------------------------------------------------
(* run(): resuming the task's fiber, lines 142-166 *)

tickleOthers(t) ==
  /\ IF need_tickle[t] THEN tickle ELSE UNCHANGED tickled
  /\ UNCHANGED <<m_tasks, m_mutex>>

\* The fiber run() resumes: the task's, or func_fiber with tk.func in it.
target(t) == IF tk[t].fiber # Null THEN tk[t].fiber
             ELSE IF func_fiber[t] # Null THEN func_fiber[t] ELSE NewFiber

onOtherStack(t, f) == \E u \in Thread \ {t} : cur[u] = f

\* Fiber::call() on f, whose function is fn.
call(t, f, fn) ==
  /\ ~onOtherStack(t, f)
  /\ cur' = [cur EXCEPT ![t] = f]
  /\ m_state' = [m_state EXCEPT ![f] = "RUNNING"]
  /\ life' = IF fn \in Job THEN [life EXCEPT ![fn] = "begun"] ELSE life
  /\ Goto(t, "run")

CallFiber(t) ==
  /\ pc[t] = "dispatch" /\ tk[t].fiber # Null /\ ~isDone(tk[t].fiber)
  /\ tickleOthers(t)
  /\ call(t, tk[t].fiber, m_func[tk[t].fiber])
  /\ UNCHANGED <<countVars, waitVars, m_func, tk, need_tickle, func_fiber,
                 idleVars, ops, userVars, fault>>

\* func_fiber is reset to the task's function, or allocated for it.
CallFunc(t) ==
  /\ pc[t] = "dispatch" /\ tk[t].fiber = Null
  /\ func_fiber[t] # Null \/ \E f \in Fiber : ~inUse(f)
  /\ tickleOthers(t)
  /\ call(t, target(t), tk[t].func)
  /\ m_func' = [m_func EXCEPT ![target(t)] = tk[t].func]
  /\ func_fiber' = [func_fiber EXCEPT ![t] = target(t)]
  /\ tk' = [tk EXCEPT ![t] = EmptyTask]
  /\ UNCHANGED <<countVars, waitVars, need_tickle, idleVars, ops, userVars,
                 fault>>

\* call() or reset() on a fiber another worker has not swapped out of yet:
\* the ASSERT of call() if it is still RUNNING, one stack used by two threads
\* if its state was already changed.
CallShared(t) ==
  /\ pc[t] = "dispatch"
  /\ IF tk[t].fiber # Null THEN ~isDone(tk[t].fiber) ELSE func_fiber[t] # Null
  /\ onOtherStack(t, target(t))
  /\ abort(IF tk[t].fiber # Null /\ m_state[target(t)] = "RUNNING"
           THEN "assert_call_running" ELSE "shared_stack")

\* A fiber that is already done is neither called nor counted back.
SkipDone(t) ==
  /\ pc[t] = "dispatch" /\ tk[t].fiber # Null /\ isDone(tk[t].fiber)
  /\ tickleOthers(t)
  /\ Goto(t, "notask")
  /\ UNCHANGED <<countVars, fiberVars, runVars, idleVars, restVars>>

-----------------------------------------------------------------------------
(* What the fiber on worker t's stack does: Fiber::MainFunc and the user's *)
(* function, which calls Yield, the hooked sleep() and read(), schedule(). *)
(* The state of the fiber changes one step before swapcontext leaves its   *)
(* stack, and the fiber is registered one step before that.                *)

running(t, fn) == pc[t] = "run" /\ m_func[cur[t]] = fn

\* The fiber gives up the processor: the new m_state is visible at once.
leaveAs(t, state) ==
  /\ m_state' = [m_state EXCEPT ![cur[t]] = state]
  /\ Goto(t, "swap")

\* MainFunc: the function returns.
Return(t) ==
  /\ \E j \in Job : /\ running(t, j)
                    /\ life' = [life EXCEPT ![j] = "ended"]
  /\ leaveAs(t, "TERM")
  /\ UNCHANGED <<queueVars, countVars, waitVars, m_func, runVars, idleVars,
                 ops, userVars, fault>>

\* MainFunc: the function throws; calling an empty m_func throws too.
Throw(t) ==
  /\ \/ /\ "throw" \in Ops
        /\ \E j \in Job : /\ running(t, j)
                          /\ life' = [life EXCEPT ![j] = "ended"]
     \/ running(t, Null) /\ UNCHANGED life
  /\ leaveAs(t, "EXCEPT")
  /\ UNCHANGED <<queueVars, countVars, waitVars, m_func, runVars, idleVars,
                 ops, userVars, fault>>

\* The function of an expired sleep timer: schedule(fiber, -1) and return.
WakeSleeper(t) ==
  /\ \E f \in Fiber : /\ running(t, WakeUp(f))
                      /\ schedule(<<FiberTask(f, Null)>>)
  /\ leaveAs(t, "TERM")
  /\ UNCHANGED <<countVars, m_func, runVars, idleVars, restVars>>

\* Job j performs one of its operations on worker t.
operate(t, j, op) ==
  /\ op \in Ops /\ running(t, j) /\ ops[j] < MaxOps
  /\ ops' = [ops EXCEPT ![j] = @ + 1]

YieldReady(t) ==
  /\ \E j \in Job : operate(t, j, "ready")
  /\ leaveAs(t, "READY")
  /\ UNCHANGED <<queueVars, countVars, waitVars, m_func, runVars, idleVars,
                 life, userVars, fault>>

\* The hooked sleep(): addTimer, which tickles if the timer is the first one.
Sleep(t) ==
  /\ \E j \in Job : operate(t, j, "sleep")
  /\ timers' = [timers EXCEPT ![cur[t]] = @ + 1]
  /\ \/ tickle
     \/ hasTimers /\ UNCHANGED tickled
  /\ Goto(t, "park")
  /\ UNCHANGED <<m_tasks, m_mutex, countVars, events, fiberVars, runVars,
                 idleVars, life, userVars, fault>>

\* The hooked read() or write() that would block: addEvent for this fiber.
WaitEvent(t) ==
  /\ \E j \in Job : operate(t, j, "wait")
  /\ cur[t] \notin events
  /\ events' = events \cup {cur[t]}
  /\ Goto(t, "park")
  /\ UNCHANGED <<queueVars, countVars, timers, fiberVars, runVars, idleVars,
                 life, userVars, fault>>

\* Fiber::Yield() after the registration.
Yield(t) ==
  /\ pc[t] = "park"
  /\ leaveAs(t, "SUSPEND")
  /\ UNCHANGED <<queueVars, countVars, m_func, runVars, idleVars, restVars>>

\* A job schedules another one: Scheduler::GetThis()->schedule(func).
Spawn(t) ==
  /\ \E j \in Job : operate(t, j, "spawn")
  /\ \E j \in Job, kind \in Kinds, thr \in Pins : Submit(j, kind, thr)
  /\ UNCHANGED <<countVars, waitVars, pc, runVars, idleVars, userVars, fault>>

\* A job schedules its own fiber: schedule(Fiber::GetThis()).
ScheduleSelf(t) ==
  /\ \E j \in Job : operate(t, j, "self")
  /\ schedule(<<FiberTask(cur[t], Null)>>)
  /\ UNCHANGED <<countVars, waitVars, fiberVars, pc, runVars, idleVars, life,
                 userVars, fault>>

\* swapcontext back to the worker's main fiber, into run().
Swap(t) ==
  /\ pc[t] = "swap"
  /\ cur' = [cur EXCEPT ![t] = Null]
  /\ Goto(t, "back")
  /\ UNCHANGED <<queueVars, countVars, fiberVars, tk, need_tickle, func_fiber,
                 idleVars, restVars>>

-----------------------------------------------------------------------------
(* run(): back from the task, lines 150-177 *)

\* Mutant of CountInactive: not counted back when the function has thrown.
CountInactiveUnlessThrown(t) ==
  LET f == IF tk[t].fiber # Null THEN tk[t].fiber ELSE func_fiber[t] IN
  /\ pc[t] = "back"
  /\ m_active_threads' = m_active_threads - (IF m_state[f] = "EXCEPT" THEN 0 ELSE 1)
  /\ Goto(t, "resched")
  /\ UNCHANGED <<queueVars, m_idle_threads, fiberVars, runVars, idleVars, restVars>>

CountInactive(t) ==
  /\ pc[t] = "back"
  /\ m_active_threads' = m_active_threads - 1
  /\ Goto(t, "resched")
  /\ UNCHANGED <<queueVars, m_idle_threads, fiberVars, runVars, idleVars,
                 restVars>>

isFiberTask(t) == tk[t].fiber # Null
left(t) == IF isFiberTask(t) THEN tk[t].fiber ELSE func_fiber[t]

\* Mutant of Reschedule: func_fiber is still held.
RescheduleHeld(t) ==
  /\ pc[t] = "resched" /\ m_state[left(t)] = "READY"
  /\ schedule(<<FiberTask(left(t), Null)>>)
  /\ tk' = [tk EXCEPT ![t] = EmptyTask]
  /\ Goto(t, "find")
  /\ UNCHANGED <<countVars, fiberVars, need_tickle, func_fiber, cur, idleVars, restVars>>

\* The fiber is READY: schedule it again and hold it no longer.
Reschedule(t) ==
  /\ pc[t] = "resched" /\ m_state[left(t)] = "READY"
  /\ schedule(<<FiberTask(left(t), Null)>>)
  /\ func_fiber' = [func_fiber EXCEPT ![t] = IF isFiberTask(t) THEN @ ELSE Null]
  /\ tk' = [tk EXCEPT ![t] = EmptyTask]
  /\ Goto(t, "find")
  /\ UNCHANGED <<countVars, fiberVars, need_tickle, cur, idleVars, restVars>>

\* func_fiber is done: reset(nullptr) makes it READY for the next function.
KeepFuncFiber(t) ==
  /\ pc[t] = "resched" /\ ~isFiberTask(t) /\ isDone(left(t))
  /\ ~onOtherStack(t, left(t))
  /\ m_state' = [m_state EXCEPT ![left(t)] = "READY"]
  /\ m_func' = [m_func EXCEPT ![left(t)] = Null]
  /\ Goto(t, "find")
  /\ UNCHANGED <<queueVars, countVars, runVars, idleVars, restVars>>

\* The same reset() while another worker has yet to swap out of that fiber.
ResetShared(t) ==
  /\ pc[t] = "resched" /\ ~isFiberTask(t) /\ isDone(left(t))
  /\ onOtherStack(t, left(t))
  /\ abort("shared_stack")

\* Mutant of LetGo: func_fiber is kept although it is suspended.
LetGoNothing(t) ==
  /\ pc[t] = "resched" /\ m_state[left(t)] # "READY"
  /\ isFiberTask(t) \/ ~isDone(left(t))
  /\ tk' = [tk EXCEPT ![t] = EmptyTask]
  /\ Goto(t, "find")
  /\ UNCHANGED <<queueVars, countVars, fiberVars, need_tickle, func_fiber, cur,
                 idleVars, restVars>>

\* The fiber is suspended, running again elsewhere, or a done fiber task.
LetGo(t) ==
  /\ pc[t] = "resched" /\ m_state[left(t)] # "READY"
  /\ isFiberTask(t) \/ ~isDone(left(t))
  /\ func_fiber' = [func_fiber EXCEPT ![t] = IF isFiberTask(t) THEN @ ELSE Null]
  /\ tk' = [tk EXCEPT ![t] = EmptyTask]
  /\ Goto(t, "find")
  /\ UNCHANGED <<queueVars, countVars, fiberVars, need_tickle, cur, idleVars,
                 restVars>>

-----------------------------------------------------------------------------
(* run(): no task, lines 183-191, and the idle fiber *)

\* The idle fiber has terminated: run() returns and func_fiber is released.
Exit(t) ==
  /\ pc[t] = "notask" /\ idle_done[t]
  /\ func_fiber' = [func_fiber EXCEPT ![t] = Null]
  /\ tk' = [tk EXCEPT ![t] = EmptyTask]
  /\ Goto(t, "exited")
  /\ UNCHANGED <<queueVars, countVars, fiberVars, need_tickle, cur, idleVars,
                 restVars>>

EnterIdle(t) ==
  /\ pc[t] = "notask" /\ ~idle_done[t]
  /\ m_idle_threads' = m_idle_threads + 1
  /\ Goto(t, "idle")
  /\ UNCHANGED <<queueVars, m_active_threads, fiberVars, runVars, idleVars,
                 restVars>>

\* shouldStop(), first conjunct: hasTimers() under m_mutex.
CheckTimers(t) ==
  /\ pc[t] = "idle" /\ m_mutex = Null
  /\ IF hasTimers THEN Goto(t, "epoll") /\ UNCHANGED m_mutex
                  ELSE Goto(t, "check") /\ m_mutex' = t
  /\ UNCHANGED <<m_tasks, tickled, countVars, fiberVars, runVars, idleVars,
                 restVars>>

allDone == m_tasks = <<>> /\ m_active_threads = 0 /\ events = {}

\* shouldStop(), the other conjuncts; the idle fiber ends if they hold.
CheckDone(t) ==
  /\ pc[t] = "check"
  /\ m_mutex' = Null
  /\ IF m_stopping /\ allDone
     THEN idle_done' = [idle_done EXCEPT ![t] = TRUE] /\ Goto(t, "leave")
     ELSE UNCHANGED idle_done /\ Goto(t, "epoll")
  /\ UNCHANGED <<m_tasks, tickled, countVars, fiberVars, runVars, expired,
                 ready, drain, restVars>>

\* Mutant of EpollWait: no timeout.
EpollWaitForever(t) ==
  /\ pc[t] = "epoll"
  /\ \E fired \in SUBSET events : /\ tickled \/ fired # {}
                                  /\ ready' = [ready EXCEPT ![t] = fired]
  /\ tickled' = FALSE /\ drain' = IF tickled THEN drain \cup {t} ELSE drain
  /\ Goto(t, "collect")
  /\ UNCHANGED <<m_tasks, m_mutex, countVars, fiberVars, runVars, idle_done,
                 expired, restVars>>

\* epoll_wait returns every ready event, or none when its timeout passes;
\* which descriptors are ready is the kernel's choice.
EpollWait(t) ==
  /\ pc[t] = "epoll"
  /\ \E fired \in SUBSET events : ready' = [ready EXCEPT ![t] = fired]
  /\ tickled' = FALSE /\ drain' = IF tickled THEN drain \cup {t} ELSE drain
  /\ Goto(t, "collect")
  /\ UNCHANGED <<m_tasks, m_mutex, countVars, fiberVars, runVars, idle_done,
                 expired, restVars>>

\* getExpiredFuncs(): any pending timers may have expired, in any order.
CollectExpired(t) ==
  /\ pc[t] = "collect"
  /\ \E due \in SUBSET {f \in Fiber : timers[f] > 0} :
       /\ timers' = [f \in Fiber |-> IF f \in due THEN timers[f] - 1
                                                  ELSE timers[f]]
       /\ \E order \in [1..Cardinality(due) -> due] :
            /\ \A f \in due : \E i \in 1..Cardinality(due) : order[i] = f
            /\ expired' = [expired EXCEPT ![t] =
                             [i \in 1..Cardinality(due) |-> WakeUp(order[i])]]
       /\ Goto(t, IF due = {} THEN "leave" ELSE "enqueue")
  /\ UNCHANGED <<queueVars, countVars, events, fiberVars, runVars, idle_done,
                 ready, drain, jobVars, userVars, fault>>

\* Mutant of EnqueueExpired: expired_funcs is cleared before it is scheduled.
EnqueueCleared(t) ==
  /\ pc[t] = "enqueue"
  /\ expired' = [expired EXCEPT ![t] = <<>>]
  /\ Goto(t, "leave")
  /\ UNCHANGED <<queueVars, countVars, fiberVars, runVars, idle_done, ready, drain,
                 restVars>>

\* schedule(expired_funcs.begin(), expired_funcs.end())
EnqueueExpired(t) ==
  /\ pc[t] = "enqueue"
  /\ schedule([i \in 1..Len(expired[t]) |-> FuncTask(expired[t][i], Null)])
  /\ expired' = [expired EXCEPT ![t] = <<>>]
  /\ Goto(t, "leave")
  /\ UNCHANGED <<countVars, fiberVars, runVars, idle_done, ready, drain, restVars>>

\* Mutant of HandleEvent: the event stays registered.
HandleEventKept(t) ==
  /\ pc[t] = "leave"
  /\ \E f \in ready[t] :
       /\ ready' = [ready EXCEPT ![t] = @ \ {f}]
       /\ schedule(<<FiberTask(f, Null)>>)
  /\ UNCHANGED <<countVars, fiberVars, pc, runVars, idle_done, expired, drain, restVars>>

\* scheduleEvent(): schedules the waiting fiber, unless that was done already.
HandleEvent(t) ==
  /\ pc[t] = "leave"
  /\ \E f \in ready[t] :
       /\ ready' = [ready EXCEPT ![t] = @ \ {f}]
       /\ IF f \in events THEN schedule(<<FiberTask(f, Null)>>)
                          ELSE UNCHANGED queueVars
       /\ events' = events \ {f}
  /\ UNCHANGED <<countVars, timers, fiberVars, pc, runVars, idle_done, expired,
                 drain, jobVars, userVars, fault>>

\* The tickle: reading the pipe empty takes every tickle sent since with it.
Drain(t) ==
  /\ pc[t] = "leave" /\ t \in drain
  /\ tickled' = FALSE /\ drain' = drain \ {t}
  /\ UNCHANGED <<m_tasks, m_mutex, countVars, fiberVars, pc, runVars, idle_done,
                 expired, ready, restVars>>

\* Mutant of LeaveIdle: m_idle_threads is not decreased.
LeaveIdleUncounted(t) ==
  /\ pc[t] = "leave" /\ ready[t] = {} /\ t \notin drain
  /\ Goto(t, "find")
  /\ UNCHANGED <<queueVars, countVars, fiberVars, runVars, idleVars, restVars>>

\* The idle fiber yields or has ended; run() counts the worker out again.
LeaveIdle(t) ==
  /\ pc[t] = "leave" /\ ready[t] = {} /\ t \notin drain
  /\ m_idle_threads' = m_idle_threads - 1
  /\ Goto(t, "find")
  /\ UNCHANGED <<queueVars, m_active_threads, fiberVars, runVars, idleVars,
                 restVars>>

-----------------------------------------------------------------------------
(* The user thread *)

\* start(): creates the workers; they wait for m_mutex until it returns.
Start ==
  /\ user = "stopped" /\ ~m_stopping /\ starts < MaxStarts /\ m_mutex = Null
  /\ user' = "started" /\ starts' = starts + 1
  /\ pc' = [t \in Thread |-> "find"]
  /\ idle_done' = [t \in Thread |-> FALSE]
  /\ UNCHANGED <<queueVars, countVars, waitVars, fiberVars, runVars, expired,
                 ready, drain, jobVars, m_stopping, tickles, fault>>

\* The user calls schedule() before start(), or between start() and stop().
UserSchedule ==
  /\ user \in {"stopped", "started"}
  /\ \E j \in Job, kind \in Kinds, thr \in Pins : Submit(j, kind, thr)
  /\ UNCHANGED <<countVars, waitVars, pc, runVars, idleVars, ops, userVars,
                 fault>>

\* stop(): raises the flags under m_mutex,
Stop ==
  /\ user = "started" /\ m_mutex = Null
  /\ user' = "stopping" /\ m_stopping' = TRUE
  /\ tickles' = Cardinality(Thread)
  /\ UNCHANGED <<queueVars, countVars, waitVars, fiberVars, pc, runVars,
                 idleVars, jobVars, starts, fault>>

\* calls tickle() once per worker,
StopTickle ==
  /\ user = "stopping" /\ tickles > 0
  /\ tickles' = tickles - 1
  /\ tickle
  /\ UNCHANGED <<m_tasks, m_mutex, countVars, waitVars, fiberVars, pc, runVars,
                 idleVars, jobVars, m_stopping, user, starts, fault>>

joined == user = "stopping" /\ tickles = 0 /\ \A t \in Thread : pc[t] = "exited"

\* joins every worker and clears the flags.
StopReturn ==
  /\ joined /\ m_mutex = Null
  /\ user' = "stopped" /\ m_stopping' = FALSE
  /\ pc' = [t \in Thread |-> "off"]
  /\ UNCHANGED <<queueVars, countVars, waitVars, fiberVars, runVars, idleVars,
                 jobVars, tickles, starts, fault>>

\* No step is due: the pool is stopped, or the process has aborted.
Rest == (user = "stopped" \/ fault # "none") /\ UNCHANGED vars

-----------------------------------------------------------------------------
Find(t)   == TakeTask(t) \/ TakeRunning(t) \/ MeetPinned(t) \/ FindNothing(t)
Resume(t) == CountActive(t) \/ CallFiber(t) \/ CallFunc(t) \/ CallShared(t)
             \/ SkipDone(t)
Body(t)   == Return(t) \/ Throw(t) \/ WakeSleeper(t) \/ YieldReady(t)
             \/ Sleep(t) \/ WaitEvent(t) \/ Yield(t) \/ Spawn(t)
             \/ ScheduleSelf(t) \/ Swap(t)
After(t)  == CountInactive(t) \/ Reschedule(t) \/ KeepFuncFiber(t)
             \/ ResetShared(t) \/ LetGo(t)
Idle(t)   == Exit(t) \/ EnterIdle(t) \/ CheckTimers(t) \/ CheckDone(t)
             \/ EpollWait(t) \/ CollectExpired(t) \/ EnqueueExpired(t)
             \/ HandleEvent(t) \/ Drain(t) \/ LeaveIdle(t)

Worker(t) ==
  /\ fault = "none"
  /\ \/ pc[t] = "find" /\ Find(t)
     \/ pc[t] \in {"count", "dispatch"} /\ Resume(t)
     \/ pc[t] \in {"run", "park", "swap"} /\ Body(t)
     \/ pc[t] \in {"back", "resched"} /\ After(t)
     \/ pc[t] \in {"notask", "idle", "check", "epoll", "collect", "enqueue", "leave"} /\ Idle(t)
StopStep  == fault = "none" /\ (StopTickle \/ StopReturn)
UserStep  == StopStep \/ (fault = "none" /\ (Start \/ UserSchedule \/ Stop))

Next == (\E t \in Thread : Worker(t) \/ Spin(t)) \/ UserStep \/ Rest

Spec == Init /\ [][Next]_vars

\* The kernel runs every thread, and a thread waiting for m_mutex gets it if
\* it is free again and again; stop() goes on once called.  Nothing makes the
\* user call start(), schedule() or stop().
FairSpec == /\ Spec
            /\ \A t \in Thread : SF_vars(Worker(t))
            /\ WF_vars(StopStep)

\* One worker shares m_mutex with nobody who keeps it, and is given no more than
\* its turn; but a pending timer expires in the end, and so does an awaited event.
Expire(f) == \E t \in Thread : pc[t] = "collect" /\ Worker(t) /\ timers'[f] < timers[f]
Arrive(f) == \E t \in Thread : pc[t] = "epoll" /\ Worker(t) /\ f \in ready'[t]
FairWaitSpec == /\ Spec
                /\ \A t \in Thread : WF_vars(Worker(t))
                /\ WF_vars(StopStep)
                /\ \A f \in Fiber : SF_vars(Expire(f)) /\ SF_vars(Arrive(f))

-----------------------------------------------------------------------------
(* Properties *)

Labels == {"off", "find", "spin", "count", "dispatch", "run", "park", "swap",
           "back", "resched", "notask", "idle", "check", "epoll", "collect",
           "enqueue", "leave", "exited"}

\* Every variable keeps its type; in particular the two unsigned counters of
\* run() never go below zero (scheduler.cpp:150, 167, 191).
TypeOK ==
  /\ m_tasks \in Seq(Task)
  /\ m_mutex \in Thread \cup {Null}
  /\ m_stopping \in BOOLEAN /\ tickled \in BOOLEAN
  /\ m_active_threads \in Nat /\ m_idle_threads \in Nat
  /\ timers \in [Fiber -> Nat] /\ events \subseteq Fiber
  /\ m_state \in [Fiber -> States]
  /\ m_func \in [Fiber -> Func \cup {Null}]
  /\ pc \in [Thread -> Labels]
  /\ tk \in [Thread -> Task]
  /\ need_tickle \in [Thread -> BOOLEAN]
  /\ func_fiber \in [Thread -> Fiber \cup {Null}]
  /\ cur \in [Thread -> Fiber \cup {Null}]
  /\ idle_done \in [Thread -> BOOLEAN]
  /\ expired \in [Thread -> Seq(WakeUps)]
  /\ ready \in [Thread -> SUBSET Fiber] /\ drain \subseteq Thread
  /\ life \in [Job -> {"fresh", "scheduled", "begun", "ended"}]
  /\ ops \in [Job -> 0..MaxOps]
  /\ user \in {"stopped", "started", "stopping"}
  /\ tickles \in 0..Cardinality(Thread) /\ starts \in 0..MaxStarts
  /\ fault \in {"none", "assert_take_running", "assert_call_running",
                "shared_stack"}

IdleLabels   == {"idle", "check", "epoll", "collect", "enqueue", "leave"}
ActiveLabels == {"dispatch", "run", "park", "swap", "back"}
At(p, L) == {t \in Thread : p[t] \in L}

\* m_idle_threads is the number of workers inside idle(): tickle() is silent
\* exactly when no worker could be in epoll_wait (scheduler.cpp:189-197).
IdleCountExact == m_idle_threads = Cardinality(At(pc, IdleLabels))

\* m_active_threads never understates the workers running a task, so a
\* worker's decrement after a task cannot wrap (scheduler.cpp:137, 150, 167).
ActiveCountCovers == m_active_threads >= Cardinality(At(pc, ActiveLabels))

\* m_active_threads is the number of workers running a task.
ActiveCountExact == m_active_threads = Cardinality(At(pc, ActiveLabels))

\* A worker's idle fiber ends, and the worker exits, only while stop() waits
\* for it (scheduler.cpp:183, 215).
EndsOnlyWhileStopping ==
  \A t \in Thread : idle_done[t] /\ pc[t] # "off" => user = "stopping"

\* No failed ASSERT on a task's fiber (scheduler.cpp:122, fiber.cpp:107) and no
\* fiber's stack used by two workers at once.
NoFault == fault = "none"

\* The continuation of a job that has begun is kept until it ends: its fiber is
\* neither reset for another function nor dropped (scheduler.cpp:160-177).
ContinuationKept ==
  \A j \in Job : life[j] = "begun" =>
     \E f \in Fiber : m_func[f] = j /\ ~isDone(f)

\* When stop() has joined the workers nothing is left behind: no task, timer
\* or IO event, and no job scheduled but not ended (scheduler.cpp:212-217).
StopDrains ==
  joined => /\ m_tasks = <<>> /\ ~hasTimers /\ events = {}
            /\ \A j \in Job : life[j] \in {"fresh", "ended"}

Count(S) == Cardinality(S)
\* What will schedule or call fiber f once more.
wakers(f) ==
  timers[f] + (IF f \in events THEN 1 ELSE 0)
  + Count({i \in DOMAIN m_tasks : m_tasks[i].fiber = f \/ m_tasks[i].func = WakeUp(f)})
  + Count({t \in Thread : pc[t] \in {"count", "dispatch"}
              /\ (tk[t].fiber = f \/ tk[t].func = WakeUp(f))})
  + Count({t \in Thread : \E i \in DOMAIN expired[t] : expired[t][i] = WakeUp(f)})
  + Count({t \in Thread : pc[t] = "run" /\ m_func[cur[t]] = WakeUp(f)})

\* A suspended fiber has exactly one wakeup on its way: it is neither
\* forgotten nor resumed twice (hook.cpp:148-153, 109-118; iomanager.h:52-66).
WokenExactlyOnce == \A f \in Fiber : m_state[f] = "SUSPEND" => wakers(f) = 1

\* A worker is in the loop of run() that does not get past a head of the queue
\* meant for another, and keeps m_mutex.
BlockedByPin ==
  \E t \in Thread : /\ pc[t] = "spin" /\ m_mutex = t /\ m_tasks # <<>>
                    /\ Head(m_tasks).thread_id \notin {Null, t}

\* stop() returns (scheduler.cpp:85-88), unless a worker met a task of another
\* one at the head of the queue, where run() loops with m_mutex held instead of
\* skipping it (lines 115-120): pinned tasks stall the pool in no other way.
StopReturns == user = "stopping" ~> user = "stopped" \/ BlockedByPin

\* The jobs scheduled on a started pool are run to their ends, tickled or not: the
\* timeout of epoll_wait makes up for tickles that are not sent.  No job goes back,
\* so each one that is scheduled ends.  Jobs pinned to a worker end too, and hold
\* up the others only by the loop of lines 115-120, which keeps m_mutex.
JobsEnd == user = "started" /\ (\E j \in Job : life[j] = "scheduled")
             ~> (\A j \in Job : life[j] \in {"fresh", "ended"}) \/ BlockedByPin

\* The pool as the user sees it.
Pool == INSTANCE TaskPool WITH Job <- Job, life <- life, user <- user

\* Every step of the workers, with their queue, fibers and locks, is a step of
\* the abstract pool or invisible to it: a job is begun once and ended once,
\* and stop() returns only when no job is left (scheduler.cpp:72-194).
ImplementsTaskPool == Pool!Spec

\* Every job scheduled on a started pool is begun and ended, and stop() returns.
ImplementsFairTaskPool == Pool!FairSpec
=============================================================================
