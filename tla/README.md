# A TLA+ model of EVA01

EVA01 is a C++ library of fibers on a pool of threads: a scheduler with a task
queue, timers, epoll-driven IO, and hooks that turn blocking system calls into
suspensions of the calling fiber. This directory holds TLA+ modules of these
parts, the TLC configurations that check them on small instances, and theorems
that TLAPS proves for instances of every size. `PROJECT.json` maps every
definition to the source lines it models.

## The system

| Part | Source | State | Who changes it |
|---|---|---|---|
| Scheduler | scheduler.cpp, scheduler.h | task list, stop flags, active and idle counts, tickle pipe | user threads (`start`, `stop`, `schedule`), workers (`run`, `idle`) |
| Fiber | fiber.cpp, fiber.h | state, function, context | the worker that calls it; the fiber itself |
| TimerManager | timer.cpp, timer.h | ordered set of timers | any thread (`addTimer`, `cancel`, `refresh`), workers (`getExpiredFuncs`) |
| IOManager | iomanager.cpp, iomanager.h | table of descriptor contexts, pending count, epoll registrations | fibers (`addEvent`), timers (`cancelEvent`), `close`, workers (`scheduleEvent`) |
| Hooks | hook.cpp, hook.h | per-call timer information | fibers |
| FdManager | fd_manager.cpp, fd_manager.h | table of `FdCtx` | hooked `socket`, `accept`, `close`, `fcntl`, `ioctl` |
| Locks | mutex.h | | all of the above |
| Thread, Semaphore | thread.cpp, semaphore.cpp | id, handle, count | `start`, `stop`, the threads themselves |
| Log | log.cpp, log.h | loggers, their appenders, levels and formatters | any thread |
| Utilities | util.cpp, macro.h, singleton.h | | |

A worker takes a task and resumes its fiber. The fiber calls a hooked function,
which arms a timer, registers an event for itself and yields; an idle worker
sleeps in `epoll_wait` until an event, a timer or a tickle, and schedules the
fiber again. `stop()` waits until no task, timer, active worker and pending
event is left.

## The modules

| Module | Models | Checked with | Proofs |
|---|---|---|---|
| `Scheduler` | the workers, `start`, `schedule`, `stop`, and the fibers they run | `MCScheduler`, `Sched*.cfg` | `SchedulerProofs` |
| `TaskPool` | what the scheduler promises its user | refinement in `SchedPool`, `SchedSingle` | `SchedulerProofs` |
| `PoolLife` | `start`, `stop` and the destructor called by several threads; `Thread` and `Semaphore` | `PoolLife.cfg` | `PoolLifeProofs` |
| `Fiber` | `call`, `Yield`, `reset`, `MainFunc`, and what each context holds | `MCFiber`, `FiberSwitch.cfg` | `FiberProofs` |
| `TimerManager` | the timers and the workers that sleep until them | `MCTimer`, `TimerRace.cfg` | `TimerProofs` |
| `IOManager` | contexts, events, the kernel's registrations | `MCIOManager`, `IOTable.cfg` | `IOManagerProofs` |
| `HookedIO` | `do_io` and `connect_with_timeout` racing event, timeout, `setsockopt` and `close` | `MCHookedIO`, `HookRace.cfg` | `HookedIOProofs` |
| `Durations` | seconds, microseconds, timevals to milliseconds, in integers of their width | used by `HookedIO` | `HookedIOProofs` |
| `FdManager` | `FdCtx` and the hooks that keep it | `FdTable.cfg` | `FdManagerProofs` |
| `Logger` | records on their way to the appenders while the log is configured | `MCLogger`, `LogRace.cfg` | `LoggerProofs` |
| `LogFormatter` | the parser of patterns, and what a pattern means | used by `Logger` | `LoggerProofs` |

The modules overlap where one part uses another, each time with the other
part reduced to what the first needs. `Scheduler` has fibers as states without
contexts and one user who starts and stops; `Fiber` has the contexts and no
scheduler; `PoolLife` has several users, and of a worker only that it begins and
ends. The guards of one are what the other establishes: `Fiber` lets only a main
fiber `call()`, a fiber that no thread is on and that is not done, which is how
`run()` calls it unless `SchedPool`'s limit (below) is met; `PoolLife` lets a
worker end only under `stop()`, which `SchedulerProofs` proves of `Scheduler`.

Variables and actions keep the names of the fields and functions. A definition
named after another with a suffix (`CollectEarly` of `Collect`) and commented
as a mutant is that operation with a plausible mistake; the property listed with
it in `PROJECT.json` fails when it takes the operation's place.

**Atomicity.** A section under one lock is one step, and what the code does
between sections is a step of its own. Exceptions are made where state that the
lock does not protect is read inside the section: `shouldStop()` reads
`hasTimers()` and the counters in two steps (`CheckTimers`, `CheckDone`), and
`cancelEvent()` lowers the pending count in one step and schedules in another.
`addEvent()` and `scheduleEvent()` also change the count inside their section, but
stay one step: `IOManager` has no reader of the count. To a worker that reads it in
`shouldStop()` it is one too low between iomanager.cpp:73 and 74, while the worker that
adds counts as active, and too high between lines 234 and 235.
`Fiber::Yield()` changes the state (`Yield`) a step before the context is
swapped (`Swap`), and the fiber is registered a step before that.

**A failed ASSERT** (which aborts: the build does not define NDEBUG) leads to a
state whose `fault` names it; nothing happens after it. Undefined behaviour that
the model does not follow, such as one stack used by two threads or a freed
`Thread` used, is a fault too. An uninitialised value is a choice from a set given as a constant
(`Locked`, `InitEvents`).

**Abstractions.** Jobs are model values that perform up to `MaxOps` operations
and return. In `Scheduler` time is left out: any pending timer may expire when a
worker looks, and `epoll_wait` may return at any time. That includes its
timeout, which is at most 3000 ms. `TimerManager` has a clock, and
`epoll_wait` in it may return at any time for the same reason. The tickle pipe
is registered edge-triggered and its reader empties it, so it is one flag, set
by a tickle, cleared when `epoll_wait` reports it and again when the pipe is
read. `FdManager` leaves out the size of its table, which only grows.
In `Fiber` a context is the stack it was saved on and a place in its code. A
thread's `t_fiber` is taken to be read again after a switch; a compiler that
keeps the address of a thread-local over `swapcontext()` is not modelled. In
`Logger` a record is its logger and its number, an item its place in the pattern:
what an item prints is left out. `Word` and `Long` in `HookRace` are stand-ins
for 2^32 and 2^64 small enough for TLC; the theorems hold for any widths.

## What the runs show

Passing runs:

| Run | Instance | Shows |
|---|---|---|
| `SchedSafety` | 2 workers, 2 jobs, every operation but a throw | counters exact or never too low, a begun job's fiber is kept until the job ends |
| `SchedPool` | 2 workers, 2 jobs that throw, yield, spawn, for any worker or for one; two starts | as long as no job suspends: no fault, exact counts, and the pool implements `TaskPool` |
| `SchedLive` | 2 workers, 2 jobs that yield, for any worker or for one | jobs end and `stop()` returns although tickles get lost, unless a worker meets a task of the other at the head of the queue |
| `SchedSingle` | 1 worker, jobs that yield, sleep, wait, spawn; two starts | a suspended fiber has exactly one wakeup on its way; the pool implements the fair `TaskPool` |
| `PoolLife` | 3 users, one of whom stops; 3 threads, 3 starts | a stored `Thread` has begun; a stopped pool has joined its threads; nothing is freed in use; calls return |
| `FiberSwitch` | 2 threads, 3 fibers that yield, end, throw, are reset and dropped | a thread comes back to its `call()`, a fiber goes on where it left, lives as long as it should, no fault |
| `TimerRace` | 1 user, 2 workers, a one-shot and a recurring timer, 2 ticks | never early, once, no drift, cancelled for good, none slept over; a due timer is collected |
| `IOTable` | 2 threads, 2 descriptors beyond the table, three waits | no wait lost or woken twice, pending count exact, the kernel watches what is waited for, also while the table is resized; an assertion fails a thread only for a reason about its own descriptor and event |
| `HookRace` | a read and a connect, timeouts set meanwhile, a `close` | event, timeout and `close` wake a call once; a call times out only if its own option was set; an armed timer ends the wait, and so does the event |
| `FdTable` | 3 hooked threads, 2 descriptors | a descriptor has its own `FdCtx`, a socket never blocks, the user sees the flag they set |
| `LogRace` | patterns of up to 3 items, each ended in every wrong way; 2 threads, 2 loggers, a shared file and stream | patterns are read as written; records are whole, in one order everywhere, and only where their logger writes |

Where the code disagrees with its own comment a run finds the property violated;
`PROJECT.json` quotes the line under "findings":

| Run | The code |
|---|---|
| `SchedDrain` | `stop()` returns with a timer and a job left behind |

**The limits of the passing runs.** A passing run holds under the constants of its
configuration. The following changes make a property it lists fail, each for a
reason in the code:

| Configuration | Change | Fails | Because |
|---|---|---|---|
| `SchedPool` | `Ops = {"wait"}` | `NoFault` | hook.cpp:109 registers the fiber before it yields; another worker takes it while it is RUNNING (scheduler.cpp:122) |
| `SchedLive` | `Ops = {"self"}`, `Kinds = {"fiber"}` | `StopReturns` | a fiber scheduled again after its end is counted active and never back (scheduler.cpp:148) |
| `SchedLive` | `BlockedByPin` dropped from the properties | `JobsEnd`, `StopReturns` | `continue` does not advance the iterator: a worker that meets another's task loops for ever and holds `m_mutex` (scheduler.cpp:119) |
| `PoolLife` | `Stopper = {u1, u2}` | `StoppedIsJoined`, `NothingFreedInUse`, `CallsReturn` | `stop()` walks `m_threads` without the lock while the other joins and clears it (scheduler.cpp:86) |
| `PoolLife` | `Stopper = {2}`, a worker | `CallsReturn` | a task that calls `stop()` joins a thread that waits for the task; thread 1 would join itself, and the exception leaves `m_stopping` set |
| `FiberSwitch` | `Misuse = {"nested"}` | `ComesBackToMain`, `GoesOnWhereItLeft`, `NoFault` | `call()` saves the caller in the thread's main fiber even if a fiber calls (fiber.cpp:111) |
| `FiberSwitch` | `Misuse = {"early"}` | the same | the state changes before the stack is saved (fiber.cpp:133-136) |
| `FiberSwitch` | `Misuse = {"recall"}` | `NoFault` | `call()` asserts only that a fiber is not TERM; one that threw runs on behind its end (fiber.cpp:107) |
| `FiberSwitch` | `Misuse = {"dropped"}` | `GoesOnWhereItLeft`, `NoFault` | `cur.reset()` frees the stack in use (fiber.cpp:199) |
| `TimerRace` | `Locked = {TRUE, FALSE}`, no deadlock check | `DueIsCollected` | `MutexWriteGuard::m_locked` is uninitialised; read as false, the lock is kept (mutex.h:114) |
| `IOTable` | `InitEvents = {{}, {"READ"}}` | `WaitConserved` | `FdContext::events` is uninitialised (iomanager.h:71) |
| `HookRace` | `Timeval` with `<<0, 0>>` | `TimesOutOnlyIfAsked` | zero means no timeout to the kernel, an immediate one to `do_io()` (hook.cpp:462) |
| `FdTable` | `IoctlFlags = {TRUE, FALSE}` | `SysNonblockTrue` | `ioctl(FIONBIO, 0)` reaches the kernel, unlike `F_SETFL` (hook.cpp:446) |
| `FdTable` | `TypeFlags = {TRUE, FALSE}` | `UserSeesOwnFlag` | `init()` forgets the user's `SOCK_NONBLOCK` (fd_manager.cpp:50) |
| `FdTable` | `Hooked = {p1, p2}` | `CtxIsOfDescriptor` | an unhooked `close()` leaves its `FdCtx` to the next descriptor (hook.cpp:331) |

So properties that a resumed running fiber breaks are checked where there is none
(`SchedPool`: no suspension; `SchedSingle`: one worker), and the ones it does not
break with everything on (`SchedSafety`).

A behaviour ends at a fault. `AbortsOnlyFor` says when a thread of `IOTable` may reach
one, each time of the descriptor and the event the thread is about: a second wait for
the event, because `resetContext()` and `scheduleEvent()` clear a
copy of the `EventContext` (iomanager.h:46) and iomanager.cpp:78 asserts that it is
empty; an event reported, then cancelled, then handled (iomanager.cpp:214 tests
that *no* event is left, the loop schedules each); the descriptor closed under a wait;
a table that a racing `resizeContexts()` made smaller (iomanager.cpp:51). A `close()`
in an unhooked thread, or of a descriptor without `FdCtx`, skips `cancelAll()`
(hook.cpp:330-341) and leaves waits that nobody watches: `KernelAgrees` excepts closed
descriptors, and `WaitConserved` counts those waits as registered. `IOTable`
and `HookRace` therefore cover the first wait for each event of each context and
everything that races with it, up to the abort; they say nothing of a program in
which later waits work. In `SchedPool` and `SchedLive` a worker that meets the other's
task at the head keeps the mutex for ever: the runs cover the behaviours up to there and
those that avoid it, and `SchedLive` shows that there is no other way to stall. `TimeoutEndsWait` speaks of a timer that is pending once the event is
registered: one that fires between `addConditionTimer()` and `addEvent()`
(hook.cpp:99-109) finds nothing to cancel, and that call waits without a timeout. In
`PoolLife` a `pthread_create()` that fails leaves null entries in `m_threads`, and the
next `stop()` ends in the fault `null_thread`, which no property excludes.
`RecordsWhole` is about files and streams: two loggers have two `StdoutLogAppender`s
with two locks and one `std::cout`, where their items mix.

**Bounds.** Two workers show every race between a worker and another; two jobs
let one spawn, or be taken with, the other. `Fiber` is chosen so that a new one
can always be had; a pool that ran out would show as a deadlock. Jobs are
submitted as functions and as fibers in `SchedPool` and `SchedSingle`, as functions
in the others, where they go on as fibers once they have suspended. `MaxOps`
is 1: a job suspends once; `MaxStarts` is 2 where a restart matters. `MaxTime` is 2
in `TimerRace` and both periods are 1: one timer recurs twice, the other is refreshed
and still expires, and one that is created early and inserted late becomes the first
of the set while a worker sleeps until the other. One user is enough for `NoneSleptOver` and `DueIsCollected`, whose
races are between a user and the workers; the races of several users with each other
are in the theorems about the other properties. `MaxGen` is 2: a dropped context
and the one that takes its place. In `PoolLife` nine workers are three starts of three
threads; when they are used up, `pthread_create()` fails. In `FiberSwitch` a third
fiber is left when two are being switched, and threads and fibers are unbounded in
what they do. `LogRace` has two records, which is what an order and a mixture take,
three changes of the configuration (make a logger, attach one appender to both),
and one pattern of two items for the records. Users stop calling at these bounds; the
other steps go on, so liveness is not satisfied by running into one.

Deadlock is checked except in `HookRace`, where a call that registers its event
between `cancelAll()` and `close_f()` really waits for ever; in `PoolLife`, which
ends when the pool is destroyed; and in `LogRace`, which ends with its last record.

**Fairness.** The kernel runs every thread, and a thread that waits for a mutex
which is free again and again gets it: in `Scheduler`, where a mutex may be held
across steps and taken again and again, strong fairness of each thread's steps; in
`SchedSingle`, where the only worker meets no other that holds it, in `TimerManager`
and `HookedIO`, where no step of a fair action is disabled by another thread that
holds a lock for a while, and in `PoolLife`, where `m_mutex` is kept only by a
`start()` that has to end, weak fairness. Nothing makes a user call anything.
`FairWaitSpec`, of `SchedSingle`, adds that a pending timer expires and an awaited
event happens: a job that waits for an event that never comes does not end, and no
code can change that. In `HookedIO` nothing makes the socket ready.

## What is proved

`SchedulerProofs` proves, for any finite sets of workers and fibers, any
jobs and any operations, that every variable keeps its type (the unsigned counters never go
below zero), that `m_idle_threads` is the number of workers in `idle()`, that
`m_active_threads` never understates the workers running a task, and that a
worker ends only under `stop()`. It also proves, with no more assumptions, that a job
which has begun keeps its fiber until it ends. The invariant `SchedulerInv` adds to these that
a worker on a fiber has one (`RunsAFiber`) and how the flags and labels follow
the user thread (`FlagsAgree`, `OffWhenStopped`); the proof takes the groups of
`Next` in turn, and for the counts follows the set of workers at the labels
counted. `ActiveCountExact` does not hold here: `SkipDone` breaks it.

That a begun job keeps its fiber (`ContinuationKept`) is not inductive: `run()` gives a
new function either its `func_fiber` or a fiber that nobody refers to, so the proof has
to say whose each fiber is. `FiberInv` adds that the stack a worker is on is its
task's fiber or its `func_fiber` (`OnItsFiber`), that no two workers share a
`func_fiber` (`FuncFiberOwn`) and that it holds no function while the worker runs none
(`FuncFiberFree`, the assignment at scheduler.cpp:170), and that a fiber with a job to
finish runs, is suspended, or is held by a worker or the queue (`LiveHeld`), so that it
is not allocated again.

The same module goes on, for any number of workers, fibers, jobs, restarts and any
pinning, under one assumption on the jobs, `NoWaits`: none sleeps, waits for an event or
schedules its own fiber. It proves that no worker faults, that `m_active_threads` is
exact, that nothing is left behind when `stop()` has joined the workers (`StopDrains`),
and that `Scheduler` implements `TaskPool` under the mapping that keeps `life` and
`user`. `NoWaits` is needed: the table of limits and `SchedDrain` drop it. The invariant
`PoolTaskInv` says that every fiber and every function is in one place:

- the queue names none twice (`QueueApart`), and a fiber in it is READY and with no
  worker (`QueuedReady`); no two workers have the same fiber (`OneHolder`, `OwnTask`),
  and one taken stays READY until it is called (`TakenReady`). From this follows
  `NoFault`: the assertions at scheduler.cpp:122 and fiber.cpp:107 meet a READY fiber.
- a fiber runs exactly while it is on a worker's stack (`OnStack`, `RunsRunning`,
  `RunningRuns`).
- a job has one fiber, or is a function not called yet, and `life` tells which
  (`OneFiber`, `FuncOnce`, `PendingIsNew`, `FiberLife`, `RunsBegun`, `JobsHeld`). So a
  call begins a scheduled job and a return ends a begun one, which is what the
  refinement needs of the steps of workers.
- a worker leaves only after it has seen an empty queue, and whoever adds to the queue
  stays (`SomeoneLeft`). With `JobsHeld` this gives `StopDrains`, and with it the
  abstract `Return`.

The lemmas on steps take what they need of the sizes of sets of workers as a hypothesis,
`Sizes`, which `SizesHold` proves of finite sets at the end of the module.

Each operation has its own lemma that it keeps these apart; steps that move no task share
`StillCore` and `QuietCore`. The refinement then takes the steps in turn: `Submit`, the
call and the end of a job and the steps of the user thread are steps of `TaskPool`, all
others leave `life` and `user` alone.

`TimerProofs` proves, for any timers, periods, users and workers, and whatever
`m_locked` reads as, that no timer is handed out early, a one-shot once per
creation or refresh, a recurring one on the multiples of its period, and a cancelled one never. The
invariant `TimerInv` says of a timer in the set, *or in the hands of a thread
about to insert it*, when it is due, and that it is in one of these places only
once; without the second clause `refresh()`, which keeps the timer out of the set
between its sections, would not preserve it. If there is a worker at all, it also proves
that no timer is slept over: the property itself is inductive with `TimerInv`, because
an insertion in front is made by a worker, which is awake, or by a user, who tickles.

`FdManagerProofs` proves for any descriptors and threads, if every thread is
hooked, that a descriptor has the `FdCtx` made for it; that, unless a user calls
`ioctl(FIONBIO, 0)`, an open socket is non-blocking and its `FdCtx` says so; and that without `SOCK_NONBLOCK` the user sees the
flag they asked for. The invariant adds that a descriptor being opened or closed
is in one thread's hands, and that a number handed out again has no `FdCtx`. The
hypotheses are needed: the table of limits drops each of them.

`PoolLifeProofs` proves for any users, threads and number of restarts, if one
thread at most calls `stop()` and it is not a worker (`OneStopper`), that a stopped
pool is joined, that nothing is freed in use, and that a stored `Thread` has begun.
The invariant `PoolInv` says that `start()` and `stop()` exclude each other although
they share no lock all the way (`Control`), that a `Thread` is alive exactly while it
is being made or is stored, once (`Places`, `Distinct`), and that `stop()` has joined
and zeroed the handles of every thread before the one it is at (`Stopping`,
`Joining`). The table of limits shows that `OneStopper` is needed.

`FiberProofs` proves for any threads and fibers, if users do no more than `run()`
does (`Misuse = {}`), the four properties of `FiberSwitch`. They are inductive
together with `Located` and `Fits`: on the stack a thread is on, the place in the
code, the state of the fiber, the reference `MainFunc()` holds and the caller's
reference agree. Without it nothing says that the end of `MainFunc()` is not the last
reference.

`IOManagerProofs` proves the four properties of `IOTable` for any descriptors,
events, threads and generations of contexts, if `FdContext::events` begins empty
(`Initialised`). A thread uses a context after it has released the lock under which
it was found, so the invariant `IOInv` says what it still knows then: its arguments
name a context that was made (`Args`), the table covers the descriptors below its
size (`Tables`), only `cancelEvent()` holds a context's lock across steps and its event
stays registered meanwhile (`Locks`), the kernel watches what is waited for but for
that event (`Kernel`), and every registered event has a waiter (`Waiters`). The two
counting properties follow from it by the registrations a step adds or takes away
(`GainCounts`, `LoseCounts`, `TakeCounts`). `AbortsOnlyFor` comes last. It rests on what `Args` says of the events `epoll_wait`
reported, each still registered or woken or deleted since, and on `WaitConserved`, by
which a registered event has been added and not ended (`RegisteredIsAdded`).

`HookedIOProofs` proves for any calls on a socket that a waiting call is woken by one
of event, timeout and `close()`, and, if nobody sets the zero timeval (`NoZero`), that
a call times out only if its own option was set; the invariant adds that a timer on its
way belongs to a call with a timeout, and `Asked` that a timeout of the `FdCtx` was
set. It also proves what the conversions of `Durations` compute, for integers of any
width: `sleep()` is exact below 2^32 ms and short above, `usleep()` short by less than
a millisecond, `nanosleep()` exact to the millisecond while that fits an int.

`LoggerProofs` proves the four properties of `LogRace` for any threads, loggers,
appenders, levels and records, and for patterns of any number of pieces. The invariant
`Inv` has these parts:

- what a thread holds at each place of `Logger::log()`, and that the holder of a mutex is
  at such a place (`Holds`, `Held`); an appender on a list has a formatter, or the thread
  that is about to give it one still holds the list's mutex (`Formatted`). As lists change
  only under the logger's mutex, `WrittenToAttached` follows.
- a file or stream is a chain of items (`Chained`) that stops at the end of a record, but
  for the record of the thread that holds the appender's mutex, which stops where that
  thread is (`Stops`). `RecordsWhole` says nothing of the last item, so it is not
  inductive without this.
- records in hand differ (`Distinct`), one whose logger is not yet locked is written
  nowhere (`NotYet`), and one whose logger is locked comes nowhere before another of that
  logger (`Latest`): so what its holder writes cannot reverse an order seen elsewhere, and
  `SameOrder` is kept.
- the pattern is written piece by piece (`Pattern`). That `initItems()` reads it back
  (`PatternsReadBack`) is an induction over the pattern. The induction theorems of the
  library need an operator the provers cannot instantiate; the module derives the same for
  sets of numbers (`NatSetInduction`) and from it that the recursive functions of the model
  have a solution (`Recursion`, `ParseExists`). Then: what the parser makes of a suffix does
  not depend on what is before it (`ItemsFromShift`), a piece in front adds its own item
  (`PieceRead`), and the endings with an error leave what `Ending` says (`EndingRead`).

The assumptions on constants are those named in the modules (`ConstantsAssumption`,
`TimerAssumption`, `FdAssumption`, `IOAssumption`, with a table of more than one entry,
`HookAssumption`, `WidthAssumption`, `PoolAssumption`, `FiberAssumption`,
`FormatterAssumption`: `%` is no key of `FORMATS`, `LoggerAssumption`), which TLC
evaluates in the runs.

Only model-checked: everything about liveness, which is outside the prover's reach, and
with it the fair `TaskPool` of `SchedSingle`; the refinement of `TaskPool` by jobs that
suspend, and `WokenExactlyOnce`, which hold for one worker only, the second a sum of the
sizes of several sets.

## Not modelled

- The capacity of the tickle pipe: some 64K tickles that nobody reads block `tickle()`
  with `m_mutex` held (scheduler.cpp:201), too many for an instance.
- The constructor of `IOManager`, which starts the workers before it sizes the table.
- Switching the hooks on and off during a call, `hook_init()`, and the commands of
  `fcntl()` that pass through unchanged.
- The guards of mutex.h other than `MutexWriteGuard`: they do what their name says,
  and are the steps and the holders of mutexes in every module.
- `Thread`'s names and the getters of the current thread.
- What log items print. Among it: `FileLogItem` looks for a newline, not for the end of
  the path (log.cpp:129), and runs past a path with fewer slashes than its format says.
- `setFormatter()` during logging, a data race on a `shared_ptr` without a defined
  outcome; `LogRace` sets formatters first. `StreamLogAppender::flush()`, which
  changes nothing: `m_ss.clear()` resets flags, not text, and old records are returned
  again (log.cpp:274). `%r`, which README.md lists and `FORMATS` lacks, is a letter that
  is no key: the rest of the pattern is dropped, as `PatternsParsed` says.
- util.cpp: thread ids, the clock, backtraces.
