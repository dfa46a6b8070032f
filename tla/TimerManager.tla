----------------------------- MODULE TimerManager -----------------------------
(***************************************************************************)
(* The timers of EVA01: timer.cpp and timer.h under the write guard of     *)
(* mutex.h, and the two places of Scheduler::idle() that use them.         *)
(*                                                                         *)
(* User threads create, cancel and refresh timers; workers ask how long    *)
(* epoll_wait may block, sleep until a timeout or a tickle, and collect    *)
(* the expired timers.  A section under m_mutex is one step; the calls     *)
(* refresh(), addTimer() and getExpiredFuncs() have windows between their  *)
(* sections, in which the clock moves and other threads work.              *)
(***************************************************************************)
EXTENDS Naturals

CONSTANTS
  Timer,      \* the timers, numbered by the addresses std::set compares
  Period,     \* m_period of each timer, in clock ticks
  Recurring,  \* the timers with m_recurring
  User,       \* threads that call addTimer(), cancel() and refresh()
  Worker,     \* threads in Scheduler::idle()
  Locked,     \* what an uninitialised MutexWriteGuard::m_locked may read as
  Null,
  MaxTime     \* bound on the clock

ASSUME TimerAssumption ==
  /\ Timer \subseteq Nat /\ Period \in [Timer -> Nat] /\ Recurring \subseteq Timer
  /\ Locked \subseteq BOOLEAN /\ Locked # {}
  /\ Null \notin Nat /\ MaxTime \in Nat

VARIABLES
  now,        \* GetCurrentMs()
  m_mutex,    \* "free", or "held" for ever by a guard that did not unlock
  m_timers,   \* the set, ordered by Before
  m_next,     \* when each timer is due
  tickled,    \* the pipe has a tickle that epoll has not delivered
  upc,        \* where each user thread is
  arg,        \* the timer it is adding
  known,      \* timers whose addTimer() has returned
  wpc,        \* where each worker is
  until,      \* when the worker's epoll_wait times out, MaxTime + 1 for never
  seen,       \* local now of getExpiredFuncs()
  drain,      \* workers that epoll_wait told of a tickle
  armed,      \* history: when each timer was created or last refreshed
  fired,      \* history: how often it was collected since
  cancelled   \* history: timers whose cancel() returned true

userVars == <<upc, arg, known>>
workVars == <<wpc, until, seen, drain>>
histVars == <<armed, fired, cancelled>>
vars == <<now, m_mutex, m_timers, m_next, tickled, userVars, workVars, histVars>>

Init ==
  /\ now = 0 /\ m_mutex = "free" /\ m_timers = {} /\ tickled = FALSE
  /\ m_next = [k \in Timer |-> 0]
  /\ upc = [u \in User |-> "ready"] /\ arg = [u \in User |-> Null] /\ known = {}
  /\ wpc = [w \in Worker |-> "busy"]
  /\ until = [w \in Worker |-> 0] /\ seen = [w \in Worker |-> 0] /\ drain = {}
  /\ armed = [k \in Timer |-> Null] /\ fired = [k \in Timer |-> 0] /\ cancelled = {}

\* Timer::cmp
Before(a, b) == m_next[a] < m_next[b] \/ (m_next[a] = m_next[b] /\ a < b)

\* ~MutexWriteGuard(): unlocks only if m_locked, which the constructor never set.
unlock == \E locked \in Locked : m_mutex' = IF locked THEN "free" ELSE "held"

-----------------------------------------------------------------------------
(* The user threads *)

\* addTimer(period, func, recurring): the Timer constructor reads the clock.
Create(u, k) ==
  /\ upc[u] = "ready" /\ armed[k] = Null
  /\ m_next' = [m_next EXCEPT ![k] = now + Period[k]]
  /\ armed' = [armed EXCEPT ![k] = now]
  /\ upc' = [upc EXCEPT ![u] = "insert"] /\ arg' = [arg EXCEPT ![u] = k]
  /\ UNCHANGED <<now, m_mutex, m_timers, tickled, known, workVars, fired, cancelled>>

\* Mutant of Insert: only the first timer of all is reported.
InsertUnseen(u) ==
  LET k == arg[u] IN
  /\ upc[u] = "insert" /\ m_mutex = "free"
  /\ m_timers' = m_timers \cup {k}
  /\ upc' = [upc EXCEPT ![u] = IF m_timers = {} THEN "notify" ELSE "ready"]
  /\ known' = IF m_timers = {} THEN known ELSE known \cup {k}
  /\ arg' = IF m_timers = {} THEN arg ELSE [arg EXCEPT ![u] = Null]
  /\ unlock
  /\ UNCHANGED <<now, m_next, tickled, workVars, histVars>>

\* addTimer(timer): insert, and report whether it became the first.
Insert(u) ==
  LET k == arg[u]
      changed == \A x \in m_timers \ {k} : Before(k, x)
  IN
  /\ upc[u] = "insert" /\ m_mutex = "free"
  /\ m_timers' = m_timers \cup {k}
  /\ upc' = [upc EXCEPT ![u] = IF changed THEN "notify" ELSE "ready"]
  /\ known' = IF changed THEN known ELSE known \cup {k}
  /\ arg' = IF changed THEN arg ELSE [arg EXCEPT ![u] = Null]
  /\ unlock
  /\ UNCHANGED <<now, m_next, tickled, workVars, histVars>>

\* onFirstTimerChanged() of Scheduler: tickle() if some worker is idle.
Notify(u) ==
  /\ upc[u] = "notify"
  /\ tickled' = (tickled \/ \E w \in Worker : wpc[w] # "busy")
  /\ upc' = [upc EXCEPT ![u] = "ready"] /\ known' = known \cup {arg[u]}
  /\ arg' = [arg EXCEPT ![u] = Null]
  /\ UNCHANGED <<now, m_mutex, m_timers, m_next, workVars, histVars>>

Cancel(u, k) ==
  /\ upc[u] = "ready" /\ k \in known /\ m_mutex = "free"
  /\ m_timers' = m_timers \ {k}
  /\ cancelled' = IF k \in m_timers THEN cancelled \cup {k} ELSE cancelled
  /\ unlock
  /\ UNCHANGED <<now, m_next, tickled, userVars, workVars, armed, fired>>

\* Mutant of Refresh: the result of erase() is not looked at.
RefreshAnyway(u, k) ==
  /\ upc[u] = "ready" /\ k \in known /\ m_mutex = "free"
  /\ unlock
  /\ m_timers' = m_timers \ {k}
  /\ m_next' = [m_next EXCEPT ![k] = now + Period[k]]
  /\ armed' = [armed EXCEPT ![k] = now] /\ fired' = [fired EXCEPT ![k] = 0]
  /\ upc' = [upc EXCEPT ![u] = "insert"] /\ arg' = [arg EXCEPT ![u] = k]
  /\ UNCHANGED <<now, tickled, known, workVars, cancelled>>

\* refresh(): a timer not in the set is left alone; one that is leaves the set
\* until the second section inserts it again.
Refresh(u, k) ==
  /\ upc[u] = "ready" /\ k \in known /\ m_mutex = "free"
  /\ unlock
  /\ IF k \in m_timers
     THEN /\ m_timers' = m_timers \ {k}
          /\ m_next' = [m_next EXCEPT ![k] = now + Period[k]]
          /\ armed' = [armed EXCEPT ![k] = now] /\ fired' = [fired EXCEPT ![k] = 0]
          /\ upc' = [upc EXCEPT ![u] = "insert"] /\ arg' = [arg EXCEPT ![u] = k]
     ELSE UNCHANGED <<m_timers, m_next, armed, fired, upc, arg>>
  /\ UNCHANGED <<now, tickled, known, workVars, cancelled>>

-----------------------------------------------------------------------------
(* The workers, in Scheduler::idle() *)

GoIdle(w) ==
  /\ wpc[w] = "busy"
  /\ wpc' = [wpc EXCEPT ![w] = "plan"]
  /\ UNCHANGED <<now, m_mutex, m_timers, m_next, tickled, userVars, until, seen, drain,
                 histVars>>

\* getNextTimeMs(): epoll_wait may block until the first timer is due.
Plan(w) ==
  /\ wpc[w] = "plan" /\ m_mutex = "free"
  /\ \/ m_timers = {} /\ until' = [until EXCEPT ![w] = MaxTime + 1]
     \/ \E k \in m_timers :
          /\ \A x \in m_timers \ {k} : Before(k, x)
          /\ until' = [until EXCEPT ![w] = IF m_next[k] > now THEN m_next[k] ELSE now]
  /\ wpc' = [wpc EXCEPT ![w] = "wait"]
  /\ UNCHANGED <<now, m_mutex, m_timers, m_next, tickled, userVars, seen, drain, histVars>>

\* epoll_wait returns: a tickle, the timeout (capped, so at any time) or IO.
Wake(w) ==
  /\ wpc[w] = "wait"
  /\ tickled' = FALSE
  /\ drain' = IF tickled THEN drain \cup {w} ELSE drain
  /\ wpc' = [wpc EXCEPT ![w] = "expire"] /\ until' = [until EXCEPT ![w] = 0]
  /\ UNCHANGED <<now, m_mutex, m_timers, m_next, userVars, seen, histVars>>

\* getExpiredFuncs(): reads the clock, then looks whether there are timers.
ReadNow(w) ==
  /\ wpc[w] = "expire" /\ m_mutex = "free"
  /\ wpc' = [wpc EXCEPT ![w] = IF m_timers = {} THEN "handle" ELSE "collect"]
  /\ seen' = [seen EXCEPT ![w] = IF m_timers = {} THEN 0 ELSE now]
  /\ UNCHANGED <<now, m_mutex, m_timers, m_next, tickled, userVars, until, drain, histVars>>

\* The timers due at `limit` leave the set, those in `again` return to it.
collect(w, limit, again, next) ==
  LET due == {k \in m_timers : m_next[k] <= limit} IN
  /\ wpc[w] = "collect" /\ m_mutex = "free"
  /\ m_timers' = (m_timers \ due) \cup (due \cap again)
  /\ m_next' = [k \in Timer |-> IF k \in due \cap again THEN next[k] ELSE m_next[k]]
  /\ fired' = [k \in Timer |-> IF k \in due THEN fired[k] + 1 ELSE fired[k]]
  /\ wpc' = [wpc EXCEPT ![w] = "handle"] /\ seen' = [seen EXCEPT ![w] = 0]
  /\ unlock
  /\ UNCHANGED <<now, tickled, userVars, until, drain, armed, cancelled>>

nextPeriod == [k \in Timer |-> m_next[k] + Period[k]]

\* Mutants of Collect: one tick too early; a one-shot is not erased; the next
\* period counts from the collection; a timer due right now is left.
CollectEarly(w) == collect(w, seen[w] + 1, Recurring, nextPeriod)
CollectAgain(w) ==
  collect(w, seen[w], Timer, [k \in Timer |-> IF k \in Recurring THEN nextPeriod[k] ELSE m_next[k]])
CollectDrift(w) == collect(w, seen[w], Recurring, [k \in Timer |-> seen[w] + Period[k]])
CollectLate(w)  == seen[w] > 0 /\ collect(w, seen[w] - 1, Recurring, nextPeriod)

\* getExpiredFuncs(), the section under the write guard.
Collect(w) == collect(w, seen[w], Recurring, nextPeriod)

\* The events: reading the pipe empty takes every tickle sent since with it.
Drain(w) ==
  /\ wpc[w] = "handle"
  /\ tickled' = (tickled /\ w \notin drain) /\ drain' = drain \ {w}
  /\ wpc' = [wpc EXCEPT ![w] = "busy"]
  /\ UNCHANGED <<now, m_mutex, m_timers, m_next, userVars, until, seen, histVars>>

Tick == /\ now < MaxTime /\ now' = now + 1
        /\ UNCHANGED <<m_mutex, m_timers, m_next, tickled, userVars, workVars, histVars>>

UserStep(u) == \/ \E k \in Timer : Create(u, k) \/ Cancel(u, k) \/ Refresh(u, k)
               \/ Insert(u) \/ Notify(u)
WorkerStep(w) == GoIdle(w) \/ Plan(w) \/ Wake(w) \/ ReadNow(w) \/ Collect(w)
                 \/ Drain(w)

Next == (\E u \in User : UserStep(u)) \/ (\E w \in Worker : WorkerStep(w)) \/ Tick

Spec == Init /\ [][Next]_vars

\* The kernel runs the workers, and epoll_wait has a timeout; nothing makes
\* users call, and no progress of the clock is needed.
FairSpec == Spec /\ \A w \in Worker : WF_vars(WorkerStep(w))

-----------------------------------------------------------------------------
(* Properties *)

Time == 0..MaxTime

\* Every variable has its type; every timer has a due time from its
\* construction on (timer.h:47).
TypeOK ==
  /\ now \in Time /\ m_mutex \in {"free", "held"} /\ tickled \in BOOLEAN
  /\ m_timers \subseteq Timer /\ m_next \in [Timer -> Nat]
  /\ upc \in [User -> {"ready", "insert", "notify"}]
  /\ arg \in [User -> Timer \cup {Null}] /\ known \subseteq Timer
  /\ wpc \in [Worker -> {"busy", "plan", "wait", "expire", "collect", "handle"}]
  /\ until \in [Worker -> Nat] /\ seen \in [Worker -> Time]
  /\ drain \subseteq Worker
  /\ armed \in [Timer -> Time \cup {Null}] /\ fired \in [Timer -> Nat]
  /\ cancelled \subseteq Timer

\* No timer's function is handed out before its time, the n-th time of a
\* recurring one included, whatever is refreshed meanwhile (timer.cpp:103).
NeverEarly ==
  \A k \in Timer : fired[k] > 0 => armed[k] + fired[k] * Period[k] <= now

\* A timer that does not recur is handed out once per creation or refresh.
OneShotOnce == \A k \in Timer \ Recurring : fired[k] <= 1

\* The due times of a recurring timer are the multiples of its period: late
\* collections do not shift the later ones (timer.cpp:114).
NoDrift ==
  \A k \in m_timers : m_next[k] = armed[k] + (fired[k] + 1) * Period[k]

\* After cancel() has returned true the timer is never handed out nor inserted
\* again, not by a concurrent refresh() either (timer.cpp:34, 42).
CancelIsFinal ==
  [][\A k \in cancelled : fired'[k] = fired[k] /\ k \notin m_timers']_vars

\* No timer is slept over: some worker is awake or wakes by the time it is due,
\* or a tickle is pending or about to be sent (timer.cpp:56-63, 70-82).
NoneSleptOver ==
  \A k \in m_timers :
    \/ tickled \/ \E u \in User : upc[u] = "notify"
    \/ \E w \in Worker : wpc[w] # "wait" \/ until[w] <= m_next[k] \/ until[w] <= now

\* A timer that is due is collected, however many users refresh and cancel
\* (timer.cpp:89-118).
DueIsCollected ==
  \A k \in Timer : (k \in m_timers /\ m_next[k] <= now)
                     ~> ~(k \in m_timers /\ m_next[k] <= now)
=============================================================================
