----------------------------- MODULE TimerProofs -----------------------------
(***************************************************************************)
(* Proofs about TimerManager, for any number of timers, users and workers, *)
(* any periods, and whatever the write guard does about unlocking.         *)
(*                                                                         *)
(* A timer is away from m_timers while addTimer() or refresh() is about to *)
(* insert it.  The invariant says of a timer in the set, or about to enter *)
(* it, when it is due; and that it is in one of these places at most once, *)
(* so that cancel() and refresh(), which ask only the set, miss nothing.   *)
(***************************************************************************)
EXTENDS TimerManager, TLAPS

\* Steps are for Zenon; those about numbers, records or sequences name SMT.
USE ZenonT(40)

inserting(u, k) == upc[u] = "insert" /\ arg[u] = k
pending(k) == k \in m_timers \/ \E u \in User : inserting(u, k)

\* A pending timer is due one period after it was armed or last handed out.
DueNext ==
  \A k \in Timer : pending(k) =>
    /\ armed[k] \in Time
    /\ m_next[k] = armed[k] + (fired[k] + 1) * Period[k]
    /\ k \notin cancelled
    /\ k \notin Recurring => fired[k] = 0

\* Nobody inserts what is in the set, or what another thread inserts.
InsertedOnce ==
  \A u \in User, k \in Timer : inserting(u, k) =>
    k \notin m_timers /\ \A v \in User : inserting(v, k) => v = u

Untouched == \A k \in Timer : armed[k] = Null => fired[k] = 0 /\ k \notin cancelled

HasTimer == \A u \in User : upc[u] # "ready" => arg[u] \in Timer

SeenIsPast == \A w \in Worker : seen[w] <= now

TimerInv == /\ TypeOK /\ DueNext /\ InsertedOnce /\ Untouched /\ HasTimer
            /\ SeenIsPast /\ NeverEarly /\ OneShotOnce

-----------------------------------------------------------------------------
\* A multiple of a period and the next one.
LEMMA NextMultiple ==
  ASSUME NEW n \in Nat, NEW p \in Nat
  PROVE  /\ n * p \in Nat /\ (n + 1) * p \in Nat
         /\ (n + 1) * p = n * p + p
         /\ (0 + 1) * p = p
BY SMTT(60)

\* A function stays within its type when one value changes.
LEMMA Set ==
  ASSUME NEW S, NEW T, NEW f \in [S -> T], NEW x \in S, NEW v \in T
  PROVE  [f EXCEPT ![x] = v] \in [S -> T]
OBVIOUS

\* The time a timer created or refreshed now is due.
LEMMA DueTime ==
  ASSUME TypeOK, NEW k \in Timer
  PROVE  now + Period[k] \in Nat
<1>1. now \in Nat
  BY TimerAssumption, SMTT(60) DEF TypeOK, Time
<1>2. Period[k] \in Nat
  BY TimerAssumption
<1> QED BY <1>1, <1>2, SMTT(60)

\* The invariant holds before any timer exists.
LEMMA TimerInit == Init => TimerInv
<1> SUFFICES ASSUME Init PROVE TimerInv
  OBVIOUS
<1> USE TimerAssumption DEF Init
<1>1. /\ now \in Time /\ seen \in [Worker -> Time]
      /\ armed \in [Timer -> Time \cup {Null}]
  BY SMTT(60) DEF Time
<1>2. TypeOK
  BY <1>1 DEF TypeOK
<1>3. \A k \in Timer : ~pending(k)
  BY DEF pending, inserting
<1>4. DueNext /\ InsertedOnce /\ Untouched /\ HasTimer /\ SeenIsPast
  BY <1>3, SMTT(60) DEF DueNext, InsertedOnce, pending, Untouched, HasTimer, SeenIsPast
<1>5. NeverEarly /\ OneShotOnce
  BY SMTT(60) DEF NeverEarly, OneShotOnce
<1> QED BY <1>2, <1>4, <1>5 DEF TimerInv

-----------------------------------------------------------------------------
(* The user threads *)

\* A timer created has never been armed, so it is nowhere yet.
LEMMA CreateKeeps ==
  ASSUME TimerInv, NEW u \in User, NEW k \in Timer, Create(u, k)
  PROVE  TimerInv'
<1> USE TimerAssumption DEF TimerInv, Create, userVars, workVars, histVars
<1>1. ~pending(k) /\ fired[k] = 0 /\ k \notin cancelled
  BY SMTT(60) DEF DueNext, Untouched, TypeOK, Time
<1>2. TypeOK'
  <2>1. now + Period[k] \in Nat
    BY DueTime, Zenon
  <2>2. m_next' \in [Timer -> Nat]
    BY <2>1 DEF TypeOK
  <2>4. armed' \in [Timer -> Time \cup {Null}]
    <3>1. armed \in [Timer -> Time \cup {Null}] /\ now \in Time \cup {Null}
      BY DEF TypeOK
    <3> QED BY <3>1, Set, Zenon
  <2>3. upc' \in [User -> {"ready", "insert", "notify"}]
        /\ arg' \in [User -> Timer \cup {Null}]
    BY DEF TypeOK
  <2> QED BY <2>2, <2>3, <2>4 DEF TypeOK, Time
<1>3. \A x \in Timer : pending(x)' => pending(x) \/ x = k
  BY DEF pending, inserting, TypeOK
<1>4. DueNext'
  <2> SUFFICES ASSUME NEW x \in Timer, pending(x)'
               PROVE  /\ armed'[x] \in Time
                      /\ m_next'[x] = armed'[x] + (fired[x] + 1) * Period[x]
                      /\ x \notin cancelled
                      /\ x \notin Recurring => fired[x] = 0
    BY DEF DueNext
  <2>1. CASE x = k
    <3>1. m_next'[k] = now + Period[k] /\ armed'[k] = now /\ now \in Time
      BY DEF TypeOK
    <3>2. (fired[k] + 1) * Period[k] = Period[k]
      BY <1>1, NextMultiple
    <3> QED BY <2>1, <3>1, <3>2, <1>1
  <2>2. CASE x # k
    BY <2>2, <1>3 DEF DueNext, TypeOK
  <2> QED BY <2>1, <2>2
<1>5. InsertedOnce'
  BY <1>1, SMTT(60) DEF InsertedOnce, inserting, pending, TypeOK
<1>6. Untouched'
  BY DEF Untouched, TypeOK, Time
<1>7. HasTimer' /\ SeenIsPast'
  BY DEF HasTimer, SeenIsPast, TypeOK
<1>8. NeverEarly' /\ OneShotOnce'
  BY <1>1, SMTT(60) DEF NeverEarly, OneShotOnce, TypeOK
<1> QED BY <1>2, <1>4, <1>5, <1>6, <1>7, <1>8

\* The timer goes from the user's hands into the set.
LEMMA InsertKeeps ==
  ASSUME TimerInv, NEW u \in User, Insert(u)
  PROVE  TimerInv'
<1> USE DEF TimerInv, Insert, unlock, userVars, workVars, histVars
<1>1. arg[u] \in Timer /\ inserting(u, arg[u])
  BY DEF HasTimer, inserting
<1>2. TypeOK'
  BY <1>1, TimerAssumption DEF TypeOK
<1>3. \A x \in Timer : pending(x)' => pending(x)
  BY <1>1 DEF pending, inserting, TypeOK
<1>4. DueNext'
  BY <1>3 DEF DueNext
<1>5. InsertedOnce'
  <2> SUFFICES ASSUME NEW v \in User, NEW x \in Timer, inserting(v, x)'
               PROVE  x \notin m_timers' /\ \A w \in User : inserting(w, x)' => w = v
    BY DEF InsertedOnce
  <2>1. \A w \in User : inserting(w, x)' => w # u /\ inserting(w, x)
    BY <1>1 DEF inserting, TypeOK
  <2>2. inserting(v, x) /\ v # u
    BY <2>1
  <2>3. x \notin m_timers /\ x # arg[u]
    BY <2>2, <1>1 DEF InsertedOnce
  <2> QED BY <2>1, <2>2, <2>3 DEF InsertedOnce
<1>6. Untouched' /\ HasTimer' /\ SeenIsPast' /\ NeverEarly' /\ OneShotOnce'
  BY DEF Untouched, HasTimer, SeenIsPast, NeverEarly, OneShotOnce, TypeOK
<1> QED BY <1>2, <1>4, <1>5, <1>6

\* onFirstTimerChanged() touches no timer.
LEMMA NotifyKeeps ==
  ASSUME TimerInv, NEW u \in User, Notify(u)
  PROVE  TimerInv'
<1> USE DEF TimerInv, Notify, workVars, histVars
<1>1. TypeOK'
  BY TimerAssumption DEF TypeOK, HasTimer
<1>2. \A v \in User, x \in Timer : inserting(v, x)' <=> inserting(v, x)
  BY DEF inserting, TypeOK
<1>3. DueNext' /\ InsertedOnce'
  BY <1>2 DEF DueNext, InsertedOnce, pending
<1>4. Untouched' /\ HasTimer' /\ SeenIsPast' /\ NeverEarly' /\ OneShotOnce'
  BY DEF Untouched, HasTimer, SeenIsPast, NeverEarly, OneShotOnce, TypeOK
<1> QED BY <1>1, <1>3, <1>4

\* A timer that cancel() finds in the set is in nobody's hands.
LEMMA CancelKeeps ==
  ASSUME TimerInv, NEW u \in User, NEW k \in Timer, Cancel(u, k)
  PROVE  TimerInv'
<1> USE DEF TimerInv, Cancel, unlock, userVars, workVars
<1>1. TypeOK'
  BY DEF TypeOK
<1>2. \A x \in Timer : pending(x)' => pending(x) /\ x \notin cancelled'
  BY DEF pending, inserting, InsertedOnce, DueNext
<1>3. DueNext'
  BY <1>2 DEF DueNext
<1>4. InsertedOnce'
  BY ZenonT(60) DEF InsertedOnce, inserting
<1>5. Untouched'
  BY TimerAssumption, SMTT(60) DEF Untouched, DueNext, pending, Time
<1>6. HasTimer' /\ SeenIsPast' /\ NeverEarly' /\ OneShotOnce'
  BY DEF HasTimer, SeenIsPast, NeverEarly, OneShotOnce
<1> QED BY <1>1, <1>3, <1>4, <1>5, <1>6

\* A timer that refresh() finds in the set is in nobody else's hands.
LEMMA RefreshKeeps ==
  ASSUME TimerInv, NEW u \in User, NEW k \in Timer, Refresh(u, k)
  PROVE  TimerInv'
<1> USE TimerAssumption DEF TimerInv, Refresh, unlock, workVars
<1>0. m_mutex' \in {"free", "held"}
  OBVIOUS
<1>1. CASE k \notin m_timers
  <2>1. UNCHANGED <<now, m_timers, m_next, tickled, upc, arg, known, wpc, until, seen, drain,
                    armed, fired, cancelled>>
    BY <1>1
  <2>2. TypeOK' /\ SeenIsPast' /\ HasTimer'
    BY <1>0, <2>1, SMTT(60) DEF TypeOK, Time, SeenIsPast, HasTimer
  <2>3. DueNext' /\ InsertedOnce'
    BY <2>1, SMTT(60) DEF DueNext, InsertedOnce, pending, inserting, Time
  <2>4. Untouched' /\ NeverEarly' /\ OneShotOnce'
    BY <2>1 DEF Untouched, NeverEarly, OneShotOnce
  <2> QED BY <2>2, <2>3, <2>4
<1>2. CASE k \in m_timers
  <2>1. k \notin cancelled /\ \A v \in User : ~inserting(v, k)
    BY <1>2 DEF DueNext, pending, InsertedOnce
  <2>2. TypeOK'
    <3>1. now + Period[k] \in Nat
      BY DueTime, Zenon
    <3>2. m_next' \in [Timer -> Nat] /\ fired' \in [Timer -> Nat]
      BY <1>2, <3>1, SMTT(60) DEF TypeOK
    <3>4. armed' \in [Timer -> Time \cup {Null}]
      <4>1. armed \in [Timer -> Time \cup {Null}] /\ now \in Time \cup {Null}
        BY DEF TypeOK
      <4>2. armed' = [armed EXCEPT ![k] = now]
        BY <1>2
      <4> QED BY <4>1, <4>2, Set, Zenon
    <3>3. /\ upc' \in [User -> {"ready", "insert", "notify"}]
          /\ arg' \in [User -> Timer \cup {Null}] /\ m_timers' \subseteq Timer
      <4>1. /\ upc' = [upc EXCEPT ![u] = "insert"] /\ arg' = [arg EXCEPT ![u] = k]
            /\ m_timers' = m_timers \ {k}
        BY <1>2
      <4>2. /\ upc \in [User -> {"ready", "insert", "notify"}] /\ m_timers \subseteq Timer
            /\ arg \in [User -> Timer \cup {Null}]
        BY DEF TypeOK
      <4> QED BY <4>1, <4>2, Set, Zenon
    <3> QED BY <1>0, <3>2, <3>3, <3>4 DEF TypeOK, Time
  <2>3. \A x \in Timer : pending(x)' => pending(x)
    BY <1>2, ZenonT(60) DEF pending, inserting, TypeOK
  <2>4. DueNext'
    <3> SUFFICES ASSUME NEW x \in Timer, pending(x)'
                 PROVE  /\ armed'[x] \in Time
                        /\ m_next'[x] = armed'[x] + (fired'[x] + 1) * Period[x]
                        /\ x \notin cancelled
                        /\ x \notin Recurring => fired'[x] = 0
      BY DEF DueNext
    <3>1. CASE x = k
      <4>1. m_next'[k] = now + Period[k] /\ armed'[k] = now /\ fired'[k] = 0 /\ now \in Time
        BY <1>2, ZenonT(60) DEF TypeOK
      <4>2. (fired'[k] + 1) * Period[k] = Period[k]
        BY <4>1, NextMultiple
      <4> QED BY <3>1, <4>1, <4>2, <2>1
    <3>2. CASE x # k
      BY <1>2, <3>2, <2>3, ZenonT(60) DEF DueNext, TypeOK
    <3> QED BY <3>1, <3>2
  <2>5. InsertedOnce'
    BY <1>2, <2>1, SMTT(60) DEF InsertedOnce, inserting, TypeOK
  <2>6. Untouched' /\ HasTimer' /\ SeenIsPast'
    BY <1>2, SMTT(60) DEF Untouched, HasTimer, SeenIsPast, TypeOK, Time
  <2>7. NeverEarly' /\ OneShotOnce'
    BY <1>2, SMTT(60) DEF NeverEarly, OneShotOnce, TypeOK
  <2> QED BY <2>2, <2>4, <2>5, <2>6, <2>7
<1> QED BY <1>1, <1>2
-----------------------------------------------------------------------------
(* The workers and the clock *)

\* The timers handed out were due by the time the worker read from the clock,
\* which is past; those that recur are due again one period later.
LEMMA CollectKeeps ==
  ASSUME TimerInv, NEW w \in Worker, Collect(w)
  PROVE  TimerInv'
<1> DEFINE due == {k \in m_timers : m_next[k] <= seen[w]}
<1> USE TimerAssumption DEF TimerInv, Collect, collect, nextPeriod, unlock, userVars
<1>1. TypeOK'
  <2>1. /\ m_timers' \subseteq Timer /\ m_mutex' \in {"free", "held"}
        /\ UNCHANGED <<now, tickled, upc, arg, known, until, drain, armed, cancelled>>
    BY DEF TypeOK
  <2>2. \A k \in Timer : m_next[k] + Period[k] \in Nat /\ fired[k] + 1 \in Nat
    BY SMTT(60) DEF TypeOK
  <2>3. m_next' \in [Timer -> Nat] /\ fired' \in [Timer -> Nat]
    BY <2>2 DEF TypeOK
  <2>4. 0 \in Time
    BY SMTT(60) DEF Time
  <2>5. seen' \in [Worker -> Time]
    BY <2>4, Set, Zenon DEF TypeOK
  <2>6. wpc' \in [Worker -> {"busy", "plan", "wait", "expire", "collect", "handle"}]
    BY DEF TypeOK
  <2> QED BY <2>1, <2>3, <2>5, <2>6, Zenon DEF TypeOK
<1>2. \A x \in Timer : pending(x)' => pending(x) /\ (x \in due => x \in Recurring)
  BY DEF pending, inserting, InsertedOnce, TypeOK
<1>3. DueNext'
  <2> SUFFICES ASSUME NEW x \in Timer, pending(x)'
               PROVE  /\ armed[x] \in Time
                      /\ m_next'[x] = armed[x] + (fired'[x] + 1) * Period[x]
                      /\ x \notin cancelled
                      /\ x \notin Recurring => fired'[x] = 0
    BY DEF DueNext
  <2>1. /\ armed[x] \in Time /\ x \notin cancelled
        /\ m_next[x] = armed[x] + (fired[x] + 1) * Period[x]
        /\ x \notin Recurring => fired[x] = 0
    BY <1>2 DEF DueNext
  <2>2. CASE x \in due
    <3>1. m_next'[x] = m_next[x] + Period[x] /\ fired'[x] = fired[x] + 1 /\ x \in Recurring
      BY <2>2, <1>2
    <3>2. (fired[x] + 1 + 1) * Period[x] = (fired[x] + 1) * Period[x] + Period[x]
      BY NextMultiple, SMTT(60) DEF TypeOK
    <3>3. (fired[x] + 1) * Period[x] \in Nat
      BY NextMultiple, SMTT(60) DEF TypeOK
    <3> QED BY <2>1, <3>1, <3>2, <3>3, SMTT(60) DEF Time
  <2>3. CASE x \notin due
    <3>1. m_next'[x] = m_next[x] /\ fired'[x] = fired[x]
      BY <2>3
    <3> QED BY <2>1, <3>1
  <2> QED BY <2>2, <2>3
<1>4. InsertedOnce'
  BY ZenonT(60) DEF InsertedOnce, inserting
<1>5. Untouched'
  BY SMTT(60) DEF Untouched, DueNext, pending, Time, TypeOK
<1>6. HasTimer' /\ SeenIsPast'
  BY SMTT(60) DEF HasTimer, SeenIsPast, TypeOK, Time
<1>7. NeverEarly'
  <2> SUFFICES ASSUME NEW x \in Timer, fired'[x] > 0
               PROVE  armed[x] + fired'[x] * Period[x] <= now
    BY DEF NeverEarly
  <2>1. CASE x \in due
    <3>1. fired'[x] = fired[x] + 1 /\ m_next[x] <= seen[w] /\ seen[w] <= now
      BY <2>1 DEF SeenIsPast, TypeOK
    <3>2. m_next[x] = armed[x] + (fired[x] + 1) * Period[x]
      BY <2>1 DEF DueNext, pending
    <3> QED BY <3>1, <3>2, SMTT(60) DEF TypeOK, Time
  <2>2. CASE x \notin due
    <3>1. fired'[x] = fired[x]
      BY <2>2
    <3> QED BY <3>1 DEF NeverEarly
  <2> QED BY <2>1, <2>2
<1>8. OneShotOnce'
  BY SMTT(60) DEF OneShotOnce, DueNext, pending, TypeOK
<1> QED BY <1>1, <1>3, <1>4, <1>5, <1>6, <1>7, <1>8

\* The other steps of a worker touch no timer.
LEMMA WorkerKeeps ==
  ASSUME TimerInv, NEW w \in Worker, WorkerStep(w)
  PROVE  TimerInv'
<1> USE DEF TimerInv, TypeOK, DueNext, InsertedOnce, Untouched, HasTimer, SeenIsPast,
            NeverEarly, OneShotOnce, pending, inserting, userVars, histVars, Time
<1>1. CASE GoIdle(w)
  BY <1>1, SMTT(60) DEF GoIdle
<1>2. CASE Plan(w)
  <2>1. until' \in [Worker -> Nat]
    <3>1. MaxTime + 1 \in Nat /\ now \in Nat /\ \A k \in m_timers : m_next[k] \in Nat
      BY TimerAssumption, SMTT(60)
    <3>2. PICK v \in Nat : until' = [until EXCEPT ![w] = v]
      BY <1>2, <3>1 DEF Plan
    <3> QED BY <3>2
  <2> QED BY <1>2, <2>1, SMTT(60) DEF Plan
<1>3. CASE Wake(w)
  <2>1. until' \in [Worker -> Nat]
    BY <1>3, Set, 0 \in Nat, Zenon DEF Wake
  <2>2. drain' \subseteq Worker /\ tickled' \in BOOLEAN
    BY <1>3 DEF Wake
  <2> QED BY <1>3, <2>1, <2>2, SMTT(60) DEF Wake
<1>4. CASE ReadNow(w)
  <2>1. seen' \in [Worker -> Time] /\ \A v \in Worker : seen'[v] <= now
    BY <1>4, TimerAssumption, SMTT(60) DEF ReadNow
  <2> QED BY <1>4, <2>1, SMTT(60) DEF ReadNow
<1>5. CASE Drain(w)
  BY <1>5, SMTT(60) DEF Drain
<1>6. CASE Collect(w)
  BY <1>6, CollectKeeps
<1> QED BY <1>1, <1>2, <1>3, <1>4, <1>5, <1>6 DEF WorkerStep

\* Time passing makes no timer early.
LEMMA TickKeeps == TimerInv /\ Tick => TimerInv'
<1> SUFFICES ASSUME TimerInv, Tick PROVE TimerInv'
  OBVIOUS
<1> USE TimerAssumption DEF TimerInv, Tick, userVars, workVars, histVars
<1>1. TypeOK' /\ SeenIsPast' /\ Untouched' /\ HasTimer' /\ OneShotOnce'
  BY SMTT(60) DEF TypeOK, Time, SeenIsPast, Untouched, HasTimer, OneShotOnce
<1>2. DueNext' /\ InsertedOnce'
  BY DEF DueNext, InsertedOnce, pending, inserting, Time
<1>3. NeverEarly'
  <2> SUFFICES ASSUME NEW k \in Timer, fired[k] > 0
               PROVE  armed[k] + fired[k] * Period[k] <= now + 1
    BY DEF NeverEarly
  <2>1. armed[k] \in Time /\ fired[k] * Period[k] \in Nat
    BY NextMultiple, SMTT(60) DEF Untouched, TypeOK
  <2> QED BY <2>1, SMTT(60) DEF NeverEarly, TypeOK, Time
<1> QED BY <1>1, <1>2, <1>3

-----------------------------------------------------------------------------
\* The invariant holds in every reachable state.
THEOREM TimerInvariant == Spec => []TimerInv
<1>1. TimerInv /\ [Next]_vars => TimerInv'
  <2> SUFFICES ASSUME TimerInv, [Next]_vars PROVE TimerInv'
    OBVIOUS
  <2>1. ASSUME NEW u \in User, UserStep(u) PROVE TimerInv'
    BY <2>1, CreateKeeps, InsertKeeps, NotifyKeeps, CancelKeeps, RefreshKeeps DEF UserStep
  <2>2. ASSUME NEW w \in Worker, WorkerStep(w) PROVE TimerInv'
    BY <2>2, WorkerKeeps
  <2>3. CASE Tick
    BY <2>3, TickKeeps
  <2>4. CASE UNCHANGED vars
    BY <2>4 DEF TimerInv, TypeOK, DueNext, InsertedOnce, Untouched, HasTimer, SeenIsPast,
                NeverEarly, OneShotOnce, pending, inserting, vars, userVars, workVars, histVars
  <2> QED BY <2>1, <2>2, <2>3, <2>4 DEF Next
<1> QED BY TimerInit, <1>1, PTL DEF Spec

\* No timer's function is handed out early (timer.cpp:103).
THEOREM TimersNeverEarly == Spec => []NeverEarly
BY TimerInvariant, PTL DEF TimerInv

\* A timer that does not recur is handed out at most once.
THEOREM OneShotsFireOnce == Spec => []OneShotOnce
BY TimerInvariant, PTL DEF TimerInv

\* Late collections do not shift a recurring timer (timer.cpp:114).
THEOREM TimersDoNotDrift == Spec => []NoDrift
<1>1. TimerInv => NoDrift
  BY DEF TimerInv, DueNext, pending, NoDrift, TypeOK
<1> QED BY <1>1, TimerInvariant, PTL

\* A cancelled timer is neither handed out nor inserted again (timer.cpp:34, 42).
THEOREM CancelledForGood == Spec => CancelIsFinal
<1> DEFINE Final == \A k \in cancelled : fired'[k] = fired[k] /\ k \notin m_timers'
<1>1. TimerInv /\ [Next]_vars => [Final]_vars
  <2> SUFFICES ASSUME TimerInv, Next PROVE Final
    OBVIOUS
  <2>0. /\ cancelled \subseteq Timer
        /\ \A k \in cancelled : k \notin m_timers /\ \A u \in User : ~inserting(u, k)
    BY DEF TimerInv, DueNext, pending, TypeOK
  <2> USE DEF TimerInv, TypeOK
  <2>1. ASSUME NEW u \in User, UserStep(u) PROVE Final
    <3>1. ASSUME NEW k \in Timer, Create(u, k) PROVE Final
      BY <2>0, <3>1 DEF Create
    <3>2. ASSUME NEW k \in Timer, Cancel(u, k) PROVE Final
      BY <2>0, <3>2 DEF Cancel
    <3>3. ASSUME NEW k \in Timer, Refresh(u, k) PROVE Final
      BY <2>0, <3>3, ZenonT(60) DEF Refresh
    <3>4. CASE Insert(u)
      BY <2>0, <3>4 DEF Insert, inserting, histVars
    <3>5. CASE Notify(u)
      BY <2>0, <3>5 DEF Notify, histVars
    <3> QED BY <2>1, <3>1, <3>2, <3>3, <3>4, <3>5 DEF UserStep
  <2>2. ASSUME NEW w \in Worker, WorkerStep(w) PROVE Final
    BY <2>0, <2>2 DEF WorkerStep, GoIdle, Plan, Wake, ReadNow, Collect, collect, Drain,
                      histVars
  <2>3. CASE Tick
    BY <2>0, <2>3 DEF Tick, histVars
  <2> QED BY <2>1, <2>2, <2>3 DEF Next
<1> QED BY <1>1, TimerInvariant, PTL DEF Spec, CancelIsFinal

\* One timer is not slept over.
Minded(k) ==
  \/ tickled \/ \E u \in User : upc[u] = "notify"
  \/ \E w \in Worker : wpc[w] # "wait" \/ until[w] <= m_next[k] \/ until[w] <= now

\* A step of a worker leaves every timer minded: a worker that is awake minds them
\* all, and one that goes to sleep has asked for the first of them.
LEMMA WorkerMinds ==
  ASSUME TypeOK, NoneSleptOver, NEW w \in Worker, WorkerStep(w)
  PROVE  NoneSleptOver'
<1>1. CASE Plan(w)
  <2>1. ASSUME NEW k \in m_timers PROVE Minded(k)'
    <3>1. PICK x \in m_timers :
            /\ \A y \in m_timers \ {x} : Before(x, y)
            /\ until' = [until EXCEPT ![w] = IF m_next[x] > now THEN m_next[x] ELSE now]
            /\ UNCHANGED <<now, m_next>>
      BY <1>1 DEF Plan
    <3>2. /\ k \in Timer /\ x \in Timer /\ now \in Nat
          /\ m_next[k] \in Nat /\ m_next[x] \in Nat
      BY SMTT(60) DEF TypeOK, Time
    <3>3. m_next[x] <= m_next[k]
      BY <3>1, <3>2, SMTT(60) DEF Before
    <3>4. until'[w] = IF m_next[x] > now THEN m_next[x] ELSE now
      BY <3>1 DEF TypeOK
    <3>5. until'[w] <= m_next[k] \/ until'[w] <= now
      BY <3>2, <3>3, <3>4, SMTT(60)
    <3> QED BY <3>1, <3>5 DEF Minded
  <2> QED BY <1>1, <2>1 DEF Plan, NoneSleptOver, Minded
<1>2. CASE ~Plan(w)
  <2>1. wpc'[w] # "wait"
    BY <1>2 DEF WorkerStep, GoIdle, Wake, ReadNow, Collect, collect, Drain, TypeOK
  <2> QED BY <2>1 DEF NoneSleptOver
<1> QED BY <1>1, <1>2

\* A step of a user leaves every timer minded: one that becomes the first is
\* reported, and one that does not is due no sooner than one that is minded.
LEMMA UserMinds ==
  ASSUME Worker # {}, TimerInv, NoneSleptOver, NEW u \in User, UserStep(u)
  PROVE  NoneSleptOver'
<1> USE DEF TimerInv
<1>0. \A k \in m_timers : Minded(k)
  BY DEF NoneSleptOver, Minded
<1>1. ASSUME NEW k \in Timer, Create(u, k) PROVE NoneSleptOver'
  <2>1. k \notin m_timers
    BY <1>1, TimerAssumption, SMTT(60) DEF Create, DueNext, pending, Time
  <2>2. \A x \in m_timers : m_next'[x] = m_next[x]
    BY <1>1, <2>1 DEF Create, TypeOK
  <2>3. \A v \in User : upc[v] = "notify" => upc'[v] = "notify"
    BY <1>1 DEF Create, TypeOK
  <2> QED BY <1>0, <1>1, <2>2, <2>3 DEF Create, workVars, NoneSleptOver, Minded
<1>2. ASSUME NEW k \in Timer, Cancel(u, k) PROVE NoneSleptOver'
  BY <1>0, <1>2 DEF Cancel, userVars, workVars, NoneSleptOver, Minded
<1>3. ASSUME NEW k \in Timer, Refresh(u, k) PROVE NoneSleptOver'
  <2>1. \A x \in m_timers' : x \in m_timers /\ m_next'[x] = m_next[x]
    BY <1>3 DEF Refresh, TypeOK
  <2>2. \A v \in User : upc[v] = "notify" => upc'[v] = "notify"
    BY <1>3 DEF Refresh, TypeOK
  <2>3. UNCHANGED <<now, tickled, wpc, until>>
    BY <1>3 DEF Refresh, workVars
  <2> QED BY <1>0, <2>1, <2>2, <2>3 DEF NoneSleptOver, Minded
<1>4. CASE Insert(u)
  <2>a. PICK k \in Timer : k = arg[u]
    BY <1>4 DEF Insert, HasTimer
  <2>0. m_timers' = m_timers \cup {k} /\ UNCHANGED <<now, m_next, tickled, wpc, until>>
    BY <1>4, <2>a DEF Insert, workVars
  <2>1. CASE \A x \in m_timers \ {k} : Before(k, x)
    <3>1. upc'[u] = "notify"
      BY <1>4, <2>a, <2>1 DEF Insert, TypeOK
    <3> QED BY <3>1 DEF NoneSleptOver
  <2>2. CASE ~ \A x \in m_timers \ {k} : Before(k, x)
    <3>1. \A v \in User : upc[v] = "notify" => upc'[v] = "notify"
      BY <1>4 DEF Insert, TypeOK
    <3>2. PICK x \in m_timers : ~Before(k, x)
      BY <2>2
    <3>3. x \in Timer /\ m_next[x] \in Nat /\ m_next[k] \in Nat
      BY <2>0 DEF TypeOK
    <3>4. m_next[x] <= m_next[k]
      BY <2>0, <3>2, <3>3, TimerAssumption, SMTT(60) DEF Before
    <3>5. ASSUME NEW w \in Worker, until[w] <= m_next[x] PROVE until[w] <= m_next[k]
      <4>1. until[w] \in Nat
        BY DEF TypeOK
      <4> QED BY <3>3, <3>4, <3>5, <4>1, SMTT(60)
    <3>6. Minded(x)' /\ \A y \in m_timers : Minded(y)'
      BY <1>0, <2>0, <3>1 DEF Minded
    <3>7. Minded(k)'
      <4>1. UNCHANGED <<m_next, until>> /\ Minded(x)'
        BY <2>0, <3>6
      <4>2. \A w \in Worker : until'[w] <= m_next'[x] => until'[w] <= m_next'[k]
        BY <3>5, <4>1
      <4> QED BY <4>1, <4>2 DEF Minded
    <3>8. \A y \in m_timers' : Minded(y)'
      BY <2>0, <3>6, <3>7
    <3> QED BY <3>8 DEF NoneSleptOver, Minded
  <2> QED BY <2>1, <2>2
<1>5. CASE Notify(u)
  <2>1. CASE tickled'
    BY <2>1 DEF NoneSleptOver
  <2>2. CASE ~tickled'
    <3>1. \A w \in Worker : wpc'[w] # "wait"
      BY <1>5, <2>2 DEF Notify, workVars
    <3> QED BY <3>1 DEF NoneSleptOver
  <2> QED BY <2>1, <2>2
<1> QED BY <1>1, <1>2, <1>3, <1>4, <1>5 DEF UserStep

\* No timer is slept over, however users and workers interleave, as long as there
\* is a worker: some worker is awake or wakes by the time a timer is due, or a
\* tickle is pending or about to be sent (timer.cpp:56-63, 70-82).
THEOREM NoTimerSleptOver == ASSUME Worker # {} PROVE Spec => []NoneSleptOver
<1>1. Init => NoneSleptOver
  BY DEF Init, NoneSleptOver
<1>2. TimerInv /\ NoneSleptOver /\ [Next]_vars => NoneSleptOver'
  <2> SUFFICES ASSUME TimerInv, NoneSleptOver, [Next]_vars PROVE NoneSleptOver'
    OBVIOUS
  <2>1. ASSUME NEW u \in User, UserStep(u) PROVE NoneSleptOver'
    BY <2>1, UserMinds
  <2>2. ASSUME NEW w \in Worker, WorkerStep(w) PROVE NoneSleptOver'
    BY <2>2, WorkerMinds DEF TimerInv
  <2>3. CASE Tick
    <3>1. now \in Nat /\ now' = now + 1 /\ until \in [Worker -> Nat]
      BY <2>3, SMTT(60) DEF Tick, TimerInv, TypeOK, Time
    <3>2. \A w \in Worker : until[w] <= now => until[w] <= now'
      BY <3>1, SMTT(60)
    <3> QED BY <2>3, <3>2 DEF Tick, userVars, workVars, NoneSleptOver
  <2>4. CASE UNCHANGED vars
    BY <2>4 DEF vars, userVars, workVars, NoneSleptOver
  <2> QED BY <2>1, <2>2, <2>3, <2>4 DEF Next
<1> QED BY <1>1, <1>2, TimerInvariant, PTL DEF Spec
=============================================================================
