------------------------------ MODULE PoolLife ------------------------------
(***************************************************************************)
(* The life of a pool of EVA01 and of its threads: Thread and Semaphore    *)
(* (thread.cpp, semaphore.cpp), and the start(), stop() and destructor of  *)
(* the scheduler that owns them (scheduler.cpp, iomanager.cpp).            *)
(*                                                                         *)
(* start() holds m_mutex while it constructs Threads, each of which waits  *)
(* until its thread has begun; stop() joins them without the lock.  Users  *)
(* call both, from any thread.  What a worker does between its begin and   *)
(* its end is in Scheduler; here it ends some time after stop() was called.*)
(***************************************************************************)
EXTENDS Naturals, Sequences

CONSTANTS
  User,         \* threads that use the pool
  Worker,       \* the pthreads to come, numbered; also their Thread objects
  Stopper,      \* who calls stop(): users, or workers (from a task)
  ThreadCount,  \* m_thread_count
  Null

ASSUME PoolAssumption ==
  /\ Worker \subseteq Nat /\ User \cap Worker = {} /\ Null \notin User \cup Worker
  /\ Stopper \subseteq User \cup Worker /\ ThreadCount \in Nat \ {0}

Caller == User \cup Worker

VARIABLES
  m_mutex,      \* the user that holds Scheduler::m_mutex across steps, or Null
  m_threads,    \* the vector of Threads, Null where none is yet
  making,       \* the Thread that start() is in the constructor of, or Null
  m_stopping, m_stopped,
  pool,         \* whether the scheduler is alive or destroyed
  object,       \* each Thread object: none yet, alive, freed
  m_thread,     \* the objects whose m_thread is not 0
  m_id,         \* the objects whose m_id is set
  m_semaphore,  \* its count
  life,         \* where each pthread is
  joining,      \* who is in pthread_join() for it, or Null
  pc, i,        \* where each caller is, and the Thread it is at
  fault         \* the failed ASSERT, or the undefined behaviour, reached

poolVars   == <<m_mutex, m_threads, making, m_stopping, m_stopped, pool>>
threadVars == <<object, m_thread, m_id, m_semaphore, life, joining>>
vars == <<poolVars, threadVars, pc, i, fault>>

Init ==
  /\ m_mutex = Null /\ m_threads = <<>> /\ making = Null
  /\ m_stopping = FALSE /\ m_stopped = TRUE /\ pool = "alive"
  /\ object = [w \in Worker |-> "none"] /\ m_thread = {} /\ m_id = {}
  /\ m_semaphore = [w \in Worker |-> 0]
  /\ life = [w \in Worker |-> "none"] /\ joining = [w \in Worker |-> Null]
  /\ pc = [p \in Caller |-> "ready"] /\ i = [p \in Caller |-> 0]
  /\ fault = "none"

Goto(p, label, index) ==
  pc' = [pc EXCEPT ![p] = label] /\ i' = [i EXCEPT ![p] = index]
return(p) == Goto(p, "ready", 0)

abort(why) == fault' = why /\ UNCHANGED <<poolVars, threadVars, pc, i>>

\* A user calls at any time, a worker from a task.
calls(p) ==
  pc[p] = "ready" /\ pool = "alive" /\ m_mutex = Null /\ (p \in Worker => life[p] = "running")

-----------------------------------------------------------------------------
(* start() and the constructor of Thread *)

\* While the pool is stopping start() returns without a word: no step.
Start(p) ==
  /\ calls(p) /\ p \in User /\ ~m_stopping
  /\ IF m_threads # <<>> THEN abort("start")
     ELSE /\ m_mutex' = p /\ m_stopped' = FALSE
          /\ m_threads' = [k \in 1..ThreadCount |-> Null]
          /\ Goto(p, "create", 1)
          /\ UNCHANGED <<making, m_stopping, pool, threadVars, fault>>

\* pthread_create(): Thread objects are numbered as they are made.
Create(p) ==
  /\ pc[p] = "create"
  /\ \E w \in Worker :
       /\ object[w] = "none" /\ \A v \in Worker : v < w => object[v] # "none"
       /\ making' = w /\ object' = [object EXCEPT ![w] = "alive"]
       /\ m_thread' = m_thread \cup {w} /\ life' = [life EXCEPT ![w] = "created"]
  /\ Goto(p, "wait", i[p])
  /\ UNCHANGED <<m_mutex, m_threads, m_stopping, m_stopped, pool, m_id, m_semaphore,
                 joining, fault>>

\* It fails: the exception leaves start(), and the Threads not made stay Null.
CreateFails(p) ==
  /\ pc[p] = "create" /\ return(p)
  /\ m_mutex' = Null
  /\ UNCHANGED <<m_threads, making, m_stopping, m_stopped, pool, threadVars, fault>>

\* m_semaphore.wait() ends the constructor; start() then stores the Thread.
Wait(p) ==
  /\ pc[p] = "wait" /\ m_semaphore[making] > 0
  /\ m_semaphore' = [m_semaphore EXCEPT ![making] = @ - 1]
  /\ m_threads' = [m_threads EXCEPT ![i[p]] = making] /\ making' = Null
  /\ IF i[p] < ThreadCount THEN Goto(p, "create", i[p] + 1) /\ UNCHANGED m_mutex
     ELSE return(p) /\ m_mutex' = Null
  /\ UNCHANGED <<m_stopping, m_stopped, pool, object, m_thread, m_id, life, joining, fault>>

-----------------------------------------------------------------------------
(* Thread::run(), in the new thread *)

\* Mutant of Begin: m_id is not set.
BeginUnnamed(w) ==
  /\ life[w] = "created" /\ life' = [life EXCEPT ![w] = "named"]
  /\ UNCHANGED <<poolVars, object, m_thread, m_id, m_semaphore, joining, pc, i, fault>>

\* t_thread, the name and m_id.
Begin(w) ==
  /\ life[w] = "created" /\ life' = [life EXCEPT ![w] = "named"]
  /\ m_id' = m_id \cup {w}
  /\ UNCHANGED <<poolVars, object, m_thread, m_semaphore, joining, pc, i, fault>>

\* Mutant of Notify: the notification comes after m_cb(), which runs meanwhile.
NotifyLate(w) ==
  /\ life[w] = "named" /\ life' = [life EXCEPT ![w] = "notified"]
  /\ UNCHANGED <<poolVars, object, m_thread, m_id, m_semaphore, joining, pc, i, fault>>

Notify(w) ==
  /\ life[w] = "named" /\ life' = [life EXCEPT ![w] = "notified"]
  /\ m_semaphore' = [m_semaphore EXCEPT ![w] = @ + 1]
  /\ UNCHANGED <<poolVars, object, m_thread, m_id, joining, pc, i, fault>>

\* m_cb() is Scheduler::run(), which begins with m_mutex.
Run(w) ==
  /\ life[w] = "notified" /\ m_mutex = Null
  /\ IF object[w] # "alive" \/ pool # "alive" THEN abort("freed")
     ELSE /\ life' = [life EXCEPT ![w] = "running"]
          /\ UNCHANGED <<poolVars, object, m_thread, m_id, m_semaphore, joining, pc, i, fault>>

\* shouldStop() holds, so m_active_threads is 0: no task is in a call.
End(w) ==
  /\ life[w] = "running" /\ m_mutex = Null
  /\ IF object[w] # "alive" \/ pool # "alive" THEN abort("freed")
     ELSE /\ m_stopping /\ \A v \in Worker : pc[v] = "ready"
          /\ life' = [life EXCEPT ![w] = "ended"]
          /\ UNCHANGED <<poolVars, object, m_thread, m_id, m_semaphore, joining, pc, i, fault>>

-----------------------------------------------------------------------------
(* stop(), Thread::join() and ~Thread() *)

Stop(p) ==
  /\ calls(p) /\ p \in Stopper
  /\ m_stopping' = TRUE
  /\ Goto(p, "tickle", 0)
  /\ UNCHANGED <<m_mutex, m_threads, making, m_stopped, pool, threadVars, fault>>

\* Mutant of Tickle: the loop starts at the second thread.
TickleOffByOne(p) ==
  /\ pc[p] = "tickle"
  /\ Goto(p, "join", IF m_threads = <<>> THEN ThreadCount + 1 ELSE 2)
  /\ UNCHANGED <<poolVars, threadVars, fault>>

\* The tickles, then the bounds of the loop over m_threads, without the lock.
Tickle(p) ==
  /\ pc[p] = "tickle"
  /\ Goto(p, "join", IF m_threads = <<>> THEN ThreadCount + 1 ELSE 1)
  /\ UNCHANGED <<poolVars, threadVars, fault>>

\* The call of pthread_join(): a thread can neither join itself nor be joined
\* twice; the error is thrown out of stop(), m_stopping left set.
Join(p) ==
  /\ pc[p] = "join" /\ i[p] <= ThreadCount
  /\ IF m_threads = <<>> THEN abort("cleared")
     ELSE LET w == m_threads[i[p]] IN
          IF w = Null THEN abort("null_thread")
          ELSE IF w \notin m_thread
          THEN /\ Goto(p, "join", i[p] + 1)
               /\ UNCHANGED <<poolVars, threadVars, fault>>
          ELSE IF life[w] = "joined" THEN abort("joined_twice")
          ELSE IF w = p \/ joining[w] # Null
          THEN return(p) /\ UNCHANGED <<poolVars, threadVars, fault>>
          ELSE /\ joining' = [joining EXCEPT ![w] = p]
               /\ Goto(p, "joining", i[p])
               /\ UNCHANGED <<poolVars, object, m_thread, m_id, m_semaphore, life, fault>>

\* It returns when the thread has ended.
Joined(p) ==
  /\ pc[p] = "joining"
  /\ \E w \in Worker :
       /\ joining[w] = p /\ life[w] = "ended"
       /\ life' = [life EXCEPT ![w] = "joined"]
       /\ joining' = [joining EXCEPT ![w] = Null]
  /\ Goto(p, "zero", i[p])
  /\ UNCHANGED <<poolVars, object, m_thread, m_id, m_semaphore, fault>>

\* m_thread = 0, in the Thread at that place.
Zero(p) ==
  /\ pc[p] = "zero"
  /\ IF m_threads = <<>> THEN abort("cleared")
     ELSE /\ m_thread' = m_thread \ {m_threads[i[p]]}
          /\ Goto(p, "join", i[p] + 1)
          /\ UNCHANGED <<poolVars, object, m_id, m_semaphore, life, joining, fault>>

\* The last section: clear() runs ~Thread(), which detaches what is not joined.
Finish(p) ==
  /\ pc[p] = "join" /\ i[p] > ThreadCount /\ m_mutex = Null
  /\ object' = [w \in Worker |->
                  IF \E k \in DOMAIN m_threads : m_threads[k] = w THEN "freed" ELSE object[w]]
  /\ m_thread' = {w \in m_thread : \A k \in DOMAIN m_threads : m_threads[k] # w}
  /\ m_threads' = <<>> /\ m_stopping' = FALSE /\ m_stopped' = TRUE
  /\ return(p)
  /\ UNCHANGED <<m_mutex, making, pool, m_id, m_semaphore, life, joining, fault>>

-----------------------------------------------------------------------------
(* ~Scheduler().  ~IOManager() calls stop() first.  That no call is under way   *)
(* is the duty of whoever destroys the pool.                                    *)

Destroy(p) ==
  /\ calls(p) /\ p \in User /\ \A q \in Caller : pc[q] = "ready"
  /\ IF m_stopping \/ ~m_stopped THEN abort("~Scheduler")
     ELSE /\ pool' = "destroyed"
          /\ UNCHANGED <<m_mutex, m_threads, making, m_stopping, m_stopped, threadVars,
                         pc, i, fault>>

-----------------------------------------------------------------------------

CallerStep(p) ==
  Create(p) \/ CreateFails(p) \/ Wait(p) \/ Tickle(p) \/ Join(p) \/ Joined(p) \/ Zero(p)
    \/ Finish(p)
WorkerStep(w) == Begin(w) \/ Notify(w) \/ Run(w) \/ End(w)

Next ==
  /\ fault = "none"
  /\ \/ \E p \in Caller : Start(p) \/ Stop(p) \/ Destroy(p) \/ CallerStep(p)
     \/ \E w \in Worker : WorkerStep(w)

Spec == Init /\ [][Next]_vars

\* A call that is under way and a thread that may run go on.  m_mutex is not
\* taken again and again by others, so that weak fairness is enough for a lock.
FairSpec ==
  /\ Spec
  /\ \A p \in Caller : WF_vars(fault = "none" /\ CallerStep(p))
  /\ \A w \in Worker : WF_vars(fault = "none" /\ WorkerStep(w))

-----------------------------------------------------------------------------

Life == {"none", "created", "named", "notified", "running", "ended", "joined"}

TypeOK ==
  /\ m_mutex \in User \cup {Null} /\ making \in Worker \cup {Null}
  /\ m_threads \in {<<>>} \cup [1..ThreadCount -> Worker \cup {Null}]
  /\ m_stopping \in BOOLEAN /\ m_stopped \in BOOLEAN /\ pool \in {"alive", "destroyed"}
  /\ object \in [Worker -> {"none", "alive", "freed"}]
  /\ m_thread \subseteq Worker /\ m_id \subseteq Worker
  /\ m_semaphore \in [Worker -> 0..1] /\ life \in [Worker -> Life]
  /\ joining \in [Worker -> Caller \cup {Null}]
  /\ pc \in [Caller -> {"ready", "create", "wait", "tickle", "join", "joining", "zero"}]
  /\ i \in [Caller -> 0..ThreadCount + 1]

\* What m_stopped says, and ~Scheduler() asserts, is true: from the end of stop()
\* to the next start() no thread of the pool runs, each of them was joined and
\* its Thread is gone (scheduler.cpp:50-51, 86-96).
StoppedIsJoined ==
  m_stopped => \A w \in Worker : \/ object[w] = "none"
                                 \/ object[w] = "freed" /\ life[w] = "joined"

\* A thread uses its Thread and the scheduler until it ends, and both outlive it;
\* stop() touches no Thread that was freed and joins none twice (thread.cpp:41-67).
NothingFreedInUse ==
  /\ fault \notin {"freed", "cleared", "joined_twice"}
  /\ \A w \in Worker : life[w] \in {"created", "named", "notified", "running"} =>
                         object[w] = "alive" /\ pool = "alive"

\* The handshake of the constructor: a Thread that start() has stored has its
\* m_id, and the notification was taken exactly once (thread.cpp:20, 60-64).
BegunWhenStored ==
  \A k \in DOMAIN m_threads :
    LET w == m_threads[k] IN
    w # Null => /\ w \in m_id /\ m_semaphore[w] = 0
                /\ life[w] \notin {"none", "created", "named"}

\* start() and stop() return, or the process has died of an ASSERT: start() does
\* not wait for a thread that waits for the m_mutex it holds, and stop() does not
\* wait for a thread that missed m_stopping (scheduler.cpp:57-97).
CallsReturn ==
  \A p \in Caller : pc[p] # "ready" ~> pc[p] = "ready" \/ fault # "none"
=============================================================================
