--------------------------- MODULE PoolLifeProofs ---------------------------
(***************************************************************************)
(* Proofs about PoolLife, for any number of threads, users and starts, if  *)
(* one user only calls stop().  The invariant says where a Thread can be:  *)
(* in its constructor, under m_mutex; in m_threads; or freed, and then it  *)
(* was joined.                                                             *)
(***************************************************************************)
EXTENDS PoolLife, TLAPS

\* Steps are for Zenon; those about numbers, records or sequences name SMT.
USE ZenonT(40)

OneStopper == Stopper \subseteq User /\ \A p, q \in Stopper : p = q

Stored(w) == \E k \in DOMAIN m_threads : m_threads[k] = w

\* start() holds m_mutex, stop() has m_stopping set, and the two exclude each other.
Control ==
  /\ \A p \in Caller : pc[p] \in {"create", "wait"} <=> m_mutex = p
  /\ \A p \in Caller : pc[p] \in {"tickle", "join", "joining", "zero"} =>
                         p \in Stopper /\ m_stopping
  /\ m_mutex # Null => ~m_stopping /\ ~m_stopped
  /\ \A p \in Caller : pc[p] = "wait" => making \in Worker
  /\ making # Null => m_mutex # Null /\ pc[m_mutex] = "wait"
  /\ m_threads # <<>> => ~m_stopped
  /\ ~m_stopped => pool = "alive"
  /\ fault \notin {"freed", "cleared", "joined_twice"}

\* What start() has yet to make is Null.
Starting ==
  \A p \in Caller : m_mutex = p =>
    /\ i[p] \in 1..ThreadCount /\ m_threads # <<>>
    /\ \A k \in i[p]..ThreadCount : m_threads[k] = Null

\* Where a Thread is, and how far its thread can be.
Places ==
  \A w \in Worker :
    /\ object[w] = "none" => life[w] = "none" /\ w \notin m_thread /\ m_semaphore[w] = 0
    /\ object[w] = "freed" => life[w] = "joined"
    /\ object[w] = "alive" <=> w = making \/ Stored(w)
    /\ w = making => /\ ~Stored(w) /\ w \in m_thread
                     /\ \/ life[w] \in {"created", "named"} /\ m_semaphore[w] = 0
                        \/ life[w] = "notified" /\ m_semaphore[w] = 1
    /\ life[w] \in {"named", "notified"} => w \in m_id
    /\ Stored(w) => /\ w \in m_id /\ m_semaphore[w] = 0
                    /\ life[w] \in {"notified", "running", "ended", "joined"}
                    /\ w \in m_thread \/ life[w] = "joined"

Distinct ==
  \A k, l \in DOMAIN m_threads : m_threads[k] = m_threads[l] /\ m_threads[k] # Null => k = l

\* stop() has joined the Threads before the one it is at.
StopAt(p) ==
  /\ i[p] \in 1..ThreadCount + 1
  /\ i[p] <= ThreadCount => m_threads # <<>>
  /\ \A k \in DOMAIN m_threads : k < i[p] =>
       m_threads[k] \in Worker \ m_thread /\ life[m_threads[k]] = "joined"
  /\ pc[p] # "join" => i[p] <= ThreadCount /\ m_threads[i[p]] \in Worker
  /\ pc[p] = "zero" => life[m_threads[i[p]]] = "joined"
Stopping == \A p \in Caller : pc[p] \in {"join", "joining", "zero"} => StopAt(p)

\* A handle of a joined thread is about to be zeroed, and whom pthread_join()
\* waits for is the one that stop() is at.
Joining ==
  /\ \A w \in m_thread : life[w] = "joined" =>
       \E p \in Caller : pc[p] = "zero" /\ m_threads[i[p]] = w
  /\ \A w \in Worker : joining[w] # Null =>
       pc[joining[w]] = "joining" /\ m_threads[i[joining[w]]] = w

PoolInv == TypeOK /\ Control /\ Starting /\ Places /\ Distinct /\ Stopping /\ Joining

LEMMA PoolInit == Init => PoolInv
<1> SUFFICES ASSUME Init PROVE PoolInv
  OBVIOUS
<1> USE PoolAssumption DEF Init, Caller
<1>1. TypeOK
  <2>1. i \in [Caller -> 0..ThreadCount + 1]
    BY SMTT(60)
  <2>2. m_semaphore \in [Worker -> 0..1]
    BY SMTT(60)
  <2>3. m_threads \in {<<>>} \cup [1..ThreadCount -> Worker \cup {Null}]
    OBVIOUS
  <2> QED BY <2>1, <2>2, <2>3 DEF TypeOK, Life
<1>2. Control /\ Starting
  BY DEF Control, Starting
<1>3. Places /\ Distinct /\ Stopping /\ Joining
  BY SMTT(60) DEF Places, Distinct, Stopping, Joining, Stored
<1> QED BY <1>1, <1>2, <1>3 DEF PoolInv

\* Where a caller goes next.
LEMMA GotoType ==
  ASSUME TypeOK, NEW p \in Caller, NEW n \in 0..ThreadCount + 1,
         NEW label \in {"ready", "create", "wait", "tickle", "join", "joining", "zero"},
         Goto(p, label, n)
  PROVE  /\ pc' \in [Caller -> {"ready", "create", "wait", "tickle", "join", "joining", "zero"}]
         /\ i' \in [Caller -> 0..ThreadCount + 1]
         /\ pc'[p] = label /\ i'[p] = n
         /\ \A q \in Caller : q # p => pc'[q] = pc[q] /\ i'[q] = i[q]
BY DEF TypeOK, Goto

\* An ASSERT that fails, or a null Thread, leaves all else as it is.
LEMMA AbortKeeps ==
  ASSUME PoolInv, NEW why \in {"start", "null_thread", "~Scheduler"}, abort(why)
  PROVE  PoolInv'
BY SMTT(60) DEF abort, poolVars, threadVars, PoolInv, TypeOK, Control, Starting, Places, Distinct,
       Stopping, StopAt, Joining, Stored

\* Only stop() joins.
LEMMA NoneJoined ==
  ASSUME TypeOK, Joining, \A q \in Caller : pc[q] \notin {"joining", "zero"}
  PROVE  (\A w \in Worker : joining[w] = Null) /\ (\A w \in m_thread : life[w] # "joined")
<1>1. ASSUME NEW w \in Worker PROVE joining[w] = Null
  <2>1. joining[w] \in Caller \cup {Null}
    BY DEF TypeOK
  <2> QED BY <2>1 DEF Joining
<1>2. \A w \in m_thread : life[w] # "joined"
  BY DEF Joining
<1> QED BY <1>1, <1>2

\* start()
LEMMA StartKeeps ==
  ASSUME OneStopper, PoolInv, NEW p \in Caller, Start(p)
  PROVE  PoolInv'
<1> USE PoolAssumption DEF Caller
<1>0. TypeOK /\ Control /\ Starting /\ Places /\ Distinct /\ Stopping /\ Joining
  BY DEF PoolInv
<1>1. CASE m_threads # <<>>
  BY <1>1, AbortKeeps DEF Start
<1>2. CASE m_threads = <<>>
  <2>0. /\ m_mutex = Null /\ ~m_stopping /\ pool = "alive" /\ p \in User
        /\ m_mutex' = p /\ m_stopped' = FALSE
        /\ m_threads' = [k \in 1..ThreadCount |-> Null]
        /\ Goto(p, "create", 1)
        /\ UNCHANGED <<making, m_stopping, pool, threadVars, fault>>
    BY <1>2 DEF Start, calls
  <2>a. /\ \A w \in Worker : ~Stored(w) /\ ~Stored(w)'
        /\ making = Null
        /\ \A q \in Caller : pc[q] \notin {"tickle", "join", "joining", "zero"}
    BY <1>0, <1>2, <2>0, SMTT(60) DEF Control, Stored
  <2>b. 1 \in 1..ThreadCount /\ 1 \in 0..ThreadCount + 1
    BY SMTT(60)
  <2> USE <2>0, <2>b DEF threadVars
  <2>1. TypeOK'
    <3>1. /\ pc' \in [Caller -> {"ready", "create", "wait", "tickle", "join", "joining", "zero"}]
          /\ i' \in [Caller -> 0..ThreadCount + 1]
      BY <1>0, GotoType
    <3>2. m_threads' \in [1..ThreadCount -> Worker \cup {Null}]
      OBVIOUS
    <3> QED BY <1>0, <3>1, <3>2 DEF TypeOK
  <2>2. Control'
    BY <1>0, <2>a DEF Control, Goto, TypeOK
  <2>3. Starting'
    BY <1>0, <2>a, SMTT(60) DEF Starting, Goto, TypeOK
  <2>4. Places'
    BY <1>0, <2>a DEF Places
  <2>5. Distinct'
    BY DEF Distinct
  <2>6. Stopping'
    BY <1>0, <2>a DEF Stopping, Goto, TypeOK
  <2>7. Joining'
    <3>1. (\A w \in Worker : joining[w] = Null) /\ (\A w \in m_thread : life[w] # "joined")
      BY <1>0, <2>a, NoneJoined
    <3> QED BY <1>0, <3>1 DEF Joining, TypeOK
  <2> QED BY <2>1, <2>2, <2>3, <2>4, <2>5, <2>6, <2>7 DEF PoolInv
<1> QED BY <1>1, <1>2

\* The constructor of Thread up to its wait.
LEMMA CreateKeeps ==
  ASSUME OneStopper, PoolInv, NEW p \in Caller, Create(p)
  PROVE  PoolInv'
<1> USE PoolAssumption DEF Caller
<1>0. TypeOK /\ Control /\ Starting /\ Places /\ Distinct /\ Stopping /\ Joining
  BY DEF PoolInv
<1>1. PICK w \in Worker :
        /\ pc[p] = "create" /\ object[w] = "none"
        /\ making' = w /\ object' = [object EXCEPT ![w] = "alive"]
        /\ m_thread' = m_thread \cup {w} /\ life' = [life EXCEPT ![w] = "created"]
        /\ Goto(p, "wait", i[p])
        /\ UNCHANGED <<m_mutex, m_threads, m_stopping, m_stopped, pool, m_id, m_semaphore,
                       joining, fault>>
  BY DEF Create
<1>2. /\ m_mutex = p /\ making = Null /\ ~Stored(w)
      /\ \A q \in Caller : pc[q] \notin {"tickle", "join", "joining", "zero"}
      /\ \A v \in Worker : Stored(v)' <=> Stored(v)
  BY <1>0, <1>1, SMTT(60) DEF Control, Places, Stored
<1> USE <1>1, <1>2
<1>3. TypeOK'
  BY <1>0 DEF TypeOK, Life, Goto
<1>4. Control' /\ Starting'
  BY <1>0 DEF Control, Starting, Goto, TypeOK
<1>5. Places'
  BY <1>0, SMTT(60) DEF Places, TypeOK
<1>6. Distinct' /\ Stopping'
  BY <1>0 DEF Distinct, Stopping, Goto, TypeOK
<1>7. Joining'
  BY <1>0, SMTT(60) DEF Joining, Goto, TypeOK
<1> QED BY <1>3, <1>4, <1>5, <1>6, <1>7 DEF PoolInv

LEMMA OnlyStopper ==
  ASSUME OneStopper, Control, NEW p \in Caller, NEW q \in Caller,
         pc[p] \in {"tickle", "join", "joining", "zero"},
         pc[q] \in {"tickle", "join", "joining", "zero"}
  PROVE  q = p
BY DEF OneStopper, Control

\* A thread that has not ended has its Thread and its pool.
LEMMA BothAlive ==
  ASSUME PoolInv, NEW w \in Worker, life[w] \in {"created", "named", "notified", "running"}
  PROVE  object[w] = "alive" /\ pool = "alive" /\ (w = making \/ Stored(w))
<1>1. object[w] = "alive" /\ (w = making \/ Stored(w))
  BY SMTT(60) DEF PoolInv, TypeOK, Places
<1>2. CASE w = making
  BY <1>1, <1>2, PoolAssumption DEF PoolInv, TypeOK, Control
<1>3. CASE Stored(w)
  <2>1. m_threads # <<>>
    BY <1>3, SMTT(60) DEF Stored
  <2> QED BY <1>1, <2>1 DEF PoolInv, Control
<1> QED BY <1>1, <1>2, <1>3

\* pthread_create() fails.
LEMMA CreateFailsKeeps ==
  ASSUME OneStopper, PoolInv, NEW p \in Caller, CreateFails(p)
  PROVE  PoolInv'
<1> USE PoolAssumption DEF Caller
<1>0. TypeOK /\ Control /\ Starting /\ Places /\ Distinct /\ Stopping /\ Joining
  BY DEF PoolInv
<1>1. /\ pc[p] = "create" /\ return(p) /\ m_mutex' = Null
      /\ UNCHANGED <<m_threads, making, m_stopping, m_stopped, pool, threadVars, fault>>
  BY DEF CreateFails
<1>2. /\ m_mutex = p /\ making = Null /\ \A w \in Worker : Stored(w)' <=> Stored(w)
      /\ \A q \in Caller : pc[q] \notin {"tickle", "join", "joining", "zero"}
  BY <1>0, <1>1 DEF Control, Stored, TypeOK
<1> USE <1>1, <1>2 DEF threadVars, return
<1>3. TypeOK'
  BY <1>0, SMTT(60) DEF TypeOK, Goto
<1>4. Control' /\ Starting'
  BY <1>0, SMTT(60) DEF Control, Starting, Goto, TypeOK
<1>5. Places' /\ Distinct'
  BY <1>0 DEF Places, Distinct
<1>6. Stopping'
  BY <1>0 DEF Stopping, StopAt, Goto, TypeOK
<1>7. Joining'
  BY <1>0, NoneJoined DEF Joining, Goto, TypeOK
<1> QED BY <1>3, <1>4, <1>5, <1>6, <1>7 DEF PoolInv

\* The constructor returns and start() stores the Thread.
LEMMA WaitKeeps ==
  ASSUME OneStopper, PoolInv, NEW p \in Caller, Wait(p)
  PROVE  PoolInv'
<1> USE PoolAssumption DEF Caller
<1>0. TypeOK /\ Control /\ Starting /\ Places /\ Distinct /\ Stopping /\ Joining
  BY DEF PoolInv
<1> DEFINE n == i[p]
<1>1. /\ pc[p] = "wait" /\ m_semaphore[making] > 0
      /\ m_semaphore' = [m_semaphore EXCEPT ![making] = @ - 1]
      /\ m_threads' = [m_threads EXCEPT ![n] = making] /\ making' = Null
      /\ \/ n < ThreadCount /\ Goto(p, "create", n + 1) /\ m_mutex' = m_mutex
         \/ n >= ThreadCount /\ Goto(p, "ready", 0) /\ m_mutex' = Null
      /\ UNCHANGED <<m_stopping, m_stopped, pool, object, m_thread, m_id, life, joining, fault>>
  BY <1>0, SMTT(60) DEF Wait, return, TypeOK
<1>2. /\ m_mutex = p /\ making \in Worker /\ n \in 1..ThreadCount
      /\ m_threads \in [1..ThreadCount -> Worker \cup {Null}]
      /\ \A k \in n..ThreadCount : m_threads[k] = Null
      /\ ~m_stopping /\ ~m_stopped /\ pool = "alive" /\ ~Stored(making)
      /\ life[making] = "notified" /\ m_semaphore[making] = 1
      /\ making \in m_id /\ making \in m_thread
  BY <1>0, <1>1, SMTT(60) DEF Control, Starting, Places, TypeOK
<1>a. /\ m_threads' \in [1..ThreadCount -> Worker \cup {Null}]
      /\ m_threads'[n] = making
      /\ \A k \in 1..ThreadCount : k # n => m_threads'[k] = m_threads[k]
  BY <1>1, <1>2
<1>b. \A w \in Worker : Stored(w)' <=> Stored(w) \/ w = making
  BY <1>2, <1>a, SMTT(60) DEF Stored
<1>c. m_semaphore' \in [Worker -> 0..1] /\ m_semaphore'[making] = 0
      /\ \A w \in Worker : w # making => m_semaphore'[w] = m_semaphore[w]
  BY <1>0, <1>1, <1>2, SMTT(60) DEF TypeOK
<1>d. \A q \in Caller : pc[q] \notin {"tickle", "join", "joining", "zero"}
  BY <1>0, <1>2 DEF Control
<1>e. /\ pc' \in [Caller -> {"ready", "create", "wait", "tickle", "join", "joining", "zero"}]
      /\ i' \in [Caller -> 0..ThreadCount + 1]
      /\ \/ pc'[p] = "create" /\ i'[p] = n + 1 /\ n < ThreadCount /\ m_mutex' = p
         \/ pc'[p] = "ready" /\ m_mutex' = Null
      /\ \A q \in Caller : q # p => pc'[q] = pc[q] /\ i'[q] = i[q]
  <2>1. n \in Nat /\ 0 \in 0..ThreadCount + 1 /\ n + 1 \in 0..ThreadCount + 1
    BY <1>2, SMTT(60)
  <2>2. CASE n < ThreadCount /\ Goto(p, "create", n + 1) /\ m_mutex' = m_mutex
    BY <1>0, <1>2, <2>1, <2>2, GotoType
  <2>3. CASE n >= ThreadCount /\ Goto(p, "ready", 0) /\ m_mutex' = Null
    BY <1>0, <1>2, <2>1, <2>3, GotoType
  <2> QED BY <1>1, <2>2, <2>3
<1> HIDE DEF n
<1>3. TypeOK'
  BY <1>0, <1>1, <1>2, <1>a, <1>c, <1>e DEF TypeOK
<1>4. Control' /\ Starting'
  <2>1. Control'
    <3>1. m_threads' # <<>>
      BY <1>a, <1>2, SMTT(60)
    <3> QED BY <1>0, <1>1, <1>2, <1>d, <1>e, <3>1, SMTT(60) DEF Control
  <2>2. Starting'
    <3>1. m_threads' # <<>>
      BY <1>a, <1>2, SMTT(60)
    <3>2. \A k \in n + 1..ThreadCount : m_threads'[k] = Null
      BY <1>2, <1>a, SMTT(60)
    <3>3. ASSUME NEW q \in Caller, m_mutex' = q
          PROVE  i'[q] \in 1..ThreadCount /\ \A k \in i'[q]..ThreadCount : m_threads'[k] = Null
      <4>1. q = p /\ i'[p] = n + 1 /\ n < ThreadCount
        BY <1>e, <3>3
      <4> QED BY <4>1, <3>2, <1>2, SMTT(60)
    <3> QED BY <3>1, <3>3 DEF Starting
  <2> QED BY <2>1, <2>2
<1>5. Places'
  BY <1>0, <1>1, <1>2, <1>b, <1>c, SMTT(60) DEF Places
<1>6. Distinct' /\ Stopping'
  <2>1. Stopping'
    BY <1>d, <1>e DEF Stopping
  <2>2. \A k \in 1..ThreadCount : m_threads[k] # making
    BY <1>2 DEF Stored
  <2> QED BY <1>0, <1>2, <1>a, <2>1, <2>2 DEF Distinct
<1>7. Joining'
  <2>1. (\A w \in Worker : joining[w] = Null) /\ (\A w \in m_thread : life[w] # "joined")
    BY <1>0, <1>d, NoneJoined
  <2> QED BY <1>0, <1>1, <2>1 DEF Joining, TypeOK
<1> QED BY <1>3, <1>4, <1>5, <1>6, <1>7 DEF PoolInv

\* stop()
LEMMA StopKeeps ==
  ASSUME OneStopper, PoolInv, NEW p \in Caller, Stop(p)
  PROVE  PoolInv'
<1> USE PoolAssumption DEF Caller
<1>0. TypeOK /\ Control /\ Starting /\ Places /\ Distinct /\ Stopping /\ Joining
  BY DEF PoolInv
<1>1. /\ calls(p) /\ p \in Stopper /\ m_stopping' = TRUE /\ Goto(p, "tickle", 0)
      /\ UNCHANGED <<m_mutex, m_threads, making, m_stopped, pool, threadVars, fault>>
  BY DEF Stop
<1>2. /\ pc[p] = "ready" /\ m_mutex = Null /\ 0 \in 0..ThreadCount + 1
      /\ \A w \in Worker : Stored(w)' <=> Stored(w)
  BY <1>1, SMTT(60) DEF calls, Stored
<1>a. /\ pc' \in [Caller -> {"ready", "create", "wait", "tickle", "join", "joining", "zero"}]
      /\ i' \in [Caller -> 0..ThreadCount + 1]
      /\ pc'[p] = "tickle"
      /\ \A q \in Caller : q # p => pc'[q] = pc[q] /\ i'[q] = i[q]
  BY <1>0, <1>1, <1>2, GotoType
<1>b. /\ \A q \in Caller : pc[q] \notin {"tickle", "join", "joining", "zero"}
      /\ (\A w \in Worker : joining[w] = Null) /\ (\A w \in m_thread : life[w] # "joined")
  BY <1>0, <1>1, <1>2, NoneJoined, ZenonT(60) DEF Control, OneStopper
<1> USE <1>1, <1>2, <1>a DEF threadVars
<1>3. TypeOK'
  BY <1>0 DEF TypeOK
<1>4. Control' /\ Starting'
  BY <1>0, SMTT(60) DEF Control, Starting
<1>5. Places' /\ Distinct'
  BY <1>0, SMTT(60) DEF Places, Distinct
<1>6. Stopping'
  BY <1>b DEF Stopping
<1>7. Joining'
  BY <1>0, <1>b DEF Joining, TypeOK
<1> QED BY <1>3, <1>4, <1>5, <1>6, <1>7 DEF PoolInv

LEMMA TickleKeeps ==
  ASSUME OneStopper, PoolInv, NEW p \in Caller, Tickle(p)
  PROVE  PoolInv'
<1> USE PoolAssumption DEF Caller
<1>0. TypeOK /\ Control /\ Starting /\ Places /\ Distinct /\ Stopping /\ Joining
  BY DEF PoolInv
<1> DEFINE n == IF m_threads = <<>> THEN ThreadCount + 1 ELSE 1
<1>1. /\ pc[p] = "tickle" /\ Goto(p, "join", n) /\ UNCHANGED <<poolVars, threadVars, fault>>
  BY DEF Tickle
<1>2. /\ n \in 0..ThreadCount + 1 /\ \A w \in Worker : Stored(w)' <=> Stored(w)
  BY <1>1, SMTT(60) DEF Stored, poolVars
<1>a. /\ pc' \in [Caller -> {"ready", "create", "wait", "tickle", "join", "joining", "zero"}]
      /\ i' \in [Caller -> 0..ThreadCount + 1]
      /\ pc'[p] = "join" /\ i'[p] = n
      /\ \A q \in Caller : q # p => pc'[q] = pc[q] /\ i'[q] = i[q]
  BY <1>0, <1>1, <1>2, GotoType
<1>b. \A q \in Caller : pc[q] \in {"tickle", "join", "joining", "zero"} => q = p
  BY <1>0, <1>1, OnlyStopper
<1>c. (\A w \in Worker : joining[w] = Null) /\ (\A w \in m_thread : life[w] # "joined")
  BY <1>0, <1>1, <1>b, NoneJoined
<1> USE <1>1, <1>2, <1>a DEF poolVars, threadVars
<1>3. TypeOK'
  BY <1>0 DEF TypeOK
<1>4. Control' /\ Starting'
  BY <1>0 DEF Control, Starting, TypeOK
<1>5. Places' /\ Distinct'
  BY <1>0, SMTT(60) DEF Places, Distinct
<1>6. Stopping'
  <2>1. StopAt(p)'
    BY <1>0, SMTT(60) DEF StopAt, TypeOK
  <2> QED BY <1>b, <2>1 DEF Stopping
<1>7. Joining'
  BY <1>0, <1>c DEF Joining, TypeOK
<1> QED BY <1>3, <1>4, <1>5, <1>6, <1>7 DEF PoolInv

\* The call of pthread_join(): only a Null Thread is a fault.
LEMMA JoinKeeps ==
  ASSUME OneStopper, PoolInv, NEW p \in Caller, Join(p)
  PROVE  PoolInv'
<1> USE PoolAssumption DEF Caller
<1>0. TypeOK /\ Control /\ Starting /\ Places /\ Distinct /\ Stopping /\ Joining
  BY DEF PoolInv
<1> DEFINE w == m_threads[i[p]]
<1>1. pc[p] = "join" /\ i[p] \in 1..ThreadCount /\ StopAt(p) /\ m_threads # <<>>
  BY <1>0, SMTT(60) DEF Join, Stopping, StopAt, TypeOK
<1>2. m_threads \in [1..ThreadCount -> Worker \cup {Null}] /\ w \in Worker \cup {Null}
  BY <1>0, <1>1 DEF TypeOK
<1>a. \A q \in Caller : pc[q] \in {"tickle", "join", "joining", "zero"} => q = p
  BY <1>0, <1>1, OnlyStopper
<1>b. (\A v \in Worker : joining[v] = Null) /\ (\A v \in m_thread : life[v] # "joined")
  BY <1>0, <1>1, <1>a, NoneJoined
<1>c. i[p] \in 0..ThreadCount + 1 /\ i[p] + 1 \in 0..ThreadCount + 1 /\ p \notin Worker
  BY <1>0, <1>1, SMTT(60) DEF Control, OneStopper
<1>3. CASE w = Null
  BY <1>1, <1>3, AbortKeeps DEF Join
<1>4. CASE w \in Worker \ m_thread
  <2>1. Goto(p, "join", i[p] + 1) /\ UNCHANGED <<poolVars, threadVars, fault>>
    BY <1>1, <1>4 DEF Join
  <2>2. life[w] = "joined"
    BY <1>0, <1>1, <1>2, <1>4 DEF Places, Stored
  <2>3. \A v \in Worker : Stored(v)' <=> Stored(v)
    BY <2>1 DEF Stored, poolVars
  <2>a. /\ pc' \in [Caller -> {"ready", "create", "wait", "tickle", "join", "joining", "zero"}]
        /\ i' \in [Caller -> 0..ThreadCount + 1]
        /\ pc'[p] = "join" /\ i'[p] = i[p] + 1
        /\ \A q \in Caller : q # p => pc'[q] = pc[q] /\ i'[q] = i[q]
    BY <1>0, <1>c, <2>1, GotoType
  <2> USE <2>1, <2>3, <2>a DEF poolVars, threadVars
  <2>4. TypeOK'
    BY <1>0 DEF TypeOK
  <2>5. Control' /\ Starting'
    BY <1>0, <1>1 DEF Control, Starting
  <2>6. Places' /\ Distinct'
    BY <1>0, SMTT(60) DEF Places, Distinct
  <2>7. Stopping'
    <3>1. \A k \in DOMAIN m_threads : k < i[p] + 1 =>
            m_threads[k] \in Worker \ m_thread /\ life[m_threads[k]] = "joined"
      BY <1>1, <1>2, <1>4, <2>2, SMTT(60) DEF StopAt
    <3>2. StopAt(p)'
      BY <1>1, <3>1, SMTT(60) DEF StopAt
    <3> QED BY <1>a, <3>2 DEF Stopping
  <2>8. Joining'
    BY <1>b DEF Joining
  <2> QED BY <2>4, <2>5, <2>6, <2>7, <2>8 DEF PoolInv
<1>5. CASE w \in m_thread
  <2>0. w \in Worker /\ w # Null
    BY <1>0, <1>5, ZenonT(60) DEF TypeOK
  <2>1. /\ joining' = [joining EXCEPT ![w] = p] /\ Goto(p, "joining", i[p])
        /\ UNCHANGED <<poolVars, object, m_thread, m_id, m_semaphore, life, fault>>
    BY <1>1, <1>5, <1>b, <1>c, <2>0 DEF Join
  <2>3. \A v \in Worker : Stored(v)' <=> Stored(v)
    BY <2>1 DEF Stored, poolVars
  <2>a. /\ pc' \in [Caller -> {"ready", "create", "wait", "tickle", "join", "joining", "zero"}]
        /\ i' \in [Caller -> 0..ThreadCount + 1]
        /\ pc'[p] = "joining" /\ i'[p] = i[p]
        /\ \A q \in Caller : q # p => pc'[q] = pc[q] /\ i'[q] = i[q]
    BY <1>0, <1>c, <2>1, GotoType
  <2>b. /\ joining' \in [Worker -> Caller \cup {Null}] /\ joining'[w] = p
        /\ \A v \in Worker : v # w => joining'[v] = Null
    BY <1>0, <1>b, <2>0, <2>1 DEF TypeOK
  <2> USE <2>1, <2>3, <2>a, <2>b DEF poolVars
  <2>4. TypeOK'
    BY <1>0 DEF TypeOK
  <2>5. Control' /\ Starting'
    BY <1>0, <1>1, SMTT(60) DEF Control, Starting
  <2>6. Places' /\ Distinct'
    BY <1>0, SMTT(60) DEF Places, Distinct
  <2>7. Stopping'
    <3>2. StopAt(p)'
      BY <1>1, <2>0, SMTT(60) DEF StopAt
    <3> QED BY <1>a, <3>2 DEF Stopping
  <2>8. Joining'
    BY <1>b, SMTT(60) DEF Joining
  <2> QED BY <2>4, <2>5, <2>6, <2>7, <2>8 DEF PoolInv
<1> QED BY <1>2, <1>3, <1>4, <1>5

\* pthread_join() returns: the thread is that of the Thread stop() is at.
LEMMA JoinedKeeps ==
  ASSUME OneStopper, PoolInv, NEW p \in Caller, Joined(p)
  PROVE  PoolInv'
<1> USE PoolAssumption DEF Caller
<1>0. TypeOK /\ Control /\ Starting /\ Places /\ Distinct /\ Stopping /\ Joining
  BY DEF PoolInv
<1>1. PICK w \in Worker :
        /\ pc[p] = "joining" /\ joining[w] = p /\ life[w] = "ended"
        /\ life' = [life EXCEPT ![w] = "joined"] /\ joining' = [joining EXCEPT ![w] = Null]
        /\ Goto(p, "zero", i[p]) /\ UNCHANGED <<poolVars, object, m_thread, m_id, m_semaphore, fault>>
  BY DEF Joined
<1>2. /\ StopAt(p) /\ m_threads[i[p]] = w /\ i[p] \in 0..ThreadCount + 1
      /\ \A v \in Worker : Stored(v)' <=> Stored(v)
  BY <1>0, <1>1, SMTT(60) DEF Stopping, Joining, StopAt, Stored, poolVars, TypeOK
<1>a. /\ pc' \in [Caller -> {"ready", "create", "wait", "tickle", "join", "joining", "zero"}]
      /\ i' \in [Caller -> 0..ThreadCount + 1]
      /\ pc'[p] = "zero" /\ i'[p] = i[p]
      /\ \A q \in Caller : q # p => pc'[q] = pc[q] /\ i'[q] = i[q]
  BY <1>0, <1>1, <1>2, GotoType, ZenonT(60)
<1>b. \A q \in Caller : pc[q] \in {"tickle", "join", "joining", "zero"} => q = p
  BY <1>0, <1>1, OnlyStopper
<1>c. /\ life' \in [Worker -> Life] /\ joining' \in [Worker -> Caller \cup {Null}]
      /\ life'[w] = "joined" /\ joining'[w] = Null
      /\ \A v \in Worker : v # w => life'[v] = life[v] /\ joining'[v] = joining[v]
  BY <1>0, <1>1, ZenonT(60) DEF TypeOK, Life
<1> USE <1>1, <1>2, <1>a, <1>c DEF poolVars
<1>3. TypeOK'
  BY <1>0 DEF TypeOK
<1>4. Control' /\ Starting'
  <2>1. m_mutex # p /\ p \in Stopper /\ m_stopping
    BY <1>0 DEF Control
  <2>2. /\ \A q \in Caller : pc'[q] \in {"create", "wait"} <=> m_mutex' = q
        /\ \A q \in Caller : pc'[q] = "wait" => making' \in Worker
        /\ making' # Null => m_mutex' # Null /\ pc'[m_mutex'] = "wait"
    BY <1>0, <2>1, ZenonT(60) DEF Control, TypeOK
  <2>3. \A q \in Caller : pc'[q] \in {"tickle", "join", "joining", "zero"} =>
                          q \in Stopper /\ m_stopping'
    BY <1>0, <2>1 DEF Control
  <2>4. Control'
    BY <1>0, <2>2, <2>3 DEF Control
  <2> QED BY <1>0, <2>1, <2>4, SMTT(60) DEF Starting
<1>5. Places' /\ Distinct'
  <2>1. Places'
    BY <1>0, SMTT(30) DEF Places
  <2> QED BY <1>0, <2>1 DEF Distinct
<1>6. Stopping'
  <2>1. \A k \in DOMAIN m_threads : k < i[p] =>
          m_threads[k] \in Worker \ m_thread /\ life'[m_threads[k]] = "joined"
    BY DEF StopAt
  <2>2. StopAt(p)'
    BY <2>1, SMTT(60) DEF StopAt
  <2> QED BY <1>b, <2>2, SMTT(60) DEF Stopping
<1>7. Joining'
  <2>1. ASSUME NEW v \in m_thread, life'[v] = "joined" PROVE v = w
    <3>1. CASE v # w
      <4>1. v \in Worker /\ life[v] = "joined"
        BY <1>0, <2>1, <3>1 DEF TypeOK
      <4> QED BY <1>0, <1>b, <4>1 DEF Joining
    <3> QED BY <3>1
  <2>2. ASSUME NEW v \in Worker, v # w PROVE joining[v] = Null
    <3>1. joining[v] \in Caller \cup {Null}
      BY <1>0 DEF TypeOK
    <3> QED BY <1>0, <1>b, <2>2, <3>1, SMTT(60) DEF Joining
  <2> QED BY <2>1, <2>2, SMTT(60) DEF Joining
<1> QED BY <1>3, <1>4, <1>5, <1>6, <1>7 DEF PoolInv

\* m_thread = 0
LEMMA ZeroKeeps ==
  ASSUME OneStopper, PoolInv, NEW p \in Caller, Zero(p)
  PROVE  PoolInv'
<1> USE PoolAssumption DEF Caller
<1>0. TypeOK /\ Control /\ Starting /\ Places /\ Distinct /\ Stopping /\ Joining
  BY DEF PoolInv
<1> DEFINE w == m_threads[i[p]]
<1>1. /\ pc[p] = "zero" /\ StopAt(p) /\ i[p] \in 1..ThreadCount
      /\ w \in Worker /\ life[w] = "joined" /\ m_threads # <<>>
  BY <1>0, SMTT(60) DEF Zero, Stopping, StopAt, TypeOK
<1>2. /\ m_thread' = m_thread \ {w} /\ Goto(p, "join", i[p] + 1)
      /\ UNCHANGED <<poolVars, object, m_id, m_semaphore, life, joining, fault>>
  BY <1>1 DEF Zero
<1>a. /\ m_threads \in [1..ThreadCount -> Worker \cup {Null}]
      /\ i[p] + 1 \in 0..ThreadCount + 1
      /\ \A v \in Worker : Stored(v)' <=> Stored(v)
  BY <1>0, <1>1, <1>2, SMTT(60) DEF TypeOK, Stored, poolVars
<1>b. /\ pc' \in [Caller -> {"ready", "create", "wait", "tickle", "join", "joining", "zero"}]
      /\ i' \in [Caller -> 0..ThreadCount + 1]
      /\ pc'[p] = "join" /\ i'[p] = i[p] + 1
      /\ \A q \in Caller : q # p => pc'[q] = pc[q] /\ i'[q] = i[q]
  BY <1>0, <1>2, <1>a, GotoType
<1>c. \A q \in Caller : pc[q] \in {"tickle", "join", "joining", "zero"} => q = p
  BY <1>0, <1>1, OnlyStopper
<1> USE <1>1, <1>2, <1>a, <1>b DEF poolVars
<1>3. TypeOK'
  BY <1>0 DEF TypeOK
<1>4. Control' /\ Starting'
  <2>1. Control'
    BY <1>0 DEF Control
  <2> QED BY <1>0, <2>1, SMTT(60) DEF Control, Starting
<1>5. Places' /\ Distinct'
  <2>1. making # w
    BY <1>0 DEF Places
  <2>2. Places'
    BY <1>0, <2>1, SMTT(60) DEF Places
  <2> QED BY <1>0, <2>2 DEF Distinct
<1>6. Stopping'
  <2>1. \A k \in DOMAIN m_threads : k < i[p] + 1 =>
          m_threads[k] \in Worker \ m_thread' /\ life[m_threads[k]] = "joined"
    BY SMTT(60) DEF StopAt
  <2>2. StopAt(p)'
    BY <2>1, SMTT(60) DEF StopAt
  <2> QED BY <1>c, <2>2 DEF Stopping
<1>7. Joining'
  <2>1. \A v \in m_thread' : life[v] # "joined"
    BY <1>0, <1>c, SMTT(60) DEF Joining
  <2>2. ASSUME NEW v \in Worker PROVE joining[v] = Null
    <3>1. joining[v] \in Caller \cup {Null}
      BY <1>0 DEF TypeOK
    <3> QED BY <1>0, <1>c, <3>1, SMTT(60) DEF Joining
  <2> QED BY <2>1, <2>2 DEF Joining
<1> QED BY <1>3, <1>4, <1>5, <1>6, <1>7 DEF PoolInv

\* The last section of stop(): what clear() frees was joined.
LEMMA FinishKeeps ==
  ASSUME OneStopper, PoolInv, NEW p \in Caller, Finish(p)
  PROVE  PoolInv'
<1> USE PoolAssumption DEF Caller
<1>0. TypeOK /\ Control /\ Starting /\ Places /\ Distinct /\ Stopping /\ Joining
  BY DEF PoolInv
<1>1. /\ pc[p] = "join" /\ i[p] > ThreadCount /\ m_mutex = Null
      /\ object' = [w \in Worker |-> IF Stored(w) THEN "freed" ELSE object[w]]
      /\ m_thread' = {w \in m_thread : \A k \in DOMAIN m_threads : m_threads[k] # w}
      /\ m_threads' = <<>> /\ m_stopping' = FALSE /\ m_stopped' = TRUE /\ Goto(p, "ready", 0)
      /\ UNCHANGED <<m_mutex, making, pool, m_id, m_semaphore, life, joining, fault>>
  BY DEF Finish, return, Stored
<1>2. /\ making = Null /\ 0 \in 0..ThreadCount + 1
      /\ \A w \in Worker : Stored(w) => life[w] = "joined"
  <2>1. StopAt(p) /\ making = Null
    BY <1>0, <1>1 DEF Stopping, Control
  <2>2. \A k \in DOMAIN m_threads : k < i[p]
    <3>1. CASE m_threads = <<>>
      BY <3>1, SMTT(60)
    <3>2. CASE m_threads # <<>>
      BY <1>0, <1>1, <3>2, SMTT(60) DEF TypeOK
    <3> QED BY <3>1, <3>2
  <2> QED BY <2>1, <2>2, SMTT(60) DEF StopAt, Stored
<1>a. /\ pc' \in [Caller -> {"ready", "create", "wait", "tickle", "join", "joining", "zero"}]
      /\ i' \in [Caller -> 0..ThreadCount + 1]
      /\ pc'[p] = "ready" /\ i'[p] = 0
      /\ \A q \in Caller : q # p => pc'[q] = pc[q] /\ i'[q] = i[q]
  BY <1>0, <1>1, <1>2, GotoType
<1>b. \A q \in Caller : pc[q] \in {"tickle", "join", "joining", "zero"} => q = p
  BY <1>0, <1>1, OnlyStopper
<1>c. (\A w \in Worker : joining[w] = Null) /\ (\A w \in m_thread : life[w] # "joined")
  BY <1>0, <1>1, <1>b, NoneJoined
<1>d. \A w \in Worker : ~Stored(w)' /\ (w \in m_thread' <=> w \in m_thread /\ ~Stored(w))
  BY <1>1, SMTT(60) DEF Stored
<1> USE <1>1, <1>2, <1>a, <1>d
<1>3. TypeOK'
  <2>1. object' \in [Worker -> {"none", "alive", "freed"}]
    BY <1>0 DEF TypeOK
  <2> QED BY <1>0, <2>1 DEF TypeOK
<1>4. Control' /\ Starting'
  <2>1. \A q \in Caller : pc'[q] \notin {"tickle", "join", "joining", "zero", "create", "wait"}
    BY <1>0, <1>b, SMTT(60) DEF Control, TypeOK
  <2> QED BY <1>0, <2>1 DEF Control, Starting
<1>5. Places' /\ Distinct'
  BY <1>0, SMTT(60) DEF Places, Distinct, TypeOK
<1>6. Stopping'
  BY <1>b DEF Stopping
<1>7. Joining'
  BY <1>c DEF Joining
<1> QED BY <1>3, <1>4, <1>5, <1>6, <1>7 DEF PoolInv

\* ~Scheduler()
LEMMA DestroyKeeps ==
  ASSUME OneStopper, PoolInv, NEW p \in Caller, Destroy(p)
  PROVE  PoolInv'
<1> USE PoolAssumption DEF Caller
<1>0. TypeOK /\ Control /\ Starting /\ Places /\ Distinct /\ Stopping /\ Joining
  BY DEF PoolInv
<1>1. CASE m_stopping \/ ~m_stopped
  BY <1>1, AbortKeeps DEF Destroy
<1>2. CASE ~m_stopping /\ m_stopped
  <2>1. /\ pool' = "destroyed"
        /\ UNCHANGED <<m_mutex, m_threads, making, m_stopping, m_stopped, threadVars, pc, i, fault>>
    BY <1>2 DEF Destroy
  <2> USE <1>2, <2>1 DEF threadVars
  <2>2. TypeOK' /\ Control' /\ Starting'
    BY <1>0 DEF TypeOK, Control, Starting
  <2>3. Places' /\ Distinct'
    BY <1>0, SMTT(60) DEF Places, Distinct, Stored
  <2>4. Stopping' /\ Joining'
    BY <1>0, SMTT(60) DEF Stopping, StopAt, Joining
  <2> QED BY <2>2, <2>3, <2>4 DEF PoolInv
<1> QED BY <1>0, <1>1, <1>2 DEF TypeOK

\* The steps of Thread::run()
LEMMA BeginKeeps ==
  ASSUME OneStopper, PoolInv, NEW w \in Worker, Begin(w)
  PROVE  PoolInv'
<1> USE PoolAssumption DEF Caller
<1>0. TypeOK /\ Control /\ Starting /\ Places /\ Distinct /\ Stopping /\ Joining
  BY DEF PoolInv
<1>1. /\ life[w] = "created" /\ life' = [life EXCEPT ![w] = "named"] /\ m_id' = m_id \cup {w}
      /\ UNCHANGED <<poolVars, object, m_thread, m_semaphore, joining, pc, i, fault>>
  BY DEF Begin
<1>2. /\ life' \in [Worker -> Life] /\ life'[w] = "named"
      /\ \A v \in Worker : v # w => life'[v] = life[v]
      /\ \A v \in Worker : Stored(v)' <=> Stored(v)
  BY <1>0, <1>1 DEF TypeOK, Life, Stored, poolVars
<1> USE <1>1, <1>2 DEF poolVars
<1>3. TypeOK'
  BY <1>0 DEF TypeOK
<1>4. Control' /\ Starting'
  BY <1>0 DEF Control, Starting
<1>5. Places' /\ Distinct'
  <2>1. Places'
    BY <1>0, SMTT(60) DEF Places
  <2> QED BY <1>0, <2>1 DEF Distinct
<1>6. Stopping'
  BY <1>0, SMTT(60) DEF Stopping, StopAt
<1>7. Joining'
  BY <1>0, SMTT(60) DEF Joining, TypeOK
<1> QED BY <1>3, <1>4, <1>5, <1>6, <1>7 DEF PoolInv

LEMMA NotifyKeeps ==
  ASSUME OneStopper, PoolInv, NEW w \in Worker, Notify(w)
  PROVE  PoolInv'
<1> USE PoolAssumption DEF Caller
<1>0. TypeOK /\ Control /\ Starting /\ Places /\ Distinct /\ Stopping /\ Joining
  BY DEF PoolInv
<1>1. /\ life[w] = "named" /\ life' = [life EXCEPT ![w] = "notified"]
      /\ m_semaphore' = [m_semaphore EXCEPT ![w] = @ + 1]
      /\ UNCHANGED <<poolVars, object, m_thread, m_id, joining, pc, i, fault>>
  BY DEF Notify
<1>2. /\ life' \in [Worker -> Life] /\ life'[w] = "notified"
      /\ \A v \in Worker : v # w => life'[v] = life[v]
      /\ \A v \in Worker : Stored(v)' <=> Stored(v)
  BY <1>0, <1>1 DEF TypeOK, Life, Stored, poolVars
<1>a. w = making /\ m_semaphore[w] = 0
  BY <1>0, <1>1, BothAlive DEF Places
<1>b. /\ m_semaphore' \in [Worker -> 0..1] /\ m_semaphore'[w] = 1
      /\ \A v \in Worker : v # w => m_semaphore'[v] = m_semaphore[v]
  BY <1>0, <1>1, <1>a, SMTT(60) DEF TypeOK
<1> USE <1>1, <1>2, <1>a, <1>b DEF poolVars
<1>3. TypeOK'
  BY <1>0 DEF TypeOK
<1>4. Control' /\ Starting'
  BY <1>0, SMTT(60) DEF Control, Starting
<1>5. Places' /\ Distinct'
  <2>1. Places'
    BY <1>0, SMTT(60) DEF Places
  <2> QED BY <1>0, <2>1 DEF Distinct
<1>6. Stopping'
  BY <1>0, SMTT(60) DEF Stopping, StopAt
<1>7. Joining'
  BY <1>0, SMTT(60) DEF Joining, TypeOK
<1> QED BY <1>3, <1>4, <1>5, <1>6, <1>7 DEF PoolInv

LEMMA RunKeeps ==
  ASSUME OneStopper, PoolInv, NEW w \in Worker, Run(w)
  PROVE  PoolInv'
<1> USE PoolAssumption DEF Caller
<1>0. TypeOK /\ Control /\ Starting /\ Places /\ Distinct /\ Stopping /\ Joining
  BY DEF PoolInv
<1>a. object[w] = "alive" /\ pool = "alive" /\ m_mutex = Null
  BY BothAlive DEF Run
<1>1. /\ life[w] = "notified" /\ life' = [life EXCEPT ![w] = "running"]
      /\ UNCHANGED <<poolVars, object, m_thread, m_id, m_semaphore, joining, pc, i, fault>>
  BY <1>a DEF Run
<1>2. /\ life' \in [Worker -> Life] /\ life'[w] = "running"
      /\ \A v \in Worker : v # w => life'[v] = life[v]
      /\ \A v \in Worker : Stored(v)' <=> Stored(v)
  BY <1>0, <1>1 DEF TypeOK, Life, Stored, poolVars
<1>b. making = Null
  BY <1>0, <1>a DEF Control
<1> USE <1>1, <1>2, <1>b DEF poolVars
<1>3. TypeOK'
  BY <1>0 DEF TypeOK
<1>4. Control' /\ Starting'
  BY <1>0 DEF Control, Starting
<1>5. Places' /\ Distinct'
  <2>1. Places'
    BY <1>0, SMTT(60) DEF Places
  <2> QED BY <1>0, <2>1 DEF Distinct
<1>6. Stopping'
  BY <1>0, SMTT(60) DEF Stopping, StopAt
<1>7. Joining'
  BY <1>0, SMTT(60) DEF Joining, TypeOK
<1> QED BY <1>3, <1>4, <1>5, <1>6, <1>7 DEF PoolInv

LEMMA EndKeeps ==
  ASSUME OneStopper, PoolInv, NEW w \in Worker, End(w)
  PROVE  PoolInv'
<1> USE PoolAssumption DEF Caller
<1>0. TypeOK /\ Control /\ Starting /\ Places /\ Distinct /\ Stopping /\ Joining
  BY DEF PoolInv
<1>a. object[w] = "alive" /\ pool = "alive" /\ m_mutex = Null
  BY BothAlive DEF End
<1>1. /\ life[w] = "running" /\ life' = [life EXCEPT ![w] = "ended"]
      /\ UNCHANGED <<poolVars, object, m_thread, m_id, m_semaphore, joining, pc, i, fault>>
  BY <1>a DEF End
<1>2. /\ life' \in [Worker -> Life] /\ life'[w] = "ended"
      /\ \A v \in Worker : v # w => life'[v] = life[v]
      /\ \A v \in Worker : Stored(v)' <=> Stored(v)
  BY <1>0, <1>1 DEF TypeOK, Life, Stored, poolVars
<1>b. making = Null
  BY <1>0, <1>a DEF Control
<1> USE <1>1, <1>2, <1>b DEF poolVars
<1>3. TypeOK'
  BY <1>0 DEF TypeOK
<1>4. Control' /\ Starting'
  BY <1>0 DEF Control, Starting
<1>5. Places' /\ Distinct'
  <2>1. Places'
    BY <1>0, SMTT(60) DEF Places
  <2> QED BY <1>0, <2>1 DEF Distinct
<1>6. Stopping'
  BY <1>0, SMTT(60) DEF Stopping, StopAt
<1>7. Joining'
  BY <1>0, SMTT(60) DEF Joining, TypeOK
<1> QED BY <1>3, <1>4, <1>5, <1>6, <1>7 DEF PoolInv

LEMMA Inductive == ASSUME OneStopper, PoolInv, [Next]_vars PROVE PoolInv'
<1>1. CASE UNCHANGED vars
  BY <1>1, SMTT(60) DEF vars, poolVars, threadVars, PoolInv, TypeOK, Control, Starting, Places, Distinct,
             Stopping, StopAt, Joining, Stored
<1>2. ASSUME NEW p \in Caller, Start(p) \/ Stop(p) \/ Destroy(p) \/ CallerStep(p)
      PROVE  PoolInv'
  BY <1>2, StartKeeps, StopKeeps, DestroyKeeps, CreateKeeps, CreateFailsKeeps, WaitKeeps,
     TickleKeeps, JoinKeeps, JoinedKeeps, ZeroKeeps, FinishKeeps DEF CallerStep
<1>3. ASSUME NEW w \in Worker, WorkerStep(w) PROVE PoolInv'
  BY <1>3, BeginKeeps, NotifyKeeps, RunKeeps, EndKeeps DEF WorkerStep
<1> QED BY <1>1, <1>2, <1>3, ZenonT(60) DEF Next

-----------------------------------------------------------------------------

\* The invariant, if one user only calls stop().
THEOREM PoolInvariant == ASSUME OneStopper PROVE Spec => []PoolInv
<1>1. PoolInv /\ [Next]_vars => PoolInv'
  BY Inductive
<1> QED BY <1>1, PoolInit, PTL DEF Spec

\* What m_stopped says is true: the threads were joined and their Threads freed.
THEOREM StoppedPoolsAreJoined == ASSUME OneStopper PROVE Spec => []StoppedIsJoined
<1>1. ASSUME PoolInv PROVE StoppedIsJoined
  <2> SUFFICES ASSUME m_stopped, NEW w \in Worker
               PROVE  object[w] = "none" \/ (object[w] = "freed" /\ life[w] = "joined")
    BY DEF StoppedIsJoined
  <2>1. m_threads = <<>> /\ making = Null
    BY <1>1 DEF PoolInv, Control
  <2>2. ~Stored(w) /\ w # making
    BY <2>1, PoolAssumption, SMTT(60) DEF Stored
  <2> QED BY <1>1, <2>2 DEF PoolInv, TypeOK, Places
<1> QED BY <1>1, PoolInvariant, PTL

\* A thread's Thread and scheduler outlive it, and stop() joins none twice.
THEOREM NoThreadOutlived == ASSUME OneStopper PROVE Spec => []NothingFreedInUse
<1>1. PoolInv => NothingFreedInUse
  BY BothAlive DEF NothingFreedInUse, PoolInv, Control
<1> QED BY <1>1, PoolInvariant, PTL

\* A Thread that start() has stored has begun: it has its m_id.
THEOREM StoredThreadsBegan == ASSUME OneStopper PROVE Spec => []BegunWhenStored
<1>1. ASSUME PoolInv PROVE BegunWhenStored
  <2> SUFFICES ASSUME NEW k \in DOMAIN m_threads, m_threads[k] # Null
               PROVE  /\ m_threads[k] \in m_id /\ m_semaphore[m_threads[k]] = 0
                      /\ life[m_threads[k]] \notin {"none", "created", "named"}
    BY DEF BegunWhenStored
  <2>0. CASE m_threads = <<>>
    BY <2>0, SMTT(60)
  <2>1. CASE m_threads # <<>>
    <3>1. m_threads[k] \in Worker
      BY <1>1, <2>1 DEF PoolInv, TypeOK
    <3>2. Stored(m_threads[k])
      BY DEF Stored
    <3> QED BY <1>1, <3>1, <3>2 DEF PoolInv, Places
  <2> QED BY <2>0, <2>1
<1> QED BY <1>1, PoolInvariant, PTL
=============================================================================
