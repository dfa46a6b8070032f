-------------------------- MODULE IOManagerProofs ---------------------------
(***************************************************************************)
(* Proofs about IOManager, for any descriptors, events and threads, if the *)
(* uninitialised FdContext::events reads as empty.  A context is used      *)
(* after the lock it was found under is released, and the event a thread   *)
(* handles may be gone: the invariant says what still holds then.          *)
(***************************************************************************)
EXTENDS IOManager, FiniteSetTheorems, TLAPS

\* Steps are for Zenon; those about numbers, records or sequences name SMT.
USE ZenonT(40)

Initialised == InitEvents = {{}}

\* The wait was woken or deleted, by the counts W and D.
Ended(W, D, fd, e) == W[<<fd, e>>] + D[<<fd, e>>] > 0

\* What a thread at a label knows of its arguments.
Fits(label, a) ==
  /\ label # "ready" => a.fd \in Fd
  /\ label \in {"check", "add", "del", "cancel", "wake", "close", "event"} =>
       a.ctx \in Ctx /\ a.ctx[1] = a.fd /\ a.ctx[2] <= created[a.fd]
  /\ label \in {"resize", "lookup", "check", "add", "del", "cancel", "wake"} => a.event \in Event
  /\ label = "resize" => a.fd >= InitSize
  /\ label = "lookup" => created[a.fd] > 0
  /\ label = "event" => \A e \in a.got : e \in events[a.ctx] \/ Ended(woken, deleted, a.fd, e)
Args == \A p \in Proc : Fits(pc[p], arg[p])

\* The table holds a context for each descriptor below its size.
Tables ==
  /\ size >= InitSize
  /\ \A x \in Fd : (table[x] # 0 <=> x < size) /\ table[x] <= created[x]

\* mtx is held across steps in cancelEvent() only, whose event stays registered.
Locks ==
  /\ \A p \in Proc : pc[p] = "wake" => mtx[arg[p].ctx] = p
  /\ \A c \in Ctx : mtx[c] # Null =>
       pc[mtx[c]] = "wake" /\ arg[mtx[c]].ctx = c /\ arg[mtx[c]].event \in events[c]

\* What the kernel should watch for a context, and whether it watches it.
due(c) == IF mtx[c] = Null THEN events[c] ELSE events[c] \ {arg[mtx[c]].event}
watched(c) == epoll[c[1]] # Null /\ epoll[c[1]].ctx = c

Kernel ==
  /\ \A x \in Fd : epoll[x] # Null => epoll[x].ctx[1] = x /\ epoll[x].ctx[2] <= created[x]
  /\ \A c \in Ctx : /\ watched(c) => due(c) # {} /\ epoll[c[1]].mask = due(c)
                    /\ due(c) # {} => watched(c) \/ c[1] \in closed

\* A registered event has its waiter, and an EventContext once had one.
Waiters ==
  /\ \A c \in Ctx : \A e \in events[c] : <<c, e>> \in used
  /\ \A u \in used : added[<<u[1][1], u[2]>>] > 0

IOInv == TypeOK /\ Args /\ Tables /\ Locks /\ Kernel /\ Waiters

LEMMA IOInit == ASSUME Initialised, Init PROVE IOInv
<1> USE IOAssumption DEF Init
<1>1. \A x \in Fd : table[x] \in 0..MaxGen /\ created[x] = table[x]
  BY SMTT(60)
<1>2. events = [c \in Ctx |-> {}]
  BY DEF Initialised
<1>3. /\ added \in [Wait -> Nat] /\ woken \in [Wait -> Nat] /\ deleted \in [Wait -> Nat]
      /\ arg \in [Proc -> Argument] /\ pc \in [Proc -> Label]
  BY DEF NoArg, Argument, Label
<1>4. TypeOK
  BY <1>1, <1>2, <1>3, SMTT(60) DEF TypeOK, Faults
<1>5. Args /\ Tables
  BY <1>1, SMTT(60) DEF Args, Fits, Tables
<1>6. Locks /\ Kernel /\ Waiters
  <2>1. \A c \in Ctx : c[1] \in Fd /\ mtx[c] = Null /\ events[c] = {} /\ epoll[c[1]] = Null
    BY <1>2 DEF Ctx
  <2> QED BY <2>1 DEF Locks, Kernel, Waiters, due, watched
<1> QED BY <1>4, <1>5, <1>6 DEF IOInv

LEMMA SameDue ==
  ASSUME NEW d, mtx'[d] = mtx[d], events'[d] = events[d],
         mtx[d] # Null => arg'[mtx[d]] = arg[mtx[d]]
  PROVE  due(d)' = due(d)
<1>1. CASE mtx[d] = Null
  BY <1>1 DEF due
<1>2. CASE mtx[d] # Null
  <2>1. due(d)' = events'[d] \ {arg'[mtx'[d]].event} /\ due(d) = events[d] \ {arg[mtx[d]].event}
    BY <1>2 DEF due
  <2> QED BY <1>2, <2>1
<1> QED BY <1>1, <1>2

\* A step that only moves a thread on.
LEMMA MoveKeeps ==
  ASSUME IOInv, NEW p \in Proc, pc[p] # "wake", NEW label \in Label \ {"wake"},
         NEW a \in Argument, Fits(label, a),
         pc' = [pc EXCEPT ![p] = label], arg' = [arg EXCEPT ![p] = a],
         UNCHANGED <<tableVars, events, used, mtx, epoll, m_pending_count, waitVars, fault>>
  PROVE  IOInv'
<1> USE IOAssumption DEF tableVars, waitVars, IOInv
<1>1. /\ pc' \in [Proc -> Label] /\ arg' \in [Proc -> Argument]
      /\ pc'[p] = label /\ arg'[p] = a
      /\ \A q \in Proc : q # p => pc'[q] = pc[q] /\ arg'[q] = arg[q]
  BY DEF TypeOK
<1>2. TypeOK' /\ Tables' /\ Waiters'
  BY <1>1 DEF TypeOK, Tables, Waiters
<1>3. Args'
  BY <1>1, SMTT(60) DEF Args, Fits, Ended
<1>4. \A c \in Ctx : mtx[c] # Null => mtx[c] \in Proc /\ mtx[c] # p
  BY SMTT(60) DEF Locks, TypeOK
<1>5. Locks'
  BY <1>1, <1>4, SMTT(60) DEF Locks
<1>6. \A c \in Ctx : due(c)' = due(c)
  BY <1>1, <1>4 DEF due
<1>7. \A c \in Ctx : watched(c)' <=> watched(c)
  BY DEF watched
<1>8. Kernel'
  BY <1>6, <1>7, SMTT(60) DEF Kernel
<1> QED BY <1>2, <1>3, <1>5, <1>8

LEMMA AbortKeeps ==
  ASSUME IOInv, NEW p \in Proc, NEW why \in Faults, abort(p, why) PROVE IOInv'
<1>1. fault' \in [Proc -> Faults]
  BY DEF abort, IOInv, TypeOK
<1> QED BY <1>1, ZenonT(60) DEF abort, tableVars, waitVars, IOInv, TypeOK, Args, Fits, Ended, Tables,
           Locks, Kernel, due, watched, Waiters

\* epoll_ctl for a context whose registration the kernel knows, or that has none.
LEMMA KernelMoves ==
  ASSUME TypeOK, Kernel, NEW c \in Ctx, c[2] <= created[c[1]], NEW mask \in SUBSET Event,
         register(c[1], mask, c), epoll[c[1]] = Null <=> due(c) = {},
         UNCHANGED <<created, closed>>,
         due(c)' = mask, \A d \in Ctx : d # c => due(d)' = due(d)
  PROVE  Kernel' /\ epoll' \in [Fd -> Registration \cup {Null}]
<1> USE IOAssumption
<1>1. c[1] \in Fd
  BY DEF Ctx
<1>2. /\ epoll' \in [Fd -> Registration \cup {Null}]
      /\ \A x \in Fd : x # c[1] => epoll'[x] = epoll[x]
      /\ mask = {} => epoll'[c[1]] = Null
      /\ mask # {} => /\ epoll'[c[1]] # Null
                      /\ epoll'[c[1]].mask = mask /\ epoll'[c[1]].ctx = c
  <2>1. [mask |-> mask, ctx |-> c] \in Registration
    BY DEF Registration
  <2>2. [mask |-> mask, ctx |-> c] # Null
    BY <2>1
  <2> QED BY <1>1, <2>1, <2>2 DEF register, TypeOK
<1>3. \A x \in Fd : epoll'[x] # Null => epoll'[x].ctx[1] = x /\ epoll'[x].ctx[2] <= created'[x]
  <2>1. ASSUME NEW x \in Fd, epoll'[x] # Null
        PROVE  epoll'[x].ctx[1] = x /\ epoll'[x].ctx[2] <= created'[x]
    <3>1. CASE x = c[1]
      <4>1. epoll'[x].ctx = c
        BY <1>2, <2>1, <3>1
      <4> QED BY <3>1, <4>1
    <3>2. CASE x # c[1]
      <4>1. epoll'[x] = epoll[x] /\ epoll[x] # Null
        BY <1>2, <2>1, <3>2, SMTT(60)
      <4>2. epoll[x].ctx[1] = x /\ epoll[x].ctx[2] <= created[x]
        BY <4>1 DEF Kernel
      <4> QED BY <4>1, <4>2
    <3> QED BY <3>1, <3>2
  <2> QED BY <2>1
<1>4. watched(c)' <=> mask # {}
  BY <1>2 DEF watched
<1>5. ASSUME NEW d \in Ctx, d # c, d[1] = c[1]
      PROVE  ~watched(d)' /\ (due(d) # {} => d[1] \in closed)
  <2>1. ~watched(d)'
    BY <1>2, <1>5 DEF watched
  <2>2. due(c) # {} => watched(c) \/ c[1] \in closed
    BY DEF Kernel
  <2>3. due(d) # {} => watched(d) \/ d[1] \in closed
    BY DEF Kernel
  <2> QED BY <1>5, <2>1, <2>2, <2>3 DEF watched
<1>6. ASSUME NEW d \in Ctx, d[1] # c[1]
      PROVE  /\ watched(d)' <=> watched(d)
             /\ epoll'[d[1]] = epoll[d[1]]
  BY <1>2, <1>6 DEF watched, Ctx
<1>7. ASSUME NEW d \in Ctx
      PROVE  /\ watched(d)' => due(d)' # {} /\ epoll'[d[1]].mask = due(d)'
             /\ due(d)' # {} => watched(d)' \/ d[1] \in closed'
  <2>1. CASE d = c
    BY <1>2, <1>4, <2>1
  <2>2. CASE d # c /\ d[1] = c[1]
    BY <1>5, <2>2
  <2>3. CASE d[1] # c[1]
    BY <1>6, <2>3, SMTT(60) DEF Kernel
  <2> QED BY <2>1, <2>2, <2>3
<1> QED BY <1>2, <1>3, <1>7 DEF Kernel

\* The events E of a context are taken away under mtx: delEvent(), cancelAll() and
\* the handling of an event.
LEMMA RemoveKeeps ==
  ASSUME IOInv, NEW p \in Proc, pc[p] # "wake", NEW label \in {"ready", "closing"},
         NEW a \in Argument, label # "ready" => a.fd \in Fd,
         pc' = [pc EXCEPT ![p] = label], arg' = [arg EXCEPT ![p] = a],
         NEW c \in Ctx, c[2] <= created[c[1]], mtx[c] = Null,
         NEW E \in SUBSET events[c], E # {}, epoll[c[1]] # Null,
         events' = [events EXCEPT ![c] = @ \ E], register(c[1], events[c] \ E, c),
         woken' \in [Wait -> Nat], deleted' \in [Wait -> Nat], m_pending_count' \in Int,
         \A e \in E : Ended(woken', deleted', c[1], e),
         \A x \in Fd, e \in Event : Ended(woken, deleted, x, e) => Ended(woken', deleted', x, e),
         UNCHANGED <<tableVars, used, mtx, added, fault>>
  PROVE  IOInv'
<1> USE IOAssumption DEF tableVars, IOInv
<1>1. /\ pc' \in [Proc -> Label] /\ arg' \in [Proc -> Argument]
      /\ pc'[p] = label /\ arg'[p] = a
      /\ \A q \in Proc : q # p => pc'[q] = pc[q] /\ arg'[q] = arg[q]
  BY SMTT(60) DEF TypeOK, Label
<1>2. /\ events' \in [Ctx -> SUBSET Event] /\ events'[c] = events[c] \ E
      /\ \A d \in Ctx : d # c => events'[d] = events[d]
  BY DEF TypeOK
<1>3. \A d \in Ctx : mtx[d] # Null => mtx[d] \in Proc /\ mtx[d] # p /\ d # c
  BY SMTT(60) DEF Locks, TypeOK
<1>4. due(c) = events[c] /\ due(c)' = events[c] \ E /\ \A d \in Ctx : d # c => due(d)' = due(d)
  <2>1. due(c) = events[c] /\ due(c)' = events[c] \ E
    BY <1>2 DEF due
  <2>2. ASSUME NEW d \in Ctx, d # c PROVE due(d)' = due(d)
    <3>1. mtx'[d] = mtx[d] /\ events'[d] = events[d]
      BY <1>2, <2>2
    <3>2. mtx[d] # Null => arg'[mtx[d]] = arg[mtx[d]]
      BY <1>1, <1>3
    <3> QED BY <3>1, <3>2, SameDue
  <2> QED BY <2>1, <2>2
<1>5. Kernel' /\ epoll' \in [Fd -> Registration \cup {Null}]
  <2>1. events[c] \ E \in SUBSET Event
    BY DEF TypeOK
  <2>2. epoll[c[1]] = Null <=> due(c) = {}
    BY <1>4, SMTT(60)
  <2> QED BY <1>4, <2>1, <2>2, KernelMoves
<1>6. TypeOK'
  BY <1>1, <1>2, <1>5 DEF TypeOK
<1>7. Args'
  <2>1. Fits(pc[p], arg[p])'
    BY <1>1 DEF Fits
  <2>2. ASSUME NEW q \in Proc, q # p PROVE Fits(pc[q], arg[q])'
    <3>1. Fits(pc[q], arg[q]) /\ pc'[q] = pc[q] /\ arg'[q] = arg[q]
      BY <1>1, <2>2 DEF Args
    <3>2. ASSUME pc[q] = "event", NEW e \in arg[q].got
          PROVE  e \in events'[arg[q].ctx] \/ Ended(woken', deleted', arg[q].fd, e)
      <4>1. /\ arg[q].fd \in Fd /\ arg[q].ctx \in Ctx /\ arg[q].ctx[1] = arg[q].fd
            /\ e \in events[arg[q].ctx] \/ Ended(woken, deleted, arg[q].fd, e)
        BY <3>1, <3>2 DEF Fits
      <4>2. e \in Event
        BY <3>2 DEF TypeOK, Argument
      <4>3. CASE Ended(woken, deleted, arg[q].fd, e)
        BY <4>1, <4>2, <4>3
      <4>4. CASE e \in events[arg[q].ctx] /\ arg[q].ctx # c
        BY <1>2, <4>1, <4>4
      <4>5. CASE e \in events[c] /\ arg[q].ctx = c
        <5>1. e \in E => Ended(woken', deleted', arg[q].fd, e)
          BY <4>1, <4>5
        <5> QED BY <1>2, <4>5, <5>1
      <4> QED BY <4>1, <4>3, <4>4, <4>5
    <3> QED BY <3>1, <3>2 DEF Fits
  <2> QED BY <2>1, <2>2 DEF Args
<1>8. Tables' /\ Waiters'
  BY <1>2 DEF Tables, Waiters
<1>9. Locks'
  BY <1>1, <1>2, <1>3, SMTT(60) DEF Locks
<1> QED BY <1>5, <1>6, <1>7, <1>8, <1>9

\* bump() counts the waits of a descriptor: what is counted has ended, and stays so.
LEMMA BumpEnds ==
  ASSUME TypeOK, NEW fd \in Fd, NEW E \in SUBSET Event,
         \/ woken' = bump(woken, fd, E) /\ deleted' = deleted
         \/ deleted' = bump(deleted, fd, E) /\ woken' = woken
  PROVE  /\ woken' \in [Wait -> Nat] /\ deleted' \in [Wait -> Nat]
         /\ \A e \in E : Ended(woken', deleted', fd, e)
         /\ \A x \in Fd, e \in Event : Ended(woken, deleted, x, e) => Ended(woken', deleted', x, e)
<1>1. woken \in [Wait -> Nat] /\ deleted \in [Wait -> Nat]
  BY DEF TypeOK
<1>2. woken' \in [Wait -> Nat] /\ deleted' \in [Wait -> Nat]
  BY <1>1, SMTT(60) DEF bump
<1>3. ASSUME NEW x \in Fd, NEW e \in Event
      PROVE  /\ Ended(woken, deleted, x, e) => Ended(woken', deleted', x, e)
             /\ x = fd /\ e \in E => Ended(woken', deleted', x, e)
  <2> DEFINE w == <<x, e>>
  <2>1. w \in Wait /\ w[1] = x /\ w[2] = e
    BY DEF Wait
  <2> HIDE DEF w
  <2>2. /\ woken'[w] >= woken[w] /\ deleted'[w] >= deleted[w]
        /\ x = fd /\ e \in E => woken'[w] > 0 \/ deleted'[w] > 0
    BY <1>1, <2>1, SMTT(60) DEF bump
  <2>3. /\ woken[w] \in Nat /\ deleted[w] \in Nat
        /\ woken'[w] \in Nat /\ deleted'[w] \in Nat
    BY <1>1, <1>2, <2>1
  <2>4. /\ woken[w] + deleted[w] > 0 => woken'[w] + deleted'[w] > 0
        /\ x = fd /\ e \in E => woken'[w] + deleted'[w] > 0
    BY <2>2, <2>3, SMTT(60)
  <2> QED BY <2>4 DEF Ended, w
<1> QED BY <1>2, <1>3

LEMMA NoArgType == NoArg \in Argument /\ \A a : Fits("ready", a)
BY DEF NoArg, Argument, Fits

LEMMA DelEventKeeps == ASSUME IOInv, NEW p \in Proc, DelEvent(p) PROVE IOInv'
<1> DEFINE fd == arg[p].fd
           e == arg[p].event
           c == arg[p].ctx
<1>1. /\ pc[p] = "del" /\ mtx[c] = Null
      /\ fd \in Fd /\ c \in Ctx /\ c[1] = fd /\ c[2] <= created[fd] /\ e \in Event
  BY DEF DelEvent, IOInv, Args, Fits
<1>2. CASE e \notin events[c]
  <2>1. done(p) /\ UNCHANGED <<tableVars, events, used, mtx, epoll, m_pending_count, waitVars, fault>>
    BY <1>2 DEF DelEvent, tableVars, waitVars
  <2> QED BY <1>1, <2>1, NoArgType, MoveKeeps DEF done, Label
<1>3. CASE e \in events[c] /\ epoll[fd] = Null
  BY <1>3, AbortKeeps DEF DelEvent, Faults
<1>4. CASE e \in events[c] /\ epoll[fd] # Null
  <2>1. /\ register(fd, events[c] \ {e}, c) /\ events' = [events EXCEPT ![c] = @ \ {e}]
        /\ m_pending_count' = m_pending_count - 1 /\ deleted' = bump(deleted, fd, {e})
        /\ done(p) /\ UNCHANGED <<tableVars, used, mtx, added, woken, fault>>
    BY <1>4 DEF DelEvent
  <2>2. /\ woken' \in [Wait -> Nat] /\ deleted' \in [Wait -> Nat]
        /\ \A x \in {e} : Ended(woken', deleted', c[1], x)
        /\ \A x \in Fd, y \in Event : Ended(woken, deleted, x, y) => Ended(woken', deleted', x, y)
    <3>1. {e} \in SUBSET Event /\ c[1] \in Fd /\ TypeOK
      BY <1>1 DEF IOInv
    <3>2. deleted' = bump(deleted, c[1], {e}) /\ woken' = woken
      BY <1>1, <2>1
    <3> HIDE DEF fd, e, c
    <3> QED BY <3>1, <3>2, BumpEnds
  <2>3. m_pending_count' \in Int
    BY <2>1, SMTT(60) DEF IOInv, TypeOK
  <2>4. {e} \in SUBSET events[c] /\ {e} # {}
    BY <1>4
  <2>5. /\ register(c[1], events[c] \ {e}, c) /\ c[2] <= created[c[1]] /\ epoll[c[1]] # Null
        /\ pc[p] # "wake" /\ pc' = [pc EXCEPT ![p] = "ready"] /\ arg' = [arg EXCEPT ![p] = NoArg]
    <3>1. register(c[1], events[c] \ {e}, c)
      BY <1>1, <2>1
    <3>2. c[2] <= created[c[1]] /\ epoll[c[1]] # Null /\ pc[p] # "wake"
      BY <1>1, <1>4, SMTT(60)
    <3> QED BY <2>1, <3>1, <3>2 DEF done
  <2> HIDE DEF fd, e, c
  <2> QED BY <1>1, <2>1, <2>2, <2>3, <2>4, <2>5, NoArgType, RemoveKeeps
<1> QED BY <1>2, <1>3, <1>4

LEMMA CancelAllKeeps == ASSUME IOInv, NEW p \in Proc, CancelAll(p) PROVE IOInv'
<1> DEFINE fd == arg[p].fd
           c == arg[p].ctx
<1>1. /\ pc[p] = "close" /\ mtx[c] = Null
      /\ fd \in Fd /\ c \in Ctx /\ c[1] = fd /\ c[2] <= created[fd] /\ arg[p] \in Argument
  BY DEF CancelAll, IOInv, Args, Fits, TypeOK
<1>2. arg = [arg EXCEPT ![p] = arg[p]] /\ Fits("closing", arg[p])
  BY <1>1 DEF Fits, IOInv, TypeOK
<1>3. CASE events[c] = {} \/ epoll[fd] = Null
  <2>1. /\ pc' = [pc EXCEPT ![p] = "closing"] /\ arg' = arg
        /\ UNCHANGED <<tableVars, events, used, mtx, epoll, m_pending_count, waitVars, fault>>
    BY <1>3 DEF CancelAll, tableVars, waitVars
  <2> QED BY <1>1, <1>2, <2>1, MoveKeeps DEF Label
<1>4. CASE events[c] # {} /\ epoll[fd] # Null
  <2>0. \A e \in events[c] : <<c, e>> \in used
    BY <1>1 DEF IOInv, Waiters
  <2>1. /\ register(fd, {}, c) /\ events' = [events EXCEPT ![c] = {}]
        /\ woken' = bump(woken, fd, events[c])
        /\ m_pending_count' = m_pending_count - Cardinality(events[c])
        /\ pc' = [pc EXCEPT ![p] = "closing"]
        /\ UNCHANGED <<tableVars, used, mtx, arg, added, deleted, fault>>
    BY <1>4, <2>0 DEF CancelAll
  <2>2. events[c] \in SUBSET Event /\ IsFiniteSet(events[c]) /\ Cardinality(events[c]) \in Nat
    BY <1>1, IOAssumption, FS_Subset, FS_CardinalityType, SMTT(60) DEF IOInv, TypeOK
  <2>3. /\ woken' \in [Wait -> Nat] /\ deleted' \in [Wait -> Nat]
        /\ \A x \in events[c] : Ended(woken', deleted', fd, x)
        /\ \A x \in Fd, y \in Event : Ended(woken, deleted, x, y) => Ended(woken', deleted', x, y)
    BY <1>1, <2>1, <2>2, BumpEnds DEF IOInv
  <2>4. m_pending_count' \in Int
    BY <2>1, <2>2, SMTT(60) DEF IOInv, TypeOK
  <2>6. events' = [events EXCEPT ![c] = @ \ events[c]] /\ register(fd, events[c] \ events[c], c)
    BY <2>1
  <2>7. events[c] \in SUBSET events[c] /\ arg' = [arg EXCEPT ![p] = arg[p]]
    BY <1>2, <2>1
  <2> HIDE DEF fd, c
  <2> QED BY <1>1, <1>4, <2>1, <2>3, <2>4, <2>6, <2>7, RemoveKeeps DEF fd
<1> QED BY <1>3, <1>4

LEMMA ScheduleEventKeeps == ASSUME IOInv, NEW p \in Proc, ScheduleEvent(p) PROVE IOInv'
<1> DEFINE fd == arg[p].fd
           c == arg[p].ctx
           T == triggered(p)
<1>1. /\ pc[p] = "event" /\ mtx[c] = Null
      /\ fd \in Fd /\ c \in Ctx /\ c[1] = fd /\ c[2] <= created[fd]
  BY DEF ScheduleEvent, trigger, IOInv, Args, Fits
<1>2. CASE events[c] \cap T = {} \/ epoll[fd] = Null
  <2>1. done(p) /\ UNCHANGED <<tableVars, events, used, mtx, epoll, m_pending_count, waitVars, fault>>
    BY <1>2 DEF ScheduleEvent, trigger, tableVars, waitVars
  <2> QED BY <1>1, <2>1, NoArgType, MoveKeeps DEF done, Label
<1>3. CASE events[c] \cap T # {} /\ epoll[fd] # Null /\ ~(T \subseteq events[c])
  BY <1>3, AbortKeeps DEF ScheduleEvent, trigger, Faults
<1>4. CASE events[c] \cap T # {} /\ epoll[fd] # Null /\ T \subseteq events[c]
  <2>0. \A e \in T : <<c, e>> \in used
    BY <1>1, <1>4 DEF IOInv, Waiters
  <2>1. /\ register(fd, events[c] \ T, c) /\ events' = [events EXCEPT ![c] = events[c] \ T]
        /\ woken' = bump(woken, fd, T) /\ m_pending_count' = m_pending_count - Cardinality(T)
        /\ done(p) /\ UNCHANGED <<tableVars, used, mtx, added, deleted, fault>>
    BY <1>4, <2>0 DEF ScheduleEvent, trigger
  <2> HIDE DEF T
  <2>2. T \in SUBSET Event /\ T # {} /\ IsFiniteSet(T) /\ Cardinality(T) \in Nat
    <3>1. T \in SUBSET Event /\ T # {}
      BY <1>1, <1>4 DEF IOInv, TypeOK
    <3> QED BY <3>1, IOAssumption, FS_Subset, FS_CardinalityType
  <2>3. /\ woken' \in [Wait -> Nat] /\ deleted' \in [Wait -> Nat]
        /\ \A x \in T : Ended(woken', deleted', c[1], x)
        /\ \A x \in Fd, y \in Event : Ended(woken, deleted, x, y) => Ended(woken', deleted', x, y)
    <3>1. T \in SUBSET Event /\ c[1] \in Fd /\ TypeOK
      BY <1>1, <2>2 DEF IOInv
    <3>2. woken' = bump(woken, c[1], T) /\ deleted' = deleted
      BY <1>1, <2>1
    <3> HIDE DEF fd, c
    <3> QED BY <3>1, <3>2, BumpEnds
  <2>4. m_pending_count' \in Int
    BY <2>1, <2>2, SMTT(60) DEF IOInv, TypeOK
  <2>5. /\ register(c[1], events[c] \ T, c) /\ c[2] <= created[c[1]] /\ epoll[c[1]] # Null
        /\ pc[p] # "wake" /\ pc' = [pc EXCEPT ![p] = "ready"] /\ arg' = [arg EXCEPT ![p] = NoArg]
    <3>1. register(c[1], events[c] \ T, c)
      BY <1>1, <2>1
    <3>2. c[2] <= created[c[1]] /\ epoll[c[1]] # Null /\ pc[p] # "wake"
      BY <1>1, <1>4, SMTT(60)
    <3> QED BY <2>1, <3>1, <3>2 DEF done
  <2>6. events' = [events EXCEPT ![c] = @ \ T] /\ T \in SUBSET events[c]
    BY <1>4, <2>1
  <2> HIDE DEF fd, c
  <2> QED BY <1>1, <2>1, <2>2, <2>3, <2>4, <2>5, <2>6, NoArgType, RemoveKeeps
<1> QED BY <1>2, <1>3, <1>4

\* The steps that look a context up, test it or get an event reported.
LEMMA CallKeeps == ASSUME IOInv, NEW p \in Proc, Call(p) PROVE IOInv'
<1> USE IOAssumption
<1>1. ASSUME NEW fd \in Fd, NEW e \in Event, AddEvent(p, fd, e) PROVE IOInv'
  <2> DEFINE label == IF size <= fd THEN "resize" ELSE "lookup"
             a == [fd |-> fd, event |-> e, ctx |-> Null, got |-> {}]
  <2>1. /\ pc[p] = "ready" /\ pc' = [pc EXCEPT ![p] = label] /\ arg' = [arg EXCEPT ![p] = a]
        /\ UNCHANGED <<tableVars, events, used, mtx, epoll, m_pending_count, waitVars, fault>>
    BY <1>1 DEF AddEvent, begin
  <2>2. a \in Argument /\ label \in Label \ {"wake"}
    BY DEF Argument, Label
  <2>3. Fits(label, a)
    BY SMTT(60) DEF Fits, IOInv, Tables, TypeOK
  <2> HIDE DEF label, a
  <2> QED BY <2>1, <2>2, <2>3, MoveKeeps
<1>2. ASSUME NEW fd \in Fd, NEW e \in Event \cup {Null}, NEW op \in {"del", "cancel", "close"},
             op # "close" => e \in Event, FindContext(p, fd, e, op)
      PROVE  IOInv'
  <2>1. CASE size > fd /\ begin(p, op, fd, e, <<fd, table[fd]>>, {})
    <3> DEFINE a == [fd |-> fd, event |-> e, ctx |-> <<fd, table[fd]>>, got |-> {}]
    <3>1. /\ pc[p] = "ready" /\ pc' = [pc EXCEPT ![p] = op] /\ arg' = [arg EXCEPT ![p] = a]
          /\ UNCHANGED <<tableVars, events, used, mtx, epoll, m_pending_count, waitVars, fault>>
      BY <1>2, <2>1 DEF FindContext, begin
    <3>2. <<fd, table[fd]>> \in Ctx /\ table[fd] <= created[fd]
      <4>1. fd < size
        BY <2>1, SMTT(60) DEF IOInv, TypeOK
      <4>2. table[fd] # 0 /\ table[fd] <= created[fd] /\ table[fd] \in 0..MaxGen
        BY <4>1 DEF IOInv, Tables, TypeOK
      <4>3. table[fd] \in 1..MaxGen
        BY <4>2, SMTT(60)
      <4> QED BY <4>2, <4>3 DEF Ctx
    <3>3. a \in Argument /\ op \in Label \ {"wake"} /\ Fits(op, a)
      BY <1>2, <3>2 DEF Argument, Label, Fits
    <3> HIDE DEF a
    <3> QED BY <3>1, <3>3, MoveKeeps
  <2>2. CASE op = "close" /\ begin(p, "closing", fd, e, Null, {})
    <3> DEFINE a == [fd |-> fd, event |-> e, ctx |-> Null, got |-> {}]
    <3>1. /\ pc[p] = "ready" /\ pc' = [pc EXCEPT ![p] = "closing"] /\ arg' = [arg EXCEPT ![p] = a]
          /\ UNCHANGED <<tableVars, events, used, mtx, epoll, m_pending_count, waitVars, fault>>
      BY <1>2, <2>2 DEF FindContext, begin
    <3>2. a \in Argument /\ "closing" \in Label \ {"wake"} /\ Fits("closing", a)
      BY DEF Argument, Label, Fits
    <3> HIDE DEF a
    <3> QED BY <3>1, <3>2, MoveKeeps
  <2> QED BY <1>2, <2>1, <2>2 DEF FindContext
<1>3. \A w \in Waits : w[1] \in Fd /\ w[2] \in Event
  BY DEF Wait
<1> QED BY <1>1, <1>2, <1>3 DEF Call

LEMMA LookupKeeps == ASSUME IOInv, NEW p \in Proc, Lookup(p) \/ Check(p) PROVE IOInv'
<1> USE IOAssumption
<1> DEFINE fd == arg[p].fd
<1>1. CASE Lookup(p)
  <2>0. pc[p] = "lookup" /\ fd \in Fd /\ arg[p].event \in Event
    BY <1>1 DEF Lookup, IOInv, Args, Fits
  <2>1. CASE table[fd] = 0
    BY <1>1, <2>1, AbortKeeps DEF Lookup, Faults
  <2>2. CASE table[fd] # 0
    <3> DEFINE a == [fd |-> fd, event |-> arg[p].event, ctx |-> <<fd, table[fd]>>, got |-> {}]
    <3>1. /\ pc' = [pc EXCEPT ![p] = "check"] /\ arg' = [arg EXCEPT ![p] = a]
          /\ UNCHANGED <<tableVars, events, used, mtx, epoll, m_pending_count, waitVars, fault>>
      BY <1>1, <2>2 DEF Lookup, begin
    <3>a. table[fd] \in 0..MaxGen /\ table[fd] <= created[fd]
      BY <2>0 DEF IOInv, Tables, TypeOK
    <3>b. table[fd] \in 1..MaxGen
      BY <2>2, <3>a, SMTT(60)
    <3>2. <<fd, table[fd]>> \in Ctx /\ table[fd] <= created[fd]
      BY <2>0, <3>a, <3>b DEF Ctx
    <3>3. a \in Argument /\ "check" \in Label \ {"wake"} /\ Fits("check", a)
      BY <2>0, <3>2 DEF Argument, Label, Fits
    <3> HIDE DEF a
    <3> QED BY <2>0, <3>1, <3>3, MoveKeeps
  <2> QED BY <2>1, <2>2
<1>2. CASE Check(p)
  <2>1. CASE arg[p].event \in events[arg[p].ctx]
    BY <1>2, <2>1, AbortKeeps DEF Check, check, Faults
  <2>2. CASE arg[p].event \notin events[arg[p].ctx]
    <3>1. /\ pc[p] = "check" /\ pc' = [pc EXCEPT ![p] = "add"]
          /\ UNCHANGED <<tableVars, events, used, mtx, epoll, m_pending_count, arg, waitVars, fault>>
      BY <1>2, <2>2 DEF Check, check
    <3>2. arg' = [arg EXCEPT ![p] = arg[p]] /\ arg[p] \in Argument /\ "add" \in Label \ {"wake"}
      BY <3>1 DEF IOInv, TypeOK, Label
    <3>3. Fits("add", arg[p])
      BY <3>1 DEF IOInv, Args, Fits
    <3> QED BY <3>1, <3>2, <3>3, MoveKeeps
  <2> QED BY <2>1, <2>2
<1> QED BY <1>1, <1>2

LEMMA EpollWaitKeeps ==
  ASSUME IOInv, NEW p \in Proc, NEW fd \in Fd, EpollWait(p, fd) PROVE IOInv'
<1> USE IOAssumption
<1> DEFINE c == epoll[fd].ctx
<1>1. PICK got \in SUBSET epoll[fd].mask : begin(p, "event", c[1], Null, c, got)
  BY DEF EpollWait
<1>2. pc[p] = "ready" /\ epoll[fd] # Null /\ epoll[fd] \in Registration
  BY DEF EpollWait, IOInv, TypeOK
<1>3. c \in Ctx /\ c[1] = fd /\ c[2] <= created[fd] /\ got \subseteq Event
  BY <1>2 DEF IOInv, Kernel, Registration
<1>4. got \subseteq events[c]
  <2>1. watched(c)
    BY <1>2, <1>3 DEF watched
  <2>2. epoll[fd].mask = due(c)
    BY <1>3, <2>1 DEF IOInv, Kernel
  <2> QED BY <2>2 DEF due
<1> DEFINE a == [fd |-> c[1], event |-> Null, ctx |-> c, got |-> got]
<1>5. /\ pc' = [pc EXCEPT ![p] = "event"] /\ arg' = [arg EXCEPT ![p] = a]
      /\ UNCHANGED <<tableVars, events, used, mtx, epoll, m_pending_count, waitVars, fault>>
  BY <1>1 DEF EpollWait, begin
<1>6. a \in Argument /\ "event" \in Label \ {"wake"} /\ Fits("event", a)
  BY <1>3, <1>4 DEF Argument, Label, Fits
<1> HIDE DEF a
<1> QED BY <1>2, <1>5, <1>6, MoveKeeps

LEMMA CloseFdKeeps == ASSUME IOInv, NEW p \in Proc, CloseFd(p) PROVE IOInv'
<1> USE IOAssumption DEF IOInv
<1> DEFINE fd == arg[p].fd
<1>1. /\ pc[p] = "closing" /\ fd \in Fd
      /\ epoll' = [epoll EXCEPT ![fd] = Null] /\ closed' = closed \cup {fd}
      /\ pc' = [pc EXCEPT ![p] = "ready"] /\ arg' = [arg EXCEPT ![p] = NoArg]
      /\ UNCHANGED <<size, created, table, events, used, mtx, m_pending_count, waitVars, fault>>
  BY DEF CloseFd, register, done, Args, Fits
<1> HIDE DEF fd
<1>2. /\ pc' \in [Proc -> Label] /\ arg' \in [Proc -> Argument]
      /\ pc'[p] = "ready" /\ arg'[p] = NoArg
      /\ \A q \in Proc : q # p => pc'[q] = pc[q] /\ arg'[q] = arg[q]
  BY <1>1, NoArgType DEF TypeOK, Label
<1>3. TypeOK' /\ Tables' /\ Waiters'
  BY <1>1, <1>2 DEF TypeOK, Tables, Waiters, waitVars
<1>4. Args'
  BY <1>1, <1>2, SMTT(60) DEF Args, Fits, Ended, waitVars
<1>5. \A c \in Ctx : mtx[c] # Null => mtx[c] \in Proc /\ mtx[c] # p
  BY <1>1, SMTT(60) DEF Locks, TypeOK
<1>6. Locks'
  BY <1>1, <1>2, <1>5, SMTT(60) DEF Locks
<1>7. \A c \in Ctx : due(c)' = due(c)
  BY <1>1, <1>2, <1>5, SameDue, SMTT(60)
<1>8. \A c \in Ctx : c[1] \in Fd /\ (watched(c)' <=> watched(c) /\ c[1] # fd)
  BY <1>1 DEF watched, TypeOK, Ctx
<1>9. Kernel'
  BY <1>1, <1>7, <1>8, SMTT(60) DEF Kernel, TypeOK
<1> QED BY <1>3, <1>4, <1>6, <1>9

\* resizeContexts(): a context is created for each descriptor that has none.
LEMMA ResizeKeeps == ASSUME IOInv, NEW p \in Proc, Resize(p) PROVE IOInv'
<1> USE IOAssumption DEF IOInv
<1> DEFINE fd == arg[p].fd
           e == arg[p].event
           new == (fd * 3) \div 2
           a == [fd |-> fd, event |-> e, ctx |-> <<fd, table'[fd]>>, got |-> {}]
<1>1. /\ pc[p] = "resize" /\ fd \in Fd /\ fd >= InitSize /\ e \in Event
      /\ \A x \in Fd : held(new, x) <= MaxGen
  BY DEF Resize, Args, Fits
<1>2. /\ size' = new /\ table' = [x \in Fd |-> held(new, x)]
      /\ created' = [x \in Fd |-> IF table'[x] > created[x] THEN table'[x] ELSE created[x]]
      /\ pc' = [pc EXCEPT ![p] = "check"] /\ arg' = [arg EXCEPT ![p] = a]
      /\ UNCHANGED <<closed, events, used, mtx, epoll, m_pending_count, waitVars, fault>>
  BY DEF Resize, begin
<1>3. new \in Nat /\ fd < new /\ new >= InitSize
  <2> HIDE DEF fd
  <2>1. InitSize \in Nat /\ InitSize > 1 /\ fd \in Nat /\ fd >= InitSize
    BY <1>1
  <2>2. fd > 1
    BY <2>1, SMTT(60)
  <2> QED BY <2>1, <2>2, SMTT(60)
<1> HIDE DEF new, fd, e
<1>4. ASSUME NEW x \in Fd
      PROVE  /\ table'[x] \in 0..MaxGen /\ created'[x] \in 0..MaxGen
             /\ table'[x] # 0 <=> x < new
             /\ table'[x] <= created'[x] /\ created[x] <= created'[x]
  <2>1. table[x] \in 0..MaxGen /\ created[x] \in 0..MaxGen /\ x \in Nat /\ held(new, x) <= MaxGen
    BY <1>1 DEF TypeOK
  <2>2. held(new, x) \in 0..MaxGen /\ (held(new, x) # 0 <=> x < new)
    BY <1>3, <2>1, SMTT(60) DEF held
  <2>3. table'[x] = held(new, x)
        /\ created'[x] = IF table'[x] > created[x] THEN table'[x] ELSE created[x]
    BY <1>2
  <2> QED BY <2>1, <2>2, <2>3, SMTT(60)
<1>5. <<fd, table'[fd]>> \in Ctx /\ a \in Argument
  <2>1. table'[fd] \in 1..MaxGen
    BY <1>1, <1>3, <1>4, SMTT(60)
  <2> QED BY <1>1, <2>1 DEF Ctx, Argument
<1>6. /\ pc' \in [Proc -> Label] /\ arg' \in [Proc -> Argument]
      /\ pc'[p] = "check" /\ arg'[p] = a
      /\ \A q \in Proc : q # p => pc'[q] = pc[q] /\ arg'[q] = arg[q]
  BY <1>2, <1>5 DEF TypeOK, Label
<1>7. TypeOK'
  <2>1. table' \in [Fd -> 0..MaxGen] /\ created' \in [Fd -> 0..MaxGen]
    BY <1>2, <1>4
  <2> QED BY <1>2, <1>3, <1>6, <2>1 DEF TypeOK, waitVars
<1>8. Tables' /\ Waiters'
  BY <1>2, <1>3, <1>4 DEF Tables, Waiters, waitVars
<1>9. Args'
  <2>1. Fits(pc[p], arg[p])'
    BY <1>1, <1>4, <1>5, <1>6, SMTT(60) DEF Fits
  <2>2. ASSUME NEW q \in Proc, q # p PROVE Fits(pc[q], arg[q])'
    <3>1. Fits(pc[q], arg[q]) /\ pc'[q] = pc[q] /\ arg'[q] = arg[q]
      BY <1>6, <2>2 DEF Args
    <3>2. ASSUME NEW x \in Fd, NEW n \in Nat, n <= created[x] PROVE n <= created'[x]
      <4>1. created[x] \in 0..MaxGen /\ created'[x] \in 0..MaxGen
        BY <1>4 DEF TypeOK
      <4> QED BY <1>4, <3>2, <4>1, SMTT(60)
    <3>3. \A c \in Ctx : c[1] \in Fd /\ c[2] \in Nat
      BY SMTT(60) DEF Ctx
    <3>4. \A x \in Fd : created[x] > 0 => created'[x] > 0
      <4>1. \A x \in Fd : created[x] \in 0..MaxGen
        BY DEF TypeOK
      <4> QED BY <1>4, <4>1, SMTT(60)
    <3> QED BY <1>2, <3>1, <3>2, <3>3, <3>4 DEF Fits, Ended, waitVars
  <2> QED BY <2>1, <2>2 DEF Args
<1>a. \A c \in Ctx : mtx[c] # Null => mtx[c] \in Proc /\ mtx[c] # p
  BY <1>1, SMTT(60) DEF Locks, TypeOK
<1>b. Locks'
  BY <1>2, <1>6, <1>a, SMTT(60) DEF Locks
<1>c. \A c \in Ctx : due(c)' = due(c) /\ (watched(c)' <=> watched(c))
  BY <1>2, <1>6, <1>a, SameDue, SMTT(60) DEF watched
<1>d. Kernel'
  <2>1. ASSUME NEW x \in Fd, epoll[x] # Null
        PROVE  epoll[x].ctx[1] = x /\ epoll[x].ctx[2] <= created'[x]
    <3>1. epoll[x].ctx \in Ctx /\ epoll[x].ctx[1] = x /\ epoll[x].ctx[2] <= created[x]
      BY <2>1, SMTT(60) DEF Kernel, TypeOK, Registration
    <3>2. epoll[x].ctx[2] \in Nat /\ created[x] \in 0..MaxGen
      BY <3>1, SMTT(60) DEF Ctx, TypeOK
    <3> QED BY <1>4, <3>1, <3>2, SMTT(60)
  <2> QED BY <1>2, <1>c, <2>1, SMTT(60) DEF Kernel
<1> QED BY <1>7, <1>8, <1>9, <1>b, <1>d

\* addEvent() under mtx: another thread may have registered the event since Check,
\* but then its EventContext is in use.
LEMMA RegisterKeeps == ASSUME IOInv, NEW p \in Proc, Register(p) PROVE IOInv'
<1> USE IOAssumption DEF IOInv
<1>0. PICK fd, e, c : fd = arg[p].fd /\ e = arg[p].event /\ c = arg[p].ctx
  OBVIOUS
<1> USE <1>0
<1>1. /\ pc[p] = "add" /\ mtx[c] = Null /\ e \in Event
      /\ fd \in Fd /\ c \in Ctx /\ c[1] = fd /\ c[2] <= created[fd]
  BY DEF Register, Args, Fits
<1>2. CASE events[c] = {} <=> epoll[fd] # Null
  BY <1>2, AbortKeeps DEF Register, Faults
<1>3. CASE ~(events[c] = {} <=> epoll[fd] # Null) /\ <<c, e>> \in used
  BY <1>3, AbortKeeps DEF Register, Faults
<1>4. CASE ~(events[c] = {} <=> epoll[fd] # Null) /\ <<c, e>> \notin used
  <2>1. /\ register(fd, events[c] \cup {e}, c) /\ events' = [events EXCEPT ![c] = @ \cup {e}]
        /\ used' = used \cup {<<c, e>>} /\ m_pending_count' = m_pending_count + 1
        /\ added' = bump(added, fd, {e})
        /\ pc' = [pc EXCEPT ![p] = "ready"] /\ arg' = [arg EXCEPT ![p] = NoArg]
        /\ UNCHANGED <<tableVars, mtx, woken, deleted, fault>>
    BY <1>4 DEF Register, done
  <2>2. /\ pc' \in [Proc -> Label] /\ arg' \in [Proc -> Argument]
        /\ pc'[p] = "ready" /\ arg'[p] = NoArg
        /\ \A q \in Proc : q # p => pc'[q] = pc[q] /\ arg'[q] = arg[q]
    BY <2>1, NoArgType, ZenonT(60) DEF TypeOK, Label
  <2>3. /\ events' \in [Ctx -> SUBSET Event] /\ events'[c] = events[c] \cup {e}
        /\ \A d \in Ctx : d # c => events'[d] = events[d]
    BY <1>1, <2>1, SMTT(60) DEF TypeOK
  <2>4. \A d \in Ctx : mtx[d] # Null => mtx[d] \in Proc /\ mtx[d] # p /\ d # c
    BY <1>1, SMTT(60) DEF Locks, TypeOK
  <2>5. due(c) = events[c] /\ due(c)' = events[c] \cup {e} /\ \A d \in Ctx : d # c => due(d)' = due(d)
    <3>1. due(c) = events[c] /\ due(c)' = events[c] \cup {e}
      BY <1>1, <2>1, <2>3 DEF due
    <3> QED BY <2>1, <2>2, <2>3, <2>4, <3>1, SameDue, SMTT(60)
  <2>6. Kernel' /\ epoll' \in [Fd -> Registration \cup {Null}]
    <3>1. events[c] \cup {e} \in SUBSET Event
      BY <1>1, SMTT(60) DEF TypeOK
    <3>2. epoll[c[1]] = Null <=> due(c) = {}
      BY <1>1, <1>4, <2>5
    <3>3. /\ register(c[1], events[c] \cup {e}, c) /\ c[2] <= created[c[1]]
          /\ UNCHANGED <<created, closed>>
      BY <1>1, <2>1 DEF tableVars
    <3>4. TypeOK /\ Kernel /\ c \in Ctx
      BY <1>1, ZenonT(60)
    <3> HIDE <1>0 DEF IOInv
    <3> QED BY <2>5, <3>1, <3>2, <3>3, <3>4, KernelMoves, ZenonT(60)
  <2>7. /\ added' \in [Wait -> Nat] /\ \A w \in Wait : added[w] <= added'[w]
        /\ <<fd, e>> \in Wait /\ added'[<<fd, e>>] > 0
    BY <1>1, <2>1, SMTT(60) DEF bump, Wait, TypeOK
  <2>8. TypeOK'
    <3>1. used' \subseteq Ctx \X Event /\ m_pending_count' \in Int
      BY <1>1, <2>1, SMTT(60) DEF TypeOK
    <3> QED BY <2>1, <2>2, <2>3, <2>6, <2>7, <3>1, ZenonT(60) DEF TypeOK, tableVars
  <2>9. Args' /\ Tables'
    <3>1. Fits(pc[p], arg[p])'
      BY <2>2 DEF Fits
    <3>2. ASSUME NEW q \in Proc, q # p PROVE Fits(pc[q], arg[q])'
      <4>1. Fits(pc[q], arg[q]) /\ pc'[q] = pc[q] /\ arg'[q] = arg[q]
        BY <2>2, <3>2 DEF Args
      <4>2. \A d \in Ctx : events[d] \subseteq events'[d]
        BY <2>3
      <4> QED BY <2>1, <4>1, <4>2 DEF Fits, Ended, tableVars
    <3>3. Tables'
      BY <2>1 DEF Tables, tableVars
    <3> QED BY <3>1, <3>2, <3>3 DEF Args
  <2>a. Waiters'
    <3>1. ASSUME NEW d \in Ctx, NEW x \in events'[d] PROVE <<d, x>> \in used'
      BY <2>1, <2>3 DEF Waiters
    <3>2. ASSUME NEW u \in used PROVE added'[<<u[1][1], u[2]>>] > 0
      <4>1. u[1] \in Ctx /\ u[1][1] \in Fd /\ u[2] \in Event
        BY DEF TypeOK, Ctx
      <4>2. <<u[1][1], u[2]>> \in Wait /\ added[<<u[1][1], u[2]>>] > 0
        BY <4>1 DEF Wait, Waiters
      <4>3. added[<<u[1][1], u[2]>>] \in Nat /\ added'[<<u[1][1], u[2]>>] \in Nat
        BY <2>7, <4>2 DEF TypeOK
      <4> QED BY <2>7, <4>2, <4>3, SMTT(60)
    <3>3. ASSUME NEW u \in used' PROVE added'[<<u[1][1], u[2]>>] > 0
      <4>1. CASE u \in used
        BY <3>2, <4>1
      <4>2. CASE u = <<c, e>>
        BY <1>1, <2>7, <4>2, ZenonT(60)
      <4> QED BY <2>1, <4>1, <4>2
    <3> QED BY <3>1, <3>3 DEF Waiters
  <2>b. Locks'
    BY <2>1, <2>2, <2>3, <2>4, SMTT(60) DEF Locks
  <2> QED BY <2>6, <2>8, <2>9, <2>a, <2>b
<1> QED BY <1>2, <1>3, <1>4

\* cancelEvent(), which keeps mtx until the waiter is scheduled.
LEMMA CancelEventKeeps == ASSUME IOInv, NEW p \in Proc, CancelEvent(p) PROVE IOInv'
<1> USE IOAssumption DEF IOInv
<1>0. PICK fd, e, c : fd = arg[p].fd /\ e = arg[p].event /\ c = arg[p].ctx
  OBVIOUS
<1> USE <1>0
<1>1. /\ pc[p] = "cancel" /\ mtx[c] = Null /\ e \in Event
      /\ fd \in Fd /\ c \in Ctx /\ c[1] = fd /\ c[2] <= created[fd]
  BY DEF CancelEvent, cancel, Args, Fits
<1>2. CASE e \notin events[c]
  <2>1. done(p) /\ UNCHANGED <<tableVars, events, used, mtx, epoll, m_pending_count, waitVars, fault>>
    BY <1>2 DEF CancelEvent, cancel
  <2> QED BY <1>1, <2>1, NoArgType, MoveKeeps DEF done, Label
<1>3. CASE e \in events[c] /\ epoll[fd] = Null
  BY <1>3, AbortKeeps DEF CancelEvent, cancel, Faults
<1>4. CASE e \in events[c] /\ epoll[fd] # Null
  <2>1. /\ register(fd, events[c] \ {e}, c) /\ m_pending_count' = m_pending_count - 1
        /\ mtx' = [mtx EXCEPT ![c] = p] /\ pc' = [pc EXCEPT ![p] = "wake"]
        /\ UNCHANGED <<tableVars, events, used, arg, waitVars, fault>>
    BY <1>4, ZenonT(60) DEF CancelEvent, cancel
  <2>2. /\ pc' \in [Proc -> Label] /\ pc'[p] = "wake"
        /\ \A q \in Proc : q # p => pc'[q] = pc[q]
        /\ mtx' \in [Ctx -> Proc \cup {Null}] /\ mtx'[c] = p
        /\ \A d \in Ctx : d # c => mtx'[d] = mtx[d]
    BY <1>1, <2>1, SMTT(60) DEF TypeOK, Label
  <2>3. due(c) = events[c] /\ due(c)' = events[c] \ {e} /\ \A d \in Ctx : d # c => due(d)' = due(d)
    <3>1. due(c) = events[c] /\ due(c)' = events[c] \ {e}
      BY <1>1, <2>1, <2>2, ZenonT(60) DEF due
    <3> QED BY <2>1, <2>2, <3>1, SameDue
  <2>4. Kernel' /\ epoll' \in [Fd -> Registration \cup {Null}]
    <3>1. events[c] \ {e} \in SUBSET Event
      BY <1>1, SMTT(60) DEF TypeOK
    <3>2. epoll[c[1]] = Null <=> due(c) = {}
      BY <1>1, <1>4, <2>3
    <3>3. register(c[1], events[c] \ {e}, c) /\ UNCHANGED <<created, closed>>
      BY <1>1, <2>1 DEF tableVars
    <3>4. c[2] <= created[c[1]]
      BY <1>1, ZenonT(60)
    <3> QED BY <1>1, <2>3, <3>1, <3>2, <3>3, <3>4, KernelMoves, ZenonT(60)
  <2>5. TypeOK' /\ Tables' /\ Waiters'
    BY <2>1, <2>2, <2>4, SMTT(60) DEF TypeOK, tableVars, waitVars, Tables, Waiters
  <2>6. Args'
    <3>1. Fits(pc[p], arg[p])'
      BY <1>1, <2>1, <2>2 DEF Fits, tableVars
    <3>2. ASSUME NEW q \in Proc, q # p PROVE Fits(pc[q], arg[q])'
      <4>1. Fits(pc[q], arg[q]) /\ pc'[q] = pc[q] /\ arg'[q] = arg[q]
        BY <2>1, <2>2, <3>2 DEF Args
      <4> QED BY <2>1, <4>1 DEF Fits, Ended, tableVars, waitVars
    <3> QED BY <3>1, <3>2 DEF Args
  <2>7. Locks'
    <3>1. ASSUME NEW q \in Proc, pc'[q] = "wake" PROVE mtx'[arg'[q].ctx] = q
      <4>1. CASE q = p
        BY <2>1, <2>2, <4>1
      <4>2. CASE q # p
        <5>1. pc[q] = "wake" /\ arg[q].ctx \in Ctx /\ mtx[arg[q].ctx] = q
          BY <2>2, <3>1, <4>2, SMTT(60) DEF Locks, Args, Fits
        <5>2. q # Null
          OBVIOUS
        <5>3. arg[q].ctx # c
          BY <1>1, <5>1, <5>2
        <5> QED BY <2>1, <2>2, <5>1, <5>3, ZenonT(60)
      <4> QED BY <4>1, <4>2
    <3>2. ASSUME NEW d \in Ctx, mtx'[d] # Null
          PROVE  pc'[mtx'[d]] = "wake" /\ arg'[mtx'[d]].ctx = d /\ arg'[mtx'[d]].event \in events'[d]
      <4>1. CASE d = c
        BY <1>4, <2>1, <2>2, <4>1
      <4>2. CASE d # c
        <5>1. mtx'[d] = mtx[d] /\ mtx[d] \in Proc /\ pc[mtx[d]] = "wake"
          BY <2>2, <3>2, <4>2, SMTT(60) DEF TypeOK, Locks
        <5>2. arg[mtx[d]].ctx = d /\ arg[mtx[d]].event \in events[d] /\ pc'[mtx[d]] = "wake"
          BY <2>2, <3>2, <5>1 DEF Locks
        <5> QED BY <2>1, <5>1, <5>2
      <4> QED BY <4>1, <4>2
    <3> QED BY <3>1, <3>2 DEF Locks
  <2> QED BY <2>4, <2>5, <2>6, <2>7
<1> QED BY <1>2, <1>3, <1>4

LEMMA CancelWakeKeeps == ASSUME IOInv, NEW p \in Proc, CancelWake(p) PROVE IOInv'
<1> USE IOAssumption DEF IOInv
<1>0. PICK fd, e, c : fd = arg[p].fd /\ e = arg[p].event /\ c = arg[p].ctx
  OBVIOUS
<1> USE <1>0
<1>1. /\ pc[p] = "wake" /\ mtx[c] = p /\ e \in Event /\ e \in events[c] /\ p # Null
      /\ fd \in Fd /\ c \in Ctx /\ c[1] = fd /\ <<c, e>> \in used
  <2>1. /\ pc[p] = "wake" /\ e \in Event /\ fd \in Fd /\ c \in Ctx /\ c[1] = fd
    BY DEF CancelWake, Args, Fits
  <2>2. mtx[c] = p /\ e \in events[c]
    BY <2>1, SMTT(60) DEF Locks
  <2> QED BY <2>1, <2>2 DEF Waiters
<1>2. /\ events' = [events EXCEPT ![c] = @ \ {e}] /\ woken' = bump(woken, fd, {e})
      /\ mtx' = [mtx EXCEPT ![c] = Null]
      /\ pc' = [pc EXCEPT ![p] = "ready"] /\ arg' = [arg EXCEPT ![p] = NoArg]
      /\ UNCHANGED <<tableVars, used, epoll, m_pending_count, added, deleted, fault>>
  BY <1>1 DEF CancelWake, done
<1>3. /\ pc' \in [Proc -> Label] /\ arg' \in [Proc -> Argument]
      /\ pc'[p] = "ready" /\ arg'[p] = NoArg
      /\ \A q \in Proc : q # p => pc'[q] = pc[q] /\ arg'[q] = arg[q]
  BY <1>2, NoArgType, ZenonT(60) DEF TypeOK, Label
<1>4. /\ events' \in [Ctx -> SUBSET Event] /\ events'[c] = events[c] \ {e}
      /\ mtx' \in [Ctx -> Proc \cup {Null}] /\ mtx'[c] = Null
      /\ \A d \in Ctx : d # c => events'[d] = events[d] /\ mtx'[d] = mtx[d]
  BY <1>1, <1>2, SMTT(60) DEF TypeOK
<1>5. \A d \in Ctx : d # c /\ mtx[d] # Null => mtx[d] \in Proc /\ mtx[d] # p
  BY <1>1, SMTT(60) DEF Locks, TypeOK
<1>6. \A d \in Ctx : due(d)' = due(d) /\ (watched(d)' <=> watched(d))
  <2>1. due(c)' = due(c)
    BY <1>1, <1>4 DEF due
  <2>2. ASSUME NEW d \in Ctx, d # c PROVE due(d)' = due(d)
    <3>1. mtx'[d] = mtx[d] /\ events'[d] = events[d]
      BY <1>4, <2>2
    <3>2. mtx[d] # Null => arg'[mtx[d]] = arg[mtx[d]]
      BY <1>3, <1>5, <2>2
    <3> QED BY <3>1, <3>2, SameDue
  <2> QED BY <1>2, <2>1, <2>2 DEF watched
<1>7. Kernel'
  BY <1>2, <1>6 DEF Kernel, tableVars
<1>8. /\ woken' \in [Wait -> Nat] /\ deleted' \in [Wait -> Nat]
      /\ \A x \in {e} : Ended(woken', deleted', fd, x)
      /\ \A x \in Fd, y \in Event : Ended(woken, deleted, x, y) => Ended(woken', deleted', x, y)
  <2>1. {e} \in SUBSET Event
    BY <1>1
  <2> QED BY <1>1, <1>2, <2>1, BumpEnds
<1>9. TypeOK' /\ Tables' /\ Waiters'
  BY <1>2, <1>3, <1>4, <1>8 DEF TypeOK, tableVars, Tables, Waiters
<1>a. Args'
  <2>1. Fits(pc[p], arg[p])'
    BY <1>3 DEF Fits
  <2>2. ASSUME NEW q \in Proc, q # p PROVE Fits(pc[q], arg[q])'
    <3>1. Fits(pc[q], arg[q]) /\ pc'[q] = pc[q] /\ arg'[q] = arg[q]
      BY <1>3, <2>2, ZenonT(60) DEF Args
    <3>2. ASSUME pc[q] = "event", NEW x \in arg[q].got
          PROVE  x \in events'[arg[q].ctx] \/ Ended(woken', deleted', arg[q].fd, x)
      <4>1. /\ arg[q].fd \in Fd /\ arg[q].ctx \in Ctx /\ arg[q].ctx[1] = arg[q].fd
            /\ x \in events[arg[q].ctx] \/ Ended(woken, deleted, arg[q].fd, x)
        BY <3>1, <3>2 DEF Fits
      <4>2. x \in Event
        BY <3>2 DEF TypeOK, Argument
      <4>3. CASE Ended(woken, deleted, arg[q].fd, x)
        BY <1>8, <4>1, <4>2, <4>3
      <4>4. CASE x \in events[arg[q].ctx] /\ arg[q].ctx # c
        BY <1>4, <4>1, <4>4
      <4>5. CASE x \in events[c] /\ arg[q].ctx = c
        <5>1. x = e => Ended(woken', deleted', arg[q].fd, x)
          BY <1>1, <1>8, <4>1, <4>5
        <5> QED BY <1>4, <4>5, <5>1
      <4> QED BY <4>1, <4>3, <4>4, <4>5
    <3> QED BY <1>2, <3>1, <3>2 DEF Fits, tableVars
  <2> QED BY <2>1, <2>2 DEF Args
<1>b. Locks'
  <2>1. ASSUME NEW q \in Proc, pc'[q] = "wake" PROVE mtx'[arg'[q].ctx] = q
    <3>1. q # p /\ pc[q] = "wake" /\ arg'[q] = arg[q]
      BY <1>3, <2>1
    <3>2. arg[q].ctx \in Ctx /\ mtx[arg[q].ctx] = q
      BY <3>1 DEF Locks, Args, Fits
    <3> QED BY <1>1, <1>4, <3>1, <3>2, SMTT(60)
  <2>2. ASSUME NEW d \in Ctx, mtx'[d] # Null
        PROVE  pc'[mtx'[d]] = "wake" /\ arg'[mtx'[d]].ctx = d /\ arg'[mtx'[d]].event \in events'[d]
    <3>1. d # c /\ mtx'[d] = mtx[d] /\ mtx[d] \in Proc /\ mtx[d] # p /\ events'[d] = events[d]
      BY <1>4, <1>5, <2>2
    <3> QED BY <1>3, <2>2, <3>1, SMTT(60) DEF Locks
  <2> QED BY <2>1, <2>2 DEF Locks
<1> QED BY <1>7, <1>9, <1>a, <1>b

LEMMA IOStep == ASSUME IOInv, [Next]_vars PROVE IOInv'
<1>1. CASE UNCHANGED vars
  BY <1>1, ZenonT(60) DEF vars, tableVars, waitVars, IOInv, TypeOK, Args, Fits, Ended, Tables, Locks, Kernel,
             due, watched, Waiters
<1>2. CASE Halt
  BY <1>1, <1>2 DEF Halt
<1>3. ASSUME NEW p \in Proc, Step(p) PROVE IOInv'
  BY <1>3, ResizeKeeps, LookupKeeps, RegisterKeeps, DelEventKeeps, CancelEventKeeps,
     CancelWakeKeeps, CancelAllKeeps, CloseFdKeeps, ScheduleEventKeeps DEF Step
<1> QED BY <1>1, <1>2, <1>3, CallKeeps, EpollWaitKeeps DEF Next, Poll

-----------------------------------------------------------------------------

\* The invariant holds for any descriptors and threads.
THEOREM IOInvariant == ASSUME Initialised PROVE Spec => []IOInv
<1>1. Init => IOInv
  BY IOInit
<1>2. IOInv /\ [Next]_vars => IOInv'
  BY IOStep
<1> QED BY <1>1, <1>2, PTL DEF Spec

\* The kernel watches what each context waits for, however calls interleave.
THEOREM KernelAlwaysAgrees == ASSUME Initialised PROVE Spec => []KernelAgrees
<1>1. IOInv => KernelAgrees
  BY DEF IOInv, Kernel, KernelAgrees, due, watched
<1> QED BY <1>1, IOInvariant, PTL

-----------------------------------------------------------------------------
(* The counts *)

\* The contexts in which a wait is registered, and the threads in cancelEvent().
At(w) == {r \in registered : r[1][1] = w[1] /\ r[2] = w[2]}
Wakers == {p \in Proc : pc[p] = "wake"}
Counts == WaitConserved /\ PendingExact

LEMMA Finite ==
  ASSUME TypeOK
  PROVE  /\ IsFiniteSet(registered) /\ Cardinality(registered) \in Nat
         /\ IsFiniteSet(Wakers) /\ Cardinality(Wakers) \in Nat
         /\ \A w \in Wait : IsFiniteSet(At(w)) /\ Cardinality(At(w)) \in Nat
<1>1. IsFiniteSet(Ctx \X Event)
  <2>1. IsFiniteSet(1..MaxGen)
    BY IOAssumption, FS_Interval, SMTT(60)
  <2>2. IsFiniteSet(Ctx)
    BY <2>1, IOAssumption, FS_Product DEF Ctx
  <2> QED BY <2>2, IOAssumption, FS_Product
<1>2. IsFiniteSet(registered)
  BY <1>1, FS_Subset DEF registered
<1>3. IsFiniteSet(Wakers)
  BY IOAssumption, FS_Subset DEF Wakers
<1>4. \A w \in Wait : IsFiniteSet(At(w))
  BY <1>2, FS_Subset DEF At
<1> QED BY <1>2, <1>3, <1>4, FS_CardinalityType

\* Taking the events E away from a context takes as many registrations away, one
\* of each wait.
LEMMA LoseCounts ==
  ASSUME TypeOK, NEW c \in Ctx, NEW E \in SUBSET events[c],
         events' = [events EXCEPT ![c] = @ \ E]
  PROVE  /\ Cardinality(registered') = Cardinality(registered) - Cardinality(E)
         /\ \A w \in Wait : Cardinality(At(w)') =
              Cardinality(At(w)) - (IF w[1] = c[1] /\ w[2] \in E THEN 1 ELSE 0)
<1>1. E \in SUBSET Event /\ IsFiniteSet(E) /\ Cardinality(E) \in Nat
  <2>1. E \in SUBSET Event
    BY DEF TypeOK
  <2> QED BY <2>1, IOAssumption, FS_Subset, FS_CardinalityType
<1>2. /\ events'[c] = events[c] \ E /\ \A d \in Ctx : d # c => events'[d] = events[d]
  BY DEF TypeOK
<1>3. registered' = registered \ ({c} \X E)
  <2>1. ASSUME NEW d \in Ctx, NEW e \in Event
        PROVE  e \in events'[d] <=> e \in events[d] /\ ~(d = c /\ e \in E)
    BY <1>2
  <2>2. \A r \in Ctx \X Event : r[2] \in events'[r[1]] <=> r[2] \in events[r[1]] /\ r \notin {c} \X E
    BY <2>1
  <2> QED BY <2>2 DEF registered
<1>4. {c} \X E \subseteq registered
  BY <1>1 DEF registered
<1>5. Cardinality({c} \X E) = Cardinality(E)
  <2>1. IsFiniteSet({c}) /\ Cardinality({c}) = 1
    BY FS_Singleton
  <2>2. Cardinality({c} \X E) = Cardinality({c}) * Cardinality(E)
    BY <1>1, <2>1, FS_Product
  <2> QED BY <1>1, <2>1, <2>2, SMTT(60)
<1>6. Cardinality(registered') = Cardinality(registered) - Cardinality(E)
  <2>1. registered \cap ({c} \X E) = {c} \X E
    BY <1>4
  <2>2. IsFiniteSet(registered)
    BY Finite
  <2>3. Cardinality(registered \ ({c} \X E)) =
          Cardinality(registered) - Cardinality(registered \cap ({c} \X E))
    BY <2>2, FS_Difference
  <2> QED BY <1>3, <1>5, <2>1, <2>3
<1>7. ASSUME NEW w \in Wait
      PROVE  Cardinality(At(w)') =
               Cardinality(At(w)) - (IF w[1] = c[1] /\ w[2] \in E THEN 1 ELSE 0)
  <2>1. CASE w[1] = c[1] /\ w[2] \in E
    <3>1. <<c, w[2]>> \in At(w)
      BY <1>4, <2>1 DEF At
    <3>2. At(w)' = At(w) \ {<<c, w[2]>>}
      <4>1. \A r \in registered : r[1][1] = w[1] /\ r[2] = w[2] =>
              (r \in {c} \X E <=> r = <<c, w[2]>>)
        BY <2>1, SMTT(60) DEF registered
      <4> QED BY <1>3, <4>1 DEF At
    <3>3. IsFiniteSet(At(w))
      BY Finite
    <3>4. Cardinality(At(w) \ {<<c, w[2]>>}) = Cardinality(At(w)) - 1
      BY <3>1, <3>3, FS_RemoveElement, ZenonT(60)
    <3> QED BY <2>1, <3>2, <3>4
  <2>2. CASE ~(w[1] = c[1] /\ w[2] \in E)
    <3>1. At(w)' = At(w)
      BY <1>3, <2>2, SMTT(60) DEF At
    <3> QED BY <2>2, <3>1, Finite, SMTT(60)
  <2> QED BY <2>1, <2>2
<1> QED BY <1>6, <1>7

LEMMA GainCounts ==
  ASSUME TypeOK, NEW c \in Ctx, NEW e \in Event \ events[c],
         events' = [events EXCEPT ![c] = @ \cup {e}]
  PROVE  /\ Cardinality(registered') = Cardinality(registered) + 1
         /\ \A w \in Wait : Cardinality(At(w)') =
              Cardinality(At(w)) + (IF w[1] = c[1] /\ w[2] = e THEN 1 ELSE 0)
<1>1. /\ events'[c] = events[c] \cup {e} /\ \A d \in Ctx : d # c => events'[d] = events[d]
  BY DEF TypeOK
<1>2. registered' = registered \cup {<<c, e>>} /\ <<c, e>> \notin registered
  <2>1. ASSUME NEW d \in Ctx, NEW x \in Event
        PROVE  x \in events'[d] <=> x \in events[d] \/ (d = c /\ x = e)
    BY <1>1
  <2>2. \A r \in Ctx \X Event : r[2] \in events'[r[1]] <=> r[2] \in events[r[1]] \/ r = <<c, e>>
    BY <2>1, SMTT(60)
  <2> QED BY <2>2, SMTT(60) DEF registered
<1>3. Cardinality(registered') = Cardinality(registered) + 1
  BY <1>2, Finite, FS_AddElement
<1>4. ASSUME NEW w \in Wait
      PROVE  Cardinality(At(w)') =
               Cardinality(At(w)) + (IF w[1] = c[1] /\ w[2] = e THEN 1 ELSE 0)
  <2>1. CASE w[1] = c[1] /\ w[2] = e
    <3>1. At(w)' = At(w) \cup {<<c, e>>} /\ <<c, e>> \notin At(w)
      BY <1>2, <2>1, SMTT(60) DEF At
    <3> QED BY <2>1, <3>1, Finite, FS_AddElement
  <2>2. CASE ~(w[1] = c[1] /\ w[2] = e)
    <3>1. At(w)' = At(w)
      BY <1>2, <2>2, SMTT(60) DEF At
    <3> QED BY <2>2, <3>1, Finite, SMTT(60)
  <2> QED BY <2>1, <2>2
<1> QED BY <1>3, <1>4

LEMMA SameCounts ==
  ASSUME Counts, Wakers' = Wakers, UNCHANGED <<events, waitVars, m_pending_count>> PROVE Counts'
<1>1. registered' = registered
  BY DEF registered
<1> QED BY <1>1 DEF Counts, WaitConserved, PendingExact, Wakers, waitVars

\* The counts are kept by a step of a thread that registers or takes away nothing.
LEMMA MoveCounts ==
  ASSUME TypeOK, Counts, NEW p \in Proc, pc[p] # "wake", NEW label, label # "wake",
         pc' = [pc EXCEPT ![p] = label] \/ pc' = pc,
         UNCHANGED <<events, waitVars, m_pending_count>>
  PROVE  Counts'
<1>1. Wakers' = Wakers
  BY DEF Wakers, TypeOK
<1> QED BY <1>1, SameCounts

\* Taking events away keeps them if the waits and the pending count are told.
LEMMA TakeCounts ==
  ASSUME TypeOK, Counts, NEW c \in Ctx, NEW E \in SUBSET events[c],
         events' = [events EXCEPT ![c] = @ \ E], UNCHANGED added,
         \/ woken' = bump(woken, c[1], E) /\ deleted' = deleted
         \/ deleted' = bump(deleted, c[1], E) /\ woken' = woken,
         Cardinality(Wakers') \in Nat,
         m_pending_count' + Cardinality(Wakers') =
           m_pending_count + Cardinality(Wakers) - Cardinality(E)
  PROVE  Counts'
<1>1. /\ Cardinality(registered') = Cardinality(registered) - Cardinality(E)
      /\ \A w \in Wait : Cardinality(At(w)') =
           Cardinality(At(w)) - (IF w[1] = c[1] /\ w[2] \in E THEN 1 ELSE 0)
  BY LoseCounts
<1>2. PendingExact'
  <2>1. m_pending_count + Cardinality(Wakers) = Cardinality(registered)
    BY DEF Counts, PendingExact, Wakers
  <2>2. m_pending_count' + Cardinality(Wakers') =
          (m_pending_count + Cardinality(Wakers)) - Cardinality(E)
    <3>1. m_pending_count \in Int /\ Cardinality(Wakers) \in Nat
      BY Finite DEF TypeOK
    <3>2. E \in SUBSET Event
      BY DEF TypeOK
    <3>3. Cardinality(E) \in Nat
      BY <3>2, IOAssumption, FS_Subset, FS_CardinalityType
    <3> QED BY <3>1, <3>3, SMTT(60)
  <2>3. m_pending_count' + Cardinality(Wakers') = Cardinality(registered')
    BY <1>1, <2>1, <2>2
  <2> QED BY <2>3 DEF PendingExact, Wakers
<1>3. WaitConserved'
  <2> SUFFICES ASSUME NEW w \in Wait
               PROVE  added'[w] = woken'[w] + deleted'[w] + Cardinality(At(w)')
    BY DEF WaitConserved, At
  <2>1. /\ added[w] = woken[w] + deleted[w] + Cardinality(At(w))
        /\ added[w] \in Nat /\ woken[w] \in Nat /\ deleted[w] \in Nat
        /\ Cardinality(At(w)) \in Nat
    BY Finite DEF Counts, WaitConserved, At, TypeOK
  <2>2. woken'[w] + deleted'[w] =
          woken[w] + deleted[w] + (IF w[1] = c[1] /\ w[2] \in E THEN 1 ELSE 0)
    BY <2>1, SMTT(60) DEF bump
  <2>3. woken'[w] \in Nat /\ deleted'[w] \in Nat
    BY <2>1, SMTT(60) DEF bump
  <2> QED BY <1>1, <2>1, <2>2, <2>3, SMTT(60)
<1> QED BY <1>2, <1>3 DEF Counts

LEMMA StepCounts == ASSUME IOInv, Counts, NEW p \in Proc, Step(p) PROVE Counts'
<1> USE IOAssumption DEF IOInv
<1>0. PICK fd, e, c : fd = arg[p].fd /\ e = arg[p].event /\ c = arg[p].ctx
  OBVIOUS
<1> USE <1>0
<1>a. ASSUME NEW why, abort(p, why) PROVE Counts'
  BY <1>a, SameCounts DEF abort, Wakers
<1>1. CASE Resize(p) \/ Lookup(p) \/ Check(p) \/ CloseFd(p)
  <2>1. /\ pc[p] # "wake" /\ UNCHANGED <<events, waitVars, m_pending_count>>
        /\ \E label \in Label : label # "wake" /\ (pc' = [pc EXCEPT ![p] = label] \/ pc' = pc)
    BY <1>1 DEF Resize, Lookup, Check, check, CloseFd, begin, done, abort, Label
  <2> QED BY <2>1, MoveCounts
<1>2. CASE Register(p)
  <2>0. pc[p] = "add" /\ c \in Ctx /\ e \in Event /\ c[1] = fd
    BY <1>2 DEF Register, Args, Fits
  <2>1. CASE ~((events[c] = {} <=> epoll[fd] # Null) \/ <<c, e>> \in used)
    <3>1. /\ events' = [events EXCEPT ![c] = @ \cup {e}] /\ pc' = [pc EXCEPT ![p] = "ready"]
          /\ m_pending_count' = m_pending_count + 1 /\ added' = bump(added, fd, {e})
          /\ UNCHANGED <<woken, deleted>>
      BY <1>2, <2>1 DEF Register, done
    <3>2. e \in Event \ events[c]
      BY <2>0, <2>1 DEF Waiters
    <3>3. /\ Cardinality(registered') = Cardinality(registered) + 1
          /\ \A w \in Wait : Cardinality(At(w)') =
               Cardinality(At(w)) + (IF w[1] = c[1] /\ w[2] = e THEN 1 ELSE 0)
      <4>1. TypeOK /\ events' = [events EXCEPT ![c] = @ \cup {e}]
        BY <3>1
      <4>2. c \in Ctx /\ e \in Event \ events[c]
        BY <2>0, <3>2
      <4> HIDE <1>0
      <4> QED BY <4>1, <4>2, GainCounts
    <3>4. Wakers' = Wakers
      BY <2>0, <3>1 DEF Wakers, TypeOK
    <3>5. PendingExact'
      <4>1. m_pending_count + Cardinality(Wakers) = Cardinality(registered)
        BY DEF Counts, PendingExact, Wakers
      <4>2. Cardinality(Wakers) \in Nat /\ m_pending_count \in Int
        BY Finite, ZenonT(60) DEF TypeOK
      <4>3. m_pending_count' + Cardinality(Wakers') = Cardinality(registered')
        BY <3>1, <3>3, <3>4, <4>1, <4>2, SMTT(60)
      <4> QED BY <4>3 DEF PendingExact, Wakers
    <3>6. WaitConserved'
      <4> SUFFICES ASSUME NEW w \in Wait
                   PROVE  added'[w] = woken'[w] + deleted'[w] + Cardinality(At(w)')
        BY DEF WaitConserved, At
      <4>1. /\ added[w] = woken[w] + deleted[w] + Cardinality(At(w))
            /\ woken[w] \in Nat /\ deleted[w] \in Nat /\ Cardinality(At(w)) \in Nat
        BY Finite, ZenonT(60) DEF Counts, WaitConserved, At, TypeOK
      <4>2. added'[w] = added[w] + (IF w[1] = c[1] /\ w[2] = e THEN 1 ELSE 0)
        BY <2>0, <3>1, <4>1, SMTT(60) DEF bump
      <4> QED BY <3>1, <3>3, <4>1, <4>2, SMTT(60)
    <3> QED BY <3>5, <3>6 DEF Counts
  <2> QED BY <1>2, <1>a, <2>1 DEF Register
<1>3. CASE DelEvent(p)
  <2>0. pc[p] = "del" /\ c \in Ctx /\ c[1] = fd
    BY <1>3 DEF DelEvent, Args, Fits
  <2>1. CASE e \notin events[c]
    BY <1>3, <2>0, <2>1, MoveCounts DEF DelEvent, done, waitVars
  <2>2. CASE e \in events[c] /\ epoll[fd] # Null
    <3>1. /\ events' = [events EXCEPT ![c] = @ \ {e}] /\ pc' = [pc EXCEPT ![p] = "ready"]
          /\ m_pending_count' = m_pending_count - 1 /\ deleted' = bump(deleted, c[1], {e})
          /\ UNCHANGED <<added, woken>>
      BY <1>3, <2>0, <2>2 DEF DelEvent, done
    <3>2. Wakers' = Wakers /\ Cardinality({e}) = 1 /\ {e} \in SUBSET events[c]
      BY <2>0, <2>2, <3>1, FS_Singleton, ZenonT(60) DEF Wakers, TypeOK
    <3>3. Cardinality(Wakers) \in Nat /\ m_pending_count \in Int
      BY Finite DEF TypeOK
    <3>4. /\ Cardinality(Wakers') \in Nat
          /\ m_pending_count' + Cardinality(Wakers') =
               m_pending_count + Cardinality(Wakers) - Cardinality({e})
      BY <3>1, <3>2, <3>3, SMTT(60)
    <3> QED BY <2>0, <3>1, <3>2, <3>4, TakeCounts
  <2> QED BY <1>3, <1>a, <2>1, <2>2 DEF DelEvent
<1>4. CASE CancelEvent(p)
  <2>0. pc[p] = "cancel" /\ c \in Ctx /\ c[1] = fd
    BY <1>4 DEF CancelEvent, cancel, Args, Fits
  <2>1. CASE e \notin events[c]
    BY <1>4, <2>0, <2>1, MoveCounts DEF CancelEvent, cancel, done
  <2>2. CASE e \in events[c] /\ epoll[fd] # Null
    <3>1. /\ pc' = [pc EXCEPT ![p] = "wake"] /\ m_pending_count' = m_pending_count - 1
          /\ UNCHANGED <<events, waitVars>>
      BY <1>4, <2>2, ZenonT(60) DEF CancelEvent, cancel
    <3>2. Wakers' = Wakers \cup {p} /\ p \notin Wakers /\ registered' = registered
      BY <2>0, <3>1, SMTT(60) DEF Wakers, TypeOK, registered
    <3>3. IsFiniteSet(Wakers) /\ Cardinality(Wakers) \in Nat /\ m_pending_count \in Int
      BY Finite DEF TypeOK
    <3>4. Cardinality(Wakers') = Cardinality(Wakers) + 1
      BY <3>2, <3>3, FS_AddElement
    <3>5. m_pending_count' + Cardinality(Wakers') = m_pending_count + Cardinality(Wakers)
      BY <3>1, <3>3, <3>4, SMTT(60)
    <3>6. PendingExact'
      BY <3>2, <3>5 DEF Counts, PendingExact, Wakers
    <3>7. WaitConserved'
      BY <3>1, <3>2 DEF Counts, WaitConserved, waitVars
    <3> QED BY <3>6, <3>7 DEF Counts
  <2> QED BY <1>4, <1>a, <2>1, <2>2 DEF CancelEvent, cancel
<1>5. CASE CancelWake(p)
  <2>0. pc[p] = "wake" /\ c \in Ctx /\ c[1] = fd /\ e \in events[c] /\ <<c, e>> \in used
    <3>1. pc[p] = "wake" /\ c \in Ctx /\ c[1] = fd
      BY <1>5 DEF CancelWake, Args, Fits
    <3>2. e \in events[c]
      BY <3>1, SMTT(60) DEF Locks
    <3> QED BY <3>1, <3>2 DEF Waiters
  <2>1. /\ events' = [events EXCEPT ![c] = @ \ {e}] /\ pc' = [pc EXCEPT ![p] = "ready"]
        /\ woken' = bump(woken, c[1], {e}) /\ UNCHANGED <<m_pending_count, added, deleted>>
    BY <1>5, <2>0 DEF CancelWake, done
  <2>2. Wakers' = Wakers \ {p} /\ p \in Wakers
    BY <2>0, <2>1 DEF Wakers, TypeOK
  <2>3. IsFiniteSet(Wakers) /\ Cardinality(Wakers) \in Nat /\ m_pending_count \in Int
    BY Finite DEF TypeOK
  <2>4. IsFiniteSet(Wakers') /\ Cardinality(Wakers') = Cardinality(Wakers) - 1
    BY <2>2, <2>3, FS_RemoveElement
  <2>5. Cardinality({e}) = 1 /\ {e} \in SUBSET events[c] /\ Cardinality(Wakers') \in Nat
    BY <2>0, <2>4, FS_Singleton, FS_CardinalityType
  <2>6. m_pending_count' + Cardinality(Wakers') =
          m_pending_count + Cardinality(Wakers) - Cardinality({e})
    BY <2>1, <2>3, <2>4, <2>5
  <2> QED BY <2>0, <2>1, <2>5, <2>6, TakeCounts
<1>6. CASE CancelAll(p)
  <2>0. pc[p] = "close" /\ c \in Ctx /\ c[1] = fd /\ \A x \in events[c] : <<c, x>> \in used
    BY <1>6 DEF CancelAll, Args, Fits, Waiters
  <2>1. CASE events[c] = {} \/ epoll[fd] = Null
    BY <1>6, <2>0, <2>1, MoveCounts DEF CancelAll, waitVars
  <2>2. CASE ~(events[c] = {} \/ epoll[fd] = Null)
    <3>1. /\ events' = [events EXCEPT ![c] = @ \ events[c]] /\ pc' = [pc EXCEPT ![p] = "closing"]
          /\ woken' = bump(woken, c[1], events[c])
          /\ m_pending_count' = m_pending_count - Cardinality(events[c])
          /\ UNCHANGED <<added, deleted>>
      BY <1>6, <2>0, <2>2, ZenonT(60) DEF CancelAll
    <3>2. Wakers' = Wakers
      BY <2>0, <3>1 DEF Wakers, TypeOK
    <3>3. events[c] \in SUBSET Event
      BY <2>0, SMTT(60) DEF TypeOK
    <3>4. Cardinality(events[c]) \in Nat
      BY <3>3, FS_Subset, FS_CardinalityType, ZenonT(60)
    <3>5. Cardinality(Wakers) \in Nat /\ m_pending_count \in Int
      BY Finite DEF TypeOK
    <3>6. /\ Cardinality(Wakers') \in Nat
          /\ m_pending_count' + Cardinality(Wakers') =
               m_pending_count + Cardinality(Wakers) - Cardinality(events[c])
      BY <3>1, <3>2, <3>4, <3>5, SMTT(60)
    <3> QED BY <2>0, <3>1, <3>6, TakeCounts
  <2> QED BY <2>1, <2>2
<1>7. CASE ScheduleEvent(p)
  <2>0. pc[p] = "event" /\ c \in Ctx /\ c[1] = fd
    BY <1>7 DEF ScheduleEvent, trigger, Args, Fits
  <2>a. PICK T : T = triggered(p)
    OBVIOUS
  <2>1. CASE events[c] \cap T = {} \/ epoll[fd] = Null
    BY <1>7, <2>0, <2>a, <2>1, MoveCounts DEF ScheduleEvent, trigger, done, waitVars
  <2>2. CASE ~(events[c] \cap T = {} \/ epoll[fd] = Null) /\ T \subseteq events[c]
    <3>0. \A x \in T : <<c, x>> \in used
      BY <2>0, <2>2 DEF Waiters
    <3>1. /\ events' = [events EXCEPT ![c] = @ \ T] /\ pc' = [pc EXCEPT ![p] = "ready"]
          /\ woken' = bump(woken, c[1], T) /\ m_pending_count' = m_pending_count - Cardinality(T)
          /\ UNCHANGED <<added, deleted>>
      BY <1>7, <2>0, <2>a, <2>2, <3>0 DEF ScheduleEvent, trigger, done
    <3>2. Wakers' = Wakers
      BY <2>0, <3>1, ZenonT(60) DEF Wakers, TypeOK
    <3>3. T \in SUBSET Event
      BY <2>0, <2>2, SMTT(60) DEF TypeOK
    <3>4. Cardinality(T) \in Nat
      BY <3>3, FS_Subset, FS_CardinalityType, ZenonT(60)
    <3>5. Cardinality(Wakers) \in Nat /\ m_pending_count \in Int
      BY Finite DEF TypeOK
    <3>6. /\ Cardinality(Wakers') \in Nat
          /\ m_pending_count' + Cardinality(Wakers') =
               m_pending_count + Cardinality(Wakers) - Cardinality(T)
      BY <3>1, <3>2, <3>4, <3>5, SMTT(60)
    <3> QED BY <2>0, <2>2, <3>1, <3>6, TakeCounts
  <2>3. CASE ~(events[c] \cap T = {} \/ epoll[fd] = Null) /\ ~(T \subseteq events[c])
    BY <1>7, <1>a, <2>a, <2>3 DEF ScheduleEvent, trigger
  <2> QED BY <2>1, <2>2, <2>3
<1> QED BY <1>1, <1>2, <1>3, <1>4, <1>5, <1>6, <1>7 DEF Step

LEMMA CountsStep == ASSUME IOInv, Counts, [Next]_vars PROVE Counts'
<1>1. CASE UNCHANGED vars
  BY <1>1, SameCounts DEF vars, Wakers
<1>2. CASE Halt
  BY <1>1, <1>2 DEF Halt
<1>3. ASSUME NEW p \in Proc, Call(p) \/ \E fd \in Fd : EpollWait(p, fd) PROVE Counts'
  <2>1. /\ pc[p] # "wake" /\ UNCHANGED <<events, waitVars, m_pending_count>>
        /\ \E label \in Label : label # "wake" /\ pc' = [pc EXCEPT ![p] = label]
    BY <1>3 DEF Call, AddEvent, FindContext, EpollWait, begin, Label
  <2> QED BY <2>1, MoveCounts DEF IOInv
<1> QED BY <1>1, <1>2, <1>3, StepCounts DEF Next, Poll

LEMMA CountsInit == ASSUME Initialised, Init PROVE Counts
<1>1. registered = {}
  BY DEF Init, Initialised, registered
<1>2. Cardinality({}) = 0 /\ {p \in Proc : pc[p] = "wake"} = {}
  BY FS_EmptySet DEF Init
<1>3. PendingExact
  BY <1>1, <1>2, SMTT(60) DEF Init, PendingExact
<1>4. WaitConserved
  <2>1. \A w \in Wait : {r \in registered : r[1][1] = w[1] /\ r[2] = w[2]} = {}
    BY <1>1
  <2>2. \A w \in Wait : added[w] = 0 /\ woken[w] = 0 /\ deleted[w] = 0
    BY DEF Init
  <2> QED BY <1>2, <2>1, <2>2, SMTT(60) DEF WaitConserved
<1> QED BY <1>3, <1>4 DEF Counts

LEMMA CountsInvariant == ASSUME Initialised PROVE Spec => []Counts
<1>1. Init => Counts
  BY CountsInit
<1>2. IOInv /\ Counts /\ [Next]_vars => Counts'
  BY CountsStep
<1> QED BY <1>1, <1>2, IOInvariant, PTL DEF Spec

\* No registered wait is lost and none is woken twice.
THEOREM WaitsAreConserved == ASSUME Initialised PROVE Spec => []WaitConserved
<1>1. Counts => WaitConserved
  BY DEF Counts
<1> QED BY <1>1, CountsInvariant, PTL

\* m_pending_count is the number of waiters stop() has to wait for.
THEOREM PendingCountIsExact == ASSUME Initialised PROVE Spec => []PendingExact
<1>1. Counts => PendingExact
  BY DEF Counts
<1> QED BY <1>1, CountsInvariant, PTL

-----------------------------------------------------------------------------
(* Why ASSERTs fail *)

LEMMA AbortForReason ==
  ASSUME IOInv, running, NEW p \in Proc, NEW why \in Faults, abort(p, why), reason(p, why)
  PROVE  AbortsOnlyFor'
<1>1. \A q \in Proc : fault'[q] = IF q = p THEN why ELSE "none"
  BY DEF abort, running, IOInv, TypeOK
<1>2. reason(p, why)'
  BY DEF abort, reason, tableVars, waitVars
<1>3. \A q : reason(q, "none")'
  BY DEF reason
<1> QED BY <1>1, <1>2, <1>3 DEF AbortsOnlyFor

\* A thread that waits for an event of a context has not been woken yet.
LEMMA RegisteredIsAdded ==
  ASSUME TypeOK, WaitConserved, NEW c \in Ctx, NEW e \in Event, e \in events[c]
  PROVE  added[<<c[1], e>>] > woken[<<c[1], e>>] + deleted[<<c[1], e>>]
<1> DEFINE w == <<c[1], e>>
<1>1. w \in Wait /\ w[1] = c[1] /\ w[2] = e
  BY DEF Wait, Ctx
<1>2. <<c, e>> \in At(w)
  BY <1>1 DEF At, registered
<1> HIDE DEF w
<1>3. IsFiniteSet(At(w)) /\ Cardinality(At(w)) \in Nat /\ Cardinality(At(w)) # 0
  <2>1. IsFiniteSet(At(w)) /\ Cardinality(At(w)) \in Nat
    BY <1>1, Finite
  <2> QED BY <1>2, <2>1, FS_EmptySet
<1>4. /\ added[w] = woken[w] + deleted[w] + Cardinality(At(w))
      /\ woken[w] \in Nat /\ deleted[w] \in Nat
  BY <1>1 DEF WaitConserved, At, TypeOK
<1>5. added[w] > woken[w] + deleted[w]
  BY <1>3, <1>4, SMTT(60)
<1> QED BY <1>5 DEF w

LEMMA AbortsHaveReasons ==
  ASSUME IOInv, WaitConserved, running, NEW p \in Proc, Step(p) PROVE AbortsOnlyFor'
<1> USE IOAssumption DEF IOInv
<1>0. PICK fd, e, c : fd = arg[p].fd /\ e = arg[p].event /\ c = arg[p].ctx
  OBVIOUS
<1> USE <1>0
<1>a. ASSUME fault' = fault PROVE AbortsOnlyFor'
  BY <1>a DEF AbortsOnlyFor, running, reason
<1>b. ASSUME abort(p, "epoll_ctl"), fd \in closed \/ created[fd] > 1 PROVE AbortsOnlyFor'
  <2>1. reason(p, "epoll_ctl")
    BY <1>b DEF reason
  <2> QED BY <1>b, <2>1, AbortForReason DEF Faults
<1>1. CASE Lookup(p)
  <2>1. CASE table[fd] = 0
    <3>1. fd \in Fd /\ created[fd] > 0 /\ abort(p, "out_of_range")
      BY <1>1, <2>1 DEF Lookup, Args, Fits
    <3>2. size <= fd
      <4>1. ~(fd < size) /\ fd \in Nat /\ size \in Nat
        BY <2>1, <3>1 DEF Tables, TypeOK
      <4> QED BY <4>1, SMTT(60)
    <3>3. reason(p, "out_of_range")
      BY <3>1, <3>2 DEF reason
    <3> QED BY <3>1, <3>3, AbortForReason DEF Faults
  <2> QED BY <1>1, <1>a, <2>1 DEF Lookup
<1>2. CASE Check(p)
  <2>1. CASE e \in events[c]
    <3>1. c \in Ctx /\ c[1] = fd /\ e \in Event /\ abort(p, "already_exists")
      BY <1>2, <2>1 DEF Check, check, Args, Fits
    <3>2. added[<<fd, e>>] > woken[<<fd, e>>] + deleted[<<fd, e>>]
      BY <2>1, <3>1, RegisteredIsAdded
    <3>3. reason(p, "already_exists")
      BY <3>2 DEF reason
    <3> QED BY <3>1, <3>3, AbortForReason DEF Faults
  <2> QED BY <1>2, <1>a, <2>1 DEF Check, check
<1>3. CASE Register(p)
  <2>0. /\ c \in Ctx /\ e \in Event /\ c[1] = fd /\ fd \in Fd /\ c[2] <= created[fd]
        /\ mtx[c] = Null /\ due(c) = events[c]
    BY <1>3 DEF Register, Args, Fits, due
  <2>1. CASE events[c] = {} /\ epoll[fd] # Null
    <3>1. abort(p, "epoll_ctl")
      BY <1>3, <2>1 DEF Register
    <3> DEFINE d == epoll[fd].ctx
    <3>2. d \in Ctx /\ d[1] = fd /\ d[2] <= created[fd]
      BY <2>0, <2>1, ZenonT(60) DEF TypeOK, Kernel, Registration
    <3>3. d # c
      BY <2>0, <2>1 DEF Kernel, watched
    <3>4. created[fd] > 1
      <4>1. created[fd] \in 0..MaxGen /\ c[2] \in 1..MaxGen /\ d[2] \in 1..MaxGen
        BY <2>0, <3>2, ZenonT(60) DEF TypeOK, Ctx
      <4>2. c[2] # d[2]
        BY <2>0, <3>2, <3>3, SMTT(60) DEF Ctx
      <4> QED BY <2>0, <3>2, <4>1, <4>2, SMTT(60)
    <3> QED BY <1>b, <2>0, <3>1, <3>4
  <2>2. CASE events[c] # {} /\ epoll[fd] = Null
    <3>1. abort(p, "epoll_ctl") /\ fd \in closed
      BY <1>3, <2>0, <2>2 DEF Register, Kernel, watched
    <3> QED BY <1>b, <3>1
  <2>3. CASE ~(events[c] = {} <=> epoll[fd] # Null) /\ <<c, e>> \in used
    <3>1. abort(p, "context_in_use") /\ added[<<fd, e>>] > 0
      BY <1>3, <2>0, <2>3 DEF Register, Waiters
    <3>2. reason(p, "context_in_use")
      BY <3>1 DEF reason
    <3> QED BY <3>1, <3>2, AbortForReason DEF Faults
  <2>4. CASE ~(events[c] = {} <=> epoll[fd] # Null) /\ <<c, e>> \notin used
    BY <1>3, <1>a, <2>4 DEF Register
  <2> QED BY <2>1, <2>2, <2>3, <2>4
<1>4. CASE DelEvent(p) \/ CancelEvent(p)
  <2>0. c \in Ctx /\ c[1] = fd /\ mtx[c] = Null /\ due(c) = events[c]
    BY <1>4, ZenonT(60) DEF DelEvent, CancelEvent, cancel, Args, Fits, due
  <2>1. CASE e \in events[c] /\ epoll[fd] = Null
    <3>1. abort(p, "epoll_ctl") /\ fd \in closed
      BY <1>4, <2>0, <2>1, SMTT(60) DEF DelEvent, CancelEvent, cancel, Kernel, watched
    <3> QED BY <1>b, <3>1
  <2> QED BY <1>4, <1>a, <2>1 DEF DelEvent, CancelEvent, cancel
<1>5. CASE CancelWake(p)
  <2>1. <<c, e>> \in used
    <3>1. pc[p] = "wake" /\ c \in Ctx
      BY <1>5 DEF CancelWake, Args, Fits
    <3>2. mtx[c] = p /\ p # Null
      BY <3>1, IOAssumption, ZenonT(60) DEF Locks
    <3>3. e \in events[c]
      BY <3>1, <3>2 DEF Locks
    <3> QED BY <3>1, <3>3 DEF Waiters
  <2> QED BY <1>5, <1>a, <2>1, ZenonT(60) DEF CancelWake
<1>6. CASE CancelAll(p)
  <2>1. \A x \in events[c] : <<c, x>> \in used
    BY <1>6 DEF CancelAll, Args, Fits, Waiters
  <2> QED BY <1>6, <1>a, <2>1 DEF CancelAll
<1>7. CASE ScheduleEvent(p)
  <2>0. c \in Ctx /\ (\A x \in arg[p].got : x \in events[c] \/ Ended(woken, deleted, fd, x))
    BY <1>7 DEF ScheduleEvent, trigger, Args, Fits
  <2>1. CASE ~(triggered(p) \subseteq events[c]) /\ fault' # fault
    <3>1. abort(p, "not_registered")
      BY <1>7, <2>1 DEF ScheduleEvent, trigger
    <3>2. arg[p].got \ events[c] # {}
      BY <2>1 DEF triggered
    <3>3. reason(p, "not_registered")
      BY <2>0, <3>2 DEF reason, Ended
    <3> QED BY <3>1, <3>3, AbortForReason DEF Faults
  <2>2. CASE triggered(p) \subseteq events[c]
    <3>1. \A x \in triggered(p) : <<c, x>> \in used
      BY <2>0, <2>2 DEF Waiters
    <3> QED BY <1>7, <1>a, <2>2, <3>1 DEF ScheduleEvent, trigger
  <2> QED BY <1>a, <2>1, <2>2
<1>8. CASE Resize(p) \/ CloseFd(p)
  BY <1>8, <1>a DEF Resize, CloseFd
<1> QED BY <1>1, <1>2, <1>3, <1>4, <1>5, <1>6, <1>7, <1>8 DEF Step

LEMMA ReasonsStep == ASSUME IOInv, WaitConserved, AbortsOnlyFor, [Next]_vars PROVE AbortsOnlyFor'
<1>1. CASE UNCHANGED vars
  BY <1>1 DEF vars, tableVars, waitVars, AbortsOnlyFor, reason
<1>2. CASE Halt
  BY <1>1, <1>2 DEF Halt
<1>3. ASSUME running, fault' = fault PROVE AbortsOnlyFor'
  BY <1>3 DEF AbortsOnlyFor, running, reason
<1>4. ASSUME running, NEW p \in Proc, Call(p) PROVE AbortsOnlyFor'
  BY <1>3, <1>4 DEF Call, AddEvent, FindContext
<1>5. ASSUME running, NEW fd \in Fd, Poll(fd) PROVE AbortsOnlyFor'
  BY <1>3, <1>5 DEF Poll, EpollWait
<1> QED BY <1>1, <1>2, <1>4, <1>5, AbortsHaveReasons DEF Next

\* The ASSERTs of the IO manager fail a thread for the reasons listed, which are
\* about its own descriptor and event, and for no other (iomanager.cpp:55-146).
THEOREM AbortsOnlyForReasons == ASSUME Initialised PROVE Spec => []AbortsOnlyFor
<1>1. Init => AbortsOnlyFor
  BY DEF Init, AbortsOnlyFor, reason
<1>2. IOInv /\ WaitConserved /\ AbortsOnlyFor /\ [Next]_vars => AbortsOnlyFor'
  BY ReasonsStep
<1> QED BY <1>1, <1>2, IOInvariant, WaitsAreConserved, PTL DEF Spec
=============================================================================
