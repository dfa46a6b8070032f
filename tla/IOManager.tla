------------------------------ MODULE IOManager ------------------------------
(***************************************************************************)
(* The IO manager of EVA01: iomanager.cpp and iomanager.h, with the hooked *)
(* close() of hook.cpp and the kernel's epoll as far as they concern it.   *)
(*                                                                         *)
(* Threads call addEvent(), delEvent(), cancelEvent() and close(), and     *)
(* handle the events epoll_wait returned to them.  The table of contexts   *)
(* is read or resized under m_mutex; a context is used afterwards, under   *)
(* its own mtx, and an event is handled some time after epoll returned it. *)
(***************************************************************************)
EXTENDS Integers, FiniteSets

CONSTANTS
  Fd,          \* file descriptors, by number
  Event,       \* READ and WRITE
  Proc,        \* threads
  Ops,         \* the calls threads make
  Waits,       \* bound: the waits, <<fd, event>>, that they are about
  InitEvents,  \* what the uninitialised FdContext::events may read as
  InitSize,    \* DEFAULT_FD_CONTEXTS_SIZE
  MaxGen,      \* bound on the contexts created for one descriptor
  Null

\* The g-th FdContext created for a descriptor.
Ctx  == Fd \X (1..MaxGen)
Wait == Fd \X Event

\* What epoll keeps of a descriptor.
Registration == [mask : SUBSET Event, ctx : Ctx]

ASSUME IOAssumption ==
  /\ Fd \subseteq Nat /\ IsFiniteSet(Fd) /\ IsFiniteSet(Event) /\ IsFiniteSet(Proc)
  /\ Ops \subseteq {"add", "del", "cancel", "close"} /\ Waits \subseteq Wait
  /\ InitEvents \subseteq SUBSET Event /\ InitSize \in Nat /\ InitSize > 1
  /\ MaxGen \in Nat \ {0} /\ Null \notin Proc \cup Registration

VARIABLES
  size,      \* m_fd_contexts.size()
  created,   \* how many contexts were created for each descriptor
  table,     \* m_fd_contexts: which of them the table holds, 0 for none
  events,    \* FdContext::events
  used,      \* the <<context, event>> whose EventContext is not empty
  mtx,       \* the thread holding FdContext::mtx across steps, or Null
  epoll,     \* the kernel: what is registered for a descriptor, or Null
  m_pending_count,
  pc, arg,   \* where each thread is, and its arguments and locals
  closed,    \* history: descriptors closed so far
  added, woken, deleted,  \* history: waits registered, woken and deleted
  fault      \* the failed ASSERT, or the undefined behaviour, a thread reached

tableVars == <<size, created, table, closed>>
waitVars  == <<added, woken, deleted>>
vars == <<tableVars, events, used, mtx, epoll, m_pending_count, pc, arg, waitVars,
          fault>>

NoArg == [fd |-> Null, event |-> Null, ctx |-> Null, got |-> {}]

\* resizeContexts(): which context the table holds for x after resize(new).
held(new, x)  == IF x >= new THEN 0
                 ELSE IF table[x] # 0 THEN table[x] ELSE created[x] + 1

Init ==
  /\ size = InitSize
  /\ table = [x \in Fd |-> IF x < InitSize THEN 1 ELSE 0]
  /\ created = table
  /\ \E init \in [Ctx -> InitEvents] : events = init
  /\ used = {} /\ mtx = [c \in Ctx |-> Null]
  /\ epoll = [x \in Fd |-> Null] /\ m_pending_count = 0
  /\ pc = [p \in Proc |-> "ready"] /\ arg = [p \in Proc |-> NoArg]
  /\ closed = {} /\ added = [w \in Wait |-> 0] /\ woken = added /\ deleted = added
  /\ fault = [p \in Proc |-> "none"]

begin(p, label, fd, e, c, got) ==
  /\ pc' = [pc EXCEPT ![p] = label]
  /\ arg' = [arg EXCEPT ![p] = [fd |-> fd, event |-> e, ctx |-> c, got |-> got]]
done(p) ==
  /\ pc' = [pc EXCEPT ![p] = "ready"] /\ arg' = [arg EXCEPT ![p] = NoArg]

abort(p, why) ==
  /\ fault' = [fault EXCEPT ![p] = why]
  /\ UNCHANGED <<tableVars, events, used, mtx, epoll, m_pending_count, pc, arg, waitVars>>

\* epoll_ctl: ADD needs an unregistered descriptor, MOD and DEL a registered one.
\* Registering no event removes the descriptor.
register(fd, mask, c) ==
  epoll' = [epoll EXCEPT ![fd] = IF mask = {} THEN Null ELSE [mask |-> mask, ctx |-> c]]

bump(count, fd, E) ==
  [w \in Wait |-> IF w[1] = fd /\ w[2] \in E THEN count[w] + 1 ELSE count[w]]

-----------------------------------------------------------------------------
(* addEvent() *)

\* The size of the table is read in a section of its own.
AddEvent(p, fd, e) ==
  /\ pc[p] = "ready" /\ "add" \in Ops
  /\ begin(p, IF size <= fd THEN "resize" ELSE "lookup", fd, e, Null, {})
  /\ UNCHANGED <<tableVars, events, used, mtx, epoll, m_pending_count, waitVars, fault>>

\* resizeContexts(fd * 1.5), whatever the size has become; a smaller size
\* drops contexts that are in use.
Resize(p) ==
  LET fd == arg[p].fd
      new == (fd * 3) \div 2
  IN
  /\ pc[p] = "resize" /\ \A x \in Fd : held(new, x) <= MaxGen
  /\ size' = new
  /\ table' = [x \in Fd |-> held(new, x)]
  /\ created' = [x \in Fd |-> IF table'[x] > created[x] THEN table'[x] ELSE created[x]]
  /\ begin(p, "check", fd, arg[p].event, <<fd, table'[fd]>>, {})
  /\ UNCHANGED <<closed, events, used, mtx, epoll, m_pending_count, waitVars, fault>>

\* m_fd_contexts[fd], out of range if another thread has shrunk the table.
Lookup(p) ==
  LET fd == arg[p].fd IN
  /\ pc[p] = "lookup"
  /\ IF table[fd] = 0 THEN abort(p, "out_of_range")
     ELSE /\ begin(p, "check", fd, arg[p].event, <<fd, table[fd]>>, {})
          /\ UNCHANGED <<tableVars, events, used, mtx, epoll, m_pending_count,
                         waitVars, fault>>

check(p, exists) ==
  /\ pc[p] = "check"
  /\ IF exists THEN abort(p, "already_exists")
     ELSE /\ pc' = [pc EXCEPT ![p] = "add"]
          /\ UNCHANGED <<tableVars, events, used, mtx, epoll, m_pending_count, arg,
                         waitVars, fault>>

\* Mutant of Check: a wait for the other event counts as well.
CheckAny(p) == check(p, events[arg[p].ctx] # {})

\* The check for an event that already exists, before mtx is taken.
Check(p) == check(p, arg[p].event \in events[arg[p].ctx])

\* The section under mtx: a failed epoll_ctl and a context not empty abort.
Register(p) ==
  LET fd == arg[p].fd
      e == arg[p].event
      c == arg[p].ctx
  IN
  /\ pc[p] = "add" /\ mtx[c] = Null
  /\ IF events[c] = {} <=> epoll[fd] # Null THEN abort(p, "epoll_ctl")
     ELSE IF <<c, e>> \in used THEN abort(p, "context_in_use")
     ELSE /\ register(fd, events[c] \cup {e}, c)
          /\ events' = [events EXCEPT ![c] = @ \cup {e}]
          /\ used' = used \cup {<<c, e>>}
          /\ m_pending_count' = m_pending_count + 1
          /\ added' = bump(added, fd, {e})
          /\ done(p)
          /\ UNCHANGED <<tableVars, mtx, woken, deleted, fault>>

-----------------------------------------------------------------------------
(* delEvent(), cancelEvent() and the hooked close() *)

\* All three begin by looking the context up; a descriptor beyond the table
\* has none, and delEvent() and cancelEvent() return.  close() goes on without
\* cancelAll() then, and always where it is not hooked or finds no FdCtx.
FindContext(p, fd, e, op) ==
  /\ pc[p] = "ready" /\ op \in Ops
  /\ \/ size > fd /\ begin(p, op, fd, e, <<fd, table[fd]>>, {})
     \/ op = "close" /\ begin(p, "closing", fd, e, Null, {})
  /\ UNCHANGED <<tableVars, events, used, mtx, epoll, m_pending_count, waitVars, fault>>

\* delEvent() under mtx.  FdContext::resetContext works on a copy: the context
\* stays used.
DelEvent(p) ==
  LET fd == arg[p].fd
      e == arg[p].event
      c == arg[p].ctx
  IN
  /\ pc[p] = "del" /\ mtx[c] = Null
  /\ IF e \notin events[c]
     THEN done(p) /\ UNCHANGED <<events, epoll, m_pending_count, deleted, fault,
                                 tableVars, used, mtx, added, woken>>
     ELSE IF epoll[fd] = Null THEN abort(p, "epoll_ctl")
     ELSE /\ register(fd, events[c] \ {e}, c)
          /\ events' = [events EXCEPT ![c] = @ \ {e}]
          /\ m_pending_count' = m_pending_count - 1
          /\ deleted' = bump(deleted, fd, {e})
          /\ done(p)
          /\ UNCHANGED <<tableVars, used, mtx, added, woken, fault>>

cancel(p, count) ==
  LET fd == arg[p].fd
      e == arg[p].event
      c == arg[p].ctx
  IN
  /\ pc[p] = "cancel" /\ mtx[c] = Null
  /\ IF e \notin events[c]
     THEN done(p) /\ UNCHANGED <<mtx, epoll, m_pending_count, fault, tableVars, events,
                                 used, waitVars>>
     ELSE IF epoll[fd] = Null THEN abort(p, "epoll_ctl")
     ELSE /\ register(fd, events[c] \ {e}, c)
          /\ m_pending_count' = count
          /\ mtx' = [mtx EXCEPT ![c] = p]
          /\ pc' = [pc EXCEPT ![p] = "wake"]
          /\ UNCHANGED <<tableVars, events, used, arg, waitVars, fault>>

\* Mutant of CancelEvent: the event stays counted.
CancelUncounted(p) == cancel(p, m_pending_count)

\* cancelEvent(): the count goes down before the waiter is scheduled.
CancelEvent(p) == cancel(p, m_pending_count - 1)

\* FdContext::scheduleEvent(event), still under mtx.  The EventContext is a
\* copy: the context stays used.
CancelWake(p) ==
  LET c == arg[p].ctx IN
  /\ pc[p] = "wake"
  /\ IF <<c, arg[p].event>> \notin used THEN abort(p, "no_waiter")
     ELSE /\ events' = [events EXCEPT ![c] = @ \ {arg[p].event}]
          /\ woken' = bump(woken, arg[p].fd, {arg[p].event})
          /\ mtx' = [mtx EXCEPT ![c] = Null]
          /\ done(p)
          /\ UNCHANGED <<tableVars, used, epoll, m_pending_count, added, deleted, fault>>

\* cancelAll(), the section under mtx, called by close().
CancelAll(p) ==
  LET fd == arg[p].fd
      c == arg[p].ctx
  IN
  /\ pc[p] = "close" /\ mtx[c] = Null
  /\ IF events[c] = {} \/ epoll[fd] = Null
     THEN /\ pc' = [pc EXCEPT ![p] = "closing"]
          /\ UNCHANGED <<events, epoll, m_pending_count, woken, fault, tableVars, used,
                         mtx, arg, added, deleted>>
     ELSE IF \E e \in events[c] : <<c, e>> \notin used THEN abort(p, "no_waiter")
     ELSE /\ register(fd, {}, c)
          /\ events' = [events EXCEPT ![c] = {}]
          /\ woken' = bump(woken, fd, events[c])
          /\ m_pending_count' = m_pending_count - Cardinality(events[c])
          /\ pc' = [pc EXCEPT ![p] = "closing"]
          /\ UNCHANGED <<tableVars, used, mtx, arg, added, deleted, fault>>

\* close_f(): the kernel forgets the descriptor, whose number is free again.
CloseFd(p) ==
  /\ pc[p] = "closing"
  /\ register(arg[p].fd, {}, Null) /\ closed' = closed \cup {arg[p].fd}
  /\ done(p)
  /\ UNCHANGED <<size, created, table, events, used, mtx, m_pending_count, waitVars, fault>>

-----------------------------------------------------------------------------
(* Events *)

\* epoll_wait returns: events of the mask, or EPOLLHUP or EPOLLERR (got = {}).
EpollWait(p, fd) ==
  /\ pc[p] = "ready" /\ epoll[fd] # Null
  /\ \E got \in SUBSET epoll[fd].mask :
       begin(p, "event", epoll[fd].ctx[1], Null, epoll[fd].ctx, got)
  /\ UNCHANGED <<tableVars, events, used, mtx, epoll, m_pending_count, waitVars, fault>>

\* What epoll_wait reported; an error or a hangup stands for all that is registered.
triggered(p) == IF arg[p].got = {} THEN events[arg[p].ctx] ELSE arg[p].got

trigger(p, mask, left) ==
  LET c == arg[p].ctx
      fd == arg[p].fd
  IN
  /\ pc[p] = "event" /\ mtx[c] = Null
  /\ IF events[c] \cap triggered(p) = {} \/ epoll[fd] = Null
     THEN done(p) /\ UNCHANGED <<events, epoll, m_pending_count, woken, fault, tableVars,
                                 used, mtx, added, deleted>>
     ELSE IF ~(triggered(p) \subseteq events[c]) THEN abort(p, "not_registered")
     ELSE IF \E e \in triggered(p) : <<c, e>> \notin used THEN abort(p, "no_waiter")
     ELSE /\ register(fd, mask, c)
          /\ events' = [events EXCEPT ![c] = left]
          /\ woken' = bump(woken, fd, triggered(p))
          /\ m_pending_count' = m_pending_count - Cardinality(triggered(p))
          /\ done(p)
          /\ UNCHANGED <<tableVars, used, mtx, added, deleted, fault>>

\* Mutants of ScheduleEvent: the waiters stay registered; the kernel forgets
\* the events that are left.
ScheduleKept(p) == trigger(p, events[arg[p].ctx] \ triggered(p), events[arg[p].ctx])
ScheduleForgets(p) == trigger(p, {}, events[arg[p].ctx] \ triggered(p))

\* scheduleEvent(epoll_event&): an event triggered but no longer registered
\* fails the ASSERT of FdContext::scheduleEvent, unless none is registered.
ScheduleEvent(p) == LET left == events[arg[p].ctx] \ triggered(p) IN trigger(p, left, left)

running == \A p \in Proc : fault[p] = "none"
Halt == ~running /\ UNCHANGED vars

Call(p) == \/ \E w \in Waits : \/ AddEvent(p, w[1], w[2])
                                \/ FindContext(p, w[1], w[2], "del")
                                \/ FindContext(p, w[1], w[2], "cancel")
           \/ \E fd \in Fd : FindContext(p, fd, Null, "close")
Step(p) == \/ Resize(p) \/ Lookup(p) \/ Check(p) \/ Register(p) \/ DelEvent(p)
           \/ CancelEvent(p) \/ CancelWake(p) \/ CancelAll(p) \/ CloseFd(p)
           \/ ScheduleEvent(p)
Poll(fd) == \E p \in Proc : EpollWait(p, fd)

Next == \/ running /\ \E p \in Proc : Call(p) \/ Step(p)
        \/ running /\ \E fd \in Fd : Poll(fd)
        \/ Halt

Spec == Init /\ [][Next]_vars

-----------------------------------------------------------------------------
(* Properties *)

Faults == {"none", "out_of_range", "already_exists", "epoll_ctl", "context_in_use",
           "not_registered", "no_waiter"}

Label == {"ready", "resize", "lookup", "check", "add", "del", "cancel", "wake", "close",
          "closing", "event"}
Argument == [fd : Fd \cup {Null}, event : Event \cup {Null}, ctx : Ctx \cup {Null},
             got : SUBSET Event]

\* Every variable has its type.
TypeOK ==
  /\ size \in Nat /\ table \in [Fd -> 0..MaxGen] /\ created \in [Fd -> 0..MaxGen]
  /\ closed \subseteq Fd /\ events \in [Ctx -> SUBSET Event] /\ used \subseteq Ctx \X Event
  /\ mtx \in [Ctx -> Proc \cup {Null}]
  /\ epoll \in [Fd -> Registration \cup {Null}] /\ m_pending_count \in Int
  /\ pc \in [Proc -> Label] /\ arg \in [Proc -> Argument]
  /\ added \in [Wait -> Nat] /\ woken \in [Wait -> Nat] /\ deleted \in [Wait -> Nat]
  /\ fault \in [Proc -> Faults]

registered == {w \in Ctx \X Event : w[2] \in events[w[1]]}

\* m_pending_count is the number of registered events, less those cancelEvent()
\* is about to schedule: stop() waits for the right number of waiters, however
\* additions, deletions, cancellations and triggers interleave, the contexts
\* lost to a shrinking table included (iomanager.cpp:74, 118, 148, 182, 235).
PendingExact ==
  m_pending_count + Cardinality({p \in Proc : pc[p] = "wake"}) = Cardinality(registered)

\* Every wait registered is still registered, or was woken once or deleted:
\* a trigger, a cancellation and a close racing for it do not wake it twice and
\* do not lose it (iomanager.h:53-54).
WaitConserved ==
  \A w \in Wait :
    added[w] = woken[w] + deleted[w]
               + Cardinality({r \in registered : r[1][1] = w[1] /\ r[2] = w[2]})

\* The kernel watches exactly the events each context waits for, except in the
\* middle of cancelEvent(), so no waiter is left unwatched, not even in a context
\* that a smaller table has dropped; only closing a descriptor, without cancelAll()
\* or after it let a new wait in, leaves one (iomanager.cpp:65-73, 108-117, 139-145, 221-225).
KernelAgrees ==
  \A c \in Ctx : mtx[c] = Null =>
    LET watched == epoll[c[1]] # Null /\ epoll[c[1]].ctx = c IN
      /\ watched => events[c] # {} /\ epoll[c[1]].mask = events[c]
      /\ events[c] # {} => watched \/ c[1] \in closed

\* What must be so for thread p to fail with why.
reason(p, why) ==
  LET fd == arg[p].fd
      w == <<fd, arg[p].event>>
      ended(e) == woken[<<fd, e>>] + deleted[<<fd, e>>]
      gone == arg[p].got \ events[arg[p].ctx]
  IN
  /\ why # "no_waiter"
  /\ why = "already_exists" => added[w] > ended(arg[p].event)
  /\ why = "context_in_use" => added[w] > 0
  /\ why = "not_registered" => gone # {} /\ \A e \in gone : ended(e) > 0
  /\ why = "epoll_ctl" => fd \in closed \/ created[fd] > 1
  /\ why = "out_of_range" => created[fd] > 0 /\ size <= fd

\* An ASSERT or the one unchecked index fails a thread for these reasons only,
\* each about the thread's own descriptor and event: the event it adds is being
\* waited for, or has been before; every event it handles that is gone from the
\* context has been woken or deleted; its descriptor was closed, or given a
\* second context; another thread's resize dropped the context that the table
\* had.  A registered event always has its waiter
\* (iomanager.cpp:55, 58, 72, 78, 115, 146; iomanager.h:53, 62).
AbortsOnlyFor == \A p \in Proc : reason(p, fault[p])
=============================================================================
