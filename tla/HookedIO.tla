------------------------------- MODULE HookedIO -------------------------------
(***************************************************************************)
(* The hooked IO calls of EVA01: do_io() and connect_with_timeout() of     *)
(* hook.cpp, with the condition timer of timer.cpp and what they see of    *)
(* the IO manager and of close().                                          *)
(*                                                                         *)
(* Fibers call read(), write() or connect() on one socket.  A call that    *)
(* would block arms a timer, registers its event and yields; the event,    *)
(* the timer's callback and a close() of the socket, on other workers,     *)
(* race to wake it.  The socket has a FdCtx and the user left it blocking: *)
(* in all other cases the call goes straight to the kernel.                *)
(***************************************************************************)
EXTENDS Durations

CONSTANTS
  Call,        \* the calls made on the socket, one per fiber
  Event,       \* READ and WRITE
  EventOf,     \* what each call waits for
  Connect,     \* the calls that are connect(); the others go through do_io()
  Closes,      \* whether the socket is closed by another fiber
  Timeval      \* the timeouts users set, <<tv_sec, tv_usec>>

ASSUME HookAssumption ==
  /\ EventOf \in [Call -> Event] /\ Connect \subseteq Call
  /\ Closes \in BOOLEAN /\ Timeval \subseteq Nat \X Nat

VARIABLES
  cpc,         \* where each call is
  result,      \* what it returned
  cancelled,   \* the calls whose timer_info has cancelled = ETIMEDOUT
  timeout,     \* of the FdCtx, in ms: m_recvTimeout and m_sendTimeout
  asked,       \* history: the options that a timeout was set with
  timed,       \* the calls that go with a timeout
  armed,       \* the calls with a timer in the timer manager
  queued,      \* callbacks of each call's timers handed to the scheduler
  firing,      \* callbacks that have set cancelled and not yet called cancelEvent()
  waiting,     \* the calls whose event is registered
  used,        \* the events whose EventContext is not empty
  wakeups,     \* how often each fiber is scheduled
  ready,       \* the kernel: events the socket is ready for
  socket,      \* where the close of the socket is
  fault        \* the failed ASSERT

Option == {"SO_RCVTIMEO", "SO_SNDTIMEO"}

optVars == <<timeout, asked>>
timerVars == <<optVars, timed, armed, queued, firing>>
vars == <<cpc, result, cancelled, timerVars, waiting, used, wakeups, ready, socket, fault>>

Init ==
  /\ cpc = [c \in Call |-> "idle"] /\ result = [c \in Call |-> "none"]
  /\ cancelled = {} /\ armed = {} /\ timed = {}
  /\ timeout = [o \in Option |-> Long - 1] /\ asked = {}
  /\ queued = [c \in Call |-> 0] /\ firing = [c \in Call |-> 0]
  /\ waiting = {} /\ used = {} /\ wakeups = [c \in Call |-> 0]
  /\ ready = {} /\ socket = "open" /\ fault = "none"

Goto(c, label) == cpc' = [cpc EXCEPT ![c] = label]
return(c, what) == Goto(c, "done") /\ result' = [result EXCEPT ![c] = what]

\* FdContext::scheduleEvent: the fiber of each call in W is scheduled.
wake(W) ==
  /\ waiting' = waiting \ W
  /\ wakeups' = [c \in Call |-> IF c \in W THEN wakeups[c] + 1 ELSE wakeups[c]]

-----------------------------------------------------------------------------
(* The call *)

\* Mutant of timeout_so: the options are swapped.
timeout_soSwapped(c) == IF EventOf[c] = "READ" THEN "SO_SNDTIMEO" ELSE "SO_RCVTIMEO"

\* The option that read(), write() and the other wrappers pass to do_io() with
\* their event.
timeout_so(c) == IF EventOf[c] = "READ" THEN "SO_RCVTIMEO" ELSE "SO_SNDTIMEO"

\* The timeout in ms, all ones for none, is read once, when the call begins.
\* connect() passes s_connect_timeout.
getTimeout(c) == IF c \in Connect THEN 5000 ELSE timeout[timeout_so(c)]

\* Up to and including fun(fd): the kernel answers, or the call would block.
\* A new call that finds no FdCtx leaves it at the kernel's answer, which for
\* do_io() may be EAGAIN; connect() does not even ask.
Try(c) ==
  LET noCtx == cpc[c] = "idle" /\ socket \in {"deleted", "closed"}
      bad == socket = "closed" \/ (noCtx /\ c \in Connect)
      blocks == EventOf[c] \notin ready
  IN
  /\ cpc[c] \in {"idle", "retry"}
  /\ timed' = IF cpc[c] = "idle" /\ ~noCtx /\ getTimeout(c) # Long - 1
              THEN timed \cup {c} ELSE timed
  /\ \/ bad /\ return(c, "EBADF") /\ UNCHANGED ready
     \/ ~bad /\ ~blocks /\ return(c, "ok") /\ ready' = ready \ {EventOf[c]}
     \/ ~bad /\ blocks /\ noCtx /\ return(c, "EAGAIN") /\ UNCHANGED ready
     \/ ~bad /\ blocks /\ ~noCtx /\ Goto(c, "arm") /\ UNCHANGED <<ready, result>>
  /\ UNCHANGED <<cancelled, optVars, armed, queued, firing, waiting, used, wakeups, socket,
                 fault>>

\* addConditionTimer(), if there is a timeout.
Arm(c) ==
  /\ cpc[c] = "arm"
  /\ armed' = IF c \in timed THEN armed \cup {c} ELSE armed
  /\ Goto(c, "add")
  /\ UNCHANGED <<result, cancelled, optVars, timed, queued, firing, waiting, used, wakeups, ready,
                 socket, fault>>

\* addEvent() returns true or fails an ASSERT: for an event that exists, a
\* closed descriptor, or an EventContext that an earlier wait left behind.
Add(c) ==
  LET e == EventOf[c] IN
  /\ cpc[c] = "add"
  /\ IF e \in {EventOf[d] : d \in waiting} \/ socket = "closed" \/ e \in used
     THEN fault' = "addEvent" /\ UNCHANGED <<cpc, waiting, used>>
     ELSE /\ waiting' = waiting \cup {c} /\ used' = used \cup {e}
          /\ Goto(c, "yield") /\ UNCHANGED fault
  /\ UNCHANGED <<result, cancelled, timerVars, wakeups, ready, socket>>

Yield(c) ==
  /\ cpc[c] = "yield"
  /\ Goto(c, "parked")
  /\ UNCHANGED <<result, cancelled, timerVars, waiting, used, wakeups, ready, socket, fault>>

\* After Yield(): the timer is cancelled, and a timeout seen if there was one.
\* do_io() tries again; connect() asks the socket how it went.
Resume(c) ==
  /\ cpc[c] = "parked" /\ wakeups[c] > 0
  /\ wakeups' = [wakeups EXCEPT ![c] = @ - 1]
  /\ armed' = armed \ {c}
  /\ IF c \in cancelled THEN return(c, "ETIMEDOUT")
     ELSE IF c \notin Connect THEN Goto(c, "retry") /\ UNCHANGED result
     ELSE return(c, IF socket = "closed" THEN "EBADF" ELSE "ok")
  /\ UNCHANGED <<cancelled, optVars, timed, queued, firing, waiting, used, ready, socket, fault>>

\* setsockopt() of a timeout by another fiber, while there is a FdCtx.  Zero asks
\* for none.
SetTimeout(o, tv) ==
  /\ socket \in {"open", "closing"}
  /\ timeout' = [timeout EXCEPT ![o] = timeval_ms(tv[1], tv[2])]
  /\ asked' = IF tv = <<0, 0>> THEN asked ELSE asked \cup {o}
  /\ UNCHANGED <<cpc, result, cancelled, timed, armed, queued, firing, waiting, used,
                 wakeups, ready, socket, fault>>

-----------------------------------------------------------------------------
(* The timer, the event and close() *)

\* A worker collects the timer: its callback is on its way to some fiber.
Expire(c) ==
  /\ c \in armed
  /\ armed' = armed \ {c} /\ queued' = [queued EXCEPT ![c] = @ + 1]
  /\ UNCHANGED <<cpc, result, cancelled, optVars, timed, firing, waiting, used, wakeups, ready,
                 socket, fault>>

\* Mutant of Callback: cancelEvent() is not called.
CallbackSilent(c) ==
  /\ queued[c] > 0
  /\ queued' = [queued EXCEPT ![c] = @ - 1]
  /\ cancelled' = IF cpc[c] = "done" THEN cancelled ELSE cancelled \cup {c}
  /\ UNCHANGED <<cpc, result, optVars, timed, armed, firing, waiting, used, wakeups, ready, socket,
                 fault>>

\* OnTimer() and the callback: nothing is left to do for a call that returned,
\* its timer_info being gone, or that was cancelled already.
Callback(c) ==
  /\ queued[c] > 0
  /\ queued' = [queued EXCEPT ![c] = @ - 1]
  /\ IF cpc[c] = "done" \/ c \in cancelled THEN UNCHANGED <<cancelled, firing>>
     ELSE /\ cancelled' = cancelled \cup {c}
          /\ firing' = [firing EXCEPT ![c] = @ + 1]
  /\ UNCHANGED <<cpc, result, optVars, timed, armed, waiting, used, wakeups, ready, socket, fault>>

\* Mutant of CancelEvent: the event stays registered.
CancelKept(c) ==
  LET W == {d \in waiting : EventOf[d] = EventOf[c]} IN
  /\ firing[c] > 0
  /\ firing' = [firing EXCEPT ![c] = @ - 1]
  /\ wakeups' = [d \in Call |-> IF d \in W THEN wakeups[d] + 1 ELSE wakeups[d]]
  /\ UNCHANGED <<cpc, result, cancelled, optVars, timed, armed, queued, waiting, used, ready, socket,
                 fault>>

\* cancelEvent(fd, event) wakes whoever waits for the event; with a descriptor
\* that was closed meanwhile, its epoll_ctl fails an ASSERT.
CancelEvent(c) ==
  LET W == {d \in waiting : EventOf[d] = EventOf[c]} IN
  /\ firing[c] > 0
  /\ firing' = [firing EXCEPT ![c] = @ - 1]
  /\ IF W # {} /\ socket = "closed" THEN fault' = "cancelEvent" /\ UNCHANGED <<waiting, wakeups>>
     ELSE wake(W) /\ UNCHANGED fault
  /\ UNCHANGED <<cpc, result, cancelled, optVars, timed, armed, queued, used, ready, socket>>

\* The socket becomes ready.
Arrive(e) ==
  /\ e \notin ready /\ socket # "closed"
  /\ ready' = ready \cup {e}
  /\ UNCHANGED <<cpc, result, cancelled, timerVars, waiting, used, wakeups, socket, fault>>

\* Mutant of Deliver: the waiter is not scheduled.
DeliverDropped(e) ==
  LET W == {c \in waiting : EventOf[c] = e} IN
  /\ e \in ready /\ W # {} /\ socket # "closed"
  /\ waiting' = waiting \ W
  /\ UNCHANGED <<cpc, result, cancelled, timerVars, used, wakeups, ready, socket, fault>>

\* epoll reports it and the idle fiber schedules the waiters.
Deliver(e) ==
  LET W == {c \in waiting : EventOf[c] = e} IN
  /\ e \in ready /\ W # {} /\ socket # "closed"
  /\ wake(W)
  /\ UNCHANGED <<cpc, result, cancelled, timerVars, used, ready, socket, fault>>

\* close(): cancelAll() wakes every waiter, then the FdCtx is dropped, then the
\* descriptor closed.
Close ==
  /\ Closes /\ socket = "open"
  /\ socket' = "closing"
  /\ wake(waiting)
  /\ UNCHANGED <<cpc, result, cancelled, timerVars, used, ready, fault>>

Del ==
  /\ socket = "closing"
  /\ socket' = "deleted"
  /\ UNCHANGED <<cpc, result, cancelled, timerVars, waiting, used, wakeups, ready, fault>>

CloseFd ==
  /\ socket = "deleted"
  /\ socket' = "closed"
  /\ UNCHANGED <<cpc, result, cancelled, timerVars, waiting, used, wakeups, ready, fault>>

CallStep(c)  == Try(c) \/ Arm(c) \/ Add(c) \/ Yield(c) \/ Resume(c)
TimerStep(c) == Expire(c) \/ Callback(c) \/ CancelEvent(c)

\* Every call has returned, or the process has aborted.
Halt == (fault # "none" \/ \A c \in Call : cpc[c] = "done") /\ UNCHANGED vars

Next == \/ /\ fault = "none"
           /\ \/ \E c \in Call : CallStep(c) \/ TimerStep(c)
              \/ \E e \in Event : Arrive(e) \/ Deliver(e)
              \/ \E o \in Option, tv \in Timeval : SetTimeout(o, tv)
              \/ Close \/ Del \/ CloseFd
        \/ Halt

Spec == Init /\ [][Next]_vars

\* Fibers run on, timers expire and the workers handle what epoll reports;
\* nothing makes the socket ready or closes it.
FairSpec == /\ Spec
            /\ \A c \in Call : /\ WF_vars(fault = "none" /\ cpc[c] # "idle" /\ CallStep(c))
                               /\ WF_vars(fault = "none" /\ Expire(c))
                               /\ WF_vars(fault = "none" /\ Callback(c))
                               /\ WF_vars(fault = "none" /\ CancelEvent(c))
            /\ \A e \in Event : WF_vars(fault = "none" /\ Deliver(e))
            /\ WF_vars(fault = "none" /\ (Del \/ CloseFd))

-----------------------------------------------------------------------------
(* Properties *)

\* Every variable has its type; only a call with a timeout has a timer, and no
\* fiber is scheduled twice (hook.cpp:98-107).
TypeOK ==
  /\ cpc \in [Call -> {"idle", "retry", "arm", "add", "yield", "parked", "done"}]
  /\ result \in [Call -> {"none", "ok", "EBADF", "EAGAIN", "ETIMEDOUT"}]
  /\ timeout \in [Option -> 0..Long - 1] /\ asked \subseteq Option
  /\ timed \subseteq Call /\ cancelled \subseteq timed /\ armed \subseteq timed
  /\ queued \in [Call -> Nat] /\ firing \in [Call -> Nat]
  /\ waiting \subseteq Call /\ used \subseteq Event
  /\ wakeups \in [Call -> 0..1] /\ ready \subseteq Event
  /\ socket \in {"open", "closing", "deleted", "closed"}
  /\ fault \in {"none", "addEvent", "cancelEvent"}

\* Of the event, the timeout and the close() that race for a waiting fiber
\* exactly one wakes it: while it waits it is either registered or scheduled
\* once, and after that neither, so no call is resumed that has gone on or is
\* finished (hook.cpp:99-127).
WokenByOne ==
  \A c \in Call :
    IF cpc[c] \in {"yield", "parked"} THEN c \in waiting <=> wakeups[c] = 0
    ELSE c \notin waiting /\ wakeups[c] = 0

\* A call times out only if it is a connect() or the user has set a timeout for
\* its own direction.  This needs timeouts other than zero: zero asks the kernel
\* for no timeout and do_io() for one at once (hook.cpp:85, 98, 462).
TimesOutOnlyIfAsked ==
  \A c \in Call : result[c] = "ETIMEDOUT" =>
    \/ c \in Connect
    \/ EventOf[c] = "READ" /\ "SO_RCVTIMEO" \in asked
    \/ EventOf[c] # "READ" /\ "SO_SNDTIMEO" \in asked

aborted == fault # "none"

\* A call waiting with its timer armed returns, with data or without
\* (hook.cpp:99-106, 122-125).
TimeoutEndsWait ==
  \A c \in Call : (c \in waiting /\ c \in armed) ~> (cpc[c] = "done" \/ aborted)

\* A call waiting for an event that the socket is ready for returns, unless the
\* socket is closed under it (hook.cpp:117-126).
ReadyEndsWait ==
  \A c \in Call : (c \in waiting /\ EventOf[c] \in ready)
                     ~> (cpc[c] = "done" \/ aborted \/ socket # "open")
=============================================================================
