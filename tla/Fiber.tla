-------------------------------- MODULE Fiber --------------------------------
(***************************************************************************)
(* The fibers of EVA01: fiber.cpp and fiber.h.                             *)
(*                                                                         *)
(* Threads create fibers, call() them, reset() and drop them; a fiber runs *)
(* MainFunc() on a stack of its own and leaves it by Yield(), YieldReady() *)
(* or at its end.  swapcontext() saves where the running stack is into one *)
(* context and goes on where another was saved: the model keeps what every *)
(* context holds, so that a context saved over another's is seen.          *)
(*                                                                         *)
(* Users keep to what scheduler.cpp does, except for what Misuse allows.   *)
(***************************************************************************)

CONSTANTS
  Thread,      \* threads; a thread stands for its main fiber and its own stack too
  Fiber,       \* the other fibers, each with its stack
  Misuse,      \* what users do that run() does not
  Null

ASSUME FiberAssumption ==
  /\ Thread \cap Fiber = {} /\ Null \notin Thread \cup Fiber
  /\ Misuse \subseteq {"nested",    \* a fiber calls a fiber
                       "early",     \* a fiber is called before it has swapped out
                       "recall",    \* a fiber that threw is called again
                       "dropped"}   \* the last reference goes while it is called

VARIABLES
  t_fiber,       \* the fiber each thread believes to run
  t_main_fiber,  \* its main fiber, once made
  m_state,       \* Fiber::m_state; "none" for a fiber that does not exist
  m_ctx,         \* Fiber::m_ctx: on which stack and where it goes on
  uc_link,       \* the thread whose main context MainFunc() would return to
  on,            \* the stack each thread is on
  pc,            \* where the code on each stack is
  own,           \* fibers whose MainFunc() holds a reference, cur
  held,          \* fibers that someone else refers to
  fault          \* the failed ASSERT, or the undefined behaviour, reached

vars == <<t_fiber, t_main_fiber, m_state, m_ctx, uc_link, on, pc, own, held, fault>>

Stack == Thread \cup Fiber
isDone(f) == m_state[f] \in {"TERM", "EXCEPT"}
\* A saved context, and the one makecontext() leaves.
at(s, label) == [stack |-> s, at |-> label]
fresh(f) == at(f, "entry")

Init ==
  /\ t_fiber = [t \in Thread |-> Null] /\ t_main_fiber = [t \in Thread |-> Null]
  /\ m_state = [s \in Stack |-> "none"] /\ m_ctx = [s \in Stack |-> at(s, "none")]
  /\ uc_link = [f \in Fiber |-> Null]
  /\ on = [t \in Thread |-> t] /\ pc = [s \in Stack |-> "run"]
  /\ own = {} /\ held = {} /\ fault = "none"

abort(why) ==
  /\ fault' = why
  /\ UNCHANGED <<t_fiber, t_main_fiber, m_state, m_ctx, uc_link, on, pc, own, held>>

\* A thread is in the user's code: its own function, or that of a fiber.
inUser(t) == pc[on[t]] = "run"

\* swapcontext(): the thread saves its stack, to go on at label, and goes where
\* the context `to` was saved.
swapcontext(t, save, label, to) ==
  /\ m_ctx' = [m_ctx EXCEPT ![save] = at(on[t], label)]
  /\ on' = [on EXCEPT ![t] = m_ctx[to].stack]
  /\ pc' = [pc EXCEPT ![m_ctx[to].stack] = m_ctx[to].at]

-----------------------------------------------------------------------------
(* Fiber objects *)

\* MakeMain(), called by GetThis(): getcontext() saves a place in the constructor,
\* which nobody may go back to.
MakeMain(t) ==
  /\ inUser(t) /\ t_main_fiber[t] = Null /\ on[t] = t
  /\ t_main_fiber' = [t_main_fiber EXCEPT ![t] = t]
  /\ t_fiber' = [t_fiber EXCEPT ![t] = t]
  /\ m_state' = [m_state EXCEPT ![t] = "RUNNING"]
  /\ m_ctx' = [m_ctx EXCEPT ![t] = at(t, "constructor")]
  /\ UNCHANGED <<uc_link, on, pc, own, held, fault>>

\* Fiber(func)
New(t, f) ==
  /\ inUser(t) /\ t_main_fiber[t] # Null /\ m_state[f] = "none"
  /\ m_state' = [m_state EXCEPT ![f] = "READY"]
  /\ m_ctx' = [m_ctx EXCEPT ![f] = fresh(f)]
  /\ uc_link' = [uc_link EXCEPT ![f] = Null]
  /\ held' = held \cup {f}
  /\ UNCHANGED <<t_fiber, t_main_fiber, on, pc, own, fault>>

reset(t, f, ctx) ==
  /\ inUser(t) /\ t_main_fiber[t] # Null /\ f \in held /\ f \notin own
  /\ \A u \in Thread : on[u] # f
  /\ m_state' = [m_state EXCEPT ![f] = "READY"]
  /\ m_ctx' = [m_ctx EXCEPT ![f] = ctx]
  /\ uc_link' = [uc_link EXCEPT ![f] = t]
  /\ UNCHANGED <<t_fiber, t_main_fiber, on, pc, own, held, fault>>

\* Mutant of Reset: no makecontext().
ResetStale(t, f) == reset(t, f, m_ctx[f])

\* reset(func), of a fiber that is done or was never called.
Reset(t, f) == reset(t, f, fresh(f))

\* The last reference other than cur goes; ~Fiber() if there is no cur.
Drop(t, f) ==
  /\ inUser(t) /\ f \in held
  /\ "dropped" \in Misuse \/ \A u \in Thread : on[u] # f
  /\ IF f \notin own /\ m_state[f] = "RUNNING" THEN abort("~Fiber")
     ELSE /\ held' = held \ {f}
          /\ m_state' = IF f \in own THEN m_state ELSE [m_state EXCEPT ![f] = "none"]
          /\ UNCHANGED <<t_fiber, t_main_fiber, m_ctx, uc_link, on, pc, own, fault>>

\* The thread's function returns, and t_main_fiber is destroyed.
Exit(t) ==
  /\ inUser(t) /\ on[t] = t
  /\ IF t_main_fiber[t] # Null /\ m_state[t] # "RUNNING" THEN abort("~Fiber")
     ELSE /\ t_main_fiber' = [t_main_fiber EXCEPT ![t] = Null]
          /\ t_fiber' = [t_fiber EXCEPT ![t] = Null]
          /\ m_state' = [m_state EXCEPT ![t] = "none"]
          /\ pc' = [pc EXCEPT ![t] = "exited"]
          /\ UNCHANGED <<m_ctx, uc_link, on, own, held, fault>>

-----------------------------------------------------------------------------
(* Switching *)

\* MainFunc() returns: the thread exits, or goes on in the context that reset()
\* linked, whatever that holds by then.
returned(f) == IF uc_link[f] = Null THEN "thread_exit" ELSE "uc_link"

call(t, f, save) ==
  /\ inUser(t) /\ t_main_fiber[t] # Null /\ f \in held
  /\ "nested" \in Misuse \/ on[t] = t
  /\ "early" \in Misuse \/ \A u \in Thread : on[u] # f
  /\ "recall" \in Misuse \/ ~isDone(f)
  /\ IF m_state[f] \in {"RUNNING", "TERM"} THEN abort("call")
     ELSE IF m_ctx[f].at = "over" THEN abort(returned(f))
     ELSE /\ t_fiber' = [t_fiber EXCEPT ![t] = f]
          /\ m_state' = [m_state EXCEPT ![f] = "RUNNING"]
          /\ swapcontext(t, save, "run", f)
          /\ UNCHANGED <<t_main_fiber, uc_link, own, held, fault>>

\* Mutant of Call: the caller is saved in the fiber called.
CallSavedThere(t, f) == call(t, f, f)

\* call().  The caller is always saved in the thread's main fiber.
Call(t, f) == call(t, f, t_main_fiber[t])

\* MainFunc() begins: cur = GetThis().
Enter(t) ==
  /\ pc[on[t]] = "entry"
  /\ own' = own \cup {t_fiber[t]}
  /\ pc' = [pc EXCEPT ![on[t]] = "run"]
  /\ UNCHANGED <<t_fiber, t_main_fiber, m_state, m_ctx, uc_link, on, held, fault>>

\* Yield() and YieldReady(), up to swapcontext(); for the main fiber they return.
Yield(t, state) ==
  /\ inUser(t) /\ on[t] # t /\ t_fiber[t] # t_main_fiber[t]
  /\ m_state' = [m_state EXCEPT ![t_fiber[t]] = state]
  /\ t_fiber' = [t_fiber EXCEPT ![t] = t_main_fiber[t]]
  /\ pc' = [pc EXCEPT ![on[t]] = "yield"]
  /\ UNCHANGED <<t_main_fiber, m_ctx, uc_link, on, own, held, fault>>

Swap(t) ==
  /\ pc[on[t]] = "yield"
  /\ swapcontext(t, on[t], "run", t_main_fiber[t])
  /\ UNCHANGED <<t_fiber, t_main_fiber, m_state, uc_link, own, held, fault>>

\* Mutant of Finish: MainFunc() keeps cur.
FinishHeld(t, state) ==
  /\ inUser(t) /\ on[t] # t
  /\ m_state' = [m_state EXCEPT ![on[t]] = state]
  /\ pc' = [pc EXCEPT ![on[t]] = "end"]
  /\ UNCHANGED <<t_fiber, t_main_fiber, m_ctx, uc_link, on, own, held, fault>>

\* The function returned or threw: cur's state, and cur.reset().  If that was the
\* last reference, the fiber and the stack in use are freed.
Finish(t, state) ==
  /\ inUser(t) /\ on[t] # t
  /\ IF on[t] \notin held THEN abort("freed_stack")
     ELSE /\ m_state' = [m_state EXCEPT ![on[t]] = state]
          /\ own' = own \ {on[t]}
          /\ pc' = [pc EXCEPT ![on[t]] = "end"]
          /\ UNCHANGED <<t_fiber, t_main_fiber, m_ctx, uc_link, on, held, fault>>

\* raw_ptr->yield(), which returns at once if t_fiber is the main fiber.
Leave(t) ==
  /\ pc[on[t]] = "end"
  /\ IF t_fiber[t] = t_main_fiber[t] THEN abort(returned(on[t]))
     ELSE /\ t_fiber' = [t_fiber EXCEPT ![t] = t_main_fiber[t]]
          /\ swapcontext(t, on[t], "over", t_main_fiber[t])
          /\ UNCHANGED <<t_main_fiber, m_state, uc_link, own, held, fault>>

Step(t) ==
  \/ MakeMain(t) \/ Exit(t) \/ Enter(t) \/ Swap(t) \/ Leave(t)
  \/ \E state \in {"SUSPEND", "READY"} : Yield(t, state)
  \/ \E state \in {"TERM", "EXCEPT"} : Finish(t, state)
  \/ \E f \in Fiber : New(t, f) \/ Reset(t, f) \/ Drop(t, f) \/ Call(t, f)

\* The process has aborted, or every thread has exited.
Halt == (fault # "none" \/ \A t \in Thread : pc[t] = "exited") /\ UNCHANGED vars

Next == (fault = "none" /\ \E t \in Thread : Step(t)) \/ Halt

Spec == Init /\ [][Next]_vars

-----------------------------------------------------------------------------
(* Properties *)

Context == [stack : Stack, at : {"none", "constructor", "entry", "run", "over"}]
Faults == {"none", "call", "~Fiber", "freed_stack", "thread_exit", "uc_link"}

\* Every variable has its type (fiber.h:50-55, fiber.cpp:12-13).
TypeOK ==
  /\ t_fiber \in [Thread -> Stack \cup {Null}]
  /\ t_main_fiber \in [Thread -> Thread \cup {Null}]
  /\ m_state \in [Stack -> {"none", "READY", "SUSPEND", "RUNNING", "TERM", "EXCEPT"}]
  /\ m_ctx \in [Stack -> Context] /\ uc_link \in [Fiber -> Thread \cup {Null}]
  /\ on \in [Thread -> Stack]
  /\ pc \in [Stack -> {"none", "constructor", "entry", "run", "yield", "end", "over", "exited"}]
  /\ own \subseteq Fiber /\ held \subseteq Fiber /\ fault \in Faults

\* A thread on a fiber finds its way back: t_fiber names that fiber, and the main
\* context still holds the call() that got there, so that Yield(), YieldReady()
\* and the end of MainFunc() return to it and to nobody else, on whatever threads
\* the fiber ran before (fiber.cpp:105-113, 118-124, 134-138, 200).
ComesBackToMain ==
  \A t \in Thread : t_main_fiber[t] # Null =>
    /\ on[t] = t => t_fiber[t] = t
    /\ on[t] # t => /\ m_ctx[t] = at(t, "run") /\ pc[t] = "run"
                    /\ t_fiber[t] = IF pc[on[t]] = "yield" THEN t ELSE on[t]

\* A fiber that no thread is on goes on where it left, on its own stack: at the
\* entry if it has yet to begin, behind its Yield() if it is suspended, never
\* behind its end; and no stack carries two threads (fiber.cpp:35, 90, 111, 136).
GoesOnWhereItLeft ==
  \A f \in Fiber : m_state[f] # "none" =>
    /\ \A t, u \in Thread : on[t] = f /\ on[u] = f => t = u
    /\ (\A t \in Thread : on[t] # f) =>
         /\ m_state[f] # "RUNNING"
         /\ m_ctx[f] = at(f, IF isDone(f) THEN "over" ELSE IF f \in own THEN "run" ELSE "entry")

\* A fiber lives as long as someone refers to it or its function is under way, and
\* a function that is over keeps nothing alive (fiber.cpp:63-64, 185, 198-200).
FreedWhenDone ==
  \A f \in Fiber :
    /\ m_state[f] # "none" <=> f \in held \cup own
    /\ f \in own => ~isDone(f)

\* No ASSERT of fiber.cpp fails, no stack is freed in use, and MainFunc() never
\* returns to end the thread or to follow uc_link (fiber.cpp:31, 64, 86, 107, 200).
NoFault == fault = "none"
=============================================================================
