------------------------------ MODULE FdManager ------------------------------
(***************************************************************************)
(* The descriptor table of EVA01: fd_manager.cpp, and the hooked socket(), *)
(* accept(), fcntl(), ioctl() and close() of hook.cpp that keep it.        *)
(*                                                                         *)
(* A hooked thread gives each socket it opens a FdCtx and makes the socket *)
(* non-blocking behind the user's back; do_io() relies on both.  Threads   *)
(* open, use and close descriptors, and the kernel hands out closed        *)
(* numbers again.                                                          *)
(***************************************************************************)
EXTENDS Naturals

CONSTANTS
  Fd,          \* file descriptors
  Proc,        \* threads
  Hooked,      \* the threads with t_hooked
  Ops,         \* what users do
  TypeFlags,   \* whether sockets are opened with SOCK_NONBLOCK
  IoctlFlags,  \* what users pass to ioctl(FIONBIO)
  Null

FdCtx == [isSocket : BOOLEAN, sysNonblock : BOOLEAN, userNonblock : BOOLEAN]

ASSUME FdAssumption ==
  /\ Hooked \subseteq Proc /\ TypeFlags \subseteq BOOLEAN /\ IoctlFlags \subseteq BOOLEAN
  /\ Ops \subseteq {"socket", "accept", "file", "setfl", "close"}
  /\ Null \notin Fd \cup FdCtx

VARIABLES
  kind,        \* the kernel: what a descriptor is
  nonblock,    \* the kernel: its O_NONBLOCK
  m_datas,     \* the FdCtx of each descriptor, or Null
  pc, arg,     \* where each thread is, and the descriptor it works on
  owned,       \* descriptors that users have: opened, and not being closed
  asked        \* history: the O_NONBLOCK the user last asked for

vars == <<kind, nonblock, m_datas, pc, arg, owned, asked>>

Init ==
  /\ kind = [x \in Fd |-> "free"] /\ nonblock = [x \in Fd |-> FALSE]
  /\ m_datas = [x \in Fd |-> Null]
  /\ pc = [p \in Proc |-> "ready"] /\ arg = [p \in Proc |-> Null]
  /\ owned = {} /\ asked = [x \in Fd |-> FALSE]

begin(p, label, fd) ==
  /\ pc' = [pc EXCEPT ![p] = label] /\ arg' = [arg EXCEPT ![p] = fd]
done(p) == begin(p, "ready", Null)

isSocket(fd) == m_datas[fd] # Null /\ m_datas[fd].isSocket

-----------------------------------------------------------------------------
(* Opening *)

\* The kernel opens a socket.
newSocket(fd, flag) ==
  /\ kind[fd] = "free" /\ kind' = [kind EXCEPT ![fd] = "socket"]
  /\ nonblock' = [nonblock EXCEPT ![fd] = flag] /\ asked' = [asked EXCEPT ![fd] = flag]

\* socket(): a hooked thread goes on to get(fd, true).
Socket(p, fd, flag) ==
  /\ pc[p] = "ready" /\ "socket" \in Ops /\ newSocket(fd, flag)
  /\ IF p \in Hooked THEN begin(p, "get", fd) /\ UNCHANGED owned
     ELSE owned' = owned \cup {fd} /\ UNCHANGED <<pc, arg>>
  /\ UNCHANGED m_datas

\* accept(): every thread goes on to get(fd, true), hooked or not.
Accept(p, fd) ==
  /\ pc[p] = "ready" /\ "accept" \in Ops /\ newSocket(fd, FALSE)
  /\ begin(p, "get", fd)
  /\ UNCHANGED <<m_datas, owned>>

\* open(), which is not hooked.
Open(p, fd) ==
  /\ pc[p] = "ready" /\ "file" \in Ops /\ kind[fd] = "free"
  /\ kind' = [kind EXCEPT ![fd] = "file"]
  /\ nonblock' = [nonblock EXCEPT ![fd] = FALSE] /\ asked' = [asked EXCEPT ![fd] = FALSE]
  /\ owned' = owned \cup {fd}
  /\ UNCHANGED <<m_datas, pc, arg>>

\* get(fd, true), the section under the read guard: what is there is taken.
GetCtx(p) ==
  /\ pc[p] = "get"
  /\ IF m_datas[arg[p]] # Null THEN done(p) /\ owned' = owned \cup {arg[p]}
     ELSE begin(p, "create", arg[p]) /\ UNCHANGED owned
  /\ UNCHANGED <<kind, nonblock, m_datas, asked>>

\* Mutant of Create: the socket is left blocking.
CreateBlocking(p) ==
  LET s == kind[arg[p]] = "socket" IN
  /\ pc[p] = "create"
  /\ m_datas' = [m_datas EXCEPT ![arg[p]] =
       [isSocket |-> s, sysNonblock |-> s, userNonblock |-> FALSE]]
  /\ owned' = owned \cup {arg[p]} /\ done(p)
  /\ UNCHANGED <<kind, nonblock, asked>>

\* The section under the write guard, with FdCtx::init().
Create(p) ==
  LET fd == arg[p]
      s == kind[fd] = "socket"
  IN
  /\ pc[p] = "create"
  /\ m_datas' = [m_datas EXCEPT ![fd] =
       [isSocket |-> s, sysNonblock |-> s, userNonblock |-> FALSE]]
  /\ nonblock' = [nonblock EXCEPT ![fd] = @ \/ s]
  /\ owned' = owned \cup {fd} /\ done(p)
  /\ UNCHANGED <<kind, asked>>

-----------------------------------------------------------------------------
(* Using *)

\* Mutant of SetFl: the user's wish is not recorded.
SetFlForgotten(p, fd, v) ==
  /\ pc[p] = "ready" /\ "setfl" \in Ops /\ fd \in owned
  /\ nonblock' = [nonblock EXCEPT ![fd] = IF isSocket(fd) THEN m_datas[fd].sysNonblock ELSE v]
  /\ asked' = [asked EXCEPT ![fd] = v]
  /\ UNCHANGED <<kind, m_datas, pc, arg, owned>>

\* fcntl(fd, F_SETFL, v), hooked or not.
SetFl(p, fd, v) ==
  /\ pc[p] = "ready" /\ "setfl" \in Ops /\ fd \in owned
  /\ IF isSocket(fd)
     THEN /\ m_datas' = [m_datas EXCEPT ![fd].userNonblock = v]
          /\ nonblock' = [nonblock EXCEPT ![fd] = m_datas[fd].sysNonblock]
     ELSE nonblock' = [nonblock EXCEPT ![fd] = v] /\ UNCHANGED m_datas
  /\ asked' = [asked EXCEPT ![fd] = v]
  /\ UNCHANGED <<kind, pc, arg, owned>>

\* fcntl(fd, F_GETFL)
getfl(fd) == IF isSocket(fd) THEN m_datas[fd].userNonblock ELSE nonblock[fd]

\* ioctl(fd, FIONBIO, v), hooked or not: the kernel is told what the user asked.
Ioctl(p, fd, v) ==
  /\ pc[p] = "ready" /\ fd \in owned
  /\ m_datas' = IF isSocket(fd) THEN [m_datas EXCEPT ![fd].userNonblock = v] ELSE m_datas
  /\ nonblock' = [nonblock EXCEPT ![fd] = v]
  /\ asked' = [asked EXCEPT ![fd] = v]
  /\ UNCHANGED <<kind, pc, arg, owned>>

-----------------------------------------------------------------------------
(* Closing *)

\* close(): a hooked thread that finds a FdCtx cancels the waits (IOManager),
\* then drops the FdCtx, and the kernel closes the descriptor last.
Close(p, fd) ==
  /\ pc[p] = "ready" /\ "close" \in Ops /\ fd \in owned
  /\ owned' = owned \ {fd}
  /\ begin(p, IF p \in Hooked /\ m_datas[fd] # Null THEN "del" ELSE "close", fd)
  /\ UNCHANGED <<kind, nonblock, m_datas, asked>>

\* Mutant of Del: the FdCtx is dropped only after the descriptor is closed and
\* its number free.
DelLast(p) ==
  /\ pc[p] = "del"
  /\ IF kind[arg[p]] # "free" /\ arg[p] \notin owned /\ \A q \in Proc \ {p} : arg[q] # arg[p]
     THEN kind' = [kind EXCEPT ![arg[p]] = "free"] /\ UNCHANGED <<m_datas, pc, arg>>
     ELSE m_datas' = [m_datas EXCEPT ![arg[p]] = Null] /\ done(p) /\ UNCHANGED kind
  /\ UNCHANGED <<nonblock, owned, asked>>

\* FdManager::del()
Del(p) ==
  /\ pc[p] = "del"
  /\ m_datas' = [m_datas EXCEPT ![arg[p]] = Null]
  /\ begin(p, "close", arg[p])
  /\ UNCHANGED <<kind, nonblock, owned, asked>>

\* close_f()
CloseFd(p) ==
  /\ pc[p] = "close"
  /\ kind' = [kind EXCEPT ![arg[p]] = "free"]
  /\ done(p)
  /\ UNCHANGED <<nonblock, m_datas, owned, asked>>

Next ==
  \E p \in Proc :
    \/ GetCtx(p) \/ Create(p) \/ Del(p) \/ CloseFd(p)
    \/ \E fd \in Fd :
         \/ Accept(p, fd) \/ Open(p, fd) \/ Close(p, fd)
         \/ \E v \in BOOLEAN : SetFl(p, fd, v)
         \/ \E v \in IoctlFlags : Ioctl(p, fd, v)
         \/ \E flag \in TypeFlags : Socket(p, fd, flag)

Spec == Init /\ [][Next]_vars

-----------------------------------------------------------------------------
(* Properties *)

\* Every variable has its type, every FdCtx is fully initialised, and what is
\* owned is open (fd_manager.cpp:9-53, hook.cpp:334-342).
TypeOK ==
  /\ kind \in [Fd -> {"free", "socket", "file"}] /\ nonblock \in [Fd -> BOOLEAN]
  /\ m_datas \in [Fd -> FdCtx \cup {Null}]
  /\ pc \in [Proc -> {"ready", "get", "create", "del", "close"}]
  /\ arg \in [Proc -> Fd \cup {Null}]
  /\ owned \subseteq {x \in Fd : kind[x] # "free"} /\ asked \in [Fd -> BOOLEAN]

\* Every socket that a user has is known to do_io() as a socket, and a file is
\* not: no FdCtx outlives its descriptor into the next use of the number, and
\* none is dropped that belongs to the next use (hook.cpp:81, 334-342).
CtxIsOfDescriptor ==
  \A fd \in owned : kind[fd] = "socket" <=> isSocket(fd)

\* A socket known to do_io() is non-blocking in the kernel, so that no call
\* blocks its worker (fd_manager.cpp:40-46, hook.cpp:89, 357-361).
SysNonblockTrue ==
  \A fd \in owned : isSocket(fd) => nonblock[fd] = TRUE /\ m_datas[fd].sysNonblock = TRUE

\* fcntl(F_GETFL) shows the O_NONBLOCK the user last asked for, and do_io()
\* honours it, whatever the hook did to the descriptor (hook.cpp:366-378).
UserSeesOwnFlag == \A fd \in owned : getfl(fd) = asked[fd]
=============================================================================
