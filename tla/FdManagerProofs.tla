--------------------------- MODULE FdManagerProofs ---------------------------
(***************************************************************************)
(* Proofs about FdManager, for any descriptors and any number of threads,  *)
(* all of them hooked.                                                     *)
(*                                                                         *)
(* A descriptor is free, owned by users, or in the hands of exactly one    *)
(* thread that opens or closes it.  close() drops the FdCtx before the     *)
(* kernel closes the descriptor, so a free number has no FdCtx and the     *)
(* next socket of that number gets a new one.                              *)
(***************************************************************************)
EXTENDS FdManager, TLAPS

\* Steps are for Zenon; those about numbers, records or sequences name SMT.
USE ZenonT(40)

\* The descriptor a thread works on is its alone.
InOneHand ==
  \A p \in Proc : pc[p] # "ready" =>
    /\ arg[p] \in Fd /\ arg[p] \notin owned /\ kind[arg[p]] # "free"
    /\ \A q \in Proc : pc[q] # "ready" /\ arg[q] = arg[p] => q = p

\* The descriptors that have no FdCtx: free ones, those opened or closed by now.
CtxGone ==
  /\ \A fd \in Fd : kind[fd] = "free" => m_datas[fd] = Null
  /\ \A p \in Proc : /\ pc[p] \in {"get", "create", "close"} => m_datas[arg[p]] = Null
                     /\ pc[p] \in {"get", "create"} => kind[arg[p]] = "socket"

FdInv == TypeOK /\ InOneHand /\ CtxGone /\ CtxIsOfDescriptor

\* The flags: what a new socket was opened with is what F_GETFL will say.
FlagInv == /\ UserSeesOwnFlag
           /\ \A p \in Proc : pc[p] \in {"get", "create"} => asked[arg[p]] = FALSE

-----------------------------------------------------------------------------
\* Opening, using and closing keep the invariant.
LEMMA FdInvStep ==
  ASSUME Hooked = Proc, FdInv, Next
  PROVE  FdInv'
<1> USE FdAssumption DEF FdInv, begin, done, newSocket
<1>1. ASSUME NEW p \in Proc, NEW fd \in Fd, NEW flag \in TypeFlags, Socket(p, fd, flag)
      PROVE  FdInv'
  <2> USE <1>1 DEF Socket
  <2>1. TypeOK'
    BY SMTT(60) DEF TypeOK
  <2>2. InOneHand' /\ CtxGone'
    BY SMTT(60) DEF InOneHand, CtxGone, TypeOK
  <2>3. CtxIsOfDescriptor'
    BY ZenonT(60) DEF CtxIsOfDescriptor, isSocket, TypeOK
  <2> QED BY <2>1, <2>2, <2>3
<1>2. ASSUME NEW p \in Proc, NEW fd \in Fd, Open(p, fd)
      PROVE  FdInv'
  <2> USE <1>2 DEF Open
  <2>1. TypeOK'
    BY SMTT(60) DEF TypeOK
  <2>2. InOneHand' /\ CtxGone'
    BY SMTT(60) DEF InOneHand, CtxGone, TypeOK
  <2>3. CtxIsOfDescriptor'
    BY SMTT(60) DEF CtxIsOfDescriptor, isSocket, TypeOK, CtxGone
  <2> QED BY <2>1, <2>2, <2>3
<1>3. ASSUME NEW p \in Proc, GetCtx(p)
      PROVE  FdInv'
  <2> USE <1>3 DEF GetCtx
  <2>0. m_datas[arg[p]] = Null /\ arg[p] \in Fd
    BY DEF CtxGone, InOneHand
  <2>1. TypeOK'
    BY <2>0, SMTT(60) DEF TypeOK
  <2>2. InOneHand' /\ CtxGone'
    BY <2>0, SMTT(60) DEF InOneHand, CtxGone, TypeOK
  <2>3. CtxIsOfDescriptor'
    BY <2>0 DEF CtxIsOfDescriptor, isSocket, TypeOK
  <2> QED BY <2>1, <2>2, <2>3
<1>4. ASSUME NEW p \in Proc, Create(p)
      PROVE  FdInv'
  <2> USE <1>4 DEF Create
  <2> DEFINE new == [isSocket |-> TRUE, sysNonblock |-> TRUE, userNonblock |-> FALSE]
  <2>0. kind[arg[p]] = "socket" /\ arg[p] \in Fd
    BY DEF CtxGone, InOneHand
  <2>1. new \in FdCtx /\ new # Null
    <3>1. new \in FdCtx
      BY Zenon DEF FdCtx
    <3> QED BY <3>1
  <2>2. (kind[arg[p]] = "socket") = TRUE
    BY <2>0
  <2>3. m_datas' = [m_datas EXCEPT ![arg[p]] = new]
    BY <2>2, Zenon
  <2>4. nonblock' = [nonblock EXCEPT ![arg[p]] = TRUE]
    BY <2>0
  <2> HIDE DEF new, Create
  <2>5. /\ pc[p] = "create" /\ owned' = owned \cup {arg[p]} /\ UNCHANGED <<kind, asked>>
        /\ pc' = [pc EXCEPT ![p] = "ready"] /\ arg' = [arg EXCEPT ![p] = Null]
    BY DEF Create
  <2>6. TypeOK'
    BY <2>0, <2>1, <2>3, <2>4, <2>5 DEF TypeOK
  <2>7. InOneHand' /\ CtxGone'
    BY <2>0, <2>1, <2>3, <2>5, SMTT(60) DEF InOneHand, CtxGone, TypeOK
  <2>8. new.isSocket
    BY DEF new
  <2>9. CtxIsOfDescriptor'
    BY <2>0, <2>1, <2>3, <2>5, <2>8, SMTT(60) DEF CtxIsOfDescriptor, isSocket, TypeOK
  <2> QED BY <2>6, <2>7, <2>9
<1>5. ASSUME NEW fd \in Fd, NEW v \in BOOLEAN, fd \in owned,
             UNCHANGED <<kind, pc, arg, owned>>, nonblock' \in [Fd -> BOOLEAN],
             asked' \in [Fd -> BOOLEAN],
             m_datas' = IF isSocket(fd) THEN [m_datas EXCEPT ![fd].userNonblock = v]
                        ELSE m_datas
      PROVE  FdInv'
  <2> USE <1>5
  <2>0. isSocket(fd) => [m_datas[fd] EXCEPT !.userNonblock = v] \in FdCtx
    BY SMTT(60) DEF isSocket, TypeOK, FdCtx
  <2>1. TypeOK'
    BY <2>0 DEF TypeOK
  <2>2. InOneHand' /\ CtxGone'
    BY ZenonT(60) DEF InOneHand, CtxGone, TypeOK
  <2>3. \A x \in Fd : isSocket(x)' <=> isSocket(x)
    BY <2>0, ZenonT(60) DEF isSocket, TypeOK, FdCtx
  <2>4. CtxIsOfDescriptor'
    BY <2>3 DEF CtxIsOfDescriptor, TypeOK
  <2> QED BY <2>1, <2>2, <2>4
<1>6. ASSUME NEW p \in Proc, NEW fd \in Fd, NEW v \in BOOLEAN, SetFl(p, fd, v)
      PROVE  FdInv'
  <2>1. nonblock' \in [Fd -> BOOLEAN] /\ asked' \in [Fd -> BOOLEAN]
    BY <1>6, SMTT(60) DEF SetFl, TypeOK, isSocket, FdCtx
  <2> QED BY <1>5, <1>6, <2>1 DEF SetFl
<1>7. ASSUME NEW p \in Proc, NEW fd \in Fd, NEW v \in IoctlFlags, Ioctl(p, fd, v)
      PROVE  FdInv'
  BY <1>5, <1>7 DEF Ioctl, TypeOK
<1>8. ASSUME NEW p \in Proc, NEW fd \in Fd, Close(p, fd)
      PROVE  FdInv'
  <2> USE <1>8 DEF Close
  <2>1. TypeOK'
    BY DEF TypeOK
  <2>2. InOneHand' /\ CtxGone'
    BY SMTT(60) DEF InOneHand, CtxGone, TypeOK
  <2>3. CtxIsOfDescriptor'
    BY DEF CtxIsOfDescriptor, isSocket, TypeOK
  <2> QED BY <2>1, <2>2, <2>3
<1>9. ASSUME NEW p \in Proc, Del(p) \/ CloseFd(p)
      PROVE  FdInv'
  <2> USE <1>9 DEF Del, CloseFd
  <2>1. TypeOK'
    BY SMTT(60) DEF TypeOK, InOneHand
  <2>2. InOneHand' /\ CtxGone'
    BY SMTT(60) DEF InOneHand, CtxGone, TypeOK
  <2>3. CtxIsOfDescriptor'
    BY SMTT(60) DEF CtxIsOfDescriptor, isSocket, TypeOK, InOneHand
  <2> QED BY <2>1, <2>2, <2>3
<1>10. ASSUME NEW p \in Proc, NEW fd \in Fd, Accept(p, fd)
       PROVE  FdInv'
  <2> USE <1>10 DEF Accept
  <2>1. TypeOK'
    BY DEF TypeOK
  <2>2. InOneHand' /\ CtxGone'
    BY SMTT(60) DEF InOneHand, CtxGone, TypeOK
  <2>3. CtxIsOfDescriptor'
    BY DEF CtxIsOfDescriptor, isSocket, TypeOK
  <2> QED BY <2>1, <2>2, <2>3
<1> QED BY <1>1, <1>2, <1>3, <1>4, <1>6, <1>7, <1>8, <1>9, <1>10 DEF Next

\* Every FdCtx is fully initialised and every owned descriptor is open; a
\* descriptor has the FdCtx made for it, or none.
THEOREM FdInvariant ==
  ASSUME Hooked = Proc
  PROVE  Spec => []FdInv
<1>1. Init => FdInv
  BY FdAssumption, SMTT(60) DEF Init, FdInv, TypeOK, InOneHand, CtxGone, CtxIsOfDescriptor
<1>2. FdInv /\ UNCHANGED vars => FdInv'
  BY SMTT(60) DEF FdInv, TypeOK, InOneHand, CtxGone, CtxIsOfDescriptor, isSocket, vars
<1>3. FdInv /\ [Next]_vars => FdInv'
  BY <1>2, FdInvStep
<1> QED BY <1>1, <1>3, PTL DEF Spec

\* No FdCtx outlives its descriptor, and none is dropped early (hook.cpp:334-342).
THEOREM CtxCorrect ==
  ASSUME Hooked = Proc
  PROVE  Spec => []CtxIsOfDescriptor
<1>1. FdInv => CtxIsOfDescriptor
  BY DEF FdInv
<1> QED BY <1>1, FdInvariant, PTL
-----------------------------------------------------------------------------
\* What F_SETFL does to a FdCtx: only userNonblock changes.
LEMMA SetUserFlag ==
  ASSUME FdInv, NEW fd \in Fd, NEW v \in BOOLEAN,
         m_datas' = IF isSocket(fd) THEN [m_datas EXCEPT ![fd].userNonblock = v]
                    ELSE m_datas
  PROVE  /\ \A x \in Fd : isSocket(x)' <=> isSocket(x)
         /\ \A x \in Fd : isSocket(x) => m_datas'[x].sysNonblock = m_datas[x].sysNonblock
         /\ \A x \in Fd \ {fd} : m_datas'[x] = m_datas[x]
         /\ isSocket(fd) => m_datas'[fd].userNonblock = v
<1>1. m_datas \in [Fd -> FdCtx \cup {Null}]
  BY DEF FdInv, TypeOK
<1>2. CASE ~isSocket(fd)
  BY <1>2 DEF isSocket
<1>3. CASE isSocket(fd)
  <2> DEFINE new == [m_datas[fd] EXCEPT !.userNonblock = v]
  <2>1. m_datas[fd] \in FdCtx
    BY <1>1, <1>3 DEF isSocket
  <2>2. /\ new \in FdCtx /\ new.isSocket = m_datas[fd].isSocket
        /\ new.sysNonblock = m_datas[fd].sysNonblock /\ new.userNonblock = v
    BY <2>1 DEF FdCtx
  <2>3. m_datas' = [m_datas EXCEPT ![fd] = new]
    BY <1>3
  <2> HIDE DEF new
  <2>4. m_datas'[fd] = new /\ \A x \in Fd \ {fd} : m_datas'[x] = m_datas[x]
    BY <1>1, <2>3
  <2>5. new # Null
    BY <2>2, FdAssumption
  <2> QED BY <1>3, <2>2, <2>4, <2>5 DEF isSocket
<1> QED BY <1>2, <1>3

\* Without ioctl(FIONBIO, 0), the kernel's flag stays as the FdCtx has it.
LEMMA SysStep ==
  ASSUME Hooked = Proc, IoctlFlags \subseteq {TRUE}, FdInv, SysNonblockTrue, Next
  PROVE  SysNonblockTrue'
<1> USE FdAssumption DEF begin, done, newSocket
<1>0. TypeOK /\ InOneHand /\ CtxGone
  BY DEF FdInv
<1>1. ASSUME NEW p \in Proc, NEW fd \in Fd, NEW flag \in TypeFlags, Socket(p, fd, flag)
      PROVE  SysNonblockTrue'
  BY <1>0, <1>1 DEF Socket, SysNonblockTrue, isSocket, TypeOK
<1>2. ASSUME NEW p \in Proc, NEW fd \in Fd, Open(p, fd)
      PROVE  SysNonblockTrue'
  BY <1>0, <1>2, SMTT(60) DEF Open, SysNonblockTrue, isSocket, TypeOK, CtxGone
<1>3. ASSUME NEW p \in Proc, GetCtx(p)
      PROVE  SysNonblockTrue'
  BY <1>0, <1>3 DEF GetCtx, SysNonblockTrue, isSocket, TypeOK, CtxGone, InOneHand
<1>4. ASSUME NEW p \in Proc, Create(p)
      PROVE  SysNonblockTrue'
  <2> DEFINE new == [isSocket |-> TRUE, sysNonblock |-> TRUE, userNonblock |-> FALSE]
  <2>1. arg[p] \in Fd /\ (kind[arg[p]] = "socket") = TRUE
    BY <1>0, <1>4 DEF CtxGone, InOneHand, Create
  <2>2. m_datas' = [m_datas EXCEPT ![arg[p]] = new]
    BY <1>4, <2>1, Zenon DEF Create
  <2>3. nonblock' = [nonblock EXCEPT ![arg[p]] = TRUE] /\ owned' = owned \cup {arg[p]}
    BY <1>4, <2>1 DEF Create
  <2>4. new.sysNonblock = TRUE
    OBVIOUS
  <2> HIDE DEF new
  <2> QED BY <1>0, <2>1, <2>2, <2>3, <2>4, SMTT(60) DEF SysNonblockTrue, isSocket, TypeOK
<1>5. ASSUME NEW p \in Proc, NEW fd \in Fd, NEW v \in BOOLEAN, SetFl(p, fd, v)
      PROVE  SysNonblockTrue'
  <2>1. /\ m_datas' = IF isSocket(fd) THEN [m_datas EXCEPT ![fd].userNonblock = v]
                      ELSE m_datas
        /\ nonblock' = [nonblock EXCEPT ![fd] = IF isSocket(fd) THEN m_datas[fd].sysNonblock
                                                ELSE v]
        /\ owned' = owned
    BY <1>5 DEF SetFl
  <2>2. /\ \A x \in Fd : isSocket(x)' <=> isSocket(x)
        /\ \A x \in Fd : isSocket(x) => m_datas'[x].sysNonblock = m_datas[x].sysNonblock
    BY <2>1, SetUserFlag
  <2> QED BY <1>0, <2>1, <2>2 DEF SysNonblockTrue, TypeOK
<1>6. ASSUME NEW p \in Proc, NEW fd \in Fd, Close(p, fd)
      PROVE  SysNonblockTrue'
  BY <1>0, <1>6 DEF Close, SysNonblockTrue, isSocket
<1>7. ASSUME NEW p \in Proc, Del(p) \/ CloseFd(p)
      PROVE  SysNonblockTrue'
  BY <1>0, <1>7, SMTT(60) DEF Del, CloseFd, SysNonblockTrue, isSocket, TypeOK, InOneHand
<1>8. ASSUME NEW p \in Proc, NEW fd \in Fd, Accept(p, fd)
      PROVE  SysNonblockTrue'
  BY <1>0, <1>8 DEF Accept, SysNonblockTrue, isSocket, TypeOK
<1>9. ASSUME NEW p \in Proc, NEW fd \in Fd, NEW v \in IoctlFlags, Ioctl(p, fd, v)
      PROVE  SysNonblockTrue'
  <2>1. v = TRUE /\ v \in BOOLEAN
    BY <1>9
  <2>2. /\ m_datas' = IF isSocket(fd) THEN [m_datas EXCEPT ![fd].userNonblock = v]
                      ELSE m_datas
        /\ nonblock' = [nonblock EXCEPT ![fd] = v] /\ owned' = owned
    BY <1>9 DEF Ioctl
  <2>3. /\ \A x \in Fd : isSocket(x)' <=> isSocket(x)
        /\ \A x \in Fd : isSocket(x) => m_datas'[x].sysNonblock = m_datas[x].sysNonblock
    BY <2>1, <2>2, SetUserFlag
  <2> QED BY <1>0, <2>1, <2>2, <2>3 DEF SysNonblockTrue, TypeOK
<1> QED BY <1>1, <1>2, <1>3, <1>4, <1>5, <1>6, <1>7, <1>8, <1>9 DEF Next

\* A socket known to do_io() never blocks its worker (fd_manager.cpp:40-46,
\* hook.cpp:357-361), if no one calls ioctl(FIONBIO, 0).
THEOREM SocketsNeverBlock ==
  ASSUME Hooked = Proc, IoctlFlags \subseteq {TRUE}
  PROVE  Spec => []SysNonblockTrue
<1>1. Init => SysNonblockTrue
  BY DEF Init, SysNonblockTrue
<1>2. SysNonblockTrue /\ UNCHANGED vars => SysNonblockTrue'
  BY DEF SysNonblockTrue, isSocket, vars
<1>3. FdInv /\ SysNonblockTrue /\ [Next]_vars => SysNonblockTrue'
  BY <1>2, SysStep
<1> QED BY <1>1, <1>3, FdInvariant, PTL DEF Spec

\* Recording what the user asks for keeps F_GETFL truthful.
LEMMA FlagStep ==
  ASSUME Hooked = Proc, TypeFlags \subseteq {FALSE}, FdInv, FlagInv, Next
  PROVE  FlagInv'
<1> USE FdAssumption DEF begin, done, newSocket
<1>0. TypeOK /\ InOneHand /\ CtxGone /\ CtxIsOfDescriptor
  BY DEF FdInv
<1>1. ASSUME NEW p \in Proc, NEW fd \in Fd, NEW flag \in TypeFlags, Socket(p, fd, flag)
      PROVE  FlagInv'
  <2>1. /\ fd \notin owned /\ flag = FALSE
        /\ nonblock' = [nonblock EXCEPT ![fd] = FALSE] /\ asked' = [asked EXCEPT ![fd] = FALSE]
        /\ pc' = [pc EXCEPT ![p] = "get"] /\ arg' = [arg EXCEPT ![p] = fd]
        /\ UNCHANGED <<owned, m_datas>>
    BY <1>0, <1>1 DEF Socket, TypeOK
  <2>2. \A x \in owned : getfl(x)' = asked'[x]
    BY <1>0, <2>1 DEF FlagInv, UserSeesOwnFlag, getfl, isSocket, TypeOK
  <2>3. \A q \in Proc : pc'[q] \in {"get", "create"} => asked'[arg'[q]] = FALSE
    BY <1>0, <2>1, SMTT(60) DEF FlagInv, TypeOK
  <2> QED BY <2>1, <2>2, <2>3 DEF FlagInv, UserSeesOwnFlag
<1>2. ASSUME NEW p \in Proc, NEW fd \in Fd, Open(p, fd)
      PROVE  FlagInv'
  <2>1. /\ fd \notin owned /\ \A q \in Proc : pc[q] \in {"get", "create"} => arg[q] # fd
        /\ ~isSocket(fd)
    BY <1>0, <1>2 DEF Open, isSocket, TypeOK, CtxGone, InOneHand
  <2>2. /\ nonblock' = [nonblock EXCEPT ![fd] = FALSE] /\ asked' = [asked EXCEPT ![fd] = FALSE]
        /\ owned' = owned \cup {fd} /\ UNCHANGED <<m_datas, pc, arg>>
    BY <1>2 DEF Open
  <2>3. \A x \in owned' : getfl(x)' = asked'[x]
    <3>1. ASSUME NEW x \in Fd, x = fd PROVE getfl(x)' = asked'[x]
      BY <1>0, <2>1, <2>2, <3>1 DEF getfl, isSocket, TypeOK
    <3>2. ASSUME NEW x \in owned PROVE getfl(x)' = asked'[x]
      <4>1. x \in Fd /\ x # fd
        BY <1>0, <2>1 DEF TypeOK
      <4>2. getfl(x)' = getfl(x) /\ asked'[x] = asked[x]
        BY <1>0, <2>2, <4>1 DEF getfl, isSocket, TypeOK
      <4> QED BY <4>2 DEF FlagInv, UserSeesOwnFlag
    <3> QED BY <2>2, <3>1, <3>2
  <2>4. \A q \in Proc : pc'[q] \in {"get", "create"} => asked'[arg'[q]] = FALSE
    BY <1>0, <2>2, SMTT(60) DEF FlagInv, TypeOK
  <2> QED BY <2>3, <2>4 DEF FlagInv, UserSeesOwnFlag
<1>3. ASSUME NEW p \in Proc, GetCtx(p)
      PROVE  FlagInv'
  BY <1>0, <1>3, SMTT(60) DEF GetCtx, FlagInv, UserSeesOwnFlag, getfl, isSocket, TypeOK, CtxGone,
                    InOneHand
<1>4. ASSUME NEW p \in Proc, Create(p)
      PROVE  FlagInv'
  <2> DEFINE new == [isSocket |-> TRUE, sysNonblock |-> TRUE, userNonblock |-> FALSE]
  <2>1. arg[p] \in Fd /\ (kind[arg[p]] = "socket") = TRUE
    BY <1>0, <1>4 DEF CtxGone, InOneHand, Create
  <2>2. m_datas' = [m_datas EXCEPT ![arg[p]] = new]
    BY <1>4, <2>1, Zenon DEF Create
  <2>3. /\ nonblock' = [nonblock EXCEPT ![arg[p]] = TRUE] /\ owned' = owned \cup {arg[p]}
        /\ pc[p] = "create" /\ pc' = [pc EXCEPT ![p] = "ready"] /\ asked' = asked
        /\ arg' = [arg EXCEPT ![p] = Null]
    BY <1>4, <2>1 DEF Create
  <2>4. new.userNonblock = FALSE /\ new.isSocket /\ new # Null
    <3>1. new \in FdCtx
      BY Zenon DEF FdCtx
    <3> QED BY <3>1
  <2>5. asked[arg[p]] = FALSE
    BY <2>3 DEF FlagInv
  <2> HIDE DEF new
  <2>6. \A x \in owned' : getfl(x)' = asked[x]
    <3>1. m_datas'[arg[p]] = new /\ \A x \in Fd \ {arg[p]} :
            m_datas'[x] = m_datas[x] /\ nonblock'[x] = nonblock[x]
      BY <1>0, <2>1, <2>2, <2>3, ZenonT(60) DEF TypeOK
    <3>2. ASSUME NEW x \in Fd, x = arg[p] PROVE getfl(x)' = asked[x]
      BY <2>4, <2>5, <3>1, <3>2 DEF getfl, isSocket
    <3>3. ASSUME NEW x \in owned, x # arg[p] PROVE getfl(x)' = asked[x]
      <4>1. x \in Fd
        BY <1>0 DEF TypeOK
      <4>2. getfl(x)' = getfl(x)
        BY <3>1, <3>3, <4>1 DEF getfl, isSocket
      <4> QED BY <4>2 DEF FlagInv, UserSeesOwnFlag
    <3> QED BY <2>1, <2>3, <3>2, <3>3
  <2>7. \A q \in Proc : pc'[q] \in {"get", "create"} => asked[arg'[q]] = FALSE
    BY <1>0, <2>3 DEF FlagInv, TypeOK
  <2> QED BY <2>3, <2>6, <2>7 DEF FlagInv, UserSeesOwnFlag
<1>5. ASSUME NEW p \in Proc, NEW fd \in Fd, NEW v \in BOOLEAN,
             SetFl(p, fd, v) \/ Ioctl(p, fd, v)
      PROVE  FlagInv'
  <2>1. /\ m_datas' = IF isSocket(fd) THEN [m_datas EXCEPT ![fd].userNonblock = v]
                      ELSE m_datas
        /\ \A x \in Fd \ {fd} : nonblock'[x] = nonblock[x]
        /\ ~isSocket(fd) => nonblock'[fd] = v
        /\ asked' = [asked EXCEPT ![fd] = v] /\ fd \in owned
        /\ UNCHANGED <<kind, pc, arg, owned>>
    BY <1>0, <1>5, SMTT(60) DEF SetFl, Ioctl, TypeOK
  <2>2. /\ \A x \in Fd : isSocket(x)' <=> isSocket(x)
        /\ \A x \in Fd \ {fd} : m_datas'[x] = m_datas[x]
        /\ isSocket(fd) => m_datas'[fd].userNonblock = v
    BY <2>1, SetUserFlag
  <2>3. \A x \in owned : getfl(x)' = asked'[x]
    BY <1>0, <2>1, <2>2, ZenonT(60) DEF FlagInv, UserSeesOwnFlag, getfl, TypeOK
  <2>4. \A q \in Proc : pc[q] \in {"get", "create"} => asked'[arg[q]] = FALSE
    BY <1>0, <2>1, SMTT(60) DEF FlagInv, InOneHand, TypeOK
  <2> QED BY <2>1, <2>3, <2>4 DEF FlagInv, UserSeesOwnFlag
<1>6. ASSUME NEW p \in Proc, NEW fd \in Fd, Close(p, fd)
      PROVE  FlagInv'
  BY <1>0, <1>6, ZenonT(60) DEF Close, FlagInv, UserSeesOwnFlag, getfl, isSocket, TypeOK
<1>7. ASSUME NEW p \in Proc, Del(p) \/ CloseFd(p)
      PROVE  FlagInv'
  BY <1>0, <1>7, SMTT(60) DEF Del, CloseFd, FlagInv, UserSeesOwnFlag, getfl, isSocket, TypeOK, InOneHand
<1>8. ASSUME NEW p \in Proc, NEW fd \in Fd, Accept(p, fd)
      PROVE  FlagInv'
  <2>1. /\ nonblock' = [nonblock EXCEPT ![fd] = FALSE] /\ asked' = [asked EXCEPT ![fd] = FALSE]
        /\ pc' = [pc EXCEPT ![p] = "get"] /\ arg' = [arg EXCEPT ![p] = fd]
        /\ fd \notin owned /\ UNCHANGED <<m_datas, owned>>
    BY <1>0, <1>8 DEF Accept, TypeOK
  <2>2. \A x \in owned : getfl(x)' = asked'[x]
    BY <1>0, <2>1 DEF FlagInv, UserSeesOwnFlag, getfl, isSocket, TypeOK
  <2>3. ASSUME NEW q \in Proc, pc'[q] \in {"get", "create"} PROVE asked'[arg'[q]] = FALSE
    <3>1. CASE q = p
      BY <1>0, <2>1, <3>1 DEF TypeOK
    <3>2. CASE q # p
      <4>1. pc[q] \in {"get", "create"} /\ arg'[q] = arg[q] /\ arg[q] \in Fd
        BY <1>0, <2>1, <2>3, <3>2 DEF TypeOK, InOneHand
      <4> QED BY <1>0, <2>1, <4>1 DEF FlagInv, TypeOK
    <3> QED BY <3>1, <3>2
  <2> QED BY <2>1, <2>2, <2>3 DEF FlagInv, UserSeesOwnFlag
<1> QED BY <1>1, <1>2, <1>3, <1>4, <1>5, <1>6, <1>7, <1>8, FdAssumption DEF Next

\* F_GETFL shows what the user last asked for (hook.cpp:349-378), if no socket
\* is opened with SOCK_NONBLOCK.
THEOREM FlagsAreTheUsers ==
  ASSUME Hooked = Proc, TypeFlags \subseteq {FALSE}
  PROVE  Spec => []UserSeesOwnFlag
<1>1. Init => FlagInv
  BY DEF Init, FlagInv, UserSeesOwnFlag
<1>2. FlagInv /\ UNCHANGED vars => FlagInv'
  BY DEF FlagInv, UserSeesOwnFlag, getfl, isSocket, vars
<1>3. FdInv /\ FlagInv /\ [Next]_vars => FlagInv'
  BY <1>2, FlagStep
<1>4. FlagInv => UserSeesOwnFlag
  BY DEF FlagInv
<1> QED BY <1>1, <1>3, <1>4, FdInvariant, PTL DEF Spec
=============================================================================
