---------------------------- MODULE LoggerProofs ----------------------------
(***************************************************************************)
(* Proofs about Logger and LogFormatter, for every number of threads,       *)
(* loggers, appenders and levels and for patterns of every length.          *)
(*                                                                          *)
(* Inv is inductive.  Locks says what a thread has locked at each place of  *)
(* Logger::log(); Sinks that a sink of one appender is a chain of whole     *)
(* records, but for the one whose writer holds the appender's mutex; Order  *)
(* that the record of the thread that holds a logger's mutex comes nowhere  *)
(* before another of that logger; Pattern that the formatter's pattern is   *)
(* written piece by piece.  That initItems() reads such a pattern back is   *)
(* shown from its end to its start: by induction over sets of numbers the   *)
(* loop's recursion has a solution, the items of a suffix do not depend on  *)
(* what is before it, and each piece in front adds its item.                *)
(***************************************************************************)
EXTENDS Logger, TLAPS

\* Steps are for Zenon; those about numbers, records or sequences name SMT.
USE ZenonT(40)

-----------------------------------------------------------------------------
(* Sequences *)

\* Sequences put together.
LEMMA Sequences1 ==
  ASSUME NEW S, NEW s \in Seq(S)
  PROVE  /\ Len(s) \in Nat /\ DOMAIN s = 1..Len(s) /\ \A n \in 1..Len(s) : s[n] \in S
         /\ \A x \in S : Append(s, x) \in Seq(S) /\ <<x>> \in Seq(S)
         /\ \A r \in Seq(S) : s \o r \in Seq(S) /\ Len(s \o r) = Len(s) + Len(r)
BY SMTT(60)

\* Every piece of a record follows the one before it, the first one a record that ended.
Linked(o, L) ==
  \A k \in DOMAIN o :
    /\ o[k][2] \in 1..L
    /\ o[k][2] = 1 => k = 1 \/ o[k - 1][2] = L
    /\ o[k][2] > 1 => k > 1 /\ o[k - 1] = <<o[k][1], o[k][2] - 1>>

\* p is o with the items k to m of record r at its end, where o stops before item k
\* of r, or, if that is the first, at the end of a record.
Grows(o, p, N, M, L, k, m, r) ==
  /\ N \in Nat /\ L \in Nat /\ k \in Nat /\ m \in Nat
  /\ k >= 1 /\ m >= k /\ m <= L /\ M = N + (m + 1 - k)
  /\ DOMAIN o = 1..N /\ DOMAIN p = 1..M
  /\ k = 1 => N = 0 \/ o[N][2] = L
  /\ k > 1 => N > 0 /\ o[N] = <<r, k - 1>>
  /\ \A i \in 1..N : p[i] = o[i]
  /\ \A i \in 1..M : i > N => p[i] = <<r, k + (i - N) - 1>>

\* Then p is linked if o is.
LEMMA ChainGrows ==
  ASSUME NEW o, NEW p, NEW N, NEW M, NEW L, NEW k, NEW m, NEW r, Grows(o, p, N, M, L, k, m, r),
         Linked(o, L)
  PROVE  Linked(p, L)
<1>1. /\ N \in Nat /\ L \in Nat /\ k \in Nat /\ m \in Nat
      /\ k >= 1 /\ m >= k /\ m <= L /\ M = N + (m + 1 - k)
  BY DEF Grows
<1> SUFFICES ASSUME NEW n \in 1..M
             PROVE  /\ p[n][2] \in 1..L
                    /\ p[n][2] = 1 => n = 1 \/ p[n - 1][2] = L
                    /\ p[n][2] > 1 => n > 1 /\ p[n - 1] = <<p[n][1], p[n][2] - 1>>
  BY DEF Grows, Linked
<1>2. CASE n <= N
  <2>1. n \in 1..N /\ (n = 1 \/ n - 1 \in 1..N) /\ ~(1 > 1)
    BY <1>1, <1>2, SMTT(60)
  <2>2. p[n] = o[n] /\ (n = 1 \/ p[n - 1] = o[n - 1])
    BY <2>1 DEF Grows
  <2>3. /\ o[n][2] \in 1..L
        /\ o[n][2] = 1 => n = 1 \/ o[n - 1][2] = L
        /\ o[n][2] > 1 => n > 1 /\ o[n - 1] = <<o[n][1], o[n][2] - 1>>
    BY <2>1 DEF Grows, Linked
  <2> QED BY <2>1, <2>2, <2>3
<1>3. CASE n = N + 1
  <2>1. n > N /\ k + (n - N) - 1 = k /\ n - 1 = N /\ k \in 1..L /\ (N > 0 => N \in 1..N /\ n > 1)
        /\ (N = 0 => n = 1) /\ (k = 1 \/ k > 1) /\ ~(k = 1 /\ k > 1)
    BY <1>1, <1>3, SMTT(60)
  <2>2. p[n] = <<r, k>> /\ p[n][1] = r /\ p[n][2] = k
    <3>1. p[n] = <<r, k + (n - N) - 1>>
      BY <2>1 DEF Grows
    <3>2. p[n] = <<r, k>>
      BY <2>1, <3>1
    <3> QED BY <3>2, SMTT(60)
  <2>3. k = 1 => n = 1 \/ p[n - 1][2] = L
    <3>1. N = 0 \/ N > 0
      BY <1>1, SMTT(60)
    <3>2. k = 1 => N = 0 \/ o[N][2] = L
      BY DEF Grows
    <3>3. N > 0 => p[N] = o[N]
      BY <2>1 DEF Grows
    <3> QED BY <2>1, <3>1, <3>2, <3>3
  <2>4. k > 1 => n > 1 /\ p[n - 1] = <<r, k - 1>>
    BY <2>1 DEF Grows
  <2> QED BY <2>1, <2>2, <2>3, <2>4
<1>4. CASE n > N + 1
  <2> DEFINE v == k + (n - N) - 1
             w == k + ((n - 1) - N) - 1
  <2>1. n > N /\ n - 1 > N /\ n - 1 \in 1..M /\ v \in 1..L /\ v # 1 /\ w = v - 1 /\ n > 1
    BY <1>1, <1>4, SMTT(60)
  <2>2. p[n] = <<r, v>> /\ p[n - 1] = <<r, w>>
    BY <2>1 DEF Grows
  <2> HIDE DEF v, w
  <2>3. p[n][1] = r /\ p[n][2] = v
    BY <2>2, SMTT(60)
  <2> QED BY <2>1, <2>2, <2>3
<1> QED BY <1>1, <1>2, <1>3, <1>4, SMTT(60)

\* Where every piece of a record follows the piece before it, and a record starts where
\* another ended, the next piece follows too.
LEMMA ChainForward ==
  ASSUME NEW R, NEW o \in Seq(R \X Nat), NEW L \in Nat, NEW n \in DOMAIN o, n < Len(o), o[n][2] < L,
         Linked(o, L)
  PROVE  o[n + 1] = <<o[n][1], o[n][2] + 1>>
<1>1. n + 1 \in DOMAIN o /\ n \in Nat /\ (n + 1) - 1 = n /\ n + 1 # 1
  BY SMTT(60)
<1> DEFINE x == o[n]
           y == o[n + 1]
<1>2. /\ y[2] \in 1..L
      /\ y[2] = 1 => x[2] = L
      /\ y[2] > 1 => x = <<y[1], y[2] - 1>>
  BY <1>1 DEF Linked
<1>3. x \in R \X Nat /\ y \in R \X Nat
  BY <1>1, SMTT(60)
<1>4. x[2] < L
  OBVIOUS
<1> HIDE DEF x, y
<1>5. y = <<y[1], y[2]>> /\ x[2] \in Nat /\ y[2] \in Nat
  BY <1>3, SMTT(60)
<1>6. y[2] > 1
  BY <1>2, <1>4, <1>5, SMTT(60)
<1>7. y[1] = x[1] /\ x[2] = y[2] - 1
  BY <1>2, <1>6, SMTT(60)
<1>8. y[2] = x[2] + 1
  BY <1>5, <1>7, SMTT(60)
<1>9. y = <<x[1], x[2] + 1>>
  BY <1>5, <1>7, <1>8
<1> QED BY <1>9 DEF x, y

-----------------------------------------------------------------------------
(* The inductive invariant *)

\* remove() gives a list of those of the appenders that are not the one removed.
Removed(list, a) == remove(list, a) \in Seq({list[n] : n \in DOMAIN list} \ {a})
Removes == \A list \in Seq(Appender), a \in Appender : Removed(list, a)

\* A record: its logger, and a number of its own.
Record == Logger \X Nat
\* The thread is in Logger::log().
Logs(t) == pc[t] \in {"log", "list", "format"}

\* The values of the variables.
Types ==
  /\ m_loggers \subseteq Logger /\ m_level \in [Logger \cup Appender -> Nat]
  /\ m_appenders \in [Logger -> Seq(Appender)]
  /\ m_formatter \subseteq Appender /\ m_fstream \subseteq File
  /\ m_mtx \in [Logger \cup Appender -> Thread \cup {Null}]
  /\ out \in [Sink -> Seq(Record \X Nat)]
  /\ pc \in [Thread -> {"ready", "add", "log", "list", "format"}]
  /\ event \in [Thread -> [record : Record \cup {Null}, logger : Logger \cup {Null}, level : Nat]]
  /\ at \in [Thread -> Nat] /\ item \in [Thread -> Nat]
  /\ appender \in [Thread -> Appender \cup {Null}]
  /\ records \in Nat /\ config \in Nat

\* What a thread in Logger::log() has in hand: a record of a logger there is.
Events ==
  \A t \in Thread : Logs(t) =>
    /\ event[t].logger \in m_loggers /\ event[t].record \in Record
    /\ event[t].record[1] = event[t].logger
    /\ event[t].record[2] <= records /\ records > 0

\* The mutexes a thread holds where it is.
Holds ==
  \A t \in Thread :
    /\ pc[t] \in {"list", "format"} => m_mtx[event[t].logger] = t /\ at[t] >= 1
    /\ pc[t] = "format" =>
         /\ appender[t] \in Appender /\ m_mtx[appender[t]] = t
         /\ at[t] <= Len(m_appenders[event[t].logger]) /\ appender[t] = appenderOf(t)
    /\ pc[t] = "add" => appender[t] \in Appender

\* The holder of a mutex is in the code that took it.
Held ==
  /\ \A t \in Thread, l \in Logger : m_mtx[l] = t => l \in m_loggers /\
       \/ pc[t] \in {"list", "format"} /\ event[t].logger = l
       \/ pc[t] = "add" /\ \A k \in Logger : m_mtx[k] = t => k = l
  /\ \A t \in Thread, a \in Appender : m_mtx[a] = t => pc[t] = "format" /\ appender[t] = a

\* An appender on a list has a formatter, or is about to be given one.
Formatted ==
  \A l \in Logger : \A n \in DOMAIN m_appenders[l] :
    \/ m_appenders[l][n] \in m_formatter
    \/ \E t \in Thread : m_mtx[l] = t /\ pc[t] = "add" /\ appender[t] = m_appenders[l][n]

\* The threads and the mutexes.
Locks == Events /\ Holds /\ Held /\ Formatted

\* Before the first record nothing is written.
Blank == records = 0 => \A s \in Sink : out[s] = <<>>

\* A sink of one appender: an item follows the one before it, a first one a last one.
Chained == \A a \in Stream \cup File : Linked(out[a], Len(items))

\* Where the sink of an appender stops: at the end of a record, but for the one
\* that the holder of the appender's mutex has begun.
Complete(a) == out[a] = <<>> \/ out[a][Len(out[a])][2] = Len(items)
\* The record t writes has its items up to the one t is at.
Begun(a, t) ==
  /\ out[a] # <<>> /\ item[t] <= Len(items) + 1
  /\ out[a][Len(out[a])] = <<event[t].record, item[t] - 1>>
\* A sink stops so.
Stops ==
  /\ \A a \in Stream \cup File :
       Complete(a) \/ \E t \in Thread : m_mtx[a] = t
  /\ \A t \in Thread, a \in Stream \cup File : pc[t] = "format" /\ appender[t] = a =>
       /\ item[t] >= 1
       /\ item[t] = 1 \/ a \in File \ m_fstream => Complete(a)
       /\ item[t] > 1 /\ a \notin File \ m_fstream => Begun(a, t)

\* Records in hand are distinct, and none is newer than the count.
Distinct ==
  /\ \A t, u \in Thread : t # u /\ Logs(t) /\ Logs(u) => event[t].record # event[u].record
  /\ \A s \in Sink : \A n \in DOMAIN out[s] : out[s][n][1][2] <= records

\* A record whose logger is not yet locked is nowhere written.
NotYet ==
  \A t \in Thread : pc[t] = "log" =>
    \A s \in Sink : \A n \in DOMAIN out[s] : out[s][n][1] # event[t].record

\* Something of x is written in s before something of y.
Before(s, x, y) == \E n \in DOMAIN out[s] : \E m \in 1..n - 1 : out[s][m][1] = x /\ out[s][n][1] = y

\* A record whose logger is locked comes nowhere before another of that logger.
Latest ==
  \A t \in Thread : pc[t] \in {"list", "format"} =>
    \A s \in Sink, y \in Record :
      y # event[t].record /\ y[1] = event[t].logger => ~Before(s, event[t].record, y)

\* Two records of a logger are nowhere in two orders.
InOrder ==
  \A s, u \in Sink : \A x, y \in Record :
    x # y /\ x[1] = y[1] /\ Before(s, x, y) => ~Before(u, y, x)

\* The order of the records.
Order == Distinct /\ NotYet /\ Latest /\ InOrder
\* The contents of the sinks.
Sinks == Blank /\ Chained /\ Stops

\* The pattern is written piece by piece.
Pattern == m_pattern \in Seq(Piece) /\ Unambiguous(m_pattern)
\* The inductive invariant.
Inv == Pattern /\ Types /\ Locks /\ Order /\ Sinks

-----------------------------------------------------------------------------
(* Types *)

\* Goto() moves one thread.
LEMMA Moves ==
  ASSUME Types, NEW t \in Thread, NEW label \in {"ready", "add", "log", "list", "format"},
         NEW place \in Nat, NEW n \in Nat, NEW a \in Appender \cup {Null},
         Goto(t, label, place, n, a)
  PROVE  /\ pc' \in [Thread -> {"ready", "add", "log", "list", "format"}]
         /\ at' \in [Thread -> Nat] /\ item' \in [Thread -> Nat]
         /\ appender' \in [Thread -> Appender \cup {Null}]
         /\ pc'[t] = label /\ at'[t] = place /\ item'[t] = n /\ appender'[t] = a
         /\ \A u \in Thread \ {t} : /\ pc'[u] = pc[u] /\ at'[u] = at[u]
                                    /\ item'[u] = item[u] /\ appender'[u] = appender[u]
BY DEF Types, Goto

\* What an appender writes to is a sink.
LEMMA SinkIs ==
  ASSUME NEW a \in Appender
  PROVE  sinkOf(a) \in Sink /\ (a \in Stream \cup File => sinkOf(a) = a)
BY DEF sinkOf, Sink

\* The calls that configure the log keep the types.
LEMMA TypesConfigure ==
  ASSUME Removes, Types, NEW t \in Thread, Configure(t) PROVE Types'
<1>1. CASE \E l \in Logger : getLogger(t, l)
  <2>1. PICK l \in Logger : getLogger(t, l)
    BY <1>1
  <2>2. Stdout[l] \in Appender /\ <<Stdout[l]>> \in Seq(Appender)
    BY LoggerAssumption, SMTT(60)
  <2>3. m_appenders' \in [Logger -> Seq(Appender)]
    BY <2>1, <2>2 DEF Types, getLogger
  <2>4. config' \in Nat
    BY <2>1, SMTT(60) DEF Types, getLogger, configures
  <2> QED BY <2>1, <2>2, <2>3, <2>4 DEF Types, getLogger, configures
<1>2. CASE \E l \in Logger : clearLogAppenders(t, l)
  <2>1. PICK l \in Logger : clearLogAppenders(t, l)
    BY <1>2
  <2>2. <<>> \in Seq(Appender)
    BY SMTT(60)
  <2>3. m_appenders' \in [Logger -> Seq(Appender)]
    BY <2>1, <2>2 DEF Types, clearLogAppenders
  <2>4. config' \in Nat
    BY <2>1, SMTT(60) DEF Types, clearLogAppenders, configures
  <2> QED BY <2>1, <2>3, <2>4 DEF Types, clearLogAppenders, configures
<1>3. CASE \E l \in Logger, a \in Appender : addLogAppender(t, l, a)
  <2>1. PICK l \in Logger, a \in Appender : addLogAppender(t, l, a)
    BY <1>3
  <2>2. Append(m_appenders[l], a) \in Seq(Appender)
    BY SMTT(60) DEF Types
  <2>3. m_appenders' \in [Logger -> Seq(Appender)]
    BY <2>1, <2>2 DEF Types, addLogAppender
  <2>4. config' \in Nat
    BY <2>1, SMTT(60) DEF Types, addLogAppender, configures
  <2>5. m_mtx' \in [Logger \cup Appender -> Thread \cup {Null}]
    BY <2>1 DEF Types, addLogAppender
  <2>6. 0 \in Nat
    OBVIOUS
  <2>7. /\ pc' \in [Thread -> {"ready", "add", "log", "list", "format"}]
        /\ at' \in [Thread -> Nat] /\ item' \in [Thread -> Nat]
        /\ appender' \in [Thread -> Appender \cup {Null}]
    <3>1. CASE a \in m_formatter
      BY <2>1, <3>1 DEF addLogAppender, Types
    <3>2. CASE a \notin m_formatter
      <4>1. Goto(t, "add", 0, 0, a)
        BY <2>1, <3>2 DEF addLogAppender
      <4> QED BY <4>1, <2>6, Moves
    <3> QED BY <3>1, <3>2
  <2> QED BY <2>1, <2>3, <2>4, <2>5, <2>7 DEF Types, addLogAppender, configures
<1>4. CASE \E l \in Logger, a \in Appender : delLogAppender(t, l, a)
  <2>1. PICK l \in Logger, a \in Appender : delLogAppender(t, l, a)
    BY <1>4
  <2>2. remove(m_appenders[l], a) \in Seq(Appender)
    <3>1. m_appenders[l] \in Seq(Appender)
      BY DEF Types
    <3>2. remove(m_appenders[l], a) \in Seq({m_appenders[l][n] : n \in DOMAIN m_appenders[l]} \ {a})
      BY <3>1 DEF Removes, Removed
    <3>3. {m_appenders[l][n] : n \in DOMAIN m_appenders[l]} \ {a} \subseteq Appender
      BY <3>1, SMTT(60)
    <3> QED BY <3>2, <3>3, SMTT(60)
  <2>3. m_appenders' \in [Logger -> Seq(Appender)]
    BY <2>1, <2>2 DEF Types, delLogAppender
  <2>4. config' \in Nat
    BY <2>1, SMTT(60) DEF Types, delLogAppender, configures
  <2> QED BY <2>1, <2>3, <2>4 DEF Types, delLogAppender, configures
<1>5. CASE \E x \in Logger \cup Appender, level \in Level : setLevel(t, x, level)
  <2>1. PICK x \in Logger \cup Appender, level \in Level : setLevel(t, x, level)
    BY <1>5
  <2>2. m_level' \in [Logger \cup Appender -> Nat]
    BY <2>1, LoggerAssumption DEF Types, setLevel
  <2>4. config' \in Nat
    BY <2>1, SMTT(60) DEF Types, setLevel, configures
  <2> QED BY <2>1, <2>2, <2>4 DEF Types, setLevel, configures
<1>6. CASE \E a \in File : reopen(t, a)
  <2>1. PICK a \in File : reopen(t, a)
    BY <1>6
  <2>2. m_fstream' \subseteq File
    BY <2>1 DEF Types, reopen
  <2>4. config' \in Nat
    BY <2>1, SMTT(60) DEF Types, reopen, configures
  <2> QED BY <2>1, <2>2, <2>4 DEF Types, reopen, configures
<1> QED BY <1>1, <1>2, <1>3, <1>4, <1>5, <1>6 DEF Configure

\* What LogFormatter::format() writes: some items of the record in hand, one by one.
LEMMA Writes ==
  ASSUME Types, Events, Holds, Len(items) \in Nat, NEW t \in Thread, format(t)
  PROVE  LET a == appender[t]
             to == IF a \in Stream THEN Len(items) ELSE item[t]
         IN  /\ a \in Appender /\ to \in Nat /\ to >= item[t] /\ to <= Len(items)
             /\ Goto(t, "format", at[t], to + 1, a)
             /\ \/ a \in File \ m_fstream /\ UNCHANGED out
                \/ /\ a \notin File \ m_fstream
                   /\ \E text \in Seq(Record \X Nat) :
                        /\ Len(text) = to + 1 - item[t]
                        /\ \A k \in 1..Len(text) : text[k] = <<event[t].record, item[t] + k - 1>>
                        /\ out' = [out EXCEPT ![sinkOf(a)] = @ \o text]
<1> DEFINE a == appender[t]
           n == item[t]
           r == event[t].record
           L == Len(items)
           to == IF a \in Stream THEN L ELSE n
           from == [k \in 1..L + 1 - n |-> <<r, n + k - 1>>]
           text == SubSeq(from, 1, to + 1 - n)
<1>1. a \in Appender /\ r \in Record /\ pc[t] = "format"
  BY DEF Holds, Events, Logs, format
<1>2. n \in Nat /\ n <= L /\ L \in Nat
  BY DEF format, Types
<1>3. to \in Nat /\ to >= n /\ to <= L
  BY <1>2, SMTT(60)
<1>4. Goto(t, "format", at[t], to + 1, a)
  BY DEF format
<1>5. out' = IF a \in File \ m_fstream THEN out ELSE [out EXCEPT ![sinkOf(a)] = @ \o text]
  BY DEF format
<1> HIDE DEF a, n, r, L, to
<1>6. text \in Seq(Record \X Nat) /\ Len(text) = to + 1 - n
  BY <1>1, <1>2, <1>3, SMTT(60)
<1>7. \A k \in 1..Len(text) : text[k] = <<r, n + k - 1>>
  BY <1>1, <1>2, <1>3, SMTT(60)
<1> HIDE DEF text
<1>8. a \notin File \ m_fstream => out' = [out EXCEPT ![sinkOf(a)] = @ \o text]
  BY <1>5
<1>9. a \in File \ m_fstream => UNCHANGED out
  BY <1>5
<1>10. a \in File \ m_fstream \/
         (a \notin File \ m_fstream /\ \E x \in Seq(Record \X Nat) :
            /\ Len(x) = to + 1 - n
            /\ \A k \in 1..Len(x) : x[k] = <<r, n + k - 1>>
            /\ out' = [out EXCEPT ![sinkOf(a)] = @ \o x])
  BY <1>6, <1>7, <1>8
<1> QED BY <1>1, <1>3, <1>4, <1>9, <1>10 DEF a, n, r, L, to

\* The steps of a record, and the one that gives an appender its formatter, keep them.
LEMMA TypesLog ==
  ASSUME Types, Events, Holds, Len(items) \in Nat, NEW t \in Thread, AddFormatter(t) \/ Log(t)
  PROVE  Types'
<1> USE DEF configVars
<1>0. 0 \in Nat /\ 1 \in Nat /\ Null \in Appender \cup {Null} /\ at[t] + 1 \in Nat /\ at[t] \in Nat
  BY SMTT(60) DEF Types
<1>1. CASE AddFormatter(t)
  <2>1. Goto(t, "ready", 0, 0, Null)
    BY <1>1 DEF AddFormatter
  <2>2. m_formatter' \subseteq Appender /\ m_mtx' \in [Logger \cup Appender -> Thread \cup {Null}]
    <3>1. PICK l \in Logger : /\ m_mtx' = [m_mtx EXCEPT ![l] = Null]
                              /\ m_formatter' = m_formatter \cup {appender[t]}
      BY <1>1 DEF AddFormatter
    <3>2. appender[t] \in Appender
      BY <1>1 DEF AddFormatter, Holds
    <3> QED BY <3>1, <3>2 DEF Types
  <2> QED BY <1>0, <1>1, <2>1, <2>2, Moves DEF AddFormatter, Types
<1>2. CASE \E l \in Logger, level \in Level : MakeEvent(t, l, level)
  <2>1. PICK l \in Logger, level \in Level : MakeEvent(t, l, level)
    BY <1>2
  <2>2. Goto(t, "log", 0, 0, Null)
    BY <2>1 DEF MakeEvent
  <2>3. records' \in Nat
    BY <2>1, SMTT(60) DEF MakeEvent, Types
  <2>4. [record |-> <<l, records'>>, logger |-> l, level |-> level]
           \in [record : Record \cup {Null}, logger : Logger \cup {Null}, level : Nat]
    BY <2>3, LoggerAssumption, SMTT(60) DEF Record
  <2>5. event' \in [Thread -> [record : Record \cup {Null}, logger : Logger \cup {Null}, level : Nat]]
    BY <2>1, <2>4 DEF MakeEvent, Types
  <2> QED BY <1>0, <2>1, <2>2, <2>3, <2>5, Moves DEF MakeEvent, Types
<1>3. CASE log(t)
  <2>1. Goto(t, "list", 1, 0, Null) \/ Goto(t, "ready", 0, 0, Null)
    BY <1>3 DEF log
  <2>2. m_mtx' \in [Logger \cup Appender -> Thread \cup {Null}]
    BY <1>3 DEF log, Types
  <2> QED BY <1>0, <1>3, <2>1, <2>2, Moves DEF log, Types
<1>4. CASE AppenderLog(t)
  <2>1. appenderOf(t) \in Appender
    <3>1. /\ event[t].logger \in Logger /\ at[t] \in Nat /\ at[t] >= 1
          /\ at[t] <= Len(m_appenders[event[t].logger])
      BY <1>4 DEF AppenderLog, Types, Holds, Events, Logs
    <3>2. m_appenders[event[t].logger] \in Seq(Appender)
      BY <3>1 DEF Types
    <3> QED BY <3>1, <3>2, SMTT(60) DEF appenderOf
  <2>2. Goto(t, "format", at[t], 1, appenderOf(t)) \/ Goto(t, "list", at[t] + 1, 0, Null)
    BY <1>4 DEF AppenderLog
  <2>3. m_mtx' \in [Logger \cup Appender -> Thread \cup {Null}]
    BY <1>4 DEF AppenderLog, Types
  <2> QED BY <1>0, <1>4, <2>1, <2>2, <2>3, Moves DEF AppenderLog, Types
<1>5. CASE format(t)
  <2> DEFINE a == appender[t]
             to == IF a \in Stream THEN Len(items) ELSE item[t]
  <2>1. /\ a \in Appender /\ to + 1 \in Nat /\ Goto(t, "format", at[t], to + 1, a)
        /\ UNCHANGED out \/ \E text \in Seq(Record \X Nat) : out' = [out EXCEPT ![sinkOf(a)] = @ \o text]
    <3>1. to \in Nat => to + 1 \in Nat
      BY SMTT(60)
    <3> QED BY <1>5, <3>1, Writes
  <2> HIDE DEF a, to
  <2>2. out' \in [Sink -> Seq(Record \X Nat)]
    <3>1. CASE UNCHANGED out
      BY <3>1 DEF Types
    <3>2. CASE \E text \in Seq(Record \X Nat) : out' = [out EXCEPT ![sinkOf(a)] = @ \o text]
      <4>1. PICK text \in Seq(Record \X Nat) : out' = [out EXCEPT ![sinkOf(a)] = @ \o text]
        BY <3>2
      <4>2. sinkOf(a) \in Sink /\ out[sinkOf(a)] \in Seq(Record \X Nat)
        BY <2>1, SinkIs DEF Types
      <4>3. out[sinkOf(a)] \o text \in Seq(Record \X Nat)
        BY <4>2, Sequences1
      <4> QED BY <4>1, <4>3 DEF Types
    <3> QED BY <2>1, <3>1, <3>2
  <2> QED BY <1>0, <1>5, <2>1, <2>2, Moves DEF format, Types
<1>6. CASE AppenderDone(t)
  <2>1. Goto(t, "list", at[t] + 1, 0, Null)
    BY <1>6 DEF AppenderDone
  <2>2. m_mtx' \in [Logger \cup Appender -> Thread \cup {Null}]
    BY <1>6 DEF AppenderDone, Types
  <2> QED BY <1>0, <1>6, <2>1, <2>2, Moves DEF AppenderDone, Types
<1>7. CASE LogDone(t)
  <2>1. Goto(t, "ready", 0, 0, Null)
    BY <1>7 DEF LogDone
  <2>2. m_mtx' \in [Logger \cup Appender -> Thread \cup {Null}]
    BY <1>7 DEF LogDone, Types
  <2>3. NoEvent \in [record : Record \cup {Null}, logger : Logger \cup {Null}, level : Nat]
    BY SMTT(60) DEF NoEvent
  <2>4. event' \in [Thread -> [record : Record \cup {Null}, logger : Logger \cup {Null}, level : Nat]]
    BY <1>7, <2>3 DEF LogDone, Types
  <2> QED BY <1>0, <1>7, <2>1, <2>2, <2>4, Moves DEF LogDone, Types
<1> QED BY <1>1, <1>2, <1>3, <1>4, <1>5, <1>6, <1>7 DEF Log

-----------------------------------------------------------------------------
(* The locks *)

\* A list is changed only while nobody holds its logger's mutex, and only to appenders
\* that have a formatter.
LEMMA LocksRelist ==
  ASSUME Types, Locks, NEW l \in Logger, m_mtx[l] = Null,
         m_appenders' \in [Logger -> Seq(Appender)],
         \A k \in Logger \ {l} : m_appenders'[k] = m_appenders[k],
         \A n \in DOMAIN m_appenders'[l] : m_appenders'[l][n] \in m_formatter',
         m_formatter \subseteq m_formatter', m_loggers \subseteq m_loggers',
         UNCHANGED <<m_mtx, pc, at, item, appender, event, records>>
  PROVE  Locks'
<1>1. Events'
  BY DEF Locks, Events, Logs
<1>2. Held'
  BY SMTT(60) DEF Locks, Held
<1>3. Holds'
  <2> SUFFICES ASSUME NEW t \in Thread
               PROVE  /\ pc[t] \in {"list", "format"} => m_mtx[event[t].logger] = t /\ at[t] >= 1
                      /\ pc[t] = "format" =>
                           /\ appender[t] \in Appender /\ m_mtx[appender[t]] = t
                           /\ at[t] <= Len(m_appenders'[event[t].logger])
                           /\ appender[t] = m_appenders'[event[t].logger][at[t]]
                      /\ pc[t] = "add" => appender[t] \in Appender
    BY DEF Holds, appenderOf
  <2>1. pc[t] = "format" => m_appenders'[event[t].logger] = m_appenders[event[t].logger]
    <3> SUFFICES ASSUME pc[t] = "format" PROVE event[t].logger \in Logger \ {l}
      OBVIOUS
    <3>1. event[t].logger \in Logger /\ m_mtx[event[t].logger] = t
      BY DEF Types, Locks, Events, Logs, Holds
    <3> QED BY <3>1, LoggerAssumption
  <2> QED BY <2>1 DEF Locks, Holds, appenderOf
<1>4. Formatted'
  <2> SUFFICES ASSUME NEW k \in Logger, NEW n \in DOMAIN m_appenders'[k]
               PROVE  \/ m_appenders'[k][n] \in m_formatter'
                      \/ \E t \in Thread : m_mtx[k] = t /\ pc[t] = "add"
                                           /\ appender[t] = m_appenders'[k][n]
    BY SMTT(60) DEF Formatted
  <2>1. CASE k = l
    BY <2>1
  <2>2. CASE k # l
    BY <2>2, SMTT(60) DEF Locks, Formatted
  <2> QED BY <2>1, <2>2
<1> QED BY <1>1, <1>2, <1>3, <1>4 DEF Locks

\* On the list of a logger whose mutex is free, every appender has a formatter.
LEMMA AllFormatted ==
  ASSUME Types, Locks, NEW l \in Logger, m_mtx[l] = Null, NEW n \in DOMAIN m_appenders[l]
  PROVE  m_appenders[l][n] \in m_formatter
BY LoggerAssumption, SMTT(60) DEF Locks, Formatted

\* Who holds which mutex, through the calls that configure the log: a list changes
\* while its logger's mutex is free (log.cpp:239-255).
LEMMA LocksConfigure ==
  ASSUME Removes, Types, Types', Locks, NEW t \in Thread, Configure(t) PROVE Locks'
<1> USE DEF configures
<1>1. CASE \E l \in Logger : getLogger(t, l)
  <2>1. PICK l \in Logger : getLogger(t, l)
    BY <1>1
  <2>2. m_mtx[l] = Null
    BY <2>1 DEF Types, Locks, Held, getLogger
  <2>3. /\ \A k \in Logger \ {l} : m_appenders'[k] = m_appenders[k]
        /\ m_appenders'[l] = <<Stdout[l]>> /\ Stdout[l] \in m_formatter'
    BY <2>1 DEF getLogger, Types
  <2>4. \A n \in DOMAIN <<Stdout[l]>> : <<Stdout[l]>>[n] = Stdout[l]
    BY SMTT(60)
  <2>5. \A n \in DOMAIN m_appenders'[l] : m_appenders'[l][n] \in m_formatter'
    BY <2>3, <2>4
  <2>6. /\ m_formatter \subseteq m_formatter' /\ m_loggers \subseteq m_loggers'
        /\ UNCHANGED <<m_mtx, pc, at, item, appender, event, records>>
    BY <2>1 DEF getLogger
  <2>7. m_appenders' \in [Logger -> Seq(Appender)]
    BY DEF Types
  <2> QED BY <2>2, <2>3, <2>5, <2>6, <2>7, LocksRelist
<1>2. CASE \E l \in Logger : clearLogAppenders(t, l)
  <2>1. PICK l \in Logger : clearLogAppenders(t, l)
    BY <1>2
  <2>2. /\ \A k \in Logger \ {l} : m_appenders'[k] = m_appenders[k]
        /\ m_appenders'[l] = <<>> /\ m_mtx[l] = Null
    BY <2>1 DEF clearLogAppenders, Types
  <2>3. \A n \in DOMAIN <<>> : FALSE
    BY SMTT(60)
  <2>4. \A n \in DOMAIN m_appenders'[l] : m_appenders'[l][n] \in m_formatter'
    BY <2>2, <2>3
  <2>5. /\ m_formatter \subseteq m_formatter' /\ m_loggers \subseteq m_loggers'
        /\ UNCHANGED <<m_mtx, pc, at, item, appender, event, records>>
    BY <2>1 DEF clearLogAppenders
  <2>6. m_appenders' \in [Logger -> Seq(Appender)]
    BY DEF Types
  <2> QED BY <2>2, <2>4, <2>5, <2>6, LocksRelist
<1>3. CASE \E l \in Logger, a \in Appender : addLogAppender(t, l, a)
  <2>1. PICK l \in Logger, a \in Appender : addLogAppender(t, l, a)
    BY <1>3
  <2>2. /\ \A k \in Logger \ {l} : m_appenders'[k] = m_appenders[k]
        /\ m_appenders'[l] = Append(m_appenders[l], a) /\ m_mtx[l] = Null
        /\ l \in m_loggers /\ pc[t] = "ready" /\ m_appenders[l] \in Seq(Appender)
        /\ UNCHANGED <<m_formatter, m_loggers, event, records>>
    BY <2>1 DEF addLogAppender, Types
  <2>3. \A n \in DOMAIN m_appenders'[l] :
          m_appenders'[l][n] = a \/ (n \in DOMAIN m_appenders[l] /\ m_appenders'[l][n] = m_appenders[l][n])
    BY <2>2, SMTT(60)
  <2>4. \A n \in DOMAIN m_appenders'[l] : m_appenders'[l][n] = a \/ m_appenders'[l][n] \in m_formatter
    BY <2>2, <2>3, AllFormatted
  <2>5. m_appenders' \in [Logger -> Seq(Appender)]
    BY DEF Types
  <2>6. CASE a \in m_formatter
    <3>1. /\ \A n \in DOMAIN m_appenders'[l] : m_appenders'[l][n] \in m_formatter'
          /\ m_formatter \subseteq m_formatter' /\ m_loggers \subseteq m_loggers'
          /\ UNCHANGED <<m_mtx, pc, at, item, appender, event, records>>
      BY <2>1, <2>2, <2>4, <2>6 DEF addLogAppender
    <3> QED BY <2>2, <2>5, <3>1, LocksRelist
  <2>7. CASE a \notin m_formatter
    <3>1. m_mtx' = [m_mtx EXCEPT ![l] = t] /\ Goto(t, "add", 0, 0, a)
      BY <2>1, <2>7 DEF addLogAppender
    <3>2. /\ pc'[t] = "add" /\ appender'[t] = a
          /\ \A u \in Thread \ {t} : /\ pc'[u] = pc[u] /\ at'[u] = at[u]
                                     /\ item'[u] = item[u] /\ appender'[u] = appender[u]
      <4>1. 0 \in Nat
        BY SMTT(60)
      <4> QED BY <3>1, <4>1, Moves, SMTT(60)
    <3>3. m_mtx'[l] = t /\ \A x \in (Logger \cup Appender) \ {l} : m_mtx'[x] = m_mtx[x]
      BY <3>1 DEF Types
    <3>4. \A x \in Logger \cup Appender : m_mtx[x] # t
      BY <2>2 DEF Locks, Held
    <3>5. \A u \in Thread \ {t} : \A x \in Logger \cup Appender :
            m_mtx'[x] = u <=> m_mtx[x] = u
      BY <2>2, <3>3, LoggerAssumption
    <3>6. Events'
      BY <2>2, <3>2 DEF Locks, Events, Logs
    <3>7. Held'
      <4>1. ASSUME NEW u \in Thread, NEW k \in Logger, m_mtx'[k] = u
            PROVE  k \in m_loggers /\
                     \/ pc'[u] \in {"list", "format"} /\ event[u].logger = k
                     \/ pc'[u] = "add" /\ \A j \in Logger : m_mtx'[j] = u => j = k
        <5>1. CASE u = t
          BY <5>1, <4>1, <2>2, <3>2, <3>3, <3>4, SMTT(60)
        <5>2. CASE u # t
          <6>1. m_mtx[k] = u /\ \A j \in Logger : m_mtx'[j] = u <=> m_mtx[j] = u
            BY <5>2, <4>1, <3>5
          <6> QED BY <6>1, <5>2, <3>2, SMTT(60) DEF Locks, Held
        <5> QED BY <5>1, <5>2
      <4>2. ASSUME NEW u \in Thread, NEW b \in Appender, m_mtx'[b] = u
            PROVE  pc'[u] = "format" /\ appender'[u] = b
        <5>1. m_mtx[b] = u
          BY <4>2, <3>3, LoggerAssumption
        <5>2. u # t
          BY <5>1, <3>4
        <5> QED BY <5>1, <5>2, <3>2 DEF Locks, Held
      <4> QED BY <4>1, <4>2, <2>2, SMTT(60) DEF Held
    <3>8. Holds'
      <4> SUFFICES ASSUME NEW u \in Thread
               PROVE  /\ pc'[u] \in {"list", "format"} => m_mtx'[event[u].logger] = u /\ at'[u] >= 1
                      /\ pc'[u] = "format" =>
                           /\ appender'[u] \in Appender /\ m_mtx'[appender'[u]] = u
                           /\ at'[u] <= Len(m_appenders'[event[u].logger])
                           /\ appender'[u] = m_appenders'[event[u].logger][at'[u]]
                      /\ pc'[u] = "add" => appender'[u] \in Appender
        BY <2>2 DEF Holds, appenderOf
      <4>1. CASE u = t
        BY <4>1, <3>2
      <4>2. CASE u # t
        <5>1. pc[u] \in {"list", "format"} => event[u].logger \in Logger /\ m_mtx[event[u].logger] = u
          BY DEF Types, Locks, Events, Logs, Holds
        <5>2. pc[u] \in {"list", "format"} => m_appenders'[event[u].logger] = m_appenders[event[u].logger]
          BY <5>1, <2>2, LoggerAssumption
        <5> QED BY <4>2, <5>1, <5>2, <3>2, <3>5, SMTT(60) DEF Locks, Holds, appenderOf
      <4> QED BY <4>1, <4>2
    <3>9. Formatted'
      <4> SUFFICES ASSUME NEW k \in Logger, NEW n \in DOMAIN m_appenders'[k]
               PROVE  \/ m_appenders'[k][n] \in m_formatter
                      \/ \E u \in Thread : m_mtx'[k] = u /\ pc'[u] = "add"
                                           /\ appender'[u] = m_appenders'[k][n]
        BY <2>2 DEF Formatted
      <4>1. CASE k = l
        BY <4>1, <2>4, <3>2, <3>3
      <4>2. CASE k # l
        <5>1. \/ m_appenders[k][n] \in m_formatter
              \/ \E u \in Thread : m_mtx[k] = u /\ pc[u] = "add" /\ appender[u] = m_appenders[k][n]
          BY <4>2, <2>2 DEF Locks, Formatted
        <5> QED BY <4>2, <5>1, <2>2, <3>2, <3>4, <3>5, SMTT(60)
      <4> QED BY <4>1, <4>2
    <3> QED BY <3>6, <3>7, <3>8, <3>9 DEF Locks
  <2> QED BY <2>6, <2>7
<1>4. CASE \E l \in Logger, a \in Appender : delLogAppender(t, l, a)
  <2>1. PICK l \in Logger, a \in Appender : delLogAppender(t, l, a)
    BY <1>4
  <2>2. /\ \A k \in Logger \ {l} : m_appenders'[k] = m_appenders[k]
        /\ m_appenders'[l] = remove(m_appenders[l], a) /\ m_mtx[l] = Null
        /\ m_appenders[l] \in Seq(Appender)
    BY <2>1 DEF delLogAppender, Types
  <2> DEFINE R == {m_appenders[l][n] : n \in DOMAIN m_appenders[l]} \ {a}
  <2>3. m_appenders'[l] \in Seq(R)
    BY <2>2 DEF Removes, Removed
  <2>4. R \subseteq m_formatter
    BY <2>2, AllFormatted
  <2> HIDE DEF R
  <2>5. \A n \in DOMAIN m_appenders'[l] : m_appenders'[l][n] \in R
    BY <2>3, Sequences1
  <2>6. /\ m_formatter' = m_formatter /\ m_loggers \subseteq m_loggers'
        /\ UNCHANGED <<m_mtx, pc, at, item, appender, event, records>>
    BY <2>1 DEF delLogAppender
  <2>7. m_appenders' \in [Logger -> Seq(Appender)]
    BY DEF Types
  <2>8. /\ m_formatter \subseteq m_formatter'
        /\ \A n \in DOMAIN m_appenders'[l] : m_appenders'[l][n] \in m_formatter'
    BY <2>4, <2>5, <2>6
  <2> QED BY <2>2, <2>6, <2>7, <2>8, LocksRelist
<1>5. CASE \E x \in Logger \cup Appender, level \in Level : setLevel(t, x, level)
  BY <1>5, SMTT(60) DEF setLevel, Locks, Events, Holds, Held, Formatted, Logs, appenderOf
<1>6. CASE \E a \in File : reopen(t, a)
  BY <1>6, SMTT(60) DEF reopen, Locks, Events, Holds, Held, Formatted, Logs, appenderOf
<1> QED BY <1>1, <1>2, <1>3, <1>4, <1>5, <1>6 DEF Configure

\* What a step of t leaves alone: the other threads, and the mutexes they hold.
Others(t) ==
  \A u \in Thread \ {t} :
    /\ pc'[u] = pc[u] /\ at'[u] = at[u] /\ item'[u] = item[u] /\ appender'[u] = appender[u]
    /\ event'[u] = event[u]
    /\ \A x \in Logger \cup Appender : m_mtx'[x] = u <=> m_mtx[x] = u

\* The same without where the other threads are.
Apart(t) ==
  \A u \in Thread \ {t} :
    event'[u] = event[u] /\ \A x \in Logger \cup Appender : m_mtx'[x] = u <=> m_mtx[x] = u

\* A jump moves the thread that jumps, and no other.
LEMMA Moved ==
  ASSUME Types, NEW t \in Thread, NEW label, NEW place, NEW n, NEW a, Goto(t, label, place, n, a)
  PROVE  /\ pc'[t] = label /\ at'[t] = place /\ item'[t] = n /\ appender'[t] = a
         /\ \A u \in Thread \ {t} : /\ pc'[u] = pc[u] /\ at'[u] = at[u]
                                    /\ item'[u] = item[u] /\ appender'[u] = appender[u]
BY DEF Goto, Types

\* A thread that jumps leaves the others alone when it does so with their locks.
LEMMA OthersMoved ==
  ASSUME Types, NEW t \in Thread, NEW label, NEW place, NEW n, NEW a, Goto(t, label, place, n, a),
         Apart(t)
  PROVE  /\ Others(t)
         /\ pc'[t] = label /\ at'[t] = place /\ item'[t] = n /\ appender'[t] = a
<1>1. /\ pc'[t] = label /\ at'[t] = place /\ item'[t] = n /\ appender'[t] = a
      /\ \A u \in Thread \ {t} : /\ pc'[u] = pc[u] /\ at'[u] = at[u]
                                 /\ item'[u] = item[u] /\ appender'[u] = appender[u]
  BY Moved
<1> QED BY <1>1 DEF Others, Apart

\* With the lists as they are, the others' part of the invariant stays.
LEMMA OthersKeep ==
  ASSUME Types, Types', Locks, NEW t \in Thread, Others(t), UNCHANGED <<m_loggers, m_appenders>>,
         records' >= records, m_formatter \subseteq m_formatter',
         Logs(t)' => /\ event'[t].logger \in m_loggers /\ event'[t].record \in Record
                     /\ event'[t].record[1] = event'[t].logger
                     /\ event'[t].record[2] <= records' /\ records' > 0,
         pc'[t] \in {"list", "format"} => m_mtx'[event'[t].logger] = t /\ at'[t] >= 1,
         pc'[t] = "format" =>
           /\ appender'[t] \in Appender /\ m_mtx'[appender'[t]] = t
           /\ at'[t] <= Len(m_appenders[event'[t].logger])
           /\ appender'[t] = m_appenders[event'[t].logger][at'[t]],
         pc'[t] # "add",
         \A l \in Logger : m_mtx'[l] = t =>
           l \in m_loggers /\ pc'[t] \in {"list", "format"} /\ event'[t].logger = l,
         \A a \in Appender : m_mtx'[a] = t => pc'[t] = "format" /\ appender'[t] = a,
         pc[t] = "add" => appender[t] \in m_formatter'
  PROVE  Locks'
<1>1. Events'
  <2> SUFFICES ASSUME NEW u \in Thread, Logs(u)'
               PROVE  /\ event'[u].logger \in m_loggers' /\ event'[u].record \in Record
                      /\ event'[u].record[1] = event'[u].logger
                      /\ event'[u].record[2] <= records' /\ records' > 0
    BY DEF Events
  <2>1. CASE u = t
    BY <2>1
  <2>2. CASE u # t
    <3>1. Logs(u) /\ event'[u] = event[u]
      BY <2>2 DEF Others, Logs
    <3>2. /\ event[u].logger \in m_loggers /\ event[u].record \in Record
          /\ event[u].record[1] = event[u].logger
          /\ event[u].record[2] <= records /\ records > 0
      BY <3>1 DEF Locks, Events
    <3>3. event[u].record[2] \in Nat
      BY <3>2 DEF Record
    <3>4. event[u].record[2] <= records' /\ records' > 0
      <4>1. records \in Nat /\ records' \in Nat
        BY DEF Types
      <4> QED BY <3>2, <3>3, <4>1, SMTT(60)
    <3> QED BY <3>1, <3>2, <3>4
  <2> QED BY <2>1, <2>2
<1>2. Holds'
  <2> SUFFICES ASSUME NEW u \in Thread
           PROVE  /\ pc'[u] \in {"list", "format"} => m_mtx'[event'[u].logger] = u /\ at'[u] >= 1
                  /\ pc'[u] = "format" =>
                       /\ appender'[u] \in Appender /\ m_mtx'[appender'[u]] = u
                       /\ at'[u] <= Len(m_appenders[event'[u].logger])
                       /\ appender'[u] = m_appenders[event'[u].logger][at'[u]]
                  /\ pc'[u] = "add" => appender'[u] \in Appender
    BY SMTT(60) DEF Holds, appenderOf
  <2>1. CASE u = t
    BY <2>1
  <2>2. CASE u # t
    <3>1. pc[u] \in {"list", "format"} => event[u].logger \in Logger
      BY DEF Types, Locks, Events, Logs
    <3> QED BY <2>2, <3>1, SMTT(60) DEF Others, Locks, Holds, appenderOf
  <2> QED BY <2>1, <2>2
<1>3. Held'
  <2>1. ASSUME NEW u \in Thread, NEW k \in Logger, m_mtx'[k] = u
        PROVE  k \in m_loggers' /\
                 \/ pc'[u] \in {"list", "format"} /\ event'[u].logger = k
                 \/ pc'[u] = "add" /\ \A j \in Logger : m_mtx'[j] = u => j = k
    <3>1. CASE u = t
      BY <3>1, <2>1
    <3>2. CASE u # t
      BY <3>2, <2>1, SMTT(60) DEF Others, Locks, Held
    <3> QED BY <3>1, <3>2
  <2>2. ASSUME NEW u \in Thread, NEW b \in Appender, m_mtx'[b] = u
        PROVE  pc'[u] = "format" /\ appender'[u] = b
    <3>1. CASE u = t
      BY <3>1, <2>2
    <3>2. CASE u # t
      BY <3>2, <2>2, SMTT(60) DEF Others, Locks, Held
    <3> QED BY <3>1, <3>2
  <2> QED BY <2>1, <2>2 DEF Held
<1>4. Formatted'
  <2> SUFFICES ASSUME NEW k \in Logger, NEW n \in DOMAIN m_appenders[k]
           PROVE  \/ m_appenders[k][n] \in m_formatter'
                  \/ \E u \in Thread : m_mtx'[k] = u /\ pc'[u] = "add"
                                       /\ appender'[u] = m_appenders[k][n]
    BY SMTT(60) DEF Formatted
  <2>1. \/ m_appenders[k][n] \in m_formatter
        \/ \E u \in Thread : m_mtx[k] = u /\ pc[u] = "add" /\ appender[u] = m_appenders[k][n]
    BY DEF Locks, Formatted
  <2> QED BY <2>1, SMTT(60) DEF Others
<1> QED BY <1>1, <1>2, <1>3, <1>4 DEF Locks

\* Who holds which mutex, through the steps of a record (log.cpp:230-297).
LEMMA LocksLog ==
  ASSUME Types, Types', Locks, Len(items) \in Nat, NEW t \in Thread, AddFormatter(t) \/ Log(t)
  PROVE  Locks'
<1> USE DEF configVars
<1>0. /\ 0 \in Nat /\ 1 \in Nat /\ Null \in Appender \cup {Null} /\ at[t] + 1 \in Nat /\ at[t] \in Nat
      /\ records' \in Nat /\ records \in Nat
  BY SMTT(60) DEF Types
<1>a. \A u \in Thread : u # Null
  BY LoggerAssumption
<1>b. /\ \A x \in Logger \cup Appender : m_mtx[x] \in Thread \cup {Null}
      /\ DOMAIN m_mtx = Logger \cup Appender /\ \A l \in Logger : l \notin Appender
  BY LoggerAssumption DEF Types
<1>c. Logs(t) => /\ event[t].logger \in m_loggers /\ event[t].record \in Record
                 /\ event[t].record[1] = event[t].logger
                 /\ event[t].record[2] <= records /\ records > 0
                 /\ event[t].logger \in Logger
  BY DEF Locks, Events, Types
<1>d. \A l \in Logger : m_mtx[l] = t =>
        \/ pc[t] \in {"list", "format"} /\ event[t].logger = l
        \/ pc[t] = "add" /\ \A k \in Logger : m_mtx[k] = t => k = l
  BY DEF Locks, Held
<1>e. \A a \in Appender : m_mtx[a] = t => pc[t] = "format" /\ appender[t] = a
  BY DEF Locks, Held
<1>f. pc[t] \in {"list", "format"} => \A l \in Logger : m_mtx[l] = t => event[t].logger = l /\ l \in m_loggers
  BY DEF Locks, Held
<1>g. pc[t] # "format" => \A a \in Appender : m_mtx[a] # t
  BY <1>e
<1>h. pc[t] \in {"ready", "log"} => \A x \in Logger \cup Appender : m_mtx[x] # t
  BY <1>d, <1>g
<1>i. /\ records' = records => records' >= records
      /\ records' = records + 1 => records' >= records /\ records' <= records' /\ records' > 0
  BY <1>0, SMTT(60)
<1>j. at[t] >= 1 => at[t] + 1 >= 1
  BY <1>0, SMTT(60)
<1>k. 1 >= 1
  BY SMTT(60)
<1>1. CASE AddFormatter(t)
  <2>1. Goto(t, "ready", 0, 0, Null) /\ UNCHANGED <<m_loggers, m_appenders, event, records>> /\ pc[t] = "add"
    BY <1>1 DEF AddFormatter
  <2>2. PICK l \in Logger : /\ m_mtx[l] = t /\ m_mtx' = [m_mtx EXCEPT ![l] = Null]
                            /\ m_formatter' = m_formatter \cup {appender[t]}
    BY <1>1 DEF AddFormatter
  <2>3. \A x \in Logger \cup Appender : m_mtx'[x] = IF x = l THEN Null ELSE m_mtx[x]
    BY <1>b, <2>2
  <2>4. Others(t) /\ pc'[t] = "ready"
    <3>1. Apart(t)
      BY <1>a, <2>1, <2>2, <2>3, SMTT(60) DEF Apart
    <3> QED BY <2>1, <3>1, OthersMoved
  <2>5. \A x \in Logger \cup Appender : m_mtx'[x] # t
    BY <1>a, <1>d, <1>g, <2>1, <2>2, <2>3
  <2>6. records' >= records
    BY <1>i, <2>1
  <2>7. m_formatter \subseteq m_formatter' /\ appender[t] \in m_formatter'
    BY <2>2
  <2> QED BY <2>1, <2>4, <2>5, <2>6, <2>7, OthersKeep DEF Logs
<1>2. CASE \E l \in Logger, level \in Level : MakeEvent(t, l, level)
  <2>1. PICK l \in Logger, level \in Level : MakeEvent(t, l, level)
    BY <1>2
  <2>2. /\ Goto(t, "log", 0, 0, Null) /\ UNCHANGED <<m_loggers, m_appenders, m_formatter, m_mtx>>
        /\ pc[t] = "ready" /\ records' = records + 1 /\ l \in m_loggers
        /\ event' = [event EXCEPT ![t] = [record |-> <<l, records'>>, logger |-> l, level |-> level]]
    BY <2>1 DEF MakeEvent
  <2>3. /\ event'[t] = [record |-> <<l, records'>>, logger |-> l, level |-> level]
        /\ \A u \in Thread \ {t} : event'[u] = event[u]
    BY <2>2 DEF Types
  <2>4. Others(t) /\ pc'[t] = "log"
    <3>1. Apart(t)
      BY <2>2, <2>3 DEF Apart
    <3> QED BY <2>2, <3>1, OthersMoved
  <2>5. /\ event'[t].logger = l /\ event'[t].record \in Record /\ event'[t].record[1] = l
        /\ event'[t].record[2] <= records' /\ records' > 0
    <3>1. <<l, records'>> \in Record /\ <<l, records'>>[1] = l /\ <<l, records'>>[2] = records'
      BY <1>0 DEF Record
    <3>2. event'[t].logger = l /\ event'[t].record = <<l, records'>>
      <4>1. event'[t] = [record |-> <<l, records'>>, logger |-> l, level |-> level]
        BY <2>3
      <4> QED BY <4>1, SMTT(60)
    <3>3. records' <= records' /\ records' > 0
      BY <1>i, <2>2
    <3> QED BY <3>1, <3>2, <3>3
  <2>6. \A x \in Logger \cup Appender : m_mtx'[x] # t
    BY <1>h, <2>2
  <2> QED BY <1>i, <2>2, <2>4, <2>5, <2>6, OthersKeep
<1>3. CASE log(t)
  <2> DEFINE l == event[t].logger
  <2>1. /\ UNCHANGED <<m_loggers, m_appenders, m_formatter, event, records>>
        /\ pc[t] = "log" /\ m_mtx[l] = Null
        /\ \/ m_mtx' = [m_mtx EXCEPT ![l] = t] /\ Goto(t, "list", 1, 0, Null)
           \/ Goto(t, "ready", 0, 0, Null) /\ UNCHANGED m_mtx
    BY <1>3 DEF log
  <2>2. \A x \in Logger \cup Appender : m_mtx[x] # t
    BY <1>h, <2>1
  <2>3. Logs(t) /\ l \in Logger
    BY <2>1, <1>c DEF Logs
  <2> HIDE DEF l
  <2>4. CASE m_mtx' = [m_mtx EXCEPT ![l] = t] /\ Goto(t, "list", 1, 0, Null)
    <3>1. \A x \in Logger \cup Appender : m_mtx'[x] = IF x = l THEN t ELSE m_mtx[x]
      BY <1>b, <2>4
    <3>2. Apart(t)
      BY <1>a, <2>1, <3>1, SMTT(60) DEF Apart
    <3>3. Others(t) /\ pc'[t] = "list" /\ at'[t] = 1
      BY <2>4, <3>2, OthersMoved
    <3>4. /\ \A k \in Logger : m_mtx'[k] = t => k = l
          /\ \A b \in Appender : m_mtx'[b] # t
          /\ m_mtx'[l] = t /\ event' = event
      BY <1>b, <2>1, <2>2, <2>3, <3>1
    <3>5. records' >= records /\ m_formatter \subseteq m_formatter' /\ at'[t] >= 1
      BY <1>i, <1>k, <2>1, <3>3
    <3> QED BY <1>c, <2>1, <2>3, <3>3, <3>4, <3>5, OthersKeep DEF l
  <2>5. CASE Goto(t, "ready", 0, 0, Null) /\ UNCHANGED m_mtx
    <3>1. Others(t) /\ pc'[t] = "ready"
      <4>1. Apart(t)
        BY <2>1, <2>5 DEF Apart
      <4> QED BY <2>5, <4>1, OthersMoved
    <3> QED BY <1>i, <2>1, <2>2, <2>5, <3>1, OthersKeep DEF Logs
  <2> QED BY <2>1, <2>4, <2>5
<1>4. CASE AppenderLog(t)
  <2> DEFINE a == appenderOf(t)
  <2>1. /\ UNCHANGED <<m_loggers, m_appenders, m_formatter, event, records>>
        /\ pc[t] = "list" /\ m_mtx[a] = Null /\ at[t] <= Len(m_appenders[event[t].logger])
        /\ \/ m_mtx' = [m_mtx EXCEPT ![a] = t] /\ Goto(t, "format", at[t], 1, a)
           \/ Goto(t, "list", at[t] + 1, 0, Null) /\ UNCHANGED m_mtx
    BY <1>4 DEF AppenderLog
  <2>2. Logs(t) /\ at[t] >= 1 /\ m_mtx[event[t].logger] = t
    BY <2>1 DEF Logs, Locks, Holds
  <2>3. a \in Appender /\ a = m_appenders[event[t].logger][at[t]]
    <3>1. m_appenders[event[t].logger] \in Seq(Appender)
      BY <2>2, <1>c DEF Types
    <3> QED BY <1>0, <2>1, <2>2, <3>1, SMTT(60) DEF appenderOf
  <2> HIDE DEF a
  <2>4. CASE m_mtx' = [m_mtx EXCEPT ![a] = t] /\ Goto(t, "format", at[t], 1, a)
    <3>1. \A x \in Logger \cup Appender : m_mtx'[x] = IF x = a THEN t ELSE m_mtx[x]
      BY <1>b, <2>4
    <3>2. Others(t) /\ pc'[t] = "format" /\ at'[t] = at[t] /\ appender'[t] = a
      <4>1. Apart(t)
        BY <1>a, <2>1, <3>1, SMTT(60) DEF Apart
      <4> QED BY <2>4, <4>1, OthersMoved
    <3>3. \A l \in Logger : m_mtx'[l] = m_mtx[l]
      BY <1>b, <2>3, <3>1
    <3>4. /\ \A l \in Logger : m_mtx'[l] = t => event'[t].logger = l /\ l \in m_loggers
          /\ \A b \in Appender : m_mtx'[b] = t => b = a
          /\ m_mtx'[a] = t /\ m_mtx'[event[t].logger] = t
      <4>1. \A b \in Appender : m_mtx'[b] = t => b = a
        BY <1>g, <2>1, <3>1
      <4>2. m_mtx'[a] = t /\ m_mtx'[event[t].logger] = t
        BY <1>c, <2>2, <2>3, <3>1, <3>3
      <4> QED BY <1>f, <2>1, <3>3, <4>1, <4>2
    <3>5. records' >= records /\ m_formatter \subseteq m_formatter'
      BY <1>i, <2>1
    <3> QED BY <1>c, <2>1, <2>2, <2>3, <3>2, <3>4, <3>5, OthersKeep
  <2>5. CASE Goto(t, "list", at[t] + 1, 0, Null) /\ UNCHANGED m_mtx
    <3>1. Others(t) /\ pc'[t] = "list" /\ at'[t] = at[t] + 1
      <4>1. Apart(t)
        BY <2>1, <2>5 DEF Apart
      <4> QED BY <2>5, <4>1, OthersMoved
    <3>2. /\ \A l \in Logger : m_mtx'[l] = t => event'[t].logger = l /\ l \in m_loggers
          /\ \A b \in Appender : m_mtx'[b] # t
      BY <1>f, <1>g, <2>1, <2>5
    <3>3. records' >= records /\ m_formatter \subseteq m_formatter' /\ event' = event /\ at'[t] >= 1
      BY <1>i, <1>j, <2>1, <2>2, <3>1
    <3> QED BY <1>c, <2>1, <2>2, <2>5, <3>1, <3>2, <3>3, OthersKeep
  <2> QED BY <2>1, <2>4, <2>5
<1>5. CASE format(t)
  <2>1. /\ UNCHANGED <<m_loggers, m_appenders, m_formatter, m_mtx, event, records>> /\ pc[t] = "format"
        /\ \E n : Goto(t, "format", at[t], n, appender[t])
    BY <1>5 DEF format
  <2>2. Logs(t) /\ pc'[t] = "format" /\ at'[t] = at[t] /\ appender'[t] = appender[t]
    BY <2>1, Moved DEF Logs
  <2>3. Others(t)
    <3>1. Apart(t)
      BY <2>1 DEF Apart
    <3> QED BY <2>1, <3>1, OthersMoved
  <2>4. /\ m_mtx[event[t].logger] = t /\ at[t] >= 1 /\ appender[t] \in Appender
        /\ m_mtx[appender[t]] = t /\ at[t] <= Len(m_appenders[event[t].logger])
        /\ appender[t] = m_appenders[event[t].logger][at[t]]
    BY <2>1 DEF Locks, Holds, appenderOf
  <2>5. /\ \A l \in Logger : m_mtx'[l] = t => event'[t].logger = l /\ l \in m_loggers
        /\ \A b \in Appender : m_mtx'[b] = t => appender'[t] = b
    BY <1>e, <1>f, <2>1, <2>2
  <2>6. records' >= records /\ m_formatter \subseteq m_formatter' /\ event' = event
    BY <1>i, <2>1
  <2> QED BY <1>c, <2>1, <2>2, <2>3, <2>4, <2>5, <2>6, OthersKeep
<1>6. CASE AppenderDone(t)
  <2> DEFINE a == appender[t]
  <2>1. /\ UNCHANGED <<m_loggers, m_appenders, m_formatter, event, records>> /\ pc[t] = "format"
        /\ m_mtx' = [m_mtx EXCEPT ![a] = Null] /\ Goto(t, "list", at[t] + 1, 0, Null)
    BY <1>6 DEF AppenderDone
  <2>2. Logs(t) /\ at[t] >= 1 /\ m_mtx[event[t].logger] = t /\ a \in Appender /\ m_mtx[a] = t
    BY <2>1 DEF Logs, Locks, Holds
  <2>3. \A b \in Appender : m_mtx[b] = t => b = a
    BY <1>e
  <2> HIDE DEF a
  <2>4. \A x \in Logger \cup Appender : m_mtx'[x] = IF x = a THEN Null ELSE m_mtx[x]
    BY <1>b, <2>1
  <2>5. Others(t) /\ pc'[t] = "list" /\ at'[t] = at[t] + 1
    <3>1. Apart(t)
      BY <1>a, <2>1, <2>2, <2>4, SMTT(60) DEF Apart
    <3> QED BY <2>1, <3>1, OthersMoved
  <2>6. \A l \in Logger : m_mtx'[l] = m_mtx[l]
    BY <1>b, <2>2, <2>4
  <2>7. /\ \A l \in Logger : m_mtx'[l] = t => event'[t].logger = l /\ l \in m_loggers
        /\ \A b \in Appender : m_mtx'[b] # t
        /\ m_mtx'[event[t].logger] = t
    <3>1. \A b \in Appender : m_mtx'[b] # t
      BY <1>a, <2>3, <2>4
    <3>2. m_mtx'[event[t].logger] = t
      BY <1>c, <2>2, <2>6
    <3> QED BY <1>f, <2>1, <2>6, <3>1, <3>2
  <2>8. records' >= records /\ m_formatter \subseteq m_formatter' /\ event' = event /\ at'[t] >= 1
    BY <1>i, <1>j, <2>1, <2>2, <2>5
  <2> QED BY <1>c, <2>1, <2>2, <2>5, <2>7, <2>8, OthersKeep
<1>7. CASE LogDone(t)
  <2> DEFINE l == event[t].logger
  <2>1. /\ UNCHANGED <<m_loggers, m_appenders, m_formatter, records>> /\ pc[t] = "list"
        /\ m_mtx' = [m_mtx EXCEPT ![l] = Null] /\ event' = [event EXCEPT ![t] = NoEvent]
        /\ Goto(t, "ready", 0, 0, Null)
    BY <1>7 DEF LogDone
  <2>2. l \in Logger /\ m_mtx[l] = t /\ \A k \in Logger : m_mtx[k] = t => k = l
    BY <2>1, <1>c, <1>f DEF Logs, Locks, Holds
  <2> HIDE DEF l
  <2>3. \A x \in Logger \cup Appender : m_mtx'[x] = IF x = l THEN Null ELSE m_mtx[x]
    BY <1>b, <2>1
  <2>4. \A u \in Thread \ {t} : event'[u] = event[u]
    BY <2>1 DEF Types
  <2>5. Others(t) /\ pc'[t] = "ready"
    <3>1. Apart(t)
      BY <1>a, <2>2, <2>3, <2>4, SMTT(60) DEF Apart
    <3> QED BY <2>1, <3>1, OthersMoved
  <2>6. \A x \in Logger \cup Appender : m_mtx'[x] # t
    BY <1>a, <1>g, <2>1, <2>2, <2>3
  <2> QED BY <1>i, <2>1, <2>5, <2>6, OthersKeep DEF Logs
<1> QED BY <1>1, <1>2, <1>3, <1>4, <1>5, <1>6, <1>7 DEF Log

-----------------------------------------------------------------------------
(* What is written *)

\* What a step of format() does to each sink.
LEMMA WritesAt ==
  ASSUME Types, Events, Holds, Len(items) \in Nat, NEW t \in Thread, format(t), NEW s \in Sink
  PROVE  LET a   == appender[t]
             to  == IF a \in Stream THEN Len(items) ELSE item[t]
             old == Len(out[s])
             new == Len(out'[s])
         IN  /\ old \in Nat /\ new \in Nat /\ old <= new
             /\ DOMAIN out[s] = 1..old /\ DOMAIN out'[s] = 1..new
             /\ \A n \in 1..old : out'[s][n] = out[s][n]
             /\ \A n \in 1..new : n > old => out'[s][n] = <<event[t].record, item[t] + (n - old) - 1>>
             /\ \/ s # sinkOf(a) \/ a \in File \ m_fstream
                \/ new = old + (to + 1 - item[t])
             /\ s # sinkOf(a) \/ a \in File \ m_fstream => out'[s] = out[s]
<1> DEFINE a == appender[t]
           to == IF a \in Stream THEN Len(items) ELSE item[t]
           r == event[t].record
           k == item[t]
<1>1. /\ a \in Appender /\ to \in Nat /\ to >= k
      /\ \/ a \in File \ m_fstream /\ UNCHANGED out
         \/ /\ a \notin File \ m_fstream
            /\ \E text \in Seq(Record \X Nat) :
                 /\ Len(text) = to + 1 - k
                 /\ \A i \in 1..Len(text) : text[i] = <<r, k + i - 1>>
                 /\ out' = [out EXCEPT ![sinkOf(a)] = @ \o text]
  BY Writes
<1>2. k \in Nat /\ out[s] \in Seq(Record \X Nat)
  BY DEF Types
<1> HIDE DEF a, to, r, k
<1>3. CASE out'[s] = out[s] /\ (s # sinkOf(a) \/ a \in File \ m_fstream)
  <2>1. /\ Len(out[s]) \in Nat /\ DOMAIN out[s] = 1..Len(out[s])
        /\ \A n \in 1..Len(out[s]) : ~(n > Len(out[s]))
    BY <1>2, SMTT(60)
  <2> QED BY <1>3, <2>1, SMTT(60) DEF a, to, r, k
<1>4. CASE s = sinkOf(a) /\ a \notin File \ m_fstream
  <2>1. PICK text \in Seq(Record \X Nat) :
          /\ Len(text) = to + 1 - k
          /\ \A i \in 1..Len(text) : text[i] = <<r, k + i - 1>>
          /\ out' = [out EXCEPT ![sinkOf(a)] = @ \o text]
    BY <1>1, <1>4
  <2>2. out'[s] = out[s] \o text
    BY <2>1, <1>4 DEF Types
  <2>3. /\ Len(out[s]) \in Nat /\ Len(out'[s]) = Len(out[s]) + Len(text) /\ Len(text) \in Nat
        /\ DOMAIN out[s] = 1..Len(out[s]) /\ DOMAIN out'[s] = 1..Len(out'[s])
        /\ \A n \in 1..Len(out[s]) : out'[s][n] = out[s][n]
        /\ \A n \in 1..Len(out'[s]) : n > Len(out[s]) => out'[s][n] = text[n - Len(out[s])]
    BY <1>2, <2>2, SMTT(60)
  <2>4. \A n \in 1..Len(out'[s]) : n > Len(out[s]) =>
          n - Len(out[s]) \in 1..Len(text) /\ k + (n - Len(out[s])) - 1 = k + (n - Len(out[s])) - 1
    BY <2>3, SMTT(60)
  <2>5. \A n \in 1..Len(out'[s]) : n > Len(out[s]) => out'[s][n] = <<r, k + (n - Len(out[s])) - 1>>
    BY <2>1, <2>3, <2>4
  <2>6. Len(out'[s]) \in Nat /\ Len(out[s]) <= Len(out'[s])
    BY <2>3, SMTT(60)
  <2>7. Len(out'[s]) = Len(out[s]) + (to + 1 - k)
    BY <2>1, <2>3
  <2> QED BY <1>4, <2>3, <2>5, <2>6, <2>7 DEF a, to, r, k
<1>5. s # sinkOf(a) \/ a \in File \ m_fstream => out'[s] = out[s]
  BY <1>1 DEF Types
<1> QED BY <1>3, <1>4, <1>5

\* A record that is nowhere written comes before none.
LEMMA NowhereFirst ==
  ASSUME Types, NEW s \in Sink, NEW x, \A n \in DOMAIN out[s] : out[s][n][1] # x, NEW y
  PROVE  ~Before(s, x, y)
<1> SUFFICES ASSUME NEW n \in DOMAIN out[s], NEW m \in 1..n - 1, out[s][m][1] = x PROVE FALSE
  BY DEF Before
<1>1. out[s] \in Seq(Record \X Nat)
  BY DEF Types
<1>2. m \in DOMAIN out[s]
  BY <1>1, SMTT(60)
<1> QED BY <1>2

\* Nothing written, the order of what is written stays.
LEMMA BeforeKept ==
  ASSUME UNCHANGED out
  PROVE  /\ \A s, x, y : Before(s, x, y)' <=> Before(s, x, y)
         /\ InOrder => InOrder'
<1>1. \A s, x, y : Before(s, x, y)' <=> Before(s, x, y)
  BY DEF Before
<1>2. InOrder => InOrder'
  BY <1>1 DEF InOrder
<1> QED BY <1>1, <1>2

\* While nothing is written, a thread may take its logger's mutex, go on, or be done.
LEMMA OrderQuiet ==
  ASSUME Types, Types', Locks, Order, UNCHANGED out, records' >= records,
         \A u \in Thread : Logs(u)' => Logs(u) /\ event'[u] = event[u] /\ (pc'[u] = "log" => pc[u] = "log")
  PROVE  Order'
<1>1. Distinct'
  <2>1. \A s \in Sink : \A n \in DOMAIN out[s] : out[s][n][1][2] <= records'
    <3> SUFFICES ASSUME NEW s \in Sink, NEW n \in DOMAIN out[s] PROVE out[s][n][1][2] <= records'
      OBVIOUS
    <3>1. out[s] \in Seq(Record \X Nat)
      BY DEF Types
    <3>2. out[s][n] \in Record \X Nat
      BY <3>1, Sequences1
    <3>3. out[s][n][1][2] \in Nat /\ out[s][n][1][2] <= records
      BY <3>2 DEF Record, Order, Distinct
    <3>4. records \in Nat /\ records' \in Nat
      BY DEF Types
    <3> QED BY <3>3, <3>4, SMTT(60)
  <2>2. \A t, u \in Thread : t # u /\ Logs(t)' /\ Logs(u)' => event'[t].record # event'[u].record
    BY DEF Order, Distinct
  <2> QED BY <2>1, <2>2 DEF Distinct
<1>2. NotYet'
  <2> SUFFICES ASSUME NEW t \in Thread, pc'[t] = "log", NEW s \in Sink, NEW n \in DOMAIN out[s]
               PROVE  out[s][n][1] # event'[t].record
    BY DEF NotYet
  <2>1. pc[t] = "log" /\ event'[t] = event[t]
    BY DEF Logs
  <2> QED BY <2>1 DEF Order, NotYet
<1>3. Latest'
  <2> SUFFICES ASSUME NEW t \in Thread, pc'[t] \in {"list", "format"}, NEW s \in Sink, NEW y \in Record,
                      y # event'[t].record, y[1] = event'[t].logger, Before(s, event'[t].record, y)
               PROVE  FALSE
    BY BeforeKept DEF Latest
  <2>1. Logs(t) /\ event'[t] = event[t]
    BY DEF Logs
  <2>2. CASE pc[t] = "log"
    <3>1. \A n \in DOMAIN out[s] : out[s][n][1] # event[t].record
      BY <2>2 DEF Order, NotYet
    <3> QED BY <2>1, <3>1, NowhereFirst
  <2>3. CASE pc[t] \in {"list", "format"}
    BY <2>1, <2>3 DEF Order, Latest
  <2> QED BY <2>1, <2>2, <2>3 DEF Logs
<1>4. InOrder'
  BY BeforeKept DEF Order
<1> QED BY <1>1, <1>2, <1>3, <1>4 DEF Order

\* A record in the making is newer than all that is written (log.h:22-26).
LEMMA OrderMakeEvent ==
  ASSUME Types, Types', Locks, Order, NEW t \in Thread, NEW l \in Logger, NEW level \in Level,
         MakeEvent(t, l, level)
  PROVE  Order'
<1>1. /\ Goto(t, "log", 0, 0, Null) /\ UNCHANGED out /\ records' = records + 1 /\ records \in Nat
      /\ event' = [event EXCEPT ![t] = [record |-> <<l, records'>>, logger |-> l, level |-> level]]
  BY DEF MakeEvent, Types
<1>2. /\ event'[t].record = <<l, records + 1>> /\ pc'[t] = "log"
      /\ \A u \in Thread \ {t} : event'[u] = event[u] /\ pc'[u] = pc[u]
  BY <1>1, SMTT(60) DEF Goto, Types
<1>3. \A x \in Record : x[2] <= records => x # <<l, records + 1>>
  BY <1>1, SMTT(60) DEF Record
<1>4. \A s \in Sink : \A n \in DOMAIN out[s] :
        out[s][n][1] \in Record /\ out[s][n][1][2] <= records
  <2> SUFFICES ASSUME NEW s \in Sink, NEW n \in DOMAIN out[s]
               PROVE  out[s][n][1] \in Record /\ out[s][n][1][2] <= records
    OBVIOUS
  <2>1. out[s] \in Seq(Record \X Nat)
    BY DEF Types
  <2>2. out[s][n] \in Record \X Nat
    BY <2>1, Sequences1
  <2> QED BY <2>2 DEF Order, Distinct
<1>5. Distinct'
  <2>1. \A s \in Sink : \A n \in DOMAIN out[s] : out[s][n][1][2] <= records'
    BY <1>1, <1>4, SMTT(60) DEF Record
  <2>2. \A u \in Thread \ {t} : Logs(u)' => Logs(u) /\ event[u].record # event'[t].record
    BY <1>2, <1>3 DEF Logs, Locks, Events
  <2>3. ASSUME NEW u \in Thread, NEW v \in Thread, u # v, Logs(u)', Logs(v)'
        PROVE  event'[u].record # event'[v].record
    <3>1. CASE u = t
      BY <3>1, <2>3, <2>2, <1>2
    <3>2. CASE v = t
      BY <3>2, <2>3, <2>2, <1>2
    <3>3. CASE u # t /\ v # t
      BY <3>3, <2>3, <2>2, <1>2 DEF Order, Distinct
    <3> QED BY <3>1, <3>2, <3>3
  <2> QED BY <2>1, <2>3, <1>1 DEF Distinct
<1>6. NotYet'
  <2> SUFFICES ASSUME NEW u \in Thread, pc'[u] = "log", NEW s \in Sink, NEW n \in DOMAIN out[s]
               PROVE  out[s][n][1] # event'[u].record
    BY <1>1 DEF NotYet
  <2>1. CASE u = t
    BY <2>1, <1>2, <1>3, <1>4
  <2>2. CASE u # t
    BY <2>2, <1>2, SMTT(60) DEF Order, NotYet
  <2> QED BY <2>1, <2>2
<1>7. Latest'
  <2> SUFFICES ASSUME NEW u \in Thread, pc'[u] \in {"list", "format"}, NEW s \in Sink, NEW y \in Record,
                      y # event'[u].record, y[1] = event'[u].logger, Before(s, event'[u].record, y)
               PROVE  FALSE
    BY <1>1, BeforeKept, SMTT(60) DEF Latest
  <2>1. u # t
    BY <1>2
  <2> QED BY <2>1, <1>2 DEF Order, Latest
<1>8. InOrder'
  BY <1>1, BeforeKept DEF Order
<1> QED BY <1>5, <1>6, <1>7, <1>8 DEF Order

\* format() writes nothing of another record than the one in hand, and that behind.
LEMMA OrderFormat ==
  ASSUME Types, Types', Locks, Order, Len(items) \in Nat, NEW t \in Thread, format(t)
  PROVE  Order'
<1> DEFINE r == event[t].record
<1>1. /\ UNCHANGED <<event, records, m_mtx>> /\ pc' = [pc EXCEPT ![t] = "format"] /\ pc[t] = "format"
  BY DEF format, Goto
<1>2. pc' = pc
  BY <1>1, SMTT(60) DEF Types
<1>3. /\ r \in Record /\ r[1] = event[t].logger /\ r[2] <= records
      /\ m_mtx[event[t].logger] = t /\ Logs(t)
  BY <1>1 DEF Locks, Events, Holds, Logs
<1>4. ASSUME NEW s \in Sink, NEW n \in DOMAIN out'[s]
      PROVE  \/ n \in DOMAIN out[s] /\ out'[s][n] = out[s][n] /\ \A m \in 1..n - 1 : out'[s][m] = out[s][m]
             \/ out'[s][n][1] = r
  <2>1. /\ Len(out[s]) \in Nat /\ Len(out'[s]) \in Nat
        /\ DOMAIN out[s] = 1..Len(out[s]) /\ DOMAIN out'[s] = 1..Len(out'[s])
        /\ \A i \in 1..Len(out[s]) : out'[s][i] = out[s][i]
        /\ \A i \in 1..Len(out'[s]) : i > Len(out[s]) =>
             out'[s][i] = <<r, item[t] + (i - Len(out[s])) - 1>>
    BY WritesAt DEF Locks
  <2> HIDE DEF r
  <2>2. CASE n <= Len(out[s])
    <3>1. n \in 1..Len(out[s]) /\ \A m \in 1..n - 1 : m \in 1..Len(out[s])
      BY <1>4, <2>1, <2>2, SMTT(60)
    <3> QED BY <2>1, <3>1
  <2>3. CASE n > Len(out[s])
    <3>1. out'[s][n] = <<r, item[t] + (n - Len(out[s])) - 1>>
      BY <1>4, <2>1, <2>3
    <3> QED BY <3>1, SMTT(60)
  <2>4. n <= Len(out[s]) \/ n > Len(out[s])
    BY <1>4, <2>1, SMTT(60)
  <2> QED BY <2>2, <2>3, <2>4
<1>5. ASSUME NEW s \in Sink, NEW x, NEW y, Before(s, x, y)'
      PROVE  Before(s, x, y) \/ y = r
  <2>1. PICK n \in DOMAIN out'[s] : \E m \in 1..n - 1 : out'[s][m][1] = x /\ out'[s][n][1] = y
    BY <1>5 DEF Before
  <2> HIDE DEF r
  <2> QED BY <2>1, <1>4 DEF Before
<1> HIDE DEF r
<1>6. Distinct'
  <2>1. ASSUME NEW s \in Sink, NEW n \in DOMAIN out'[s] PROVE out'[s][n][1][2] <= records
    BY <2>1, <1>3, <1>4 DEF Order, Distinct
  <2> QED BY <2>1, <1>1, <1>2 DEF Order, Distinct, Logs
<1>7. NotYet'
  <2> SUFFICES ASSUME NEW u \in Thread, pc[u] = "log", NEW s \in Sink, NEW n \in DOMAIN out'[s]
               PROVE  out'[s][n][1] # event[u].record
    BY <1>1, <1>2 DEF NotYet
  <2>1. Logs(u) /\ u # t
    BY <1>1 DEF Logs
  <2>2. event[u].record # r
    BY <2>1, <1>3 DEF Order, Distinct, r
  <2> QED BY <2>2, <1>4 DEF Order, NotYet
<1>8. Latest'
  <2> SUFFICES ASSUME NEW u \in Thread, pc[u] \in {"list", "format"}, NEW s \in Sink, NEW y \in Record,
                      NEW x, x = event[u].record, y # x, y[1] = event[u].logger, Before(s, x, y)'
               PROVE  FALSE
    BY <1>1, <1>2, SMTT(60) DEF Latest, Before
  <2>1. ~Before(s, x, y)
    BY DEF Order, Latest
  <2>2. y = r
    BY <2>1, <1>5
  <2>3. m_mtx[event[u].logger] = u
    BY DEF Locks, Holds
  <2>4. u = t
    BY <2>2, <2>3, <1>3
  <2> QED BY <2>2, <2>4 DEF r
<1>9. InOrder'
  <2> SUFFICES ASSUME NEW s \in Sink, NEW u \in Sink, NEW x \in Record, NEW y \in Record,
                      x # y, x[1] = y[1], Before(s, x, y)', Before(u, y, x)'
               PROVE  FALSE
    BY DEF InOrder
  <2>1. Before(s, x, y) \/ y = r
    BY <1>5
  <2>2. Before(u, y, x) \/ x = r
    BY <1>5
  <2>3. \A w \in Sink, z \in Record : z # r /\ z[1] = r[1] => ~Before(w, r, z)
    BY <1>1, <1>3 DEF Order, Latest, r
  <2>4. ~(Before(s, x, y) /\ Before(u, y, x))
    BY DEF Order, InOrder
  <2> QED BY <2>1, <2>2, <2>3, <2>4
<1> QED BY <1>6, <1>7, <1>8, <1>9 DEF Order

\* A thread at format() is the only one that writes to its appender, if that one is
\* not of std::cout.
LEMMA OwnSink ==
  ASSUME Types, Locks, NEW t \in Thread, pc[t] = "format", NEW a \in Stream \cup File
  PROVE  /\ a \in Sink /\ (a = sinkOf(appender[t]) <=> a = appender[t])
         /\ \A u \in Thread : pc[u] = "format" /\ appender[u] = a /\ appender[t] = a => u = t
         /\ appender[t] = a => m_mtx[a] = t
<1>1. a \in Appender /\ appender[t] \in Appender
  BY LoggerAssumption DEF Locks, Holds
<1>2. a \in Sink /\ sinkOf(a) = a
  BY <1>1, SinkIs
<1>3. sinkOf(appender[t]) = appender[t] \/ (sinkOf(appender[t]) = "cout" /\ appender[t] \notin Stream \cup File)
  BY DEF sinkOf
<1>4. a # "cout"
  BY <1>1, LoggerAssumption
<1>5. \A u \in Thread : pc[u] = "format" => m_mtx[appender[u]] = u
  BY DEF Locks, Holds
<1> QED BY <1>1, <1>2, <1>3, <1>4, <1>5

\* While nothing is written the sinks stop where they did.
LEMMA SinksQuiet ==
  ASSUME Types, Locks, Sinks, UNCHANGED <<m_pattern, out>>, records' >= records, records \in Nat, records' \in Nat,
         \A a \in Stream \cup File : m_mtx'[a] = m_mtx[a] \/ Complete(a),
         \A u \in Thread, a \in Stream \cup File : pc'[u] = "format" /\ appender'[u] = a =>
           \/ /\ pc[u] = "format" /\ appender[u] = a /\ item'[u] = item[u]
              /\ event'[u] = event[u] /\ (a \in m_fstream' <=> a \in m_fstream)
           \/ item'[u] = 1 /\ Complete(a)
  PROVE  Sinks'
<1>1. items' = items
  BY DEF items
<1>2. Blank'
  <2>1. records' = 0 => records = 0
    BY SMTT(60)
  <2> QED BY <2>1 DEF Sinks, Blank
<1>3. Chained'
  BY <1>1 DEF Sinks, Chained
<1>4. \A a : Complete(a)' <=> Complete(a)
  BY <1>1 DEF Complete
<1>5. \A a \in Stream \cup File : Complete(a)' \/ \E t \in Thread : m_mtx'[a] = t
  BY <1>4 DEF Sinks, Stops
<1>6. ASSUME NEW u \in Thread, NEW a \in Stream \cup File, pc'[u] = "format", appender'[u] = a
      PROVE  /\ item'[u] >= 1
             /\ item'[u] = 1 \/ a \in File \ m_fstream' => Complete(a)'
             /\ item'[u] > 1 /\ a \notin File \ m_fstream' => Begun(a, u)'
  <2>1. CASE item'[u] = 1 /\ Complete(a)
    <3>1. 1 >= 1 /\ ~(1 > 1)
      BY SMTT(60)
    <3> QED BY <2>1, <3>1, <1>4
  <2>2. CASE /\ pc[u] = "format" /\ appender[u] = a /\ item'[u] = item[u]
             /\ event'[u] = event[u] /\ (a \in m_fstream' <=> a \in m_fstream)
    <3>1. /\ item[u] >= 1 /\ (item[u] = 1 \/ a \in File \ m_fstream => Complete(a))
          /\ item[u] > 1 /\ a \notin File \ m_fstream => Begun(a, u)
      BY <2>2 DEF Sinks, Stops
    <3>2. Begun(a, u)' <=> Begun(a, u)
      BY <1>1, <2>2 DEF Begun
    <3> QED BY <1>4, <2>2, <3>1, <3>2
  <2> QED BY <1>6, <2>1, <2>2
<1>7. Stops'
  BY <1>5, <1>6 DEF Stops
<1> QED BY <1>2, <1>3, <1>7 DEF Sinks

\* format() writes the items that follow those the sink stops at (log.cpp:183-195, 257-297).
LEMMA SinksFormat ==
  ASSUME Types, Types', Locks, Sinks, Len(items) \in Nat, NEW t \in Thread, format(t)
  PROVE  Sinks'
<1> DEFINE a  == appender[t]
           to == IF a \in Stream THEN Len(items) ELSE item[t]
           L  == Len(items)
           k  == item[t]
           r  == event[t].record
<1>1. /\ UNCHANGED <<m_pattern, event, records, m_mtx, m_fstream>> /\ pc[t] = "format"
      /\ Goto(t, "format", at[t], to + 1, a) /\ k <= L
  BY DEF format, configVars
<1>2. /\ a \in Appender /\ to \in Nat /\ to >= k /\ to <= L /\ L \in Nat /\ k \in Nat
  BY Writes DEF Locks, Types
<1>3. /\ pc' = pc /\ appender' = appender /\ item'[t] = to + 1
      /\ \A u \in Thread \ {t} : item'[u] = item[u]
  BY <1>1, SMTT(60) DEF Goto, Types
<1>4. items' = items
  BY <1>1 DEF items
<1>5. ASSUME NEW b \in Stream \cup File, b # a \/ a \in File \ m_fstream PROVE out'[b] = out[b]
  <2>1. b \in Sink /\ (b = sinkOf(a) <=> b = a)
    BY <1>1, OwnSink
  <2>2. b # sinkOf(a) \/ a \in File \ m_fstream => out'[b] = out[b]
    BY <2>1, WritesAt DEF Locks
  <2> QED BY <1>5, <2>1, <2>2
<1>6. ASSUME a \in Stream \cup File, a \notin File \ m_fstream
      PROVE  /\ Len(out[a]) \in Nat /\ Len(out'[a]) = Len(out[a]) + (to + 1 - k)
             /\ DOMAIN out[a] = 1..Len(out[a]) /\ DOMAIN out'[a] = 1..Len(out'[a])
             /\ \A n \in 1..Len(out[a]) : out'[a][n] = out[a][n]
             /\ \A n \in 1..Len(out'[a]) : n > Len(out[a]) => out'[a][n] = <<r, k + (n - Len(out[a])) - 1>>
  <2>1. a \in Sink /\ a = sinkOf(a)
    BY <1>1, <1>6, OwnSink
  <2>2. LET s == a IN
        /\ Len(out[s]) \in Nat
        /\ DOMAIN out[s] = 1..Len(out[s]) /\ DOMAIN out'[s] = 1..Len(out'[s])
        /\ \A n \in 1..Len(out[s]) : out'[s][n] = out[s][n]
        /\ \A n \in 1..Len(out'[s]) : n > Len(out[s]) => out'[s][n] = <<event[t].record, item[t] + (n - Len(out[s])) - 1>>
        /\ s # sinkOf(a) \/ a \in File \ m_fstream \/ Len(out'[s]) = Len(out[s]) + (to + 1 - item[t])
    BY <2>1, WritesAt DEF Locks
  <2> QED BY <1>6, <2>1, <2>2
<1>7. ASSUME a \in Stream \cup File
      PROVE  /\ k >= 1 /\ (k = 1 \/ a \in File \ m_fstream => Complete(a))
             /\ k > 1 /\ a \notin File \ m_fstream => Begun(a, t)
  BY <1>1, <1>7 DEF Sinks, Stops
<1>8. Logs(t) /\ records > 0
  BY <1>1 DEF Logs, Locks, Events
<1>9. Blank'
  <2>1. records # 0
    BY <1>8, SMTT(60) DEF Types
  <2> QED BY <1>1, <2>1 DEF Blank
<1> HIDE DEF a, to, L, k, r
<1>10. ASSUME a \in Stream \cup File, a \notin File \ m_fstream PROVE Linked(out'[a], L)
  <2> DEFINE N == Len(out[a])
             M == Len(out'[a])
  <2>1. /\ N \in Nat /\ M = N + (to + 1 - k) /\ DOMAIN out[a] = 1..N /\ DOMAIN out'[a] = 1..M
        /\ \A i \in 1..N : out'[a][i] = out[a][i]
        /\ \A i \in 1..M : i > N => out'[a][i] = <<r, k + (i - N) - 1>>
    BY <1>6, <1>10
  <2>2. k >= 1 /\ (k = 1 => out[a] = <<>> \/ out[a][N][2] = L)
        /\ (k > 1 => out[a] # <<>> /\ out[a][N] = <<r, k - 1>>)
    BY <1>7, <1>10 DEF Complete, Begun, L, k, r
  <2>3. (N = 0 <=> out[a] = <<>>) /\ (N = 0 \/ N > 0)
    <3>1. out[a] \in Seq(Record \X Nat)
      <4>1. a \in Sink
        BY <1>1, <1>10, OwnSink
      <4> QED BY <4>1 DEF Types
    <3> DEFINE o == out[a]
    <3> HIDE DEF o
    <3>2. (Len(o) = 0 <=> o = <<>>) /\ (Len(o) = 0 \/ Len(o) > 0)
      BY <3>1, SMTT(60) DEF o
    <3> QED BY <3>2 DEF o
  <2> HIDE DEF N, M
  <2>4. Grows(out[a], out'[a], N, M, L, k, to, r)
    BY <1>2, <2>1, <2>2, <2>3 DEF Grows
  <2>5. Linked(out[a], L)
    BY <1>10 DEF Sinks, Chained, L
  <2> QED BY <2>4, <2>5, ChainGrows
<1>11. Chained'
  <2> SUFFICES ASSUME NEW b \in Stream \cup File PROVE Linked(out'[b], L)
    BY <1>4 DEF Chained, L
  <2>1. CASE b # a \/ a \in File \ m_fstream
    <3>1. out'[b] = out[b]
      BY <2>1, <1>5
    <3> QED BY <3>1 DEF Sinks, Chained, L
  <2>2. CASE b = a /\ a \notin File \ m_fstream
    BY <2>2, <1>10
  <2> QED BY <2>1, <2>2
<1>12. Stops'
  <2>1. ASSUME NEW b \in Stream \cup File
        PROVE  Complete(b)' \/ \E u \in Thread : m_mtx'[b] = u
    <3>1. CASE b = a
      BY <3>1, <1>1, OwnSink DEF a
    <3>2. CASE b # a
      <4>1. out'[b] = out[b]
        BY <3>2, <1>5
      <4> QED BY <4>1, <1>1, <1>4 DEF Sinks, Stops, Complete
    <3> QED BY <3>1, <3>2
  <2>2. ASSUME NEW u \in Thread, NEW b \in Stream \cup File, pc'[u] = "format", appender'[u] = b
        PROVE  /\ item'[u] >= 1
               /\ item'[u] = 1 \/ b \in File \ m_fstream' => Complete(b)'
               /\ item'[u] > 1 /\ b \notin File \ m_fstream' => Begun(b, u)'
    <3>1. pc[u] = "format" /\ appender[u] = b
      BY <2>2, <1>3
    <3>2. CASE u # t
      <4>1. b # a
        BY <3>1, <3>2, <1>1, OwnSink DEF a
      <4>2. out'[b] = out[b] /\ item'[u] = item[u]
        BY <3>2, <4>1, <1>3, <1>5
      <4>3. /\ item[u] >= 1 /\ (item[u] = 1 \/ b \in File \ m_fstream => Complete(b))
            /\ item[u] > 1 /\ b \notin File \ m_fstream => Begun(b, u)
        BY <3>1 DEF Sinks, Stops
      <4>4. (Complete(b)' <=> Complete(b)) /\ (Begun(b, u)' <=> Begun(b, u))
        BY <4>2, <1>1, <1>4 DEF Complete, Begun
      <4> QED BY <4>2, <4>3, <4>4, <1>1
    <3>3. CASE u = t
      <4>1. b = a /\ item'[u] = to + 1 /\ k >= 1
        BY <3>1, <3>3, <1>3, <1>7 DEF a
      <4>2. to + 1 > 1 /\ to + 1 >= 1 /\ to + 1 # 1 /\ to + 1 <= L + 1 /\ (to + 1) - 1 = to
        BY <4>1, <1>2, SMTT(60)
      <4>3. CASE a \in File \ m_fstream
        <5>1. Complete(b)' <=> Complete(b)
          BY <4>1, <4>3, <1>4, <1>5 DEF Complete
        <5> QED BY <4>1, <4>2, <4>3, <5>1, <1>1, <1>7
      <4>4. CASE a \notin File \ m_fstream
        <5> DEFINE M == Len(out'[a])
                   N == Len(out[a])
        <5>1. /\ N \in Nat /\ M = N + (to + 1 - k)
              /\ \A n \in 1..M : n > N => out'[a][n] = <<r, k + (n - N) - 1>>
          BY <4>1, <4>4, <1>6
        <5> HIDE DEF M, N
        <5>2. M \in 1..M /\ M > N /\ k + (M - N) - 1 = to /\ M # 0
          BY <4>1, <5>1, <1>2, SMTT(60)
        <5>3. out'[a][M] = <<r, to>>
          BY <5>1, <5>2
        <5>4. Len(<<>>) = 0
          BY SMTT(60)
        <5>5. out'[a] # <<>>
          BY <5>2, <5>4 DEF M
        <5>6. Begun(b, u)'
          BY <3>3, <4>1, <4>2, <5>3, <5>5, <1>1, <1>4 DEF Begun, M, L, r
        <5> QED BY <4>1, <4>2, <4>4, <5>6, <1>1
      <4> QED BY <4>3, <4>4
    <3> QED BY <3>2, <3>3
  <2> QED BY <2>1, <2>2 DEF Stops
<1> QED BY <1>9, <1>11, <1>12 DEF Sinks

-----------------------------------------------------------------------------
(* Every step *)

\* A change of the configuration, and the formatter given in addLogAppender(), write nothing
\* and are no part of a record; reopen() finds nobody in the file's log().
LEMMA QuietConfigure ==
  ASSUME Types, Types', Locks, Order, Sinks, NEW t \in Thread, Configure(t) \/ AddFormatter(t)
  PROVE  Order' /\ Sinks' /\ UNCHANGED m_pattern
<1>1. /\ UNCHANGED <<m_pattern, out, event, records>>
      /\ \A u \in Thread : \/ pc'[u] = pc[u] /\ item'[u] = item[u] /\ appender'[u] = appender[u]
                           \/ pc'[u] \in {"ready", "add"}
      /\ \A a \in Appender : m_mtx'[a] = m_mtx[a]
      /\ \/ UNCHANGED m_fstream
         \/ \E a \in File : m_mtx[a] = Null /\ m_fstream' \in {m_fstream \cup {a}, m_fstream \ {a}}
  <2>1. CASE AddFormatter(t)
    <3>1. UNCHANGED <<m_pattern, out, event, records, m_fstream>> /\ Goto(t, "ready", 0, 0, Null)
      BY <2>1 DEF AddFormatter
    <3>2. \A a \in Appender : m_mtx'[a] = m_mtx[a]
      <4>1. PICK l \in Logger : m_mtx' = [m_mtx EXCEPT ![l] = Null]
        BY <2>1 DEF AddFormatter
      <4>2. \A a \in Appender : a # l
        BY LoggerAssumption
      <4> QED BY <4>1, <4>2 DEF Types
    <3>3. \A u \in Thread : \/ pc'[u] = pc[u] /\ item'[u] = item[u] /\ appender'[u] = appender[u]
                            \/ pc'[u] \in {"ready", "add"}
      BY <3>1, SMTT(60) DEF Goto, Types
    <3> QED BY <3>1, <3>2, <3>3
  <2>2. CASE \E l \in Logger : getLogger(t, l) \/ clearLogAppenders(t, l)
    BY <2>2 DEF getLogger, clearLogAppenders, configures
  <2>3. CASE \E l \in Logger, a \in Appender : addLogAppender(t, l, a)
    <3>1. PICK l \in Logger, a \in Appender : addLogAppender(t, l, a)
      BY <2>3
    <3>2. CASE a \in m_formatter
      BY <3>1, <3>2 DEF addLogAppender, configures
    <3>3. CASE a \notin m_formatter
      <4>1. /\ UNCHANGED <<m_pattern, out, event, records, m_fstream>> /\ Goto(t, "add", 0, 0, a)
            /\ m_mtx' = [m_mtx EXCEPT ![l] = t]
        BY <3>1, <3>3 DEF addLogAppender, configures
      <4>2. \A b \in Appender : m_mtx'[b] = m_mtx[b]
        BY <4>1, LoggerAssumption DEF Types
      <4>3. \A u \in Thread : \/ pc'[u] = pc[u] /\ item'[u] = item[u] /\ appender'[u] = appender[u]
                              \/ pc'[u] \in {"ready", "add"}
        BY <4>1, SMTT(60) DEF Goto, Types
      <4> QED BY <4>1, <4>2, <4>3
    <3> QED BY <3>2, <3>3
  <2>4. CASE \E l \in Logger, a \in Appender : delLogAppender(t, l, a)
    BY <2>4 DEF delLogAppender, configures
  <2>5. CASE \E x \in Logger \cup Appender, level \in Level : setLevel(t, x, level)
    BY <2>5 DEF setLevel, configures
  <2>6. CASE \E a \in File : reopen(t, a)
    BY <2>6 DEF reopen, configures
  <2> QED BY <2>1, <2>2, <2>3, <2>4, <2>5, <2>6 DEF Configure
<1>2. \A u \in Thread : Logs(u)' => Logs(u) /\ pc'[u] = pc[u] /\ appender'[u] = appender[u] /\ item'[u] = item[u]
  BY <1>1 DEF Logs
<1>3. records' >= records /\ records \in Nat /\ records' \in Nat
  BY <1>1, SMTT(60) DEF Types
<1>4. Order'
  <2>1. \A u \in Thread : Logs(u)' => Logs(u) /\ event'[u] = event[u] /\ (pc'[u] = "log" => pc[u] = "log")
    BY <1>1, <1>2
  <2> QED BY <1>1, <1>3, <2>1, OrderQuiet
<1>5. \A a \in Stream \cup File : m_mtx'[a] = m_mtx[a]
  BY <1>1, LoggerAssumption
<1>6. \A u \in Thread : pc'[u] = "format" =>
        /\ pc[u] = "format" /\ appender'[u] = appender[u] /\ item'[u] = item[u]
        /\ event'[u] = event[u] /\ (appender[u] \in m_fstream' <=> appender[u] \in m_fstream)
  <2> SUFFICES ASSUME NEW u \in Thread, pc'[u] = "format"
               PROVE  /\ pc[u] = "format" /\ appender'[u] = appender[u] /\ item'[u] = item[u]
                      /\ event'[u] = event[u] /\ (appender[u] \in m_fstream' <=> appender[u] \in m_fstream)
    OBVIOUS
  <2>1. pc[u] = "format" /\ appender'[u] = appender[u] /\ item'[u] = item[u] /\ event'[u] = event[u]
    BY <1>1, <1>2 DEF Logs
  <2>2. m_mtx[appender[u]] = u /\ u # Null
    BY <2>1, LoggerAssumption DEF Locks, Holds
  <2>3. appender[u] \in m_fstream' <=> appender[u] \in m_fstream
    BY <1>1, <2>2
  <2> QED BY <2>1, <2>3
<1>7. Sinks'
  BY <1>1, <1>3, <1>5, <1>6, SinksQuiet
<1> QED BY <1>1, <1>4, <1>7

\* The steps of a record.
LEMMA QuietLog ==
  ASSUME Types, Types', Locks, Order, Sinks, Len(items) \in Nat, NEW t \in Thread, Log(t)
  PROVE  Order' /\ Sinks' /\ UNCHANGED m_pattern
<1> USE DEF configVars
<1>0. records \in Nat /\ records' \in Nat
  BY DEF Types
<1>1. CASE \E l \in Logger, level \in Level : MakeEvent(t, l, level)
  <2>1. PICK l \in Logger, level \in Level : MakeEvent(t, l, level)
    BY <1>1
  <2>2. Order'
    BY <2>1, OrderMakeEvent
  <2>3. /\ UNCHANGED <<m_pattern, out, m_mtx, m_fstream>> /\ Goto(t, "log", 0, 0, Null)
        /\ event' = [event EXCEPT ![t] = [record |-> <<l, records'>>, logger |-> l, level |-> level]]
        /\ records' = records + 1
    BY <2>1 DEF MakeEvent
  <2>4. records' >= records
    BY <1>0, <2>3, SMTT(60)
  <2>5. \A u \in Thread : pc'[u] = "format" =>
          /\ pc[u] = "format" /\ appender'[u] = appender[u] /\ item'[u] = item[u]
          /\ event'[u] = event[u] /\ (appender[u] \in m_fstream' <=> appender[u] \in m_fstream)
    <3>1. /\ pc'[t] = "log"
          /\ \A u \in Thread \ {t} : /\ pc'[u] = pc[u] /\ appender'[u] = appender[u]
                                     /\ item'[u] = item[u]
      BY <2>3, Moved
    <3>2. \A u \in Thread \ {t} : event'[u] = event[u]
      BY <2>3 DEF Types
    <3> QED BY <2>3, <3>1, <3>2
  <2>6. Sinks'
    BY <1>0, <2>3, <2>4, <2>5, SinksQuiet
  <2> QED BY <2>2, <2>3, <2>6
<1>2. CASE format(t)
  BY <1>2, OrderFormat, SinksFormat DEF format
<1>3. CASE log(t) \/ AppenderLog(t) \/ AppenderDone(t) \/ LogDone(t)
  <2>1. /\ UNCHANGED <<m_pattern, out, m_fstream, records>>
        /\ \A u \in Thread \ {t} : /\ pc'[u] = pc[u] /\ appender'[u] = appender[u]
                                   /\ item'[u] = item[u] /\ event'[u] = event[u]
        /\ Logs(t) /\ pc'[t] # "log" /\ (pc'[t] = "ready" \/ event'[t] = event[t])
    <3> DEFINE Elsewhere == \A u \in Thread \ {t} : /\ pc'[u] = pc[u] /\ appender'[u] = appender[u]
                                                   /\ item'[u] = item[u]
    <3>1. CASE log(t)
      <4>1. /\ UNCHANGED <<m_pattern, out, m_fstream, records, event>> /\ pc[t] = "log"
            /\ (Goto(t, "list", 1, 0, Null) \/ Goto(t, "ready", 0, 0, Null))
        BY <3>1 DEF log
      <4>2. Goto(t, "list", 1, 0, Null) => pc'[t] = "list" /\ Elsewhere
        BY Moved
      <4>3. Goto(t, "ready", 0, 0, Null) => pc'[t] = "ready" /\ Elsewhere
        BY Moved
      <4> QED BY <4>1, <4>2, <4>3 DEF Logs
    <3>2. CASE AppenderLog(t)
      <4>1. /\ UNCHANGED <<m_pattern, out, m_fstream, records, event>> /\ pc[t] = "list"
            /\ \/ Goto(t, "format", at[t], 1, appenderOf(t))
               \/ Goto(t, "list", at[t] + 1, 0, Null)
        BY <3>2 DEF AppenderLog
      <4>2. Goto(t, "format", at[t], 1, appenderOf(t)) => pc'[t] = "format" /\ Elsewhere
        BY Moved
      <4>3. Goto(t, "list", at[t] + 1, 0, Null) => pc'[t] = "list" /\ Elsewhere
        BY Moved
      <4> QED BY <4>1, <4>2, <4>3 DEF Logs
    <3>3. CASE AppenderDone(t)
      <4>1. /\ UNCHANGED <<m_pattern, out, m_fstream, records, event>> /\ pc[t] = "format"
            /\ Goto(t, "list", at[t] + 1, 0, Null)
        BY <3>3 DEF AppenderDone
      <4>2. pc'[t] = "list" /\ Elsewhere
        BY <4>1, Moved
      <4> QED BY <4>1, <4>2 DEF Logs
    <3>4. CASE LogDone(t)
      <4>1. /\ UNCHANGED <<m_pattern, out, m_fstream, records>> /\ pc[t] = "list"
            /\ Goto(t, "ready", 0, 0, Null) /\ event' = [event EXCEPT ![t] = NoEvent]
        BY <3>4 DEF LogDone
      <4>2. \A u \in Thread \ {t} : event'[u] = event[u]
        BY <4>1 DEF Types
      <4>3. pc'[t] = "ready" /\ Elsewhere
        BY <4>1, Moved
      <4> QED BY <4>1, <4>2, <4>3 DEF Logs
    <3> QED BY <1>3, <3>1, <3>2, <3>3, <3>4
  <2>2. records' >= records
    BY <1>0, <2>1, SMTT(60)
  <2>3. Order'
    <3>1. \A u \in Thread : Logs(u)' => Logs(u) /\ event'[u] = event[u] /\ (pc'[u] = "log" => pc[u] = "log")
      BY <2>1 DEF Logs
    <3> QED BY <2>1, <2>2, <3>1, OrderQuiet
  <2>4. ASSUME log(t) \/ LogDone(t) PROVE Sinks'
    <3>1. \A a \in Stream \cup File : m_mtx'[a] = m_mtx[a]
      <4>1. event[t].logger \in Logger
        BY <2>1 DEF Locks, Events, Types
      <4>2. \A a \in Appender : a # event[t].logger
        BY <4>1, LoggerAssumption
      <4>3. m_mtx' = m_mtx \/ \E x : m_mtx' = [m_mtx EXCEPT ![event[t].logger] = x]
        BY <2>4 DEF log, LogDone
      <4>4. \A a \in Appender : m_mtx'[a] = m_mtx[a]
        BY <4>2, <4>3 DEF Types
      <4> QED BY <4>4, LoggerAssumption
    <3>2. pc'[t] # "format"
      <4>1. Goto(t, "list", 1, 0, Null) \/ Goto(t, "ready", 0, 0, Null)
        BY <2>4 DEF log, LogDone
      <4>2. Goto(t, "list", 1, 0, Null) => pc'[t] = "list"
        BY Moved
      <4>3. Goto(t, "ready", 0, 0, Null) => pc'[t] = "ready"
        BY Moved
      <4> QED BY <4>1, <4>2, <4>3
    <3>3. \A u \in Thread : pc'[u] = "format" =>
            /\ pc[u] = "format" /\ appender'[u] = appender[u] /\ item'[u] = item[u]
            /\ event'[u] = event[u] /\ (appender[u] \in m_fstream' <=> appender[u] \in m_fstream)
      BY <2>1, <3>2
    <3> QED BY <1>0, <2>1, <2>2, <3>1, <3>3, SinksQuiet
  <2>5. ASSUME AppenderLog(t) PROVE Sinks'
    <3> DEFINE b == appenderOf(t)
    <3>1. /\ m_mtx[b] = Null
          /\ \/ m_mtx' = [m_mtx EXCEPT ![b] = t] /\ Goto(t, "format", at[t], 1, b)
             \/ Goto(t, "list", at[t] + 1, 0, Null) /\ UNCHANGED m_mtx
      BY <2>5 DEF AppenderLog
    <3> HIDE DEF b
    <3>2. b \in Stream \cup File => Complete(b)
      BY <3>1, LoggerAssumption DEF Sinks, Stops
    <3>3. \A a \in Stream \cup File : m_mtx'[a] = m_mtx[a] \/ Complete(a)
      <4>1. \A a \in Stream \cup File : a \in Appender
        BY LoggerAssumption
      <4> QED BY <3>1, <3>2, <4>1 DEF Types
    <3>4. pc'[t] = "format" => appender'[t] = b /\ item'[t] = 1
      <4>1. Goto(t, "format", at[t], 1, b) => appender'[t] = b /\ item'[t] = 1
        BY Moved, SMTT(60)
      <4>2. Goto(t, "list", at[t] + 1, 0, Null) => pc'[t] = "list"
        BY Moved
      <4> QED BY <3>1, <4>1, <4>2
    <3>5. \A u \in Thread, a \in Stream \cup File : pc'[u] = "format" /\ appender'[u] = a =>
            \/ /\ pc[u] = "format" /\ appender[u] = a /\ item'[u] = item[u]
               /\ event'[u] = event[u] /\ (a \in m_fstream' <=> a \in m_fstream)
            \/ item'[u] = 1 /\ Complete(a)
      BY <2>1, <3>2, <3>4
    <3> QED BY <1>0, <2>1, <2>2, <3>3, <3>5, SinksQuiet
  <2>6. ASSUME AppenderDone(t) PROVE Sinks'
    <3> DEFINE b == appender[t]
    <3>1. /\ m_mtx' = [m_mtx EXCEPT ![b] = Null] /\ Goto(t, "list", at[t] + 1, 0, Null)
          /\ pc[t] = "format" /\ item[t] > Len(items)
      BY <2>6 DEF AppenderDone
    <3>2. ASSUME b \in Stream \cup File PROVE Complete(b)
      <4>1. /\ item[t] >= 1 /\ (item[t] = 1 \/ b \in File \ m_fstream => Complete(b))
            /\ item[t] > 1 /\ b \notin File \ m_fstream => Begun(b, t)
        BY <3>1, <3>2 DEF Sinks, Stops
      <4>2. item[t] \in Nat
        BY DEF Types
      <4>3. Begun(b, t) => Complete(b)
        <5> SUFFICES ASSUME Begun(b, t) PROVE out[b][Len(out[b])][2] = Len(items)
          BY DEF Complete
        <5>1. out[b][Len(out[b])] = <<event[t].record, item[t] - 1>> /\ item[t] <= Len(items) + 1
          BY DEF Begun
        <5> DEFINE L == Len(items)
        <5>a. item[t] > L /\ item[t] <= L + 1 /\ L \in Nat
          BY <3>1, <5>1
        <5> HIDE DEF L
        <5>2. item[t] - 1 = L
          BY <4>2, <5>a, SMTT(60)
        <5> USE DEF L
        <5> HIDE DEF b
        <5> QED BY <5>1, <5>2, SMTT(60)
      <4>4. item[t] = 1 \/ item[t] > 1
        BY <4>1, <4>2, SMTT(60)
      <4> QED BY <4>1, <4>3, <4>4
    <3> HIDE DEF b
    <3>3. \A a \in Stream \cup File : m_mtx'[a] = m_mtx[a] \/ Complete(a)
      <4>1. \A a \in Stream \cup File : a \in Appender
        BY LoggerAssumption
      <4> QED BY <3>1, <3>2, <4>1 DEF Types
    <3>4. pc'[t] = "list"
      BY <3>1, Moved
    <3>5. \A u \in Thread, a \in Stream \cup File : pc'[u] = "format" /\ appender'[u] = a =>
            \/ /\ pc[u] = "format" /\ appender[u] = a /\ item'[u] = item[u]
               /\ event'[u] = event[u] /\ (a \in m_fstream' <=> a \in m_fstream)
            \/ item'[u] = 1 /\ Complete(a)
      BY <2>1, <3>4
    <3> QED BY <1>0, <2>1, <2>2, <3>3, <3>5, SinksQuiet
  <2> QED BY <1>3, <2>1, <2>3, <2>4, <2>5, <2>6
<1> QED BY <1>1, <1>2, <1>3 DEF Log

\* Formatters are set while nothing is written.
LEMMA QuietSetFormatter ==
  ASSUME Types, Locks, Order, Sinks, NEW piece \in Piece, SetFormatter(piece)
  PROVE  Types' /\ Locks' /\ Order' /\ Sinks'
<1>1. /\ UNCHANGED <<m_loggers, m_level, m_appenders, m_formatter, m_fstream, config>>
      /\ UNCHANGED <<m_mtx, out, pc, event, at, item, appender, records>> /\ records = 0
  BY DEF SetFormatter, configVars
<1>2. Types'
  BY <1>1 DEF Types
<1>3. Locks'
  BY <1>1, SMTT(60) DEF Locks, Events, Holds, Held, Formatted, Logs, appenderOf
<1>4. records' >= records
  BY <1>1, SMTT(60)
<1>5. Order'
  <2>1. \A u \in Thread : Logs(u)' => Logs(u) /\ event'[u] = event[u] /\ (pc'[u] = "log" => pc[u] = "log")
    BY <1>1 DEF Logs
  <2> QED BY <1>1, <1>2, <1>4, <2>1, OrderQuiet
<1>6. \A s \in Sink : out[s] = <<>> /\ out'[s] = <<>>
  BY <1>1 DEF Sinks, Blank
<1>7. \A a \in Stream \cup File : a \in Sink
  BY SinkIs, LoggerAssumption
<1>8. \A u \in Thread : pc[u] # "format"
  <2>1. \A u \in Thread : pc[u] = "format" => records > 0
    BY DEF Locks, Events, Logs
  <2>2. ~(0 > 0)
    BY SMTT(60)
  <2> QED BY <1>1, <2>1, <2>2
<1>9. DOMAIN <<>> = {}
  BY SMTT(60)
<1>10. Blank'
  BY <1>6 DEF Blank
<1>11. Chained'
  BY <1>6, <1>7, <1>9 DEF Chained, Linked
<1>12. Stops'
  BY <1>1, <1>6, <1>7, <1>8 DEF Stops, Complete
<1> QED BY <1>2, <1>3, <1>5, <1>10, <1>11, <1>12 DEF Sinks

\* SetFormatter() keeps it so.
LEMMA PatternStep ==
  ASSUME Pattern, NEW piece \in Piece, SetFormatter(piece) PROVE Pattern'
<1>1. m_pattern' = Append(m_pattern, piece) /\ Unambiguous(m_pattern')
  BY DEF SetFormatter, WritePiece
<1>2. Append(m_pattern, piece) \in Seq(Piece)
  BY Sequences1 DEF Pattern
<1>3. m_pattern' \in Seq(Piece) /\ Unambiguous(m_pattern')
  BY <1>1, <1>2
<1> QED BY <1>3 DEF Pattern

\* The invariant holds at first.
LEMMA InvInit ==
  Init => Inv
<1> SUFFICES ASSUME Init PROVE Inv
  OBVIOUS
<1>1. Pattern
  <2>1. <<>> \in Seq(Piece) /\ Len(<<>>) = 0 /\ 1..0 - 1 = {}
    BY SMTT(60)
  <2>2. m_pattern = <<>>
    BY DEF Init
  <2> QED BY <2>1, <2>2 DEF Pattern, Unambiguous
<1>2. Types
  <2>1. 0 \in Nat /\ 1 \in Nat
    BY SMTT(60)
  <2>2. Stdout[Root] \in Appender /\ Root \in Logger /\ <<Stdout[Root]>> \in Seq(Appender)
    BY LoggerAssumption, SMTT(60)
  <2>a. /\ m_appenders = [l \in Logger |-> IF l = Root THEN <<Stdout[l]>> ELSE <<>>]
        /\ out = [s \in Sink |-> <<>>] /\ event = [t \in Thread |-> NoEvent]
    BY DEF Init
  <2>3. m_appenders \in [Logger -> Seq(Appender)]
    BY <2>2, <2>a, SMTT(60)
  <2>4. out \in [Sink -> Seq(Record \X Nat)]
    BY <2>a, SMTT(60)
  <2>5. event \in [Thread -> [record : Record \cup {Null}, logger : Logger \cup {Null}, level : Nat]]
    BY <2>a, SMTT(60) DEF NoEvent
  <2> QED BY <2>1, <2>2, <2>3, <2>4, <2>5 DEF Init, Types
<1>3. Locks
  <2>1. Events /\ Holds
    BY DEF Init, Events, Holds, Logs
  <2>2. Held
    <3>1. \A x \in Logger \cup Appender : m_mtx[x] \notin Thread
      BY LoggerAssumption DEF Init
    <3> QED BY <3>1 DEF Held
  <2>3. Formatted
    <3> SUFFICES ASSUME NEW l \in Logger, NEW n \in DOMAIN m_appenders[l]
                 PROVE  m_appenders[l][n] \in m_formatter
      BY DEF Formatted
    <3>1. l = Root /\ m_appenders[l][n] = Stdout[l]
      BY SMTT(60) DEF Init
    <3> QED BY <3>1 DEF Init
  <2> QED BY <2>1, <2>2, <2>3 DEF Locks
<1>4. \A s \in Sink : out[s] = <<>> /\ DOMAIN out[s] = {}
  BY SMTT(60) DEF Init
<1>5. Order
  <2>1. Distinct /\ NotYet
    BY <1>4 DEF Distinct, NotYet, Init, Logs
  <2>2. \A s \in Sink, x, y \in Record : ~Before(s, x, y)
    BY <1>4 DEF Before
  <2> QED BY <2>1, <2>2 DEF Order, Latest, InOrder, Init
<1>6. Sinks
  <2>1. \A a \in Stream \cup File : a \in Sink
    BY LoggerAssumption, SinkIs
  <2>2. Blank
    BY <1>4 DEF Blank
  <2>3. Chained
    BY <1>4, <2>1 DEF Chained, Linked
  <2>4. \A u \in Thread : pc[u] # "format"
    BY DEF Init
  <2>5. Stops
    BY <1>4, <2>1, <2>4 DEF Stops, Complete
  <2> QED BY <2>2, <2>3, <2>5 DEF Sinks
<1> QED BY <1>1, <1>2, <1>3, <1>5, <1>6 DEF Inv

\* Every step keeps it, given what the recursive functions initItems() and remove() return.
LEMMA InvStepCounted ==
  ASSUME Removes, Inv, Len(items) \in Nat, [Next]_vars PROVE Inv'
<1>0. Pattern /\ Types /\ Locks /\ Order /\ Sinks /\ Events /\ Holds /\ Len(items) \in Nat
  BY DEF Inv, Locks
<1>1. CASE \E piece \in Piece : SetFormatter(piece)
  BY <1>0, <1>1, PatternStep, QuietSetFormatter DEF Inv
<1>2. CASE \E t \in Thread : Configure(t)
  <2>1. PICK t \in Thread : Configure(t)
    BY <1>2
  <2>2. Types' /\ Locks'
    BY <1>0, <2>1, TypesConfigure, LocksConfigure
  <2>3. Order' /\ Sinks' /\ UNCHANGED m_pattern
    BY <1>0, <2>1, <2>2, QuietConfigure
  <2>4. Pattern'
    BY <1>0, <2>3 DEF Pattern
  <2> QED BY <2>2, <2>3, <2>4 DEF Inv
<1>3. CASE \E t \in Thread : AddFormatter(t)
  <2>1. PICK t \in Thread : AddFormatter(t)
    BY <1>3
  <2>2. Types' /\ Locks'
    BY <1>0, <2>1, TypesLog, LocksLog
  <2>3. Order' /\ Sinks' /\ UNCHANGED m_pattern
    BY <1>0, <2>1, <2>2, QuietConfigure
  <2>4. Pattern'
    BY <1>0, <2>3 DEF Pattern
  <2> QED BY <2>2, <2>3, <2>4 DEF Inv
<1>4. CASE \E t \in Thread : Log(t)
  <2>1. PICK t \in Thread : Log(t)
    BY <1>4
  <2>2. Types' /\ Locks'
    BY <1>0, <2>1, TypesLog, LocksLog
  <2>3. Order' /\ Sinks' /\ UNCHANGED m_pattern
    BY <1>0, <2>1, <2>2, QuietLog
  <2>4. Pattern'
    BY <1>0, <2>3 DEF Pattern
  <2> QED BY <2>2, <2>3, <2>4 DEF Inv
<1>5. CASE UNCHANGED vars
  <2>1. Pattern' /\ Types'
    BY <1>0, <1>5 DEF vars, Pattern, Types
  <2>2. Locks'
    <3>1. Events'
      BY <1>0, <1>5 DEF vars, Events, Logs
    <3>2. Holds'
      BY <1>0, <1>5 DEF vars, Holds, appenderOf
    <3>3. Held'
      <4>1. m_mtx' = m_mtx /\ m_loggers' = m_loggers /\ pc' = pc /\ event' = event /\ appender' = appender
        BY <1>5 DEF vars
      <4>2. Held
        BY <1>0 DEF Locks
      <4> QED BY <4>1, <4>2, SMTT(60) DEF Held
    <3>4. Formatted'
      BY <1>0, <1>5, ZenonT(60) DEF vars, Locks, Formatted
    <3> QED BY <3>1, <3>2, <3>3, <3>4 DEF Locks
  <2>3. Order'
    <3>1. UNCHANGED out /\ records' = records /\ records \in Nat /\ pc' = pc /\ event' = event
      BY <1>0, <1>5 DEF vars, Types
    <3>2. records' >= records
      BY <3>1, SMTT(60)
    <3> QED BY <1>0, <2>1, <3>1, <3>2, OrderQuiet DEF Logs
  <2>4. Sinks'
    <3>1. items' = items
      BY <1>5 DEF vars, items
    <3>2. Blank'
      BY <1>0, <1>5 DEF vars, Sinks, Blank
    <3>3. Chained'
      BY <1>0, <1>5, <3>1 DEF vars, Sinks, Chained
    <3>4. Stops'
      BY <1>0, <1>5, <3>1, ZenonT(60) DEF vars, Sinks, Stops, Complete, Begun
    <3> QED BY <3>2, <3>3, <3>4 DEF Sinks
  <2> QED BY <2>1, <2>2, <2>3, <2>4 DEF Inv
<1> QED BY <1>1, <1>2, <1>3, <1>4, <1>5 DEF Next

\* A chain of items is one of whole records.
LEMMA ChainsAreWhole ==
  ASSUME Types, Chained, Len(items) \in Nat PROVE RecordsWhole
<1> DEFINE L == Len(items)
<1> HIDE DEF L
<1> SUFFICES ASSUME NEW a \in Stream \cup File, NEW n \in DOMAIN out[a]
             PROVE  LET x == out[a][n] IN
                    /\ x[2] > 1 => n > 1 /\ out[a][n - 1] = <<x[1], x[2] - 1>>
                    /\ x[2] < L /\ n < Len(out[a]) => out[a][n + 1] = <<x[1], x[2] + 1>>
  BY DEF RecordsWhole, L
<1> DEFINE o == out[a]
<1>1. o \in Seq(Record \X Nat)
  <2>1. a \in Sink
    BY LoggerAssumption, SinkIs
  <2> QED BY <2>1 DEF Types
<1>2. o[n][2] > 1 => n > 1 /\ o[n - 1] = <<o[n][1], o[n][2] - 1>>
  BY DEF Chained, Linked
<1>3. ASSUME o[n][2] < L, n < Len(o) PROVE o[n + 1] = <<o[n][1], o[n][2] + 1>>
  <2>1. Linked(o, L)
    BY DEF Chained, Linked, L
  <2>2. n \in DOMAIN o /\ L \in Nat
    BY DEF L
  <2> HIDE DEF o
  <2> QED BY <1>1, <1>3, <2>1, <2>2, ChainForward
<1> QED BY <1>2, <1>3

\* Records that are nowhere in two orders are everywhere in the same.
LEMMA OrderIsSame ==
  ASSUME Types, InOrder PROVE SameOrder
<1> DEFINE before(s) == UNION {{<<out[s][m][1], out[s][n][1]>> : m \in 1..n - 1} : n \in DOMAIN out[s]}
<1>1. \A s \in Sink : \A x : x \in before(s) <=> \E n \in DOMAIN out[s] : \E m \in 1..n - 1 :
                                               x = <<out[s][m][1], out[s][n][1]>>
  BY SMTT(60)
<1> HIDE DEF before
<1>2. ASSUME NEW s \in Sink, NEW x \in before(s)
      PROVE  x[1] \in Record /\ x[2] \in Record /\ Before(s, x[1], x[2])
  <2>1. PICK n \in DOMAIN out[s] : \E m \in 1..n - 1 : x = <<out[s][m][1], out[s][n][1]>>
    BY <1>1, <1>2
  <2>6. PICK m \in 1..n - 1 : x = <<out[s][m][1], out[s][n][1]>>
    BY <2>1
  <2>2. x[1] = out[s][m][1] /\ x[2] = out[s][n][1]
    BY <2>6
  <2>3. Before(s, x[1], x[2])
    BY <2>2 DEF Before
  <2>4. out[s][m] \in Record \X Nat /\ out[s][n] \in Record \X Nat
    <3> DEFINE o == out[s]
    <3>1. o \in Seq(Record \X Nat) /\ n \in DOMAIN o /\ m \in 1..n - 1
      BY DEF Types
    <3> HIDE DEF o
    <3>2. o[m] \in Record \X Nat /\ o[n] \in Record \X Nat
      BY <3>1, SMTT(60)
    <3> QED BY <3>2 DEF o
  <2>5. \A y \in Record \X Nat : y[1] \in Record
    OBVIOUS
  <2> QED BY <2>2, <2>3, <2>4, <2>5
<1>3. ASSUME NEW u \in Sink, NEW x, NEW y, <<x, y>> \in before(u) PROVE Before(u, x, y)
  <2>1. PICK n \in DOMAIN out[u] : \E m \in 1..n - 1 : <<x, y>> = <<out[u][m][1], out[u][n][1]>>
    BY <1>1, <1>3, SMTT(60)
  <2>2. \E m \in 1..n - 1 : x = out[u][m][1] /\ y = out[u][n][1]
    BY <2>1, SMTT(60)
  <2> QED BY <2>2 DEF Before
<1>4. \A s, u \in Sink : \A x \in before(s) :
        x[1] # x[2] /\ x[1][1] = x[2][1] => <<x[2], x[1]>> \notin before(u)
  <2> SUFFICES ASSUME NEW s \in Sink, NEW u \in Sink, NEW x \in before(s),
                      x[1] # x[2], x[1][1] = x[2][1], <<x[2], x[1]>> \in before(u)
               PROVE  FALSE
    OBVIOUS
  <2>1. x[1] \in Record /\ x[2] \in Record /\ Before(s, x[1], x[2])
    BY <1>2
  <2>2. Before(u, x[2], x[1])
    BY <1>3
  <2> QED BY <2>1, <2>2 DEF InOrder
<1> QED BY <1>4 DEF before, SameOrder

\* The list of a logger does not change under the thread that holds its mutex.
LEMMA HoldersAttached ==
  ASSUME Types, Events, Holds, Formatted PROVE WrittenToAttached
<1> SUFFICES ASSUME NEW t \in Thread, pc[t] = "format"
             PROVE  /\ \E n \in DOMAIN m_appenders[event[t].logger] :
                         m_appenders[event[t].logger][n] = appender[t]
                    /\ appender[t] \in m_formatter
  BY DEF WrittenToAttached
<1> DEFINE l == event[t].logger
<1>1. /\ l \in Logger /\ m_mtx[l] = t /\ at[t] >= 1 /\ at[t] <= Len(m_appenders[l])
      /\ appender[t] = m_appenders[l][at[t]] /\ at[t] \in Nat /\ m_appenders[l] \in Seq(Appender)
  BY DEF Types, Events, Holds, Logs, appenderOf
<1> HIDE DEF l
<1>2. at[t] \in DOMAIN m_appenders[l]
  BY <1>1, SMTT(60)
<1>3. appender[t] \in m_formatter
  BY <1>1, <1>2 DEF Formatted
<1> QED BY <1>1, <1>2, <1>3 DEF l

-----------------------------------------------------------------------------
(* Sequences that are cut and joined *)

\* A part of a pattern is a pattern.
LEMMA SubSeqType ==
  ASSUME NEW C, NEW p \in Seq(C), NEW a \in Nat, NEW b \in Nat, a >= 1, b <= Len(p)
  PROVE  SubSeq(p, a, b) \in Seq(C)
BY SMTT(60)

\* What two sequences make when joined, by places.
LEMMA Joined ==
  ASSUME NEW C, NEW p \in Seq(C), NEW q \in Seq(C)
  PROVE  /\ p \o q \in Seq(C) /\ Len(p \o q) = Len(p) + Len(q)
         /\ \A n \in 1..Len(p) : (p \o q)[n] = p[n]
         /\ \A n \in 1..Len(q) : (p \o q)[Len(p) + n] = q[n]
BY SMTT(60)

\* A part of the second of two sequences is a part of both together.
LEMMA SubSeqShift ==
  ASSUME NEW C, NEW p \in Seq(C), NEW q \in Seq(C), NEW a \in Nat, NEW b \in Nat, a >= 1, b <= Len(q)
  PROVE  SubSeq(p \o q, Len(p) + a, Len(p) + b) = SubSeq(q, a, b)
BY SMTT(60)

\* What the characters of a piece are, wherever they are put.
LEMMA OneThen ==
  ASSUME NEW C, NEW c \in C, NEW q \in Seq(C)
  PROVE  /\ <<c>> \in Seq(C) /\ <<c>> \o q \in Seq(C) /\ Len(<<c>>) = 1
         /\ Len(<<c>> \o q) = 1 + Len(q) /\ (<<c>> \o q)[1] = c
BY SMTT(60)

\* The first places of a pattern that starts with two letters.
LEMMA TwoThen ==
  ASSUME NEW C, NEW a \in C, NEW b \in C, NEW q \in Seq(C)
  PROVE  /\ <<a, b>> \in Seq(C) /\ <<a, b>> \o q \in Seq(C) /\ Len(<<a, b>>) = 2
         /\ Len(<<a, b>> \o q) = 2 + Len(q) /\ (<<a, b>> \o q)[1] = a /\ (<<a, b>> \o q)[2] = b
         /\ Len(q) >= 1 => (<<a, b>> \o q)[3] = q[1]
BY SMTT(60)

\* And of one that starts with three.
LEMMA ThreeThen ==
  ASSUME NEW C, NEW a \in C, NEW b \in C, NEW c \in C, NEW f \in Seq(C)
  PROVE  /\ <<a, b, c>> \o f \in Seq(C) /\ Len(<<a, b, c>> \o f) = 3 + Len(f)
         /\ (<<a, b, c>> \o f)[1] = a /\ (<<a, b, c>> \o f)[2] = b /\ (<<a, b, c>> \o f)[3] = c
         /\ \A n \in 4..Len(f) + 3 : (<<a, b, c>> \o f)[n] = f[n - 3]
         /\ SubSeq(<<a, b, c>> \o f, 4, Len(f) + 3) = f
<1>1. /\ <<a, b, c>> \o f \in Seq(C) /\ Len(<<a, b, c>> \o f) = 3 + Len(f) /\ Len(f) \in Nat
      /\ (<<a, b, c>> \o f)[1] = a /\ (<<a, b, c>> \o f)[2] = b /\ (<<a, b, c>> \o f)[3] = c
      /\ \A n \in 4..Len(f) + 3 : (<<a, b, c>> \o f)[n] = f[n - 3]
  BY SMTT(60)
<1> DEFINE r == <<a, b, c>> \o f
<1>2. /\ r \in Seq(C) /\ Len(r) = 3 + Len(f) /\ Len(f) \in Nat
      /\ \A n \in 4..Len(f) + 3 : r[n] = f[n - 3]
  BY <1>1
<1> HIDE DEF r
<1>3. SubSeq(r, 4, Len(f) + 3) = f
  BY <1>2, SMTT(60)
<1> QED BY <1>1, <1>3 DEF r

\* A first part of a sequence is the same with more behind it.
LEMMA SubSeqFirst ==
  ASSUME NEW C, NEW p \in Seq(C), NEW q \in Seq(C), NEW a \in Nat, NEW b \in Nat, a >= 1, b <= Len(p)
  PROVE  SubSeq(p \o q, a, b) = SubSeq(p, a, b)
BY SMTT(60)

\* What the characters of a key with its format are.
Braced(C, w, p, a, k, b, f, d, q) ==
  /\ w \in Seq(C) /\ p \in Seq(C) /\ Len(w) = 4 + Len(f) /\ Len(p) = 4 + Len(f) + Len(q)
  /\ p[1] = a /\ p[2] = k /\ p[3] = b /\ p[4 + Len(f)] = d
  /\ \A n \in 4..Len(f) + 3 : p[n] = f[n - 3]
  /\ SubSeq(p, 4, Len(f) + 3) = f

\* A key with a format in braces, and what follows it, are such.
LEMMA BracedThen ==
  ASSUME NEW C, NEW a \in C, NEW k \in C, NEW b \in C, NEW d \in C, NEW f \in Seq(C), NEW q \in Seq(C)
  PROVE  Braced(C, <<a, k, b>> \o f \o <<d>>, (<<a, k, b>> \o f \o <<d>>) \o q, a, k, b, f, d, q)
<1> DEFINE r == <<a, k, b>> \o f
           w == <<a, k, b>> \o f \o <<d>>
           p == w \o q
<1>0. Len(f) \in Nat /\ Len(q) \in Nat /\ <<d>> \in Seq(C) /\ Len(<<d>>) = 1
  BY SMTT(60)
<1>1. /\ r \in Seq(C) /\ Len(r) = 3 + Len(f) /\ r[1] = a /\ r[2] = k /\ r[3] = b
      /\ \A n \in 4..Len(f) + 3 : r[n] = f[n - 3]
      /\ SubSeq(r, 4, Len(f) + 3) = f
  BY ThreeThen, SMTT(60)
<1> HIDE DEF r
<1>2. /\ w = r \o <<d>> /\ w \in Seq(C) /\ Len(w) = 4 + Len(f) /\ w[4 + Len(f)] = d
      /\ \A n \in 1..3 + Len(f) : w[n] = r[n]
  BY <1>0, <1>1, SMTT(60) DEF r
<1> HIDE DEF w
<1>n. /\ 4 \in Nat /\ 4 >= 1 /\ Len(f) + 3 \in Nat /\ Len(f) + 3 <= 3 + Len(f)
      /\ Len(f) + 3 <= 4 + Len(f)
  BY <1>0, SMTT(60)
<1>3. SubSeq(w, 4, Len(f) + 3) = f
  <2> DEFINE to == Len(f) + 3
             last == <<d>>
  <2>1. r \in Seq(C) /\ last \in Seq(C) /\ 4 \in Nat /\ to \in Nat /\ 4 >= 1 /\ to <= Len(r)
    BY <1>0, <1>1, <1>n
  <2>2. w = r \o last /\ SubSeq(r, 4, to) = f
    BY <1>1, <1>2
  <2> HIDE DEF to, last
  <2>3. SubSeq(r \o last, 4, to) = SubSeq(r, 4, to)
    BY <2>1, SubSeqFirst
  <2>4. SubSeq(w, 4, to) = f
    BY <2>2, <2>3
  <2> QED BY <2>4 DEF to
<1>4. /\ p \in Seq(C) /\ Len(p) = 4 + Len(f) + Len(q)
      /\ \A n \in 1..4 + Len(f) : p[n] = w[n]
  <2>1. w \in Seq(C) /\ Len(w) = 4 + Len(f)
    BY <1>2
  <2> QED BY <1>0, <2>1, SMTT(60)
<1>5. SubSeq(p, 4, Len(f) + 3) = f
  <2> DEFINE to == Len(f) + 3
  <2>1. w \in Seq(C) /\ 4 \in Nat /\ to \in Nat /\ 4 >= 1 /\ to <= Len(w)
    BY <1>0, <1>2, <1>n
  <2>2. SubSeq(w, 4, to) = f
    BY <1>3
  <2> HIDE DEF to
  <2>3. SubSeq(w \o q, 4, to) = SubSeq(w, 4, to)
    BY <2>1, SubSeqFirst
  <2>4. SubSeq(p, 4, to) = f
    BY <2>2, <2>3
  <2> QED BY <2>4 DEF to
<1> HIDE DEF p
<1>6. /\ p[1] = a /\ p[2] = k /\ p[3] = b /\ p[4 + Len(f)] = d
      /\ \A n \in 4..Len(f) + 3 : p[n] = f[n - 3]
  <2>1. \A n \in 4..Len(f) + 3 : n \in 1..3 + Len(f) /\ n \in 1..4 + Len(f)
    BY <1>0, SMTT(60)
  <2>2. \A n \in {1, 2, 3} : n \in 1..3 + Len(f) /\ n \in 1..4 + Len(f)
    BY <1>0, SMTT(60)
  <2>3. 4 + Len(f) \in 1..4 + Len(f)
    BY <1>0, SMTT(60)
  <2>4. \A n \in 1..3 + Len(f) : n \in 1..4 + Len(f) => p[n] = r[n]
    BY <1>2, <1>4
  <2>5. p[1] = a /\ p[2] = k /\ p[3] = b
    BY <1>1, <2>2, <2>4
  <2>6. p[4 + Len(f)] = d
    BY <1>2, <1>4, <2>3
  <2>7. \A n \in 4..Len(f) + 3 : p[n] = f[n - 3]
    BY <1>1, <2>1, <2>4
  <2> QED BY <2>5, <2>6, <2>7
<1>7. Braced(C, w, p, a, k, b, f, d, q)
  BY <1>2, <1>4, <1>5, <1>6 DEF Braced
<1> QED BY <1>7 DEF w, p

\* Numbers about the places of a key with its format.
LEMMA Four ==
  ASSUME NEW n \in Nat, NEW m \in Nat
  PROVE  /\ LET l == 4 + n + m IN
              /\ l >= 1 /\ ~(2 > l) /\ 2 < l /\ 2 + 1 = 3 /\ 2 + 2 = 4
              /\ 4 \in Nat /\ 4 >= 1 /\ 4 <= l + 1 /\ 4 + n \in 4..l + 1 /\ 4 + n <= l
              /\ (4 + n) - 1 = n + 3
         /\ 4 + n >= 1 /\ \A i \in 4..n + 3 : i - 3 \in 1..n
BY SMTT(60)

\* A function on the first numbers is a sequence.
LEMMA FunctionIsSequence ==
  ASSUME NEW C, NEW n \in Nat, NEW f \in [1..n -> C]
  PROVE  f \in Seq(C) /\ Len(f) = n
BY SMTT(60)

\* Where the elements of two sequences are when they are joined.
IsJoin(S, l, a, b) ==
  /\ l \in Seq(S) /\ Len(l) = Len(a) + Len(b)
  /\ \A i \in 1..Len(a) + Len(b) : l[i] = IF i <= Len(a) THEN a[i] ELSE b[i - Len(a)]

\* Joining joins by places.
LEMMA Places ==
  ASSUME NEW S, NEW a \in Seq(S), NEW b \in Seq(S)
  PROVE  IsJoin(S, a \o b, a, b)
BY SMTT(60) DEF IsJoin

\* One more item in front of the others.
OneMore(x, n, y) == [m \in 1..n |-> x[m]] \o (<<x[n + 1]>> \o y) = [m \in 1..n + 1 |-> x[m]] \o y
LEMMA OneMoreItem ==
  ASSUME NEW S, NEW n \in Nat, NEW x \in [1..n + 1 -> S], NEW y \in Seq(S)
  PROVE  OneMore(x, n, y)
<1> DEFINE a == [m \in 1..n |-> x[m]]
           b == [m \in 1..n + 1 |-> x[m]]
           c == <<x[n + 1]>> \o y
<1>0. n + 1 \in 1..n + 1 /\ n + 1 \in Nat /\ \A m \in 1..n : m \in 1..n + 1
  BY SMTT(60)
<1>1. a \in [1..n -> S] /\ b \in [1..n + 1 -> S] /\ x[n + 1] \in S
  BY <1>0
<1>2. (\A m \in 1..n : a[m] = x[m]) /\ (\A m \in 1..n + 1 : b[m] = x[m])
  OBVIOUS
<1> HIDE DEF a, b
<1>3. a \in Seq(S) /\ Len(a) = n /\ b \in Seq(S) /\ Len(b) = n + 1
  BY <1>0, <1>1, FunctionIsSequence
<1>4. /\ c \in Seq(S) /\ Len(c) = Len(y) + 1 /\ c[1] = x[n + 1] /\ Len(y) \in Nat
      /\ \A m \in 1..Len(y) : c[m + 1] = y[m]
  BY <1>1, SMTT(60)
<1> HIDE DEF c
<1>5. a \o c = b \o y
  <2>1. /\ a \o c \in Seq(S) /\ Len(a \o c) = n + 1 + Len(y)
        /\ \A i \in 1..n + 1 + Len(y) : (a \o c)[i] = IF i <= n THEN a[i] ELSE c[i - n]
    <3>1. IsJoin(S, a \o c, a, c)
      BY <1>3, <1>4, Places
    <3>2. n + (Len(y) + 1) = n + 1 + Len(y)
      BY <1>4, SMTT(60)
    <3> QED BY <1>3, <1>4, <3>1, <3>2 DEF IsJoin
  <2>2. /\ b \o y \in Seq(S) /\ Len(b \o y) = n + 1 + Len(y)
        /\ \A i \in 1..n + 1 + Len(y) : (b \o y)[i] = IF i <= n + 1 THEN b[i] ELSE y[i - (n + 1)]
    <3>1. IsJoin(S, b \o y, b, y)
      BY <1>3, Places
    <3> QED BY <1>3, <3>1 DEF IsJoin
  <2> DEFINE ac == a \o c
             by == b \o y
  <2> HIDE DEF ac, by
  <2>3. ASSUME NEW i \in 1..n + 1 + Len(y) PROVE ac[i] = by[i]
    <3>1. CASE i <= n
      <4>1. i \in 1..n /\ i \in 1..n + 1 /\ i <= n + 1
        BY <3>1, <1>4, SMTT(60)
      <4> QED BY <1>2, <2>1, <2>2, <3>1, <4>1 DEF ac, by
    <3>2. CASE i = n + 1
      <4>1. ~(i <= n) /\ i - n = 1 /\ i <= n + 1 /\ i \in 1..n + 1
        BY <3>2, SMTT(60)
      <4> QED BY <1>2, <1>4, <2>1, <2>2, <3>2, <4>1 DEF ac, by
    <3>3. CASE i > n + 1
      <4>1. ~(i <= n) /\ ~(i <= n + 1) /\ i - (n + 1) \in 1..Len(y) /\ i - n = (i - (n + 1)) + 1
        BY <1>4, <3>3, SMTT(60)
      <4> QED BY <1>4, <2>1, <2>2, <4>1 DEF ac, by
    <3> QED BY <1>4, <3>1, <3>2, <3>3, SMTT(60)
  <2>4. ac \in Seq(S) /\ by \in Seq(S) /\ Len(ac) = n + 1 + Len(y) /\ Len(by) = n + 1 + Len(y)
    BY <2>1, <2>2 DEF ac, by
  <2>5. ac = by
    BY <2>3, <2>4, SMTT(60)
  <2> QED BY <2>5 DEF ac, by
<1> QED BY <1>5 DEF a, b, c, OneMore

Associates(a, b, c) == (a \o b) \o c = a \o (b \o c)
LEMMA Associate ==
  ASSUME NEW S, NEW a \in Seq(S), NEW b \in Seq(S), NEW c \in Seq(S)
  PROVE  Associates(a, b, c)
<1> DEFINE ab == a \o b
           bc == b \o c
           l == ab \o c
           r == a \o bc
           la == Len(a)
           lb == Len(b)
           lc == Len(c)
<1>0. la \in Nat /\ lb \in Nat /\ lc \in Nat
  BY Sequences1
<1>1. /\ ab \in Seq(S) /\ Len(ab) = la + lb
      /\ \A i \in 1..la + lb : ab[i] = IF i <= la THEN a[i] ELSE b[i - la]
  BY SMTT(60)
<1>2. /\ bc \in Seq(S) /\ Len(bc) = lb + lc
      /\ \A i \in 1..lb + lc : bc[i] = IF i <= lb THEN b[i] ELSE c[i - lb]
  BY SMTT(60)
<1> HIDE DEF ab, bc
<1>3. /\ l \in Seq(S) /\ Len(l) = la + lb + lc
      /\ \A i \in 1..la + lb + lc : l[i] = IF i <= la + lb THEN ab[i] ELSE c[i - (la + lb)]
  <2>1. ab \in Seq(S) /\ Len(ab) = la + lb
    BY <1>1
  <2>2. IsJoin(S, l, ab, c)
    BY <2>1, Places
  <2> HIDE DEF l
  <2> QED BY <2>1, <2>2 DEF IsJoin
<1>4. /\ r \in Seq(S) /\ Len(r) = la + lb + lc
      /\ \A i \in 1..la + lb + lc : r[i] = IF i <= la THEN a[i] ELSE bc[i - la]
  <2>1. bc \in Seq(S) /\ Len(bc) = lb + lc
    BY <1>2
  <2>2. IsJoin(S, r, a, bc)
    BY <2>1, Places
  <2>3. la + lb + lc = la + Len(bc)
    BY <1>0, <2>1, SMTT(60)
  <2> HIDE DEF r
  <2> QED BY <2>2, <2>3 DEF IsJoin
<1> HIDE DEF l, r, la, lb, lc
<1>5. ASSUME NEW i \in 1..la + lb + lc PROVE l[i] = r[i]
  <2>1. CASE i <= la
    <3>1. i \in 1..la + lb /\ i <= la + lb
      BY <1>0, <2>1, SMTT(60)
    <3> QED BY <1>1, <1>3, <1>4, <2>1, <3>1
  <2>2. CASE ~(i <= la) /\ i <= la + lb
    <3>1. i \in 1..la + lb /\ i - la \in 1..lb + lc /\ i - la <= lb
      BY <1>0, <2>2, SMTT(60)
    <3> QED BY <1>1, <1>2, <1>3, <1>4, <2>2, <3>1
  <2>3. CASE ~(i <= la + lb)
    <3>1. ~(i <= la) /\ i - la \in 1..lb + lc /\ ~(i - la <= lb) /\ (i - la) - lb = i - (la + lb)
      BY <1>0, <2>3, SMTT(60)
    <3> QED BY <1>2, <1>3, <1>4, <2>3, <3>1
  <2> QED BY <2>1, <2>2, <2>3
<1>6. l = r
  <2>1. l \in Seq(S) /\ r \in Seq(S) /\ Len(l) = la + lb + lc /\ Len(r) = la + lb + lc
    BY <1>3, <1>4
  <2> QED BY <1>5, <2>1, SMTT(60)
<1> QED BY <1>6 DEF l, r, ab, bc, Associates

\* The first letter of what is joined.
LEMMA FirstOfTwo ==
  ASSUME NEW S, NEW a \in Seq(S), NEW b \in Seq(S), Len(a) >= 1
  PROVE  a \o b \in Seq(S) /\ (a \o b)[1] = a[1]
BY SMTT(60)

-----------------------------------------------------------------------------
(* Induction and recursion over numbers *)

INSTANCE WellFoundedInduction

\* A set of numbers that is not empty has a least one.
LEMMA LeastNumber ==
  ASSUME NEW T, T \subseteq Nat, T # {}
  PROVE  \E k \in T : \A l \in T : k <= l
<1>1. IsWellFoundedOn(OpToRel(<, Nat), Nat)
  BY NatLessThanWellFounded
<1> HIDE DEF OpToRel
<1>2. PICK x \in T : \A y \in T : ~(<<y, x>> \in OpToRel(<, Nat))
  BY <1>1, WFMin
<1>3. \A y \in T : ~(y < x)
  BY <1>2 DEF OpToRel
<1>4. \A y \in T : x <= y
  BY <1>3, SMTT(60)
<1> QED BY <1>4

\* A set that holds 0 and the successor of each of its numbers holds them all.
LEMMA NatSetInduction ==
  ASSUME NEW P, 0 \in P, \A n \in Nat : n \in P => n + 1 \in P
  PROVE  Nat \subseteq P
<1> SUFFICES ASSUME Nat \ P # {} PROVE FALSE
  OBVIOUS
<1>1. PICK x \in Nat \ P : \A y \in Nat \ P : x <= y
  BY LeastNumber
<1>2. x - 1 \in P
  BY <1>1, SMTT(60)
<1>3. x \in P
  BY <1>2, SMTT(60)
<1> QED BY <1>3

\* A function can be given by its value at 0 and a step from each value to the next.
Follows(f, base, N, step) == f[0] = base /\ \A n \in 1..N : f[n] = step[n][f[n - 1]]
LEMMA Recursion ==
  ASSUME NEW S, NEW base \in S, NEW N \in Nat, NEW step \in [1..N -> [S -> S]]
  PROVE  \E f \in [0..N -> S] : Follows(f, base, N, step)
<1> DEFINE Q(k) == \E f \in [0..k -> S] :
                     f[0] = base /\ \A n \in 1..k : f[n] = step[n][f[n - 1]]
           P == {k \in Nat : k <= N => Q(k)}
<1>1. 0 \in P
  <2>1. [k \in 0..0 |-> base] \in [0..0 -> S] /\ [k \in 0..0 |-> base][0] = base
    BY SMTT(60)
  <2>2. \A n \in 1..0 : FALSE
    BY SMTT(60)
  <2>3. Q(0)
    BY <2>1, <2>2
  <2> QED BY <2>3, SMTT(60)
<1>2. ASSUME NEW k \in Nat, k \in P PROVE k + 1 \in P
  <2> SUFFICES ASSUME k + 1 <= N PROVE Q(k + 1)
    BY SMTT(60)
  <2>1. PICK f \in [0..k -> S] : f[0] = base /\ \A n \in 1..k : f[n] = step[n][f[n - 1]]
    BY <1>2, SMTT(60)
  <2> DEFINE g == [n \in 0..k + 1 |-> IF n = k + 1 THEN step[k + 1][f[k]] ELSE f[n]]
  <2>2. g \in [0..k + 1 -> S]
    BY <2>1, SMTT(60)
  <2>3. g[0] = base
    BY <2>1, SMTT(60)
  <2>4. g[k + 1] = step[k + 1][f[k]] /\ \A n \in 0..k : g[n] = f[n]
    BY SMTT(60)
  <2> HIDE DEF g
  <2>5. \A n \in 1..k + 1 : n = k + 1 \/ (n \in 1..k /\ n \in 0..k /\ n - 1 \in 0..k)
    BY SMTT(60)
  <2>6. (k + 1) - 1 = k /\ k \in 0..k
    BY SMTT(60)
  <2>7. \A n \in 1..k + 1 : g[n] = step[n][g[n - 1]]
    BY <2>1, <2>4, <2>5, <2>6
  <2> QED BY <2>2, <2>3, <2>7
<1> HIDE DEF P
<1>3. Nat \subseteq P
  BY <1>1, <1>2, NatSetInduction
<1> QED BY <1>3, SMTT(60) DEF P, Follows

\* remove() gives a list of those of the appenders that are not the one removed.
LEMMA RemoveType ==
  ASSUME NEW S, NEW list \in Seq(S), NEW a
  PROVE  Removed(list, a)
<1> DEFINE R == {list[n] : n \in DOMAIN list} \ {a}
           Rest(f) == f = [n \in 0..Len(list) |->
                             IF n = 0 THEN <<>>
                             ELSE IF list[n] = a THEN f[n - 1] ELSE Append(f[n - 1], list[n])]
           step == [n \in 1..Len(list) |->
                      [r \in Seq(R) |-> IF list[n] = a THEN r ELSE Append(r, list[n])]]
           rest == CHOOSE f : Rest(f)
<1>1. Len(list) \in Nat /\ <<>> \in Seq(R) /\ \A n \in 1..Len(list) : list[n] = a \/ list[n] \in R
  BY SMTT(60)
<1>2. \A n \in 1..Len(list), r \in Seq(R) :
        (IF list[n] = a THEN r ELSE Append(r, list[n])) \in Seq(R)
  <2> HIDE DEF R
  <2> QED BY <1>1, Sequences1
<1> HIDE DEF R
<1>3. step \in [1..Len(list) -> [Seq(R) -> Seq(R)]]
  BY <1>2
<1>4. \A n \in 1..Len(list), r \in Seq(R) :
        step[n][r] = IF list[n] = a THEN r ELSE Append(r, list[n])
  OBVIOUS
<1> HIDE DEF step
<1>5. PICK f \in [0..Len(list) -> Seq(R)] :
        f[0] = <<>> /\ \A n \in 1..Len(list) : f[n] = step[n][f[n - 1]]
  <2> DEFINE SR == Seq(R)
             N == Len(list)
  <2>1. <<>> \in SR /\ N \in Nat /\ step \in [1..N -> [SR -> SR]]
    BY <1>1, <1>3
  <2> HIDE DEF SR, N
  <2>2. \E f \in [0..N -> SR] : Follows(f, <<>>, N, step)
    BY <2>1, Recursion
  <2> QED BY <2>2 DEF SR, N, Follows
<1>6. \A n \in 1..Len(list) : n - 1 \in 0..Len(list) /\ n # 0
  BY <1>1, SMTT(60)
<1>7. \A n \in 1..Len(list) :
        f[n] = IF list[n] = a THEN f[n - 1] ELSE Append(f[n - 1], list[n])
  BY <1>4, <1>5, <1>6
<1>8. \A n \in 0..Len(list) : n = 0 \/ n \in 1..Len(list)
  BY <1>1, SMTT(60)
<1>9. Rest(f)
  BY <1>5, <1>6, <1>7, <1>8
<1>10. Rest(rest)
  BY <1>9
<1>11. remove(list, a) = rest[Len(list)]
  BY SMTT(60) DEF remove
<1> HIDE DEF rest
<1>12. rest[0] = <<>> /\ \A n \in 1..Len(list) :
         rest[n] = IF list[n] = a THEN rest[n - 1] ELSE Append(rest[n - 1], list[n])
  <2> DEFINE g == [n \in 0..Len(list) |->
                     IF n = 0 THEN <<>>
                     ELSE IF list[n] = a THEN rest[n - 1] ELSE Append(rest[n - 1], list[n])]
  <2>1. 0 \in 0..Len(list) /\ \A n \in 1..Len(list) : n \in 0..Len(list) /\ n # 0
    BY <1>1, SMTT(60)
  <2>2. g[0] = <<>> /\ \A n \in 1..Len(list) :
          g[n] = IF list[n] = a THEN rest[n - 1] ELSE Append(rest[n - 1], list[n])
    BY <2>1
  <2>3. rest = g
    BY <1>10
  <2> HIDE DEF g
  <2> QED BY <2>2, <2>3
<1> DEFINE P == {n \in Nat : n <= Len(list) => rest[n] \in Seq(R)}
<1>13. 0 \in P
  BY <1>1, <1>12
<1>14. ASSUME NEW n \in Nat, n \in P PROVE n + 1 \in P
  <2> SUFFICES ASSUME n + 1 <= Len(list) PROVE rest[n + 1] \in Seq(R)
    BY SMTT(60)
  <2>1. n + 1 \in 1..Len(list) /\ (n + 1) - 1 = n /\ rest[n] \in Seq(R)
    BY <1>1, <1>14, SMTT(60)
  <2>2. rest[n + 1] = rest[n] \/ (list[n + 1] \in R /\ rest[n + 1] = Append(rest[n], list[n + 1]))
    BY <2>1, <1>1, <1>12
  <2>3. list[n + 1] \in R => Append(rest[n], list[n + 1]) \in Seq(R)
    BY <2>1, Sequences1
  <2> QED BY <2>1, <2>2, <2>3
<1> HIDE DEF P
<1>15. Nat \subseteq P
  BY <1>13, <1>14, NatSetInduction
<1>16. rest[Len(list)] \in Seq(R)
  BY <1>1, <1>15, SMTT(60) DEF P
<1> QED BY <1>11, <1>16 DEF R, Removed

\* The same of the appenders' lists.
LEMMA AllRemove == Removes
BY RemoveType DEF Removes

-----------------------------------------------------------------------------
(* The parser *)

\* fmtEnd() is the first closing brace from a place on, or past the end.
LEMMA FmtEnd ==
  ASSUME NEW C, NEW p \in Seq(C), NEW from \in Nat, from >= 1, from <= Len(p) + 1
  PROVE  /\ fmtEnd(p, from) \in from..Len(p) + 1
         /\ \A k \in from..fmtEnd(p, from) - 1 : p[k] # "}"
         /\ fmtEnd(p, from) <= Len(p) => p[fmtEnd(p, from)] = "}"
<1> DEFINE closing == {k \in from..Len(p) : p[k] = "}"}
           end == CHOOSE k \in closing : \A l \in closing : k <= l
<1>0. Len(p) \in Nat
  BY Sequences1
<1>1. CASE closing = {}
  <2>1. fmtEnd(p, from) = Len(p) + 1
    BY <1>1 DEF fmtEnd
  <2>2. \A k \in from..Len(p) : p[k] # "}"
    BY <1>1
  <2>3. /\ Len(p) + 1 \in from..Len(p) + 1 /\ (Len(p) + 1) - 1 = Len(p) /\ ~(Len(p) + 1 <= Len(p))
    BY <1>0, SMTT(60)
  <2> QED BY <2>1, <2>2, <2>3
<1>2. CASE closing # {}
  <2>1. fmtEnd(p, from) = end
    BY <1>2 DEF fmtEnd
  <2>2. closing \subseteq Nat
    <3>1. from..Len(p) \subseteq Nat
      BY <1>0, SMTT(60)
    <3> QED BY <3>1
  <2>3. \E k \in closing : \A l \in closing : k <= l
    <3> HIDE DEF closing
    <3> QED BY <1>2, <2>2, LeastNumber
  <2>4. end \in closing /\ \A l \in closing : end <= l
    <3> HIDE DEF closing
    <3> QED BY <2>3
  <2> HIDE DEF end
  <2>5. p[end] = "}"
    BY <2>4
  <2>a. end \in from..Len(p)
    BY <2>4
  <2>6. ASSUME NEW k \in from..end - 1 PROVE p[k] # "}"
    <3>1. k \in from..Len(p) /\ ~(end <= k)
      BY <1>0, <2>a, <2>6, SMTT(60)
    <3> QED BY <2>4, <3>1
  <2>7. end \in from..Len(p) + 1
    BY <1>0, <2>a, SMTT(60)
  <2> QED BY <2>1, <2>5, <2>6, <2>7
<1> QED BY <1>1, <1>2

\* A turn looks only at what follows its place.
LEMMA ItemsFromLocal ==
  ASSUME NEW C, NEW p \in Seq(C), NEW it \in 1..Len(p) + 2, NEW found \in BOOLEAN, NEW f, NEW g,
         \A j \in it + 1..Len(p) + 2 : f[j] = g[j]
  PROVE  itemsFrom(p, f, it, found) = itemsFrom(p, g, it, found)
<1>0. Len(p) \in Nat
  BY Sequences1
<1>1. CASE it > Len(p)
  BY <1>1 DEF itemsFrom
<1>2. CASE ~(it > Len(p))
  <2>1. f[it + 1] = g[it + 1]
    <3>1. it + 1 \in it + 1..Len(p) + 2
      BY <1>0, <1>2, SMTT(60)
    <3> QED BY <3>1
  <2>2. it < Len(p) => f[fmtEnd(p, it + 2) + 1] = g[fmtEnd(p, it + 2) + 1]
    <3> SUFFICES ASSUME it < Len(p) PROVE fmtEnd(p, it + 2) + 1 \in it + 1..Len(p) + 2
      OBVIOUS
    <3>1. it + 2 \in Nat /\ it + 2 >= 1 /\ it + 2 <= Len(p) + 1
      BY <1>0, SMTT(60)
    <3>2. fmtEnd(p, it + 2) \in it + 2..Len(p) + 1
      BY <3>1, FmtEnd
    <3> QED BY <1>0, <3>2, SMTT(60)
  <2> QED BY <1>2, <2>1, <2>2 DEF itemsFrom
<1> QED BY <1>1, <1>2

\* What initItems() calls parse: some function that agrees with its definition.
Parses(p, f) ==
  f = [it \in 1..Len(p) + 2 |-> [found \in BOOLEAN |-> itemsFrom(p, f, it, found)]]
Parse(p) == CHOOSE f : Parses(p, f)

\* initItems() starts at the first place, with no % read.
LEMMA InitItemsIsParse ==
  ASSUME NEW p PROVE initItems(p) = Parse(p)[1][FALSE]
BY SMTT(60) DEF initItems, Parse, Parses

\* There is one: it is made from the last place of the pattern to the first.
LEMMA ParseExists ==
  ASSUME NEW C, NEW p \in Seq(C)
  PROVE  \E f : Parses(p, f)
<1> DEFINE M == Len(p) + 2
           Part(k, f) == f = [it \in k..M |-> [found \in BOOLEAN |-> itemsFrom(p, f, it, found)]]
           P == {n \in Nat : n <= M => \E f : Part(M + 1 - n, f)}
<1>0. M \in Nat /\ Len(p) \in Nat
  BY Sequences1, SMTT(60)
<1>1. 0 \in P
  <2>1. M + 1 - 0 = M + 1 /\ M + 1..M = {}
    BY <1>0, SMTT(60)
  <2> DEFINE e == [it \in {} |-> {}]
  <2>2. e = [it \in M + 1..M |-> [found \in BOOLEAN |-> itemsFrom(p, e, it, found)]]
    <3> HIDE DEF M
    <3> QED BY <2>1
  <2>3. Part(M + 1 - 0, e)
    BY <2>1, <2>2
  <2> QED BY <2>3
<1>2. ASSUME NEW n \in Nat, n \in P PROVE n + 1 \in P
  <2> SUFFICES ASSUME n + 1 <= M PROVE \E f : Part(M + 1 - (n + 1), f)
    BY SMTT(60)
  <2>1. n <= M
    BY <1>0, SMTT(60)
  <2>2. PICK f : Part(M + 1 - n, f)
    BY <1>2, <2>1
  <2> DEFINE k == M + 1 - (n + 1)
             g == [it \in k..M |-> IF it = k THEN [found \in BOOLEAN |-> itemsFrom(p, f, k, found)]
                                   ELSE f[it]]
  <2>3. k \in 1..M /\ k + 1 = M + 1 - n /\ k \in Nat
    BY <1>0, SMTT(60)
  <2>4. f = [it \in k + 1..M |-> [found \in BOOLEAN |-> itemsFrom(p, f, it, found)]]
    BY <2>2, <2>3
  <2> HIDE DEF k, M
  <2>5. \A it \in k + 1..M : it \in k..M /\ it # k /\ it \in 1..M /\ \A j \in it + 1..M : j \in k + 1..M
    BY <1>0, <2>3, SMTT(60)
  <2>6. k \in k..M /\ \A it \in k..M : it = k \/ it \in k + 1..M
    BY <1>0, <2>3, SMTT(60)
  <2>7. g[k] = [found \in BOOLEAN |-> itemsFrom(p, f, k, found)] /\ \A it \in k + 1..M : g[it] = f[it]
    BY <2>5, <2>6
  <2>8. ASSUME NEW it \in k..M, NEW found \in BOOLEAN
        PROVE  itemsFrom(p, f, it, found) = itemsFrom(p, g, it, found)
    <3>1. it \in 1..M /\ \A j \in it + 1..M : j \in k + 1..M
      BY <1>0, <2>3, SMTT(60)
    <3>2. \A j \in it + 1..M : f[j] = g[j]
      BY <3>1, <2>7
    <3> HIDE DEF g
    <3> QED BY <3>1, <3>2, ItemsFromLocal, ZenonT(60) DEF M
  <2>9. \A it \in k + 1..M : f[it] = [found \in BOOLEAN |-> itemsFrom(p, f, it, found)]
    <3> DEFINE F == [it \in k + 1..M |-> [found \in BOOLEAN |-> itemsFrom(p, f, it, found)]]
    <3>1. \A it \in k + 1..M : F[it] = [found \in BOOLEAN |-> itemsFrom(p, f, it, found)]
      OBVIOUS
    <3>2. f = F
      BY <2>4
    <3> HIDE DEF F
    <3> QED BY <3>1, <3>2
  <2>10. \A it \in k..M : g[it] = [found \in BOOLEAN |-> itemsFrom(p, f, it, found)]
    BY <2>6, <2>7, <2>9
  <2>11. ASSUME NEW it \in k..M PROVE g[it] = [found \in BOOLEAN |-> itemsFrom(p, g, it, found)]
    <3> HIDE DEF g
    <3> QED BY <2>8, <2>10
  <2>12. DOMAIN g = k..M /\ g = [it \in k..M |-> g[it]]
    OBVIOUS
  <2>13. Part(k, g)
    <3> HIDE DEF g
    <3> QED BY <2>11, <2>12
  <2> QED BY <2>13 DEF k
<1> HIDE DEF P
<1>3. Nat \subseteq P
  BY <1>1, <1>2, NatSetInduction
<1>5. M + 1 - M = 1 /\ M <= M
  <2> HIDE DEF M
  <2> QED BY <1>0, SMTT(60)
<1>6. \E f : Part(M + 1 - M, f)
  <2> HIDE DEF M, Part
  <2> QED BY <1>0, <1>3, <1>5 DEF P
<1> QED BY <1>5, <1>6 DEF Parses

\* At every place that function is a turn of the loop.
LEMMA ParseTurn ==
  ASSUME NEW C, NEW p \in Seq(C), NEW it \in 1..Len(p) + 2
  PROVE  Parse(p)[it] = [found \in BOOLEAN |-> itemsFrom(p, Parse(p), it, found)]
<1> DEFINE f == Parse(p)
           F == [i \in 1..Len(p) + 2 |-> [b \in BOOLEAN |-> itemsFrom(p, f, i, b)]]
<1>1. Parses(p, f)
  BY ParseExists DEF Parse
<1> HIDE DEF f
<1>2. f = F
  BY <1>1 DEF Parses
<1>3. F[it] = [found \in BOOLEAN |-> itemsFrom(p, f, it, found)]
  OBVIOUS
<1> HIDE DEF F
<1>4. f[it] = [found \in BOOLEAN |-> itemsFrom(p, f, it, found)]
  BY <1>2, <1>3
<1> QED BY <1>4 DEF f

\* And for both values of the flag.
LEMMA ParseEquation ==
  ASSUME NEW C, NEW p \in Seq(C), NEW it \in 1..Len(p) + 2, NEW found \in BOOLEAN
  PROVE  Parse(p)[it][found] = itemsFrom(p, Parse(p), it, found)
<1>1. Parse(p)[it] = [b \in BOOLEAN |-> itemsFrom(p, Parse(p), it, b)]
  BY ParseTurn
<1> DEFINE P == Parse(p)
           I(b) == itemsFrom(p, P, it, b)
<1>2. P[it] = [b \in BOOLEAN |-> I(b)]
  BY <1>1
<1> HIDE DEF P, I
<1>3. P[it][found] = I(found)
  BY <1>2
<1> QED BY <1>3 DEF P, I

\* The items of a pattern over C.
ItemOver(C) == [key : C \cup {"text"}, fmt : Seq(C)]

\* A turn adds at most one item to those of what follows.
LEMMA ItemsFromType ==
  ASSUME NEW C, NEW p \in Seq(C), NEW it \in 1..Len(p) + 2, NEW found \in BOOLEAN, NEW f,
         \A j \in it + 1..Len(p) + 2, b \in BOOLEAN : f[j][b] \in Seq(ItemOver(C))
  PROVE  itemsFrom(p, f, it, found) \in Seq(ItemOver(C))
<1>0. Len(p) \in Nat /\ <<>> \in Seq(C)
  BY SMTT(60)
<1>1. <<>> \in Seq(ItemOver(C))
  BY SMTT(60)
<1>2. CASE it > Len(p)
  BY <1>1, <1>2 DEF itemsFrom
<1>3. CASE ~(it > Len(p))
  <2> DEFINE c == p[it]
             end == fmtEnd(p, it + 2)
  <2>1. it \in 1..Len(p) /\ it + 1 \in it + 1..Len(p) + 2
    BY <1>0, <1>3, SMTT(60)
  <2>2. c \in C
    BY <2>1, Sequences1
  <2>3. f[it + 1][TRUE] \in Seq(ItemOver(C)) /\ f[it + 1][FALSE] \in Seq(ItemOver(C))
    BY <2>1
  <2>4. ASSUME it < Len(p)
        PROVE  end + 1 \in it + 1..Len(p) + 2 /\ SubSeq(p, it + 2, end - 1) \in Seq(C)
    <3>1. it + 2 \in Nat /\ it + 2 >= 1 /\ it + 2 <= Len(p) + 1
      BY <1>0, <2>4, SMTT(60)
    <3>2. end \in it + 2..Len(p) + 1
      BY <3>1, FmtEnd
    <3> HIDE DEF end
    <3>3. end + 1 \in it + 1..Len(p) + 2 /\ end - 1 \in Nat /\ end - 1 <= Len(p)
      BY <1>0, <3>2, SMTT(60)
    <3> QED BY <3>1, <3>3, SubSeqType
  <2>5. \A k \in C, x \in Seq(C) :
          /\ <<Item(k, x)>> \in Seq(ItemOver(C)) /\ <<StringLogItem(k)>> \in Seq(ItemOver(C))
    <3> SUFFICES ASSUME NEW k \in C, NEW x \in Seq(C)
                 PROVE  Item(k, x) \in ItemOver(C) /\ StringLogItem(k) \in ItemOver(C)
      BY Sequences1, SMTT(60)
    <3>1. <<k>> \in Seq(C)
      BY SMTT(60)
    <3> QED BY <3>1, SMTT(60) DEF Item, StringLogItem, ItemOver
  <2> DEFINE SI == Seq(ItemOver(C))
  <2>6. \A x, y \in SI : x \o y \in SI
    BY Sequences1
  <2>7. <<StringLogItem(c)>> \in SI /\ <<Item(c, <<>>)>> \in SI
    BY <1>0, <2>2, <2>5
  <2>8. it < Len(p) => <<Item(c, SubSeq(p, it + 2, end - 1))>> \in SI /\ f[end + 1][FALSE] \in SI
    BY <2>2, <2>4, <2>5
  <2>9. it < Len(p) => <<Item(c, SubSeq(p, it + 2, end - 1))>> \o f[end + 1][FALSE] \in SI
    <3> HIDE DEF SI, c, end
    <3> QED BY <2>6, <2>8
  <2>10. <<StringLogItem(c)>> \o f[it + 1][FALSE] \in SI /\ <<Item(c, <<>>)>> \o f[it + 1][FALSE] \in SI
    <3>1. f[it + 1][FALSE] \in SI
      BY <2>3
    <3> HIDE DEF SI, c
    <3> QED BY <2>6, <2>7, <3>1
  <2>11. <<>> \in SI /\ f[it + 1][TRUE] \in SI
    BY <1>1, <2>3
  <2> HIDE DEF SI
  <2>12. itemsFrom(p, f, it, found) \in SI
    BY <1>3, <2>9, <2>10, <2>11 DEF itemsFrom
  <2> QED BY <2>12 DEF SI
<1> QED BY <1>2, <1>3

\* Induction from the last place of a pattern to the first.
LEMMA Backwards ==
  ASSUME NEW M \in Nat, NEW Good,
         \A it \in 1..M : (\A j \in it + 1..M : j \in Good) => it \in Good
  PROVE  1..M \subseteq Good
<1> DEFINE P == {n \in Nat : \A it \in 1..M : M - it < n => it \in Good}
<1>1. 0 \in P
  BY SMTT(60)
<1>2. ASSUME NEW n \in Nat, n \in P PROVE n + 1 \in P
  <2> SUFFICES ASSUME NEW it \in 1..M, M - it < n + 1 PROVE it \in Good
    BY SMTT(60)
  <2>1. \A j \in it + 1..M : j \in 1..M /\ M - j < n
    BY SMTT(60)
  <2>2. \A j \in it + 1..M : j \in Good
    BY <1>2, <2>1
  <2> QED BY <2>2
<1> HIDE DEF P
<1>3. Nat \subseteq P
  BY <1>1, <1>2, NatSetInduction
<1>4. \A it \in 1..M : M - it < M
  BY SMTT(60)
<1> QED BY <1>3, <1>4 DEF P

\* initItems() gives a list of items, for every pattern.
LEMMA InitItemsType ==
  ASSUME NEW C, NEW p \in Seq(C)
  PROVE  initItems(p) \in Seq(ItemOver(C))
<1> DEFINE M == Len(p) + 2
           Good == {it \in 1..M : \A b \in BOOLEAN : Parse(p)[it][b] \in Seq(ItemOver(C))}
<1>0. M \in Nat /\ 1 \in 1..M
  <2>1. Len(p) \in Nat
    BY Sequences1
  <2> QED BY <2>1, SMTT(60)
<1>1. ASSUME NEW it \in 1..M, \A j \in it + 1..M : j \in Good PROVE it \in Good
  <2> SUFFICES ASSUME NEW b \in BOOLEAN PROVE Parse(p)[it][b] \in Seq(ItemOver(C))
    OBVIOUS
  <2>1. \A j \in it + 1..M, d \in BOOLEAN : Parse(p)[j][d] \in Seq(ItemOver(C))
    BY <1>1
  <2>2. itemsFrom(p, Parse(p), it, b) \in Seq(ItemOver(C))
    BY <2>1, ItemsFromType
  <2> QED BY <2>2, ParseEquation
<1> HIDE DEF Good, M
<1>2. 1..M \subseteq Good
  BY <1>0, <1>1, Backwards
<1>3. Parse(p)[1][FALSE] \in Seq(ItemOver(C))
  BY <1>0, <1>2 DEF Good
<1> QED BY <1>3, InitItemsIsParse

\* No brace closes before e, and one does there unless it is past the end.
ClosesAt(p, from, e) == (\A k \in from..e - 1 : p[k] # "}") /\ (e <= Len(p) => p[e] = "}")

\* The first closing brace is the only place like it.
LEMMA FmtEndOnly ==
  ASSUME NEW C, NEW p \in Seq(C), NEW from \in Nat, from >= 1, from <= Len(p) + 1,
         NEW e \in from..Len(p) + 1, ClosesAt(p, from, e)
  PROVE  fmtEnd(p, from) = e
<1> DEFINE d == fmtEnd(p, from)
<1>0. Len(p) \in Nat
  BY Sequences1
<1>1. d \in from..Len(p) + 1 /\ ClosesAt(p, from, d)
  BY FmtEnd DEF ClosesAt
<1> HIDE DEF d
<1>2. d = e \/ (d \in from..e - 1 /\ d <= Len(p)) \/ (e \in from..d - 1 /\ e <= Len(p))
  BY <1>0, <1>1, SMTT(60)
<1>3. d = e
  BY <1>1, <1>2 DEF ClosesAt
<1> QED BY <1>3 DEF d

\* It is the same place of what follows a prefix.
LEMMA FmtEndShift ==
  ASSUME NEW C, NEW p \in Seq(C), NEW q \in Seq(C), NEW from \in Nat, from >= 1, from <= Len(q) + 1
  PROVE  fmtEnd(p \o q, Len(p) + from) = Len(p) + fmtEnd(q, from)
<1> DEFINE d == fmtEnd(q, from)
           e == Len(p) + d
           r == p \o q
<1>0. Len(p) \in Nat /\ Len(q) \in Nat
  BY Sequences1
<1>1. d \in from..Len(q) + 1 /\ ClosesAt(q, from, d)
  BY FmtEnd DEF ClosesAt
<1> HIDE DEF d
<1>2. /\ r \in Seq(C) /\ Len(r) = Len(p) + Len(q)
      /\ \A n \in 1..Len(q) : r[Len(p) + n] = q[n]
  BY SMTT(60)
<1> HIDE DEF r
<1>3. /\ Len(p) + from \in Nat /\ Len(p) + from >= 1 /\ Len(p) + from <= Len(r) + 1
      /\ e \in Len(p) + from..Len(r) + 1
  BY <1>0, <1>1, <1>2, SMTT(60)
<1>4. ASSUME NEW k \in Len(p) + from..e - 1 PROVE r[k] # "}"
  <2>1. /\ k - Len(p) \in from..d - 1 /\ k - Len(p) \in 1..Len(q)
        /\ Len(p) + (k - Len(p)) = k
    BY <1>0, <1>1, SMTT(60)
  <2>2. r[k] = q[k - Len(p)]
    BY <1>2, <2>1
  <2> QED BY <1>1, <2>1, <2>2 DEF ClosesAt
<1>5. ASSUME e <= Len(r) PROVE r[e] = "}"
  <2>1. d <= Len(q) /\ r[e] = q[d]
    BY <1>0, <1>1, <1>2, <1>5, SMTT(60)
  <2> QED BY <1>1, <2>1 DEF ClosesAt
<1>6. ClosesAt(r, Len(p) + from, e)
  BY <1>4, <1>5 DEF ClosesAt
<1> HIDE DEF e
<1>7. fmtEnd(r, Len(p) + from) = e
  BY <1>2, <1>3, <1>6, FmtEndOnly
<1> QED BY <1>7 DEF e, d, r

\* After place j, f is for p \o q what g is for q.
Shifted(p, q, j, f, g) == \A i \in j + 1..Len(q) + 2 : f[Len(p) + i] = g[i]

\* So is a turn of the loop.
LEMMA ItemsFromShift ==
  ASSUME NEW C, NEW p \in Seq(C), NEW q \in Seq(C), NEW j \in 1..Len(q) + 2, NEW found,
         NEW f, NEW g, Shifted(p, q, j, f, g)
  PROVE  itemsFrom(p \o q, f, Len(p) + j, found) = itemsFrom(q, g, j, found)
<1> DEFINE r == p \o q
           it == Len(p) + j
<1>0. Len(p) \in Nat /\ Len(q) \in Nat
  BY Sequences1
<1>1. /\ Len(r) = Len(p) + Len(q) /\ \A n \in 1..Len(q) : r[Len(p) + n] = q[n]
  BY SMTT(60)
<1>2. (it > Len(r) <=> j > Len(q)) /\ (it < Len(r) <=> j < Len(q))
  BY <1>0, <1>1, SMTT(60)
<1>3. CASE j > Len(q)
  <2> HIDE DEF r, it
  <2>1. itemsFrom(r, f, it, found) = itemsFrom(q, g, j, found)
    BY <1>2, <1>3 DEF itemsFrom
  <2> QED BY <2>1 DEF r, it
<1>4. CASE ~(j > Len(q))
  <2>1. j \in 1..Len(q) /\ j + 1 \in j + 1..Len(q) + 2 /\ it + 1 = Len(p) + (j + 1)
    BY <1>0, <1>4, SMTT(60)
  <2>2. r[it] = q[j] /\ f[it + 1] = g[j + 1]
    BY <1>1, <2>1, SMTT(60) DEF Shifted
  <2>3. ASSUME j < Len(q)
        PROVE  /\ r[it + 1] = q[j + 1]
               /\ f[fmtEnd(r, it + 2) + 1] = g[fmtEnd(q, j + 2) + 1]
               /\ SubSeq(r, it + 2, fmtEnd(r, it + 2) - 1) = SubSeq(q, j + 2, fmtEnd(q, j + 2) - 1)
    <3> DEFINE e == fmtEnd(q, j + 2)
    <3>1. j + 1 \in 1..Len(q) /\ j + 2 \in Nat /\ j + 2 >= 1 /\ j + 2 <= Len(q) + 1
      BY <1>0, <2>3, SMTT(60)
    <3>2. Len(p) + (j + 2) = it + 2
      BY <1>0, SMTT(60)
    <3>3. e \in j + 2..Len(q) + 1
      BY <3>1, FmtEnd
    <3>4. fmtEnd(r, it + 2) = Len(p) + e
      <4>1. fmtEnd(r, Len(p) + (j + 2)) = Len(p) + e
        BY <3>1, FmtEndShift
      <4> QED BY <3>2, <4>1, SMTT(60)
    <3> HIDE DEF e
    <3>5. /\ e + 1 \in j + 1..Len(q) + 2 /\ Len(p) + (e + 1) = (Len(p) + e) + 1
          /\ e - 1 \in Nat /\ e - 1 <= Len(q) /\ Len(p) + (e - 1) = (Len(p) + e) - 1
      BY <1>0, <3>3, SMTT(60)
    <3>6. f[(Len(p) + e) + 1] = g[e + 1]
      BY <3>5, SMTT(60) DEF Shifted
    <3>7. SubSeq(r, Len(p) + (j + 2), Len(p) + (e - 1)) = SubSeq(q, j + 2, e - 1)
      BY <3>1, <3>5, SubSeqShift, ZenonT(60)
    <3>8. SubSeq(r, it + 2, (Len(p) + e) - 1) = SubSeq(q, j + 2, e - 1)
      <4> HIDE DEF r, it
      <4> QED BY <3>2, <3>5, <3>7
    <3>9. r[it + 1] = q[j + 1]
      BY <1>1, <2>1, <3>1, SMTT(60)
    <3> HIDE DEF r, it
    <3> QED BY <3>4, <3>6, <3>8, <3>9 DEF e
  <2> HIDE DEF r, it
  <2>4. itemsFrom(r, f, it, found) = itemsFrom(q, g, j, found)
    BY <1>2, <1>4, <2>2, <2>3 DEF itemsFrom
  <2> QED BY <2>4 DEF r, it
<1> QED BY <1>3, <1>4

\* What the loop makes of the rest of a pattern does not depend on what it has read.
LEMMA ParseShift ==
  ASSUME NEW C, NEW p \in Seq(C), NEW q \in Seq(C)
  PROVE  \A k \in 1..Len(q) + 2 : Parse(p \o q)[Len(p) + k] = Parse(q)[k]
<1> DEFINE M == Len(q) + 2
           Good == {j \in 1..M : Parse(p \o q)[Len(p) + j] = Parse(q)[j]}
<1>0. Len(p) \in Nat /\ Len(q) \in Nat /\ M \in Nat
  BY Sequences1, SMTT(60)
<1>1. p \o q \in Seq(C) /\ Len(p \o q) = Len(p) + Len(q)
  BY Joined
<1>2. ASSUME NEW j \in 1..M, \A i \in j + 1..M : i \in Good PROVE j \in Good
  <2>1. Len(p) + j \in 1..Len(p \o q) + 2
    BY <1>0, <1>1, SMTT(60)
  <2>2. /\ Parse(q)[j] = [b \in BOOLEAN |-> itemsFrom(q, Parse(q), j, b)]
        /\ Parse(p \o q)[Len(p) + j] = [b \in BOOLEAN |-> itemsFrom(p \o q, Parse(p \o q), Len(p) + j, b)]
    BY <1>1, <2>1, ParseTurn
  <2>3. Shifted(p, q, j, Parse(p \o q), Parse(q))
    BY <1>2 DEF Shifted
  <2>4. ASSUME NEW b \in BOOLEAN
        PROVE  itemsFrom(p \o q, Parse(p \o q), Len(p) + j, b) = itemsFrom(q, Parse(q), j, b)
    <3> DEFINE F == Parse(p \o q)
               G == Parse(q)
    <3>1. j \in 1..Len(q) + 2 /\ Shifted(p, q, j, F, G)
      BY <2>3
    <3> HIDE DEF F, G, M, Good
    <3>2. itemsFrom(p \o q, F, Len(p) + j, b) = itemsFrom(q, G, j, b)
      BY <3>1, ItemsFromShift, SMTT(60)
    <3> QED BY <3>2 DEF F, G
  <2> QED BY <2>2, <2>4
<1> HIDE DEF M, Good
<1>3. 1..M \subseteq Good
  BY <1>0, <1>2, Backwards
<1> QED BY <1>3 DEF Good, M

\* The loop goes on behind a piece as it would in a pattern that begins there.
LEMMA Behind ==
  ASSUME NEW C, NEW p \in Seq(C), NEW q \in Seq(C), NEW n, n = Len(p) + 1
  PROVE  Parse(p \o q)[n][FALSE] = initItems(q)
<1>1. 1 \in 1..Len(q) + 2
  BY SMTT(60)
<1>2. Parse(p \o q)[Len(p) + 1] = Parse(q)[1]
  BY <1>1, ParseShift, SMTT(60)
<1> QED BY <1>2, InitItemsIsParse

\* A character that is no % is an item of its own.
LEMMA TextPiece ==
  ASSUME NEW C, NEW c \in C, c # "%", NEW q \in Seq(C)
  PROVE  initItems(<<c>> \o q) = <<StringLogItem(c)>> \o initItems(q)
<1> DEFINE p == <<c>> \o q
<1>1. /\ <<c>> \in Seq(C) /\ p \in Seq(C) /\ Len(<<c>>) = 1 /\ Len(p) = 1 + Len(q) /\ p[1] = c
  BY OneThen, SMTT(60)
<1>2. 1 \in 1..Len(p) + 2 /\ ~(1 > Len(p)) /\ 2 = Len(<<c>>) + 1 /\ 1 + 1 = 2
  <2>1. Len(q) \in Nat
    BY Sequences1
  <2> HIDE DEF p
  <2> QED BY <1>1, <2>1, SMTT(60)
<1>3. Parse(p)[2][FALSE] = initItems(q)
  BY <1>1, <1>2, Behind, ZenonT(60)
<1> HIDE DEF p
<1>4. initItems(p) = itemsFrom(p, Parse(p), 1, FALSE)
  BY <1>1, <1>2, ParseEquation, InitItemsIsParse
<1>5. itemsFrom(p, Parse(p), 1, FALSE) = <<StringLogItem(c)>> \o Parse(p)[2][FALSE]
  BY <1>1, <1>2 DEF itemsFrom
<1> QED BY <1>3, <1>4, <1>5 DEF p

\* After a % the loop looks at what follows it.
LEMMA AfterPercent ==
  ASSUME NEW C, NEW p \in Seq(C), Len(p) >= 1, p[1] = "%"
  PROVE  initItems(p) = itemsFrom(p, Parse(p), 2, TRUE)
<1>1. 1 \in 1..Len(p) + 2 /\ 2 \in 1..Len(p) + 2 /\ ~(1 > Len(p)) /\ 1 + 1 = 2
  <2>1. Len(p) \in Nat
    BY Sequences1
  <2>2. \A n \in Nat : n >= 1 => 1 \in 1..n + 2 /\ 2 \in 1..n + 2 /\ ~(1 > n) /\ 1 + 1 = 2
    BY SMTT(60)
  <2> QED BY <2>1, <2>2
<1>2. initItems(p) = itemsFrom(p, Parse(p), 1, FALSE)
  BY <1>1, ParseEquation, InitItemsIsParse
<1>3. itemsFrom(p, Parse(p), 1, FALSE) = Parse(p)[2][TRUE]
  BY <1>1 DEF itemsFrom
<1>4. Parse(p)[2][TRUE] = itemsFrom(p, Parse(p), 2, TRUE)
  BY <1>1, ParseEquation
<1> QED BY <1>2, <1>3, <1>4

\* At a key after a %, with no brace behind it.
LEMMA AtKey ==
  ASSUME NEW p, NEW g, ~(2 > Len(p)), p[2] \in FORMATS, ~(2 < Len(p) /\ p[2 + 1] = "{")
  PROVE  itemsFrom(p, g, 2, TRUE) = <<Item(p[2], <<>>)>> \o g[2 + 1][FALSE]
<1>1. p[2] # "%"
  BY FormatterAssumption
<1> QED BY <1>1 DEF itemsFrom

\* At a key with a brace behind it.
LEMMA AtBrace ==
  ASSUME NEW p, NEW g, ~(2 > Len(p)), p[2] \in FORMATS, 2 < Len(p), p[2 + 1] = "{"
  PROVE  itemsFrom(p, g, 2, TRUE)
           = <<Item(p[2], SubSeq(p, 2 + 2, fmtEnd(p, 2 + 2) - 1))>> \o g[fmtEnd(p, 2 + 2) + 1][FALSE]
<1>1. p[2] # "%"
  BY FormatterAssumption
<1> QED BY <1>1 DEF itemsFrom

\* What follows a key without a format does not begin with a brace.
NoBrace(q) == Len(q) >= 1 => q[1] # "{"

\* A key without a format.
LEMMA KeyPiece ==
  ASSUME NEW C, "%" \in C, NEW k \in C, k \in FORMATS, NEW q \in Seq(C), NoBrace(q)
  PROVE  initItems(<<"%", k>> \o q) = <<Item(k, <<>>)>> \o initItems(q)
<1> DEFINE w == <<"%", k>>
           p == w \o q
<1>1. /\ w \in Seq(C) /\ p \in Seq(C) /\ Len(w) = 2 /\ Len(p) = 2 + Len(q)
      /\ p[1] = "%" /\ p[2] = k /\ (Len(q) >= 1 => p[3] = q[1])
  BY TwoThen, SMTT(60)
<1> HIDE DEF p, w
<1>2. /\ Len(p) >= 1 /\ ~(2 > Len(p)) /\ (2 < Len(p) => Len(q) >= 1) /\ 2 + 1 = 3 /\ 3 = Len(w) + 1
  <2>1. Len(q) \in Nat /\ Len(p) = 2 + Len(q) /\ Len(w) = 2
    BY <1>1, Sequences1
  <2>2. \A n \in Nat : 2 + n >= 1 /\ ~(2 > 2 + n) /\ (2 < 2 + n => n >= 1) /\ 2 + 1 = 3
    BY SMTT(60)
  <2> QED BY <2>1, <2>2
<1>3. initItems(p) = itemsFrom(p, Parse(p), 2, TRUE)
  BY <1>1, <1>2, AfterPercent
<1>4. itemsFrom(p, Parse(p), 2, TRUE) = <<Item(k, <<>>)>> \o Parse(p)[3][FALSE]
  BY <1>1, <1>2, AtKey DEF NoBrace
<1>5. Parse(p)[3][FALSE] = initItems(q)
  BY <1>1, <1>2, Behind DEF p
<1> QED BY <1>3, <1>4, <1>5 DEF p, w

\* No character of a format closes its brace.
Open(f) == \A n \in 1..Len(f) : f[n] # "}"

\* In front of q, w is read as the item x.
Reads(w, x, q) == initItems(w \o q) = <<x>> \o initItems(q)

\* A key with its format.
LEMMA BracePiece ==
  ASSUME NEW C, "%" \in C, "{" \in C, "}" \in C, NEW k \in C, k \in FORMATS, NEW f \in Seq(C), Open(f),
         NEW q \in Seq(C)
  PROVE  Reads(<<"%", k, "{">> \o f \o <<"}">>, Item(k, f), q)
<1> DEFINE w == <<"%", k, "{">> \o f \o <<"}">>
           p == w \o q
           e == 4 + Len(f)
<1>1. /\ w \in Seq(C) /\ p \in Seq(C) /\ Len(w) = 4 + Len(f) /\ Len(p) = 4 + Len(f) + Len(q)
      /\ p[1] = "%" /\ p[2] = k /\ p[3] = "{" /\ p[4 + Len(f)] = "}"
      /\ \A n \in 4..Len(f) + 3 : p[n] = f[n - 3]
      /\ SubSeq(p, 4, Len(f) + 3) = f
  <2>1. Braced(C, w, p, "%", k, "{", f, "}", q)
    BY BracedThen
  <2> QED BY <2>1 DEF Braced
<1> HIDE DEF p, w
<1>2. Len(f) \in Nat /\ Len(q) \in Nat
  BY Sequences1
<1>3. /\ Len(p) >= 1 /\ ~(2 > Len(p)) /\ 2 < Len(p) /\ 2 + 1 = 3 /\ 2 + 2 = 4
      /\ 4 \in Nat /\ 4 >= 1 /\ 4 <= Len(p) + 1 /\ e \in 4..Len(p) + 1 /\ e <= Len(p)
      /\ e - 1 = Len(f) + 3
  <2>1. \A n, m \in Nat :
          LET l == 4 + n + m IN
          /\ l >= 1 /\ ~(2 > l) /\ 2 < l /\ 2 + 1 = 3 /\ 2 + 2 = 4
          /\ 4 \in Nat /\ 4 >= 1 /\ 4 <= l + 1 /\ 4 + n \in 4..l + 1 /\ 4 + n <= l
          /\ (4 + n) - 1 = n + 3
    BY Four
  <2> QED BY <1>1, <1>2, <2>1
<1>4. fmtEnd(p, 4) = e
  <2>1. ASSUME NEW n \in 4..e - 1 PROVE p[n] # "}"
    <3>1. n \in 4..Len(f) + 3
      BY <1>3
    <3>2. n - 3 \in 1..Len(f)
      BY <1>2, <3>1, Four
    <3> QED BY <1>1, <3>1, <3>2 DEF Open
  <2>2. ClosesAt(p, 4, e)
    BY <1>1, <2>1 DEF ClosesAt
  <2> HIDE DEF e
  <2> QED BY <1>1, <1>3, <2>2, FmtEndOnly
<1>5. initItems(p) = itemsFrom(p, Parse(p), 2, TRUE)
  BY <1>1, <1>3, AfterPercent
<1>6. itemsFrom(p, Parse(p), 2, TRUE) = <<Item(k, f)>> \o Parse(p)[e + 1][FALSE]
  <2>1. itemsFrom(p, Parse(p), 2, TRUE)
          = <<Item(p[2], SubSeq(p, 2 + 2, fmtEnd(p, 2 + 2) - 1))>> \o Parse(p)[fmtEnd(p, 2 + 2) + 1][FALSE]
    BY <1>1, <1>3, AtBrace
  <2>2. p[2] = k /\ 2 + 2 = 4 /\ fmtEnd(p, 4) = e /\ e - 1 = Len(f) + 3 /\ SubSeq(p, 4, Len(f) + 3) = f
    BY <1>1, <1>3, <1>4
  <2> HIDE DEF e
  <2> QED BY <2>1, <2>2
<1>7. Parse(p)[e + 1][FALSE] = initItems(q)
  <2>1. \A n : n = Len(w) + 1 => Parse(w \o q)[n][FALSE] = initItems(q)
    BY <1>1, Behind
  <2>2. Len(w) = e
    BY <1>1
  <2> HIDE DEF e
  <2> QED BY <2>1, <2>2 DEF p
<1> QED BY <1>5, <1>6, <1>7 DEF p, w, Reads

\* Short sequences, and functions that are sequences.
LEMMA Singleton ==
  ASSUME NEW C
  PROVE  /\ <<>> \in Seq(C) /\ Len(<<>>) = 0
         /\ \A c \in C : <<c>> \in Seq(C) /\ Len(<<c>>) >= 1 /\ <<c>>[1] = c
BY SMTT(60)

\* A pair of letters is a pattern of two.
LEMMA PairLength ==
  ASSUME NEW C, NEW a \in C, NEW b \in C
  PROVE  <<a, b>> \in Seq(C) /\ Len(<<a, b>>) = 2 /\ Len(<<a, b>>) >= 1 /\ <<a, b>>[1] = a
BY SMTT(60)

\* Joining nothing changes nothing.
LEMMA NothingMore ==
  ASSUME NEW C, NEW s \in Seq(C) PROVE s \o <<>> = s
BY SMTT(60)

\* The numbers up to a number.
LEMMA FmtNumbers ==
  ASSUME NEW m \in Nat, NEW n \in 0..m PROVE n \in Nat
BY SMTT(60)

\* The characters of the patterns that are written.
Letter == Char \cup FORMATS \cup {"%", "{", "}"}

\* A format in braces is made of them and does not close its brace.
LEMMA FmtsOpen ==
  ASSUME NEW f \in Fmts
  PROVE  f \in Seq(Letter) /\ Open(f)
<1>1. PICK n \in 0..MaxFmt : f \in [1..n -> Char \ {"}"}]
  BY DEF Fmts
<1>2. n \in Nat
  BY <1>1, FormatterAssumption, FmtNumbers
<1>3. \A i \in 1..n : f[i] \in Letter /\ f[i] # "}"
  BY <1>1 DEF Letter
<1>4. f \in [1..n -> Letter]
  BY <1>1, <1>3
<1>5. f \in Seq(Letter) /\ Len(f) = n
  BY <1>2, <1>4, FunctionIsSequence
<1> QED BY <1>3, <1>5 DEF Open

\* A piece is read as its item, whatever follows it.
LEMMA PieceRead ==
  ASSUME NEW piece \in Piece, NEW q \in Seq(Letter), Len(piece[1]) = 2 => NoBrace(q)
  PROVE  /\ initItems(piece[1] \o q) = <<piece[2]>> \o initItems(q)
<1>0. {"%", "{", "}"} \subseteq Letter /\ Char \subseteq Letter /\ FORMATS \subseteq Letter
  BY DEF Letter
<1>1. CASE \E c \in Char \ {"%"} : piece = << <<c>>, StringLogItem(c) >>
  <2>1. PICK c \in Char \ {"%"} : piece = << <<c>>, StringLogItem(c) >>
    BY <1>1
  <2>2. c \in Letter /\ c # "%" /\ piece[1] = <<c>> /\ piece[2] = StringLogItem(c)
    BY <1>0, <2>1
  <2> QED BY <2>2, TextPiece
<1>2. CASE \E k \in FORMATS : piece = << <<"%", k>>, Item(k, <<>>) >>
  <2>1. PICK k \in FORMATS : piece = << <<"%", k>>, Item(k, <<>>) >>
    BY <1>2
  <2>2. "%" \in Letter /\ k \in Letter /\ piece[1] = <<"%", k>> /\ piece[2] = Item(k, <<>>)
    BY <1>0, <2>1
  <2>3. NoBrace(q)
    BY <2>2, PairLength
  <2> QED BY <2>2, <2>3, KeyPiece
<1>3. CASE \E k \in FORMATS, f \in Fmts : piece = << <<"%", k, "{">> \o f \o <<"}">>, Item(k, f) >>
  <2>1. PICK k \in FORMATS, f \in Fmts : piece = << <<"%", k, "{">> \o f \o <<"}">>, Item(k, f) >>
    BY <1>3
  <2>2. k \in Letter /\ piece[1] = <<"%", k, "{">> \o f \o <<"}">> /\ piece[2] = Item(k, f)
    BY <1>0, <2>1
  <2>3. f \in Seq(Letter) /\ Open(f)
    BY FmtsOpen
  <2> DEFINE w == <<"%", k, "{">> \o f \o <<"}">>
             x == Item(k, f)
  <2>4. Reads(w, x, q)
    <3>1. "%" \in Letter /\ "{" \in Letter /\ "}" \in Letter /\ k \in Letter
      BY <1>0
    <3> QED BY <2>3, <3>1, BracePiece
  <2>5. piece[1] = w /\ piece[2] = x
    BY <2>2
  <2> HIDE DEF w, x
  <2> QED BY <2>4, <2>5, SMTT(60) DEF Reads
<1> QED BY <1>1, <1>2, <1>3 DEF Piece

\* Of a piece other than an open brace the first character is no open brace.
LEMMA PieceBegins ==
  ASSUME NEW piece \in Piece
  PROVE  /\ piece[1] \in Seq(Letter) /\ Len(piece[1]) >= 1
         /\ piece[1] # <<"{">> => piece[1][1] # "{"
<1>0. {"%", "{", "}"} \subseteq Letter /\ Char \subseteq Letter /\ FORMATS \subseteq Letter
  BY DEF Letter
<1>1. CASE \E c \in Char \ {"%"} : piece = << <<c>>, StringLogItem(c) >>
  <2>1. PICK c \in Char \ {"%"} : piece = << <<c>>, StringLogItem(c) >>
    BY <1>1
  <2>2. c \in Letter /\ piece[1] = <<c>>
    BY <1>0, <2>1
  <2>3. <<c>> \in Seq(Letter) /\ Len(<<c>>) >= 1 /\ <<c>>[1] = c
    BY <2>2, Singleton
  <2> QED BY <2>2, <2>3
<1>2. CASE \E k \in FORMATS : piece = << <<"%", k>>, Item(k, <<>>) >>
  <2>1. PICK k \in FORMATS : piece = << <<"%", k>>, Item(k, <<>>) >>
    BY <1>2
  <2>2. "%" \in Letter /\ k \in Letter /\ piece[1] = <<"%", k>>
    BY <1>0, <2>1
  <2>3. <<"%", k>> \in Seq(Letter) /\ Len(<<"%", k>>) >= 1 /\ <<"%", k>>[1] = "%"
    BY <2>2, PairLength
  <2> QED BY <2>2, <2>3
<1>3. CASE \E k \in FORMATS, f \in Fmts : piece = << <<"%", k, "{">> \o f \o <<"}">>, Item(k, f) >>
  <2>1. PICK k \in FORMATS, f \in Fmts : piece = << <<"%", k, "{">> \o f \o <<"}">>, Item(k, f) >>
    BY <1>3
  <2>2. /\ "%" \in Letter /\ "{" \in Letter /\ "}" \in Letter /\ k \in Letter
        /\ piece[1] = <<"%", k, "{">> \o f \o <<"}">>
    BY <1>0, <2>1
  <2>3. f \in Seq(Letter) /\ <<>> \in Seq(Letter)
    BY FmtsOpen, Singleton
  <2> DEFINE w == <<"%", k, "{">> \o f \o <<"}">>
  <2>4. Braced(Letter, w, w \o <<>>, "%", k, "{", f, "}", <<>>)
    BY <2>2, <2>3, BracedThen
  <2>5. w \in Seq(Letter) /\ (w \o <<>>)[1] = "%" /\ Len(w) = 4 + Len(f) /\ Len(f) \in Nat
    BY <2>3, <2>4, Sequences1 DEF Braced
  <2> HIDE DEF w
  <2>6. w \o <<>> = w
    BY <2>5, NothingMore
  <2>7. Len(w) >= 1
    BY <2>5, Four
  <2>8. w[1] # "{"
    BY <2>5, <2>6
  <2> QED BY <2>2, <2>5, <2>7, <2>8 DEF w
<1> QED BY <1>1, <1>2, <1>3 DEF Piece

\* The loop ends past the last place, at a second %, and at a letter that is no key.
LEMMA Ends ==
  ASSUME NEW p, NEW g, NEW n
  PROVE  /\ n > Len(p) => itemsFrom(p, g, n, FALSE) = <<>> /\ itemsFrom(p, g, n, TRUE) = <<>>
         /\ ~(n > Len(p)) /\ p[n] \notin FORMATS => itemsFrom(p, g, n, TRUE) = <<>>
BY DEF itemsFrom

\* An ending is read as the items that are left of it.
EndsIn(w, left) == w \in Seq(Letter) /\ NoBrace(w) /\ initItems(w) = left

\* A pattern may end where it is: nothing is lost.
LEMMA EmptyEnding ==
  EndsIn(<<>>, <<>>)
<1>1. <<>> \in Seq(Letter) /\ Len(<<>>) = 0 /\ ~(0 >= 1) /\ 1 > 0 /\ 1 \in 1..0 + 2
  BY SMTT(60)
<1> DEFINE p == <<>>
<1>2. p \in Seq(Letter) /\ Len(p) = 0
  BY <1>1
<1> HIDE DEF p
<1>3. initItems(p) = itemsFrom(p, Parse(p), 1, FALSE)
  BY <1>1, <1>2, ParseEquation, InitItemsIsParse
<1>4. itemsFrom(p, Parse(p), 1, FALSE) = <<>>
  BY <1>1, <1>2, Ends
<1> QED BY <1>1, <1>2, <1>3, <1>4 DEF EndsIn, NoBrace, p

\* A % at the end is dropped (log.cpp:304-347).
LEMMA PercentEnding ==
  EndsIn(<<"%">>, <<>>)
<1> DEFINE p == <<"%">>
<1>1. "%" \in Letter
  BY DEF Letter
<1>2. p \in Seq(Letter) /\ Len(p) = 1 /\ p[1] = "%" /\ 2 > 1 /\ 1 >= 1
  BY <1>1, SMTT(60)
<1> HIDE DEF p
<1>3. initItems(p) = itemsFrom(p, Parse(p), 2, TRUE)
  BY <1>2, AfterPercent
<1>4. itemsFrom(p, Parse(p), 2, TRUE) = <<>>
  BY <1>2, Ends
<1> QED BY <1>2, <1>3, <1>4 DEF EndsIn, NoBrace, p

\* A % and a letter that is no key end the reading: what follows is dropped.
LEMMA NoKeyEnding ==
  ASSUME NEW c \in Letter, c \notin FORMATS, NEW f \in Seq(Letter)
  PROVE  EndsIn(<<"%", c>> \o f, <<>>)
<1> DEFINE p == <<"%", c>> \o f
<1>1. "%" \in Letter
  BY DEF Letter
<1>2. p \in Seq(Letter) /\ Len(p) = 2 + Len(f) /\ p[1] = "%" /\ p[2] = c
  BY <1>1, TwoThen, SMTT(60)
<1> HIDE DEF p
<1>3. Len(p) >= 1 /\ ~(2 > Len(p))
  <2>1. Len(f) \in Nat
    BY Sequences1
  <2> QED BY <1>2, <2>1, SMTT(60)
<1>4. initItems(p) = itemsFrom(p, Parse(p), 2, TRUE)
  BY <1>2, <1>3, AfterPercent
<1>5. itemsFrom(p, Parse(p), 2, TRUE) = <<>>
  BY <1>2, <1>3, Ends
<1> QED BY <1>2, <1>4, <1>5 DEF EndsIn, NoBrace, p

\* Numbers about the places of a key whose brace is not closed.
LEMMA Three ==
  ASSUME NEW n \in Nat
  PROVE  LET l == 3 + n IN
         /\ l \in Nat /\ l >= 1 /\ ~(2 > l) /\ 2 < l /\ 2 + 1 = 3 /\ 2 + 2 = 4
         /\ 4 \in Nat /\ 4 >= 1 /\ 4 <= l + 1 /\ l + 1 \in 4..l + 1 /\ ~(l + 1 <= l)
         /\ (l + 1) - 1 = n + 3 /\ (l + 1) + 1 > l /\ (l + 1) + 1 \in 1..l + 2
         /\ \A i \in 4..(l + 1) - 1 : i \in 4..n + 3 /\ i - 3 \in 1..n
BY SMTT(60)

\* What the characters of such a key are.
Opened(p, a, k, b, f) ==
  /\ p \in Seq(Letter) /\ Len(p) = 3 + Len(f) /\ p[1] = a /\ p[2] = k /\ p[3] = b
  /\ \A n \in 4..Len(f) + 3 : p[n] = f[n - 3]
  /\ SubSeq(p, 4, Len(f) + 3) = f

\* A key with a format that no brace closes is such.
LEMMA OpenedThen ==
  ASSUME NEW a \in Letter, NEW k \in Letter, NEW b \in Letter, NEW f \in Seq(Letter)
  PROVE  Opened(<<a, k, b>> \o f, a, k, b, f)
BY ThreeThen, SMTT(60) DEF Opened

\* A format that no brace closes reaches to the end of the pattern.
LEMMA OpenEnding ==
  ASSUME NEW k \in FORMATS, NEW f \in Seq(Letter), Open(f)
  PROVE  EndsIn(<<"%", k, "{">> \o f, <<Item(k, f)>>)
<1> DEFINE p == <<"%", k, "{">> \o f
           l == 3 + Len(f)
<1>1. "%" \in Letter /\ "{" \in Letter /\ k \in Letter
  BY DEF Letter
<1>2. /\ p \in Seq(Letter) /\ Len(p) = l /\ p[1] = "%" /\ p[2] = k /\ p[3] = "{"
      /\ \A n \in 4..Len(f) + 3 : p[n] = f[n - 3]
      /\ SubSeq(p, 4, Len(f) + 3) = f
  <2>1. Opened(p, "%", k, "{", f)
    BY <1>1, OpenedThen
  <2> QED BY <2>1 DEF Opened
<1> HIDE DEF p
<1>3. /\ l \in Nat /\ l >= 1 /\ ~(2 > l) /\ 2 < l /\ 2 + 1 = 3 /\ 2 + 2 = 4
      /\ 4 \in Nat /\ 4 >= 1 /\ 4 <= l + 1 /\ l + 1 \in 4..l + 1 /\ ~(l + 1 <= l)
      /\ (l + 1) - 1 = Len(f) + 3 /\ (l + 1) + 1 > l /\ (l + 1) + 1 \in 1..l + 2
      /\ \A i \in 4..(l + 1) - 1 : i \in 4..Len(f) + 3 /\ i - 3 \in 1..Len(f)
  <2>1. Len(f) \in Nat
    BY Sequences1
  <2> QED BY <2>1, Three
<1> HIDE DEF l
<1>4. ClosesAt(p, 4, l + 1)
  <2>1. ASSUME NEW n \in 4..(l + 1) - 1 PROVE p[n] # "}"
    BY <1>2, <1>3 DEF Open
  <2> QED BY <1>2, <1>3, <2>1 DEF ClosesAt
<1>5. fmtEnd(p, 4) = l + 1
  BY <1>2, <1>3, <1>4, FmtEndOnly
<1>6. initItems(p) = itemsFrom(p, Parse(p), 2, TRUE)
  BY <1>2, <1>3, AfterPercent
<1>7. itemsFrom(p, Parse(p), 2, TRUE) = <<Item(k, f)>> \o Parse(p)[(l + 1) + 1][FALSE]
  <2>1. itemsFrom(p, Parse(p), 2, TRUE)
          = <<Item(p[2], SubSeq(p, 2 + 2, fmtEnd(p, 2 + 2) - 1))>> \o Parse(p)[fmtEnd(p, 2 + 2) + 1][FALSE]
    BY <1>2, <1>3, AtBrace
  <2> QED BY <1>2, <1>3, <1>5, <2>1
<1>8. Parse(p)[(l + 1) + 1][FALSE] = <<>>
  <2>1. (l + 1) + 1 \in 1..Len(p) + 2 /\ (l + 1) + 1 > Len(p)
    BY <1>2, <1>3
  <2>2. Parse(p)[(l + 1) + 1][FALSE] = itemsFrom(p, Parse(p), (l + 1) + 1, FALSE)
    BY <1>2, <2>1, ParseEquation
  <2> QED BY <2>1, <2>2, Ends
<1>9. <<Item(k, f)>> \o <<>> = <<Item(k, f)>>
  <2> DEFINE x == Item(k, f)
  <2> HIDE DEF x
  <2>1. <<x>> \in Seq({x})
    BY Singleton
  <2>2. <<x>> \o <<>> = <<x>>
    BY <2>1, NothingMore
  <2> QED BY <2>2 DEF x
<1>10. initItems(p) = <<Item(k, f)>>
  BY <1>6, <1>7, <1>8, <1>9
<1> QED BY <1>2, <1>10 DEF EndsIn, NoBrace, p

\* Every ending is read so.
LEMMA EndingRead ==
  ASSUME NEW ending \in Ending
  PROVE  EndsIn(ending[1], ending[2])
<1>0. CASE ending = << <<>>, <<>> >>
  <2>1. ending[1] = <<>> /\ ending[2] = <<>>
    BY <1>0, SMTT(60)
  <2> QED BY <2>1, EmptyEnding
<1>1. CASE ending = << <<"%">>, <<>> >>
  <2>1. ending[1] = <<"%">> /\ ending[2] = <<>>
    BY <1>1, SMTT(60)
  <2> QED BY <2>1, PercentEnding
<1>2. CASE \E c \in Char \ FORMATS, f \in Fmts : ending = << <<"%", c>> \o f, <<>> >>
  <2>1. PICK c \in Char \ FORMATS, f \in Fmts : ending = << <<"%", c>> \o f, <<>> >>
    BY <1>2
  <2>2. c \in Letter /\ f \in Seq(Letter)
    BY FmtsOpen DEF Letter
  <2>3. EndsIn(<<"%", c>> \o f, <<>>)
    BY <2>2, NoKeyEnding
  <2> QED BY <2>1, <2>3
<1>3. CASE \E k \in FORMATS, f \in Fmts : ending = << <<"%", k, "{">> \o f, <<Item(k, f)>> >>
  <2>1. PICK k \in FORMATS, f \in Fmts : ending = << <<"%", k, "{">> \o f, <<Item(k, f)>> >>
    BY <1>3
  <2>2. EndsIn(<<"%", k, "{">> \o f, <<Item(k, f)>>)
    BY FmtsOpen, OpenEnding
  <2> QED BY <2>1, <2>2
<1> DEFINE A == UNION {{<< <<"%", c>> \o f, <<>> >> : f \in Fmts} : c \in Char \ FORMATS}
           B == UNION {{<< <<"%", k, "{">> \o f, <<Item(k, f)>> >> : f \in Fmts} : k \in FORMATS}
<1>4. ending \in {<< <<>>, <<>> >>, << <<"%">>, <<>> >>} \/ ending \in A \/ ending \in B
  <2> DEFINE E == {<< <<>>, <<>> >>, << <<"%">>, <<>> >>}
  <2>1. Ending = (E \cup A) \cup B
    BY DEF Ending
  <2> HIDE DEF A, B, E
  <2>2. ending \in E \/ ending \in A \/ ending \in B
    BY <2>1
  <2> QED BY <2>2 DEF E
<1>5. ending \in A => \E c \in Char \ FORMATS, f \in Fmts : ending = << <<"%", c>> \o f, <<>> >>
  OBVIOUS
<1>6. ending \in B => \E k \in FORMATS, f \in Fmts : ending = << <<"%", k, "{">> \o f, <<Item(k, f)>> >>
  OBVIOUS
<1> HIDE DEF A, B
<1> QED BY <1>0, <1>1, <1>2, <1>3, <1>4, <1>5, <1>6

\* What Spelling() calls upTo: the characters of the first n pieces.
Spells(pieces, u) ==
  u = [n \in 0..Len(pieces) |-> IF n = 0 THEN <<>> ELSE u[n - 1] \o pieces[n][1]]
UpTo(pieces) == CHOOSE u : Spells(pieces, u)

\* The spelling of a pattern is that of all its pieces.
LEMMA SpellingIsUpTo ==
  ASSUME NEW pieces PROVE Spelling(pieces) = UpTo(pieces)[Len(pieces)]
BY SMTT(60) DEF Spelling, UpTo, Spells

\* They are sequences of letters.
LEMMA UpToIs ==
  ASSUME NEW pieces \in Seq(Piece)
  PROVE  /\ UpTo(pieces)[0] = <<>>
         /\ \A n \in 1..Len(pieces) : UpTo(pieces)[n] = UpTo(pieces)[n - 1] \o pieces[n][1]
         /\ \A n \in 0..Len(pieces) : UpTo(pieces)[n] \in Seq(Letter)
<1> DEFINE SL == Seq(Letter)
           N == Len(pieces)
           word == [n \in 1..N |-> pieces[n][1]]
           step == [n \in 1..N |-> [s \in SL |-> s \o word[n]]]
           u == UpTo(pieces)
<1>1. N \in Nat /\ \A n \in 1..N : pieces[n] \in Piece
  BY Sequences1
<1>2. \A n \in 1..N : word[n] \in SL /\ word[n] = pieces[n][1]
  BY <1>1, PieceBegins
<1>3. <<>> \in SL /\ \A s, r \in SL : s \o r \in SL
  BY Singleton, Sequences1
<1>4. \A n \in 0..N : (n = 0 \/ n \in 1..N) /\ (n \in 1..N => n - 1 \in 0..N /\ n # 0)
  BY <1>1, SMTT(60)
<1>5. 0 \in 0..N
  BY <1>1, SMTT(60)
<1>6. \A n \in 1..N : n \in 0..N
  BY <1>1, SMTT(60)
<1> HIDE DEF N, SL, word
<1>7. step \in [1..N -> [SL -> SL]]
  BY <1>2, <1>3
<1>8. \A n \in 1..N, s \in SL : step[n][s] = s \o word[n]
  OBVIOUS
<1> HIDE DEF step
<1>9. PICK f \in [0..N -> SL] : Follows(f, <<>>, N, step)
  <2> DEFINE base == <<>>
  <2>1. base \in SL /\ N \in Nat
    BY <1>1, <1>3
  <2> HIDE DEF base
  <2>2. \E f \in [0..N -> SL] : Follows(f, base, N, step)
    BY <1>7, <2>1, Recursion
  <2> QED BY <2>2 DEF base
<1>10. ASSUME NEW n \in 1..N PROVE f[n] = f[n - 1] \o pieces[n][1]
  <2>1. n - 1 \in 0..N
    BY <1>4, <1>6
  <2>2. f[n - 1] \in SL /\ f[n] = step[n][f[n - 1]]
    BY <1>9, <2>1 DEF Follows
  <2>3. step[n][f[n - 1]] = f[n - 1] \o word[n]
    BY <1>8, <2>2
  <2> QED BY <1>2, <2>2, <2>3
<1>11. f[0] = <<>>
  BY <1>9 DEF Follows
<1>12. f = [n \in 0..N |-> IF n = 0 THEN <<>> ELSE f[n - 1] \o pieces[n][1]]
  BY <1>4, <1>9, <1>10, <1>11
<1>13. Spells(pieces, u)
  <2>1. Spells(pieces, f)
    BY <1>12 DEF Spells, N
  <2> QED BY <2>1 DEF UpTo
<1> HIDE DEF u
<1> DEFINE U == [n \in 0..N |-> IF n = 0 THEN <<>> ELSE u[n - 1] \o pieces[n][1]]
<1>14. u = U
  BY <1>13 DEF Spells, N
<1>15. U[0] = <<>> /\ \A n \in 1..N : U[n] = u[n - 1] \o pieces[n][1]
  BY <1>4, <1>5, <1>6
<1> HIDE DEF U
<1>16. u[0] = <<>> /\ \A n \in 1..N : u[n] = u[n - 1] \o word[n]
  BY <1>2, <1>14, <1>15
<1> DEFINE P == {n \in Nat : n \in 0..N => u[n] \in SL}
<1>17. 0 \in P
  BY <1>3, <1>16
<1>18. ASSUME NEW n \in Nat, n \in P PROVE n + 1 \in P
  <2> SUFFICES ASSUME n + 1 \in 0..N PROVE u[n + 1] \in SL
    BY SMTT(60)
  <2>1. n + 1 \in 1..N /\ n \in 0..N /\ (n + 1) - 1 = n
    BY <1>1, SMTT(60)
  <2>2. u[n + 1] = u[n] \o word[n + 1]
    BY <1>16, <2>1
  <2> QED BY <1>2, <1>3, <1>18, <2>1, <2>2
<1>19. Nat \subseteq P
  <2> HIDE DEF P
  <2> QED BY <1>17, <1>18, NatSetInduction
<1>20. \A n \in 0..N : n \in Nat
  BY <1>1, SMTT(60)
<1>21. \A n \in 0..N : u[n] \in SL
  BY <1>19, <1>20
<1> QED BY <1>2, <1>16, <1>21 DEF u, N, SL

\* Hence a spelling is one.
LEMMA SpellingType ==
  ASSUME NEW pieces \in Seq(Piece)
  PROVE  Spelling(pieces) \in Seq(Letter)
<1>1. Len(pieces) \in 0..Len(pieces)
  BY SMTT(60)
<1> QED BY <1>1, UpToIs, SpellingIsUpTo

\* Sequences behind an empty one, and three of them.
LEMMA NothingFirst ==
  ASSUME NEW S, NEW y \in Seq(S), NEW x
  PROVE  <<>> \o y = y /\ [m \in 1..0 |-> x[m]] \o y = y
<1>1. 1..0 = {}
  BY SMTT(60)
<1>2. [m \in 1..0 |-> x[m]] = <<>>
  BY <1>1, SMTT(60)
<1>3. <<>> \o y = y
  BY SMTT(60)
<1> QED BY <1>2, <1>3

\* The places that have a next one.
LEMMA Neighbours ==
  ASSUME NEW n \in Nat, NEW l \in Nat, n >= 1, n + 1 \in 1..l
  PROVE  n \in 1..l - 1
BY SMTT(60)

\* The place before a place.
LEMMA BeforeNext ==
  ASSUME NEW n \in Nat, NEW l \in Nat
  PROVE  l \in 0..l /\ (n + 1 \in 0..l => n \in 0..l /\ n + 1 \in 1..l)
BY SMTT(60)

\* The items of the pieces, with one more of them.
LEMMA ItemsSoFar ==
  ASSUME NEW pieces, NEW n \in Nat, NEW rest \in Seq(Letter)
  PROVE  [m \in 1..n |-> pieces[m][2]] \o (<<pieces[n + 1][2]>> \o initItems(rest))
           = [m \in 1..n + 1 |-> pieces[m][2]] \o initItems(rest)
<1> DEFINE x == [m \in 1..n + 1 |-> pieces[m][2]]
           T == ItemOver(Letter)
           S == T \cup {x[m] : m \in 1..n + 1}
           y == initItems(rest)
<1>1. y \in Seq(T)
  BY InitItemsType
<1>2. T \subseteq S /\ x \in [1..n + 1 -> S]
  OBVIOUS
<1>3. \A m \in 1..n + 1 : x[m] = pieces[m][2]
  OBVIOUS
<1>4. n + 1 \in 1..n + 1 /\ \A m \in 1..n : m \in 1..n + 1
  BY SMTT(60)
<1> HIDE DEF T, S, x, y
<1>5. y \in Seq(S)
  BY <1>1, <1>2, SMTT(60)
<1>6. OneMore(x, n, y)
  BY <1>2, <1>5, OneMoreItem
<1>7. /\ [m \in 1..n |-> x[m]] = [m \in 1..n |-> pieces[m][2]] /\ x[n + 1] = pieces[n + 1][2]
      /\ [m \in 1..n + 1 |-> x[m]] = [m \in 1..n + 1 |-> pieces[m][2]]
  BY <1>3, <1>4
<1> QED BY <1>6, <1>7 DEF y, OneMore

\* In front of rest, the first n pieces are read as their items.
PrefixRead(pieces, n, rest) ==
  (n >= 1 /\ Len(pieces[n][1]) = 2 => NoBrace(rest))
    => initItems(UpTo(pieces)[n] \o rest) = [m \in 1..n |-> pieces[m][2]] \o initItems(rest)

\* One more piece is read as one more item.
LEMMA PrefixStep ==
  ASSUME NEW pieces \in Seq(Piece), Unambiguous(pieces), NEW n \in Nat, n + 1 \in 1..Len(pieces),
         NEW rest \in Seq(Letter), \A q \in Seq(Letter) : PrefixRead(pieces, n, q)
  PROVE  PrefixRead(pieces, n + 1, rest)
<1> DEFINE piece == pieces[n + 1]
           w == piece[1]
           u == UpTo(pieces)[n]
           q == w \o rest
<1>0. Len(pieces) \in Nat /\ piece \in Piece
  BY Sequences1
<1>1. SUFFICES ASSUME Len(w) = 2 => NoBrace(rest)
               PROVE  initItems(UpTo(pieces)[n + 1] \o rest)
                        = [m \in 1..n + 1 |-> pieces[m][2]] \o initItems(rest)
  <2>1. n + 1 >= 1
    BY SMTT(60)
  <2> QED BY <2>1 DEF PrefixRead
<1>2. w \in Seq(Letter) /\ Len(w) >= 1 /\ (w # <<"{">> => w[1] # "{")
  BY <1>0, PieceBegins
<1>3. u \in Seq(Letter) /\ UpTo(pieces)[n + 1] = u \o w
  <2>1. n \in 0..Len(pieces) /\ (n + 1) - 1 = n
    BY <1>0, SMTT(60)
  <2> QED BY <2>1, UpToIs
<1>4. initItems(q) = <<piece[2]>> \o initItems(rest)
  BY <1>0, <1>1, PieceRead
<1> HIDE DEF w, u
<1>5. q \in Seq(Letter) /\ q[1] = w[1] /\ (u \o w) \o rest = u \o q
  <2>1. w \in Seq(Letter) /\ Len(w) >= 1 /\ u \in Seq(Letter)
    BY <1>2, <1>3
  <2>2. Associates(u, w, rest)
    BY <2>1, Associate
  <2>3. w \o rest \in Seq(Letter) /\ (w \o rest)[1] = w[1]
    BY <2>1, FirstOfTwo, SMTT(60)
  <2> QED BY <2>2, <2>3 DEF Associates
<1> HIDE DEF q
<1>6. n >= 1 /\ Len(pieces[n][1]) = 2 => NoBrace(q)
  <2> SUFFICES ASSUME n >= 1, Len(pieces[n][1]) = 2 PROVE q[1] # "{"
    BY DEF NoBrace
  <2>1. n \in 1..Len(pieces) - 1
    BY <1>0, Neighbours
  <2>2. w # <<"{">>
    BY <2>1 DEF Unambiguous, w
  <2> QED BY <1>2, <1>5, <2>2
<1>7. initItems(u \o q) = [m \in 1..n |-> pieces[m][2]] \o initItems(q)
  BY <1>5, <1>6 DEF PrefixRead, u
<1>8. [m \in 1..n |-> pieces[m][2]] \o (<<piece[2]>> \o initItems(rest))
        = [m \in 1..n + 1 |-> pieces[m][2]] \o initItems(rest)
  BY ItemsSoFar
<1>9. initItems((u \o w) \o rest) = [m \in 1..n + 1 |-> pieces[m][2]] \o initItems(rest)
  BY <1>4, <1>5, <1>7, <1>8
<1> QED BY <1>3, <1>9

\* Hence all of them are read.
LEMMA PrefixesRead ==
  ASSUME NEW pieces \in Seq(Piece), Unambiguous(pieces)
  PROVE  \A n \in 0..Len(pieces), rest \in Seq(Letter) : PrefixRead(pieces, n, rest)
<1> DEFINE P == {n \in Nat : n \in 0..Len(pieces) =>
                               \A rest \in Seq(Letter) : PrefixRead(pieces, n, rest)}
<1>0. Len(pieces) \in Nat
  BY Sequences1
<1>1. 0 \in P
  <2> SUFFICES ASSUME NEW rest \in Seq(Letter) PROVE PrefixRead(pieces, 0, rest)
    OBVIOUS
  <2>1. initItems(rest) \in Seq(ItemOver(Letter))
    BY InitItemsType
  <2> DEFINE x == [m \in 1..0 |-> pieces[m][2]]
             y == initItems(rest)
  <2>2. <<>> \o rest = rest
    BY NothingFirst
  <2>3. x \o y = y
    <3>1. x = <<>>
      BY SMTT(60)
    <3> HIDE DEF x, y
    <3> QED BY <2>1, <3>1, NothingFirst DEF y
  <2>4. UpTo(pieces)[0] = <<>>
    BY UpToIs
  <2> QED BY <2>2, <2>3, <2>4 DEF PrefixRead
<1>2. ASSUME NEW n \in Nat, n \in P PROVE n + 1 \in P
  <2> SUFFICES ASSUME n + 1 \in 0..Len(pieces), NEW rest \in Seq(Letter)
               PROVE  PrefixRead(pieces, n + 1, rest)
    <3>1. n + 1 \in Nat
      BY SMTT(60)
    <3> QED BY <3>1
  <2>1. n \in 0..Len(pieces) /\ n + 1 \in 1..Len(pieces)
    BY <1>0, BeforeNext
  <2>2. \A q \in Seq(Letter) : PrefixRead(pieces, n, q)
    BY <1>2, <2>1
  <2> QED BY <2>1, <2>2, PrefixStep
<1> HIDE DEF P
<1>3. Nat \subseteq P
  BY <1>1, <1>2, NatSetInduction
<1>4. \A n \in 0..Len(pieces) : n \in Nat
  BY <1>0, FmtNumbers
<1> QED BY <1>3, <1>4 DEF P

\* initItems() reads back every pattern written piece by piece, whatever it ends in.
THEOREM PatternsReadBack ==
  ASSUME NEW pieces \in Seq(Piece), Unambiguous(pieces)
  PROVE  ReadAsWritten(pieces)
<1> SUFFICES ASSUME NEW ending \in Ending
             PROVE  initItems(Spelling(pieces) \o ending[1])
                      = [n \in DOMAIN pieces |-> pieces[n][2]] \o ending[2]
  BY DEF ReadAsWritten
<1>1. EndsIn(ending[1], ending[2])
  BY EndingRead
<1>2. Len(pieces) \in 0..Len(pieces) /\ DOMAIN pieces = 1..Len(pieces)
  <2>1. Len(pieces) \in Nat /\ DOMAIN pieces = 1..Len(pieces)
    BY Sequences1
  <2> QED BY <2>1, BeforeNext
<1>3. PrefixRead(pieces, Len(pieces), ending[1])
  BY <1>1, <1>2, PrefixesRead DEF EndsIn
<1> QED BY <1>1, <1>2, <1>3, SpellingIsUpTo DEF PrefixRead, EndsIn

-----------------------------------------------------------------------------
(* The theorems *)

\* A pattern has a number of items.
LEMMA ItemsCount ==
  ASSUME Pattern PROVE Len(items) \in Nat
<1>1. Spelling(m_pattern) \in Seq(Letter)
  BY SpellingType DEF Pattern
<1>2. items \in Seq(ItemOver(Letter))
  BY <1>1, InitItemsType DEF items
<1> HIDE DEF items
<1> QED BY <1>2, Sequences1

\* Every step keeps the invariant.
LEMMA InvStep ==
  Inv /\ [Next]_vars => Inv'
BY InvStepCounted, AllRemove, ItemsCount DEF Inv

\* The inductive invariant: the threads, the mutexes and the sinks of the log agree,
\* for every number of threads, loggers, appenders, levels and patterns.
THEOREM LoggerInvariant ==
  Spec => []Inv
BY InvInit, InvStep, PTL DEF Spec

\* initItems() reads back every pattern that is written piece by piece, and of one
\* with an error at its end what is before it (log.cpp:304-347).
THEOREM PatternsAreParsed ==
  Spec => []PatternsParsed
<1>1. Inv => PatternsParsed
  BY PatternsReadBack DEF Inv, Pattern, PatternsParsed
<1> QED BY <1>1, LoggerInvariant, PTL

\* A sink of one appender holds whole records, whoever shares it (log.cpp:257-297).
THEOREM RecordsAreWhole ==
  Spec => []RecordsWhole
<1>1. Inv => RecordsWhole
  BY ChainsAreWhole, ItemsCount DEF Inv, Sinks
<1> QED BY <1>1, LoggerInvariant, PTL

\* Two sinks show the records of one logger in the same order (log.cpp:230-237).
THEOREM SameOrderEverywhere ==
  Spec => []SameOrder
<1>1. Inv => SameOrder
  BY OrderIsSame DEF Inv, Order
<1> QED BY <1>1, LoggerInvariant, PTL

\* A logger writes only to the appenders attached to it, and these have a formatter
\* (log.cpp:230-255).
THEOREM WritesToAttached ==
  Spec => []WrittenToAttached
<1>1. Inv => WrittenToAttached
  BY HoldersAttached DEF Inv, Locks
<1> QED BY <1>1, LoggerInvariant, PTL
=============================================================================
