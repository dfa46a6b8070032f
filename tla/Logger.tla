------------------------------- MODULE Logger -------------------------------
(***************************************************************************)
(* Logging in EVA01 (log.h, log.cpp): threads that log records through     *)
(* loggers to the appenders attached to them, while other threads attach   *)
(* and detach appenders, set levels and reopen files.                      *)
(*                                                                         *)
(* The macro reads the logger's level without a lock; Logger::log() holds  *)
(* the logger's m_mtx over all its appenders; an appender holds its own    *)
(* m_mtx while it writes, item by item, to what it writes to.  An appender *)
(* may be attached to several loggers, and every logger made by            *)
(* LoggerManager has a StdoutLogAppender of its own.                       *)
(***************************************************************************)
EXTENDS LogFormatter

CONSTANTS
  Thread, Logger, Appender,
  Root,          \* the logger that LoggerManager() makes
  Stdout,        \* [Logger -> Appender]: the one getLogger() makes for it
  Stream, File,  \* the appenders of these kinds; the others write to std::cout
  Level,         \* the levels, numbers
  Written,       \* bound: the patterns with which threads log
  MaxRecords,    \* bound: records made
  MaxConfig,     \* bound: changes to loggers and appenders
  Null

ASSUME LoggerAssumption ==
  /\ Root \in Logger /\ Stdout \in [Logger -> Appender \ (Stream \cup File)]
  /\ Stream \cup File \subseteq Appender /\ Stream \cap File = {}
  /\ Logger \cap Appender = {} /\ Null \notin Thread /\ "cout" \notin Appender
  /\ Level \subseteq Nat

VARIABLES
  m_loggers,     \* the loggers there are
  m_level,       \* of each logger and of each appender
  m_appenders,   \* the list of each logger
  m_formatter,   \* the appenders that have one
  m_fstream,     \* the files that are open
  m_mtx,         \* who holds the mutex of each logger and each appender
  out,           \* what was written to each sink: records and their items
  pc, event,     \* where each thread is, and the record it logs
  at, item,      \* in Logger::log(): the place in the list, the item to write
  appender,      \* the appender each thread has in hand, or Null
  records, config  \* how many were made

vars == <<m_pattern, m_loggers, m_level, m_appenders, m_formatter, m_fstream, m_mtx, out,
          pc, event, at, item, appender, records, config>>

sinkOf(a) == IF a \in Stream \cup File THEN a ELSE "cout"
Sink == {sinkOf(a) : a \in Appender}
NoEvent == [record |-> Null, logger |-> Null, level |-> 0]
items == initItems(Spelling(m_pattern))

Init ==
  /\ m_pattern = <<>> /\ m_loggers = {Root}
  /\ m_level = [x \in Logger \cup Appender |-> 1]
  /\ m_appenders = [l \in Logger |-> IF l = Root THEN <<Stdout[l]>> ELSE <<>>]
  /\ m_formatter = {Stdout[Root]} /\ m_fstream = File
  /\ m_mtx = [x \in Logger \cup Appender |-> Null]
  /\ out = [s \in Sink |-> <<>>]
  /\ pc = [t \in Thread |-> "ready"] /\ event = [t \in Thread |-> NoEvent]
  /\ at = [t \in Thread |-> 0] /\ item = [t \in Thread |-> 0]
  /\ appender = [t \in Thread |-> Null] /\ records = 0 /\ config = 0

Goto(t, label, place, n, a) ==
  /\ pc' = [pc EXCEPT ![t] = label] /\ appender' = [appender EXCEPT ![t] = a]
  /\ at' = [at EXCEPT ![t] = place] /\ item' = [item EXCEPT ![t] = n]

configVars == <<m_loggers, m_level, m_appenders, m_formatter, m_fstream, config>>

-----------------------------------------------------------------------------
(* Configuration *)

\* Formatters are not synchronised: they are set before the first record.
SetFormatter(piece) ==
  /\ records = 0 /\ config = 0 /\ WritePiece(piece)
  /\ UNCHANGED <<configVars, m_mtx, out, pc, event, at, item, appender, records>>

\* One change by a thread that is in no call.
configures(t) ==
  /\ pc[t] = "ready" /\ config < MaxConfig /\ Spelling(m_pattern) \in Written
  /\ config' = config + 1
  /\ UNCHANGED <<m_pattern, out, event, records>>

\* LoggerManager::getLogger(): a logger not yet known is made with its appender.
getLogger(t, l) ==
  /\ configures(t) /\ l \notin m_loggers
  /\ m_loggers' = m_loggers \cup {l}
  /\ m_appenders' = [m_appenders EXCEPT ![l] = <<Stdout[l]>>]
  /\ m_formatter' = m_formatter \cup {Stdout[l]}
  /\ UNCHANGED <<m_level, m_fstream, m_mtx, pc, at, item, appender>>

\* addLogAppender() puts the appender on the list, then, still holding the
\* logger's mutex but not the appender's, gives it a formatter if it has none.
addLogAppender(t, l, a) ==
  /\ configures(t) /\ l \in m_loggers /\ m_mtx[l] = Null
  /\ m_appenders' = [m_appenders EXCEPT ![l] = Append(@, a)]
  /\ IF a \in m_formatter THEN UNCHANGED <<m_mtx, pc, at, item, appender>>
     ELSE m_mtx' = [m_mtx EXCEPT ![l] = t] /\ Goto(t, "add", 0, 0, a)
  /\ UNCHANGED <<m_loggers, m_level, m_formatter, m_fstream>>

AddFormatter(t) ==
  /\ pc[t] = "add"
  /\ \E l \in Logger :
       /\ m_mtx[l] = t /\ m_mtx' = [m_mtx EXCEPT ![l] = Null]
       /\ m_formatter' = m_formatter \cup {appender[t]}
  /\ Goto(t, "ready", 0, 0, Null)
  /\ UNCHANGED <<m_pattern, m_loggers, m_level, m_appenders, m_fstream, config, out, event,
                 records>>

\* std::list::remove(): the list without a, wherever it is.
remove(list, a) ==
  LET rest[n \in 0..Len(list)] ==
        IF n = 0 THEN <<>>
        ELSE IF list[n] = a THEN rest[n - 1] ELSE Append(rest[n - 1], list[n])
  IN  rest[Len(list)]

\* Mutant of delLogAppender: it does not take the lock.
delLogAppenderUnlocked(t, l, a) ==
  /\ configures(t) /\ l \in m_loggers
  /\ m_appenders' = [m_appenders EXCEPT ![l] = remove(@, a)]
  /\ UNCHANGED <<m_loggers, m_level, m_formatter, m_fstream, m_mtx, pc, at, item, appender>>

delLogAppender(t, l, a) ==
  /\ configures(t) /\ l \in m_loggers /\ m_mtx[l] = Null
  /\ m_appenders' = [m_appenders EXCEPT ![l] = remove(@, a)]
  /\ UNCHANGED <<m_loggers, m_level, m_formatter, m_fstream, m_mtx, pc, at, item, appender>>

clearLogAppenders(t, l) ==
  /\ configures(t) /\ l \in m_loggers /\ m_mtx[l] = Null
  /\ m_appenders' = [m_appenders EXCEPT ![l] = <<>>]
  /\ UNCHANGED <<m_loggers, m_level, m_formatter, m_fstream, m_mtx, pc, at, item, appender>>

\* Of a logger or of an appender, without a lock.
setLevel(t, x, level) ==
  /\ configures(t) /\ x \in m_loggers \cup Appender
  /\ m_level' = [m_level EXCEPT ![x] = level]
  /\ UNCHANGED <<m_loggers, m_appenders, m_formatter, m_fstream, m_mtx, pc, at, item, appender>>

\* reopen() opens the file to append; it may fail.
reopen(t, a) ==
  /\ configures(t) /\ a \in File /\ m_mtx[a] = Null
  /\ m_fstream' \in {m_fstream \cup {a}, m_fstream \ {a}}
  /\ UNCHANGED <<m_loggers, m_level, m_appenders, m_formatter, m_mtx, pc, at, item, appender>>

-----------------------------------------------------------------------------
(* A record *)

\* EVA_LOG_LEVEL: getLevel() without the lock; a record below it is not made.
\* The LogWrapper then calls Logger::log() with the event.
MakeEvent(t, l, level) ==
  /\ pc[t] = "ready" /\ l \in m_loggers /\ records < MaxRecords
  /\ Spelling(m_pattern) \in Written
  /\ m_level[l] <= level
  /\ records' = records + 1
  /\ event' = [event EXCEPT ![t] = [record |-> <<l, records'>>, logger |-> l, level |-> level]]
  /\ Goto(t, "log", 0, 0, Null)
  /\ UNCHANGED <<m_pattern, configVars, m_mtx, out>>

\* Mutant of log: the lock is not kept over the list.
logUnlocked(t) ==
  LET e == event[t] IN
  /\ pc[t] = "log" /\ m_mtx[e.logger] = Null
  /\ IF e.level >= m_level[e.logger]
     THEN Goto(t, "list", 1, 0, Null) ELSE Goto(t, "ready", 0, 0, Null)
  /\ UNCHANGED <<m_pattern, configVars, m_mtx, out, event, records>>

\* Logger::log() takes the lock and reads the level again.
log(t) ==
  LET e == event[t] IN
  /\ pc[t] = "log" /\ m_mtx[e.logger] = Null
  /\ IF e.level >= m_level[e.logger]
     THEN m_mtx' = [m_mtx EXCEPT ![e.logger] = t] /\ Goto(t, "list", 1, 0, Null)
     ELSE Goto(t, "ready", 0, 0, Null) /\ UNCHANGED m_mtx
  /\ UNCHANGED <<m_pattern, configVars, out, event, records>>

appenderOf(t) == m_appenders[event[t].logger][at[t]]

\* Mutant of AppenderLog: it takes no lock of its own.
AppenderLogUnlocked(t) ==
  /\ pc[t] = "list" /\ at[t] <= Len(m_appenders[event[t].logger])
  /\ IF event[t].level >= m_level[appenderOf(t)]
     THEN Goto(t, "format", at[t], 1, appenderOf(t))
     ELSE Goto(t, "list", at[t] + 1, 0, Null)
  /\ UNCHANGED <<m_pattern, configVars, m_mtx, out, event, records>>

\* The next appender's log(): its own lock, its own level.
AppenderLog(t) ==
  /\ pc[t] = "list" /\ at[t] <= Len(m_appenders[event[t].logger])
  /\ LET a == appenderOf(t) IN
       /\ m_mtx[a] = Null
       /\ IF event[t].level >= m_level[a]
          THEN m_mtx' = [m_mtx EXCEPT ![a] = t] /\ Goto(t, "format", at[t], 1, a)
          ELSE Goto(t, "list", at[t] + 1, 0, Null) /\ UNCHANGED m_mtx
  /\ UNCHANGED <<m_pattern, configVars, out, event, records>>

\* LogFormatter::format(): a StreamLogAppender formats first and writes once, the
\* others write each item to the stream, which drops it if the file is not open.
format(t) ==
  LET a == appender[t]
      from(n) == [k \in 1..Len(items) + 1 - n |-> <<event[t].record, n + k - 1>>]
      to   == IF a \in Stream THEN Len(items) ELSE item[t]
      text == SubSeq(from(item[t]), 1, to + 1 - item[t])
  IN
  /\ pc[t] = "format" /\ item[t] <= Len(items)
  /\ out' = IF a \in File \ m_fstream THEN out
            ELSE [out EXCEPT ![sinkOf(a)] = @ \o text]
  /\ Goto(t, "format", at[t], to + 1, a)
  /\ UNCHANGED <<m_pattern, configVars, m_mtx, event, records>>

AppenderDone(t) ==
  /\ pc[t] = "format" /\ item[t] > Len(items)
  /\ m_mtx' = [m_mtx EXCEPT ![appender[t]] = Null]
  /\ Goto(t, "list", at[t] + 1, 0, Null)
  /\ UNCHANGED <<m_pattern, configVars, out, event, records>>

LogDone(t) ==
  /\ pc[t] = "list" /\ at[t] > Len(m_appenders[event[t].logger])
  /\ m_mtx' = [m_mtx EXCEPT ![event[t].logger] = Null]
  /\ event' = [event EXCEPT ![t] = NoEvent]
  /\ Goto(t, "ready", 0, 0, Null)
  /\ UNCHANGED <<m_pattern, configVars, out, records>>

-----------------------------------------------------------------------------

Configure(t) ==
  \/ \E l \in Logger : getLogger(t, l) \/ clearLogAppenders(t, l)
  \/ \E l \in Logger, a \in Appender : addLogAppender(t, l, a) \/ delLogAppender(t, l, a)
  \/ \E x \in Logger \cup Appender, level \in Level : setLevel(t, x, level)
  \/ \E a \in File : reopen(t, a)

Log(t) ==
  \/ \E l \in Logger, level \in Level : MakeEvent(t, l, level)
  \/ log(t) \/ AppenderLog(t) \/ format(t) \/ AppenderDone(t) \/ LogDone(t)

Next ==
  \/ \E piece \in Piece : SetFormatter(piece)
  \/ \E t \in Thread : Configure(t) \/ AddFormatter(t) \/ Log(t)

Spec == Init /\ [][Next]_vars

-----------------------------------------------------------------------------

\* initItems() reads back every pattern that is written item by item, and of a
\* pattern with an error it keeps exactly the items before the error; an open
\* brace, although reported, still gives its item (log.cpp:304-347).  Every
\* pattern there is has been written before the first record.
PatternsParsed == records = 0 /\ config = 0 => ReadAsWritten(m_pattern)

\* A sink that one appender writes to holds whole records, however many loggers
\* and threads share the appender: an item other than a first one follows the
\* item before it, and only the record being written is not complete
\* (log.cpp:257-297).  std::cout is such a sink for one logger, not for two.
RecordsWhole ==
  \A a \in Stream \cup File : \A n \in DOMAIN out[a] :
    LET x == out[a][n] IN
    /\ x[2] > 1 => n > 1 /\ out[a][n - 1] = <<x[1], x[2] - 1>>
    /\ x[2] < Len(items) /\ n < Len(out[a]) => out[a][n + 1] = <<x[1], x[2] + 1>>

\* The records of one logger are in the same order wherever they are written, in
\* std::cout too: a logger holds its lock over all its appenders, so that two
\* logs of one run can be compared (log.cpp:230-237).
SameOrder ==
  LET before(s) == UNION {{<<out[s][m][1], out[s][n][1]>> : m \in 1..n - 1} : n \in DOMAIN out[s]}
  IN  \A s, u \in Sink : \A x \in before(s) :
        x[1] # x[2] /\ x[1][1] = x[2][1] => <<x[2], x[1]>> \notin before(u)

\* What is written goes to an appender that is attached to its logger at that
\* moment and has a formatter: once delLogAppender() or clearLogAppenders() has
\* returned, the logger writes nothing more there (log.cpp:230-255).
WrittenToAttached ==
  \A t \in Thread : pc[t] = "format" =>
    /\ \E n \in DOMAIN m_appenders[event[t].logger] : m_appenders[event[t].logger][n] = appender[t]
    /\ appender[t] \in m_formatter
=============================================================================
