------------------------------- MODULE Logger -------------------------------
(***************************************************************************)
(* The log (logger.cpp).  Once WebServer's constructor has turned on the   *)
(* log files, every message of every thread goes through                   *)
(* Logger::messageOutput(): under m_mutex it is written to a log of        *)
(* everything, to one of errors and to one as HTML, then it goes to the    *)
(* handler that was there before; a fatal one ends the process instead.    *)
(* A record is the message it holds; time, thread and markup are left out. *)
(* Mail to REPORTS_MAIL is not modelled: setFailReports() does nothing.    *)
(***************************************************************************)
EXTENDS Naturals, Sequences, FiniteSets, SequencesExt

CONSTANTS
  Threads,     \* threads that log
  MaxRecords   \* bound: messages logged

ASSUME LoggerAssumption == MaxRecords \in Nat

Severities == {"debug", "critical", "fatal"}  \* a warning is treated as a debug message

VARIABLES
  isWriteToFile,
  handler,   \* the message handler installed: "qt" or "logger"
  initialized,    \* initializeFileLog() has run
  log,       \* the log file
  errors,    \* the log of errors
  html,      \* the log as HTML
  writer,    \* the thread that holds m_mutex, or none: <<>>
  logging,   \* the message each thread is logging, and how far it is
  records,     \* messages so far (bound), also the next one's number
  process    \* "running" or "aborted"

flags  == <<isWriteToFile, handler, initialized>>
logs   == <<log, errors, html>>
logger == <<flags, logs, writer, logging, records, process>>

Silent == [pc |-> "idle"]

LogInit ==
  /\ isWriteToFile = FALSE /\ handler = "qt" /\ initialized = FALSE
  /\ log = <<>> /\ errors = <<>> /\ html = <<>>
  /\ writer = <<>>
  /\ logging = [t \in Threads |-> Silent]
  /\ records = 0
  /\ process = "running"

(* setWriteToLogFile() with initializeFileLog(), which runs once. *)
SetWriteToLogFile ==
  /\ process = "running"
  /\ isWriteToFile' \in BOOLEAN
  /\ IF isWriteToFile' /\ ~initialized
     THEN initialized' = TRUE /\ handler' = "logger"
     ELSE UNCHANGED <<initialized, handler>>
  /\ UNCHANGED <<logs, writer, logging, records, process>>

Is(t, pc) == process = "running" /\ logging[t].pc = pc

Go(t, pc) == logging' = [logging EXCEPT ![t].pc = pc]

(* What Qt's own handler does with a message. *)
QtOutput(type) == process' = IF type = "fatal" THEN "aborted" ELSE process

MessageOutput(t) ==
  /\ Is(t, "idle") /\ records < MaxRecords
  /\ records' = records + 1
  /\ \E type \in Severities :
       IF handler = "qt"
       THEN QtOutput(type) /\ UNCHANGED logging
       ELSE /\ logging' = [logging EXCEPT ![t] =
                 [pc |-> IF isWriteToFile THEN "locking" ELSE "written",
                  record |-> [type |-> type, number |-> records], filed |-> isWriteToFile]]
            /\ UNCHANGED process
  /\ UNCHANGED <<flags, logs, writer>>

LogFreeAlways == TRUE

LogFree == writer = <<>>

LockLog(t) ==
  /\ Is(t, "locking") /\ LogFree
  /\ writer' = <<t>>
  /\ Go(t, "log")
  /\ UNCHANGED <<flags, logs, records, process>>

WriteLog(t) ==
  /\ Is(t, "log")
  /\ log' = Append(log, logging[t].record)
  /\ Go(t, "error")
  /\ UNCHANGED <<flags, errors, html, writer, records, process>>

IsError(r) == r.type \in {"critical", "fatal"}

WriteError(t) ==
  /\ Is(t, "error")
  /\ errors' = IF IsError(logging[t].record) THEN Append(errors, logging[t].record) ELSE errors
  /\ Go(t, "html")
  /\ UNCHANGED <<flags, log, html, writer, records, process>>

WriteHtml(t) ==
  /\ Is(t, "html")
  /\ html' = Append(html, logging[t].record)
  /\ Go(t, "written")
  /\ writer' = <<>>
  /\ UNCHANGED <<flags, log, errors, records, process>>

(* The previous handler, or the end. *)
PassOn(t) ==
  LET type == logging[t].record.type
  IN /\ Is(t, "written")
     /\ handler' = IF type = "fatal" THEN "qt" ELSE handler
     /\ QtOutput(type)
     /\ logging' = [logging EXCEPT ![t] = Silent]
     /\ UNCHANGED <<isWriteToFile, initialized, logs, writer, records>>

LogNext ==
  \/ SetWriteToLogFile
  \/ \E t \in Threads :
       \/ MessageOutput(t) \/ LockLog(t) \/ WriteLog(t) \/ WriteError(t) \/ WriteHtml(t) \/ PassOn(t)

LogSpec == LogInit /\ [][LogNext]_logger

----------------------------------------------------------------------------
(* The errors among some records, in their order. *)
ErrorsIn(s) ==
  LET upto[n \in 0..Len(s)] ==
        IF n = 0 THEN <<>>
        ELSE IF IsError(s[n]) THEN Append(upto[n - 1], s[n]) ELSE upto[n - 1]
  IN  upto[Len(s)]

(* Whenever nobody is writing, the HTML file holds the records of the log   *)
(* and the error file the errors among them, in the same order, however    *)
(* many threads log at once.                                               *)
FilesAgree == writer = <<>> => html = log /\ errors = ErrorsIn(log)
=============================================================================
