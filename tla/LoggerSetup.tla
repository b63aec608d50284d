------------------------------ MODULE LoggerSetup ------------------------------
(***************************************************************************)
(* create_logger of wrappers/loggingw/loggingw.py, and the logging that    *)
(* goes on between processes once a logger was made: the handlers of a     *)
(* logger put its records on a queue, and the listener of that queue, a    *)
(* thread of a daemon process, writes each record by the stream's and the  *)
(* file's handler.  The file's rotation is in LogFile.                     *)
(***************************************************************************)
EXTENDS Naturals, Sequences, FiniteSets

CONSTANTS LoggerCalls,  \* the arguments of calls of create_logger
          LogChildren,  \* processes that make a logger for the queue
          MaxLogged     \* bound: records each process logs

LogProcs == {"main"} \cup LogChildren
Sentinel == <<"main", 0>>           \* None on the queue; records are <<process, n>>

(* A call, by what it gives: multi stands for                              *)
(* start_queue_listener_multiprocess_add_queue_handler.                    *)
LoggerArguments ==
    [name : BOOLEAN, multi : BOOLEAN, get_listener : BOOLEAN,
     queue_handler : BOOLEAN, queue : BOOLEAN, file_path : BOOLEAN,
     directory : BOOLEAN, stream : BOOLEAN, timedfile : BOOLEAN]
ASSUME LoggerAssumption ==
    /\ LoggerCalls \subseteq LoggerArguments
    /\ "main" \notin LogChildren /\ MaxLogged \in Nat

VARIABLES lgr_call,         \* the main process's call of create_logger
          start_method,  \* "spawn" or "fork", of multiprocessing
          creator,       \* "new", "waiting", "returned" or "raised"
          queue_handlers,\* for each process, how many its logger has
          log_child,     \* "none", "up", "raised" or "ended"
          log_listener,  \* "none", "starting", "died", "listening",
                         \*   "stopping", "stopped" or "killed"
          is_ready,
          feeder,        \* each process's records not in the pipe yet
          log_queue,     \* the pipe
          log_todo,      \* the handlers that have yet to write the head of it
          log_written,   \* what each handler wrote
          log_fed,       \* history: what reached the pipe
          log_count,     \* history: records logged by each process
          cleaned_up_log \* the main process ended its children

lgr_const == <<lgr_call, start_method>>
lgr_pipe == <<feeder, log_queue, log_fed>>
lgr_listener == <<log_listener, is_ready, log_todo, log_written>>
lgr_vars == <<lgr_const, creator, queue_handlers, log_child, lgr_pipe,
              lgr_listener, log_count, cleaned_up_log>>

LogHandlers(a) == (IF a.stream THEN <<"stream">> ELSE <<>>)
                  \o (IF a.timedfile THEN <<"file">> ELSE <<>>)
HandlersOf(a) == {LogHandlers(a)[i] : i \in DOMAIN LogHandlers(a)}

LoggerInit ==
    /\ lgr_call \in LoggerCalls /\ start_method \in {"spawn", "fork"}
    /\ creator = "new" /\ log_listener = "none" /\ is_ready = FALSE
    /\ queue_handlers = [p \in LogProcs |-> 0]
    /\ log_child = [c \in LogChildren |-> "none"]
    /\ feeder = [p \in LogProcs |-> <<>>] /\ log_queue = <<>> /\ log_fed = <<>>
    /\ log_todo = <<>> /\ log_written = [h \in {"stream", "file"} |-> <<>>]
    /\ log_count = [p \in LogProcs |-> 0]
    /\ cleaned_up_log = FALSE

-----------------------------------------------------------------------------
(* The checks of create_logger.                                            *)
argument_error(a) ==
    \/ a.name = a.get_listener
    \/ ~a.name /\ ~a.file_path
    \/ (a.get_listener \/ a.queue_handler) /\ ~a.queue
    \/ a.timedfile /\ a.file_path = a.directory

\* _create_logger_with_queue_handler, and the listener process's call: it has
\* no name, and the directory only if the caller gave one with a name.
handler_call(a) ==
    [a EXCEPT !.multi = FALSE, !.queue_handler = TRUE, !.file_path = FALSE,
              !.directory = FALSE, !.stream = FALSE, !.timedfile = FALSE]
listener_call(a) ==
    [a EXCEPT !.multi = FALSE, !.name = FALSE, !.get_listener = TRUE,
              !.file_path = a.file_path \/ (a.directory /\ a.name),
              !.directory = FALSE]

raises(a) ==
    IF a.multi
    THEN a.get_listener \/ a.queue_handler \/ argument_error(handler_call(a))
    ELSE argument_error(a)

(* A call without a queue makes a logger that writes in its own thread.    *)
create_logger ==
    /\ creator = "new"
    /\ IF raises(lgr_call)
       THEN creator' = "raised" /\ UNCHANGED <<queue_handlers, log_listener>>
       ELSE /\ creator' = IF lgr_call.multi THEN "waiting" ELSE "returned"
            /\ log_listener' = IF lgr_call.multi THEN "starting"
                               ELSE IF lgr_call.get_listener THEN "listening" ELSE "none"
            /\ queue_handlers' = [queue_handlers EXCEPT !["main"] =
                                    IF lgr_call.multi \/ lgr_call.queue_handler THEN 1 ELSE 0]
    /\ UNCHANGED <<lgr_const, log_child, lgr_pipe, is_ready, log_todo,
                   log_written, log_count, cleaned_up_log>>

(* _queue_listener_multiprocessing_worker.                                 *)
listener_starts ==
    /\ log_listener = "starting"
    /\ IF argument_error(listener_call(lgr_call))
       THEN log_listener' = "died" /\ UNCHANGED is_ready
       ELSE log_listener' = "listening" /\ is_ready' = TRUE
    /\ UNCHANGED <<lgr_const, creator, queue_handlers, log_child, lgr_pipe,
                   log_todo, log_written, log_count, cleaned_up_log>>

\* is_ready.wait() of start_queue_listener_in_multiprocessing.
returns_when_ready ==
    /\ creator = "waiting" /\ is_ready
    /\ creator' = "returned"
    /\ UNCHANGED <<lgr_const, queue_handlers, log_child, lgr_pipe, lgr_listener,
                   log_count, cleaned_up_log>>

(* Another process makes its logger for the queue.  A forked process has   *)
(* the logger of the main process already: LoggingwLoggerAlreadyExists-    *)
(* Error.                                                                  *)
Mutant_is_logger_exists(p) == FALSE
is_logger_exists(p) ==
    queue_handlers[p] > 0 \/ (start_method = "fork" /\ queue_handlers["main"] > 0)

child_creates_logger(c) ==
    /\ creator = "returned" /\ lgr_call.queue /\ ~cleaned_up_log
    /\ log_child[c] = "none" \/ (log_child[c] = "up" /\ queue_handlers[c] = 1)
    /\ IF is_logger_exists(c)
       THEN /\ log_child' = [log_child EXCEPT ![c] = "raised"]
            /\ UNCHANGED queue_handlers
       ELSE /\ log_child' = [log_child EXCEPT ![c] = "up"]
            /\ queue_handlers' = [queue_handlers EXCEPT ![c] = @ + 1]
    /\ UNCHANGED <<lgr_const, creator, lgr_pipe, lgr_listener, log_count, cleaned_up_log>>

-----------------------------------------------------------------------------
(* Logging: a queue handler puts the record into the buffer of the         *)
(* process's feeder thread, which writes it into the pipe.                 *)
can_log(p) == IF p = "main" THEN creator = "returned" /\ lgr_call.name /\ ~cleaned_up_log
                            ELSE log_child[p] = "up"

log_record(p) ==
    /\ can_log(p) /\ log_count[p] < MaxLogged
    /\ log_count' = [log_count EXCEPT ![p] = @ + 1]
    /\ LET record == <<p, log_count'[p]>> IN
       /\ feeder' = [feeder EXCEPT ![p] =
                        @ \o [i \in 1 .. queue_handlers[p] |-> record]]
       /\ log_written' =
            IF p = "main" /\ log_listener = "none"
            THEN [h \in DOMAIN log_written |->
                    IF h \in HandlersOf(lgr_call)
                    THEN Append(log_written[h], record) ELSE log_written[h]]
            ELSE log_written
    /\ UNCHANGED <<lgr_const, creator, queue_handlers, log_child, log_queue, log_fed,
                   log_listener, is_ready, log_todo, cleaned_up_log>>

feed(p) ==
    /\ feeder[p] # <<>>
    /\ feeder' = [feeder EXCEPT ![p] = Tail(@)]
    /\ log_queue' = Append(log_queue, Head(feeder[p]))
    /\ log_fed' = Append(log_fed, Head(feeder[p]))
    /\ UNCHANGED <<lgr_const, creator, queue_handlers, log_child, lgr_listener,
                   log_count, cleaned_up_log>>

\* A process that ends joins its feeder; one that is terminated does not.
child_ends(c) ==
    /\ log_child[c] = "up"
    /\ \/ feeder[c] = <<>> /\ UNCHANGED feeder
       \/ cleaned_up_log /\ feeder' = [feeder EXCEPT ![c] = <<>>]
    /\ log_child' = [log_child EXCEPT ![c] = "ended"]
    /\ UNCHANGED <<lgr_const, creator, queue_handlers, log_queue, log_fed,
                   lgr_listener, log_count, cleaned_up_log>>

(* The thread of the QueueListener: one handler after the other.           *)
listening == log_listener \in {"listening", "stopping"}

listener_takes ==
    /\ listening /\ log_todo = <<>> /\ log_queue # <<>>
    /\ IF Head(log_queue) = Sentinel \/ LogHandlers(lgr_call) = <<>>
       THEN /\ log_queue' = Tail(log_queue)
            /\ log_listener' = IF Head(log_queue) = Sentinel THEN "stopped" ELSE log_listener
            /\ UNCHANGED log_todo
       ELSE log_todo' = LogHandlers(lgr_call) /\ UNCHANGED <<log_queue, log_listener>>
    /\ UNCHANGED <<lgr_const, creator, queue_handlers, log_child, feeder, log_fed,
                   is_ready, log_written, log_count, cleaned_up_log>>

listener_writes ==
    /\ listening /\ log_todo # <<>>
    /\ log_written' = [log_written EXCEPT ![Head(log_todo)] = Append(@, Head(log_queue))]
    /\ log_todo' = Tail(log_todo)
    /\ log_queue' = IF Len(log_todo) = 1 THEN Tail(log_queue) ELSE log_queue
    /\ UNCHANGED <<lgr_const, creator, queue_handlers, log_child, feeder, log_fed,
                   log_listener, is_ready, log_count, cleaned_up_log>>

(* A KeyboardInterrupt in the listener process: stop() puts the sentinel   *)
(* and joins the thread.                                                   *)
listener_interrupted ==
    /\ log_listener = "listening" /\ lgr_call.multi
    /\ log_listener' = "stopping"
    /\ log_queue' = Append(log_queue, Sentinel) /\ log_fed' = Append(log_fed, Sentinel)
    /\ UNCHANGED <<lgr_const, creator, queue_handlers, log_child, feeder,
                   is_ready, log_todo, log_written, log_count, cleaned_up_log>>

(* exit_cleanup: the sentinel, which the feeder may still hold, and then   *)
(* the end of the children, in some order.                                 *)
log_cleanup ==
    /\ creator = "returned" /\ lgr_call.queue /\ ~cleaned_up_log
    /\ cleaned_up_log' = TRUE
    /\ feeder' = [feeder EXCEPT !["main"] = Append(@, Sentinel)]
    /\ UNCHANGED <<lgr_const, creator, queue_handlers, log_child, log_queue,
                   log_fed, lgr_listener, log_count>>

listener_terminated ==
    /\ cleaned_up_log /\ lgr_call.multi /\ log_listener \notin {"killed", "died", "none"}
    /\ log_listener' = "killed" /\ log_todo' = <<>>
    /\ UNCHANGED <<lgr_const, creator, queue_handlers, log_child, lgr_pipe,
                   is_ready, log_written, log_count, cleaned_up_log>>

LoggerThreads ==
    \/ create_logger \/ listener_starts \/ returns_when_ready
    \/ listener_takes \/ listener_writes
    \/ \E p \in LogProcs : feed(p)

LoggerNext ==
    \/ LoggerThreads
    \/ \E p \in LogProcs : log_record(p)
    \/ \E c \in LogChildren : child_creates_logger(c) \/ child_ends(c)
    \/ listener_interrupted \/ log_cleanup \/ listener_terminated

-----------------------------------------------------------------------------
(* The types of loggers, listener and queue. *)
LoggerTypeOK ==
    /\ lgr_call \in LoggerCalls /\ start_method \in {"spawn", "fork"}
    /\ creator \in {"new", "waiting", "returned", "raised"}
    /\ queue_handlers \in [LogProcs -> Nat]
    /\ log_child \in [LogChildren -> {"none", "up", "raised", "ended"}]
    /\ log_listener \in {"none", "starting", "died", "listening", "stopping",
                         "stopped", "killed"}
    /\ is_ready \in BOOLEAN /\ cleaned_up_log \in BOOLEAN
    /\ log_count \in [LogProcs -> 0 .. MaxLogged]
    /\ log_written \in [{"stream", "file"} -> Seq(LogProcs \X (1 .. MaxLogged))]

(* The records of a process in s come once each and in the order logged,   *)
(* with none left out before one that is there.                            *)
OnceInOrder(p, s, count) ==
    \A i \in DOMAIN s : s[i][1] = p /\ s[i][2] > 0 =>
       /\ s[i][2] <= count
       /\ \A j \in 1 .. i - 1 : s[j] # s[i]
       /\ s[i][2] > 1 => \E j \in 1 .. i - 1 : s[j] = <<p, s[i][2] - 1>>

\* What handler h has still to write, the head of the queue perhaps done.
has_written(h) == log_todo # <<>> /\ \A i \in DOMAIN log_todo : log_todo[i] # h
at_hand(h) == IF has_written(h) THEN Tail(log_queue) ELSE log_queue
taken_sentinel == IF log_listener = "stopped" THEN <<Sentinel>> ELSE <<>>

(* However the processes' records mix on the queue, and whenever the       *)
(* listener is interrupted or terminated, each handler has written each    *)
(* record once, in the order in which its process logged it, with none     *)
(* left out before one that was written; and a listener that was not       *)
(* killed has at hand whatever its handlers have not written of what came  *)
(* to the queue ("so we will not see the messages twice").                 *)
LogRecordsOnceInOrder ==
    \A h \in HandlersOf(lgr_call) :
       /\ \A p \in LogProcs : OnceInOrder(p, log_written[h], log_count[p])
       /\ \A p \in LogProcs : OnceInOrder(p, log_fed, log_count[p])
       /\ log_listener \notin {"none", "killed"} =>
            log_fed = log_written[h] \o taken_sentinel \o at_hand(h)

(* The call returns once its listener is ready, as the example of the      *)
(* docstring (main() in create_logger) counts on.                          *)
CreateLoggerReturns == creator = "waiting" ~> creator = "returned"
=============================================================================
