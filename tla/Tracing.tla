------------------------------- MODULE Tracing --------------------------------
(***************************************************************************)
(* Event tracing for Windows: EventTrace of etws/trace.py and the traces   *)
(* built on it (traces/trace_dns.py, trace_tcp.py,                         *)
(* trace_sysmon_process_creation.py), the sessions of etws/sessions.py and *)
(* wrappers/ctyping/etw_winapi/etw_functions.py, and the Sysmon service of *)
(* wrappers/sysmonw.py.                                                    *)
(*                                                                         *)
(* A session belongs to Windows: it outlives the process that began it,    *)
(* and holds its events for a later reader ("the session is already        *)
(* running ... you will get the buffer", trace.py:54-57).  Several traces  *)
(* use one session name, the default of their kind.  pywintrace, which     *)
(* opens sessions and reads them, is external.                             *)
(***************************************************************************)
EXTENDS Naturals, Sequences, SequencesExt

CONSTANTS Traces,        \* the traces with the same session name
          TraceKinds,    \* of "dns", "tcp", "sysmon", "winapi"
          MaxTraced,     \* bound: events
          TypeOf,        \* the type of each event
          SkipRecords,   \* skip_record_list: types emit() passes over
          NamedTypes,    \* dns.TYPES_DICT: the types that have a name
          MaxTraceStarts \* bound: starts of a trace

VARIABLES trcKind, close_existing,   \* the kind; close_existing_session_name
          happened,                  \* events so far
          session,                   \* [up, readers, buffer]: Windows' session
          sysmon,                    \* "absent", "installed" or "running"
          trace,                     \* what each trace is doing
          event_queue,               \* of each trace
          poller,                    \* whose own process poller runs
          since,                     \* history: events before start() looked
          emitted, raised,           \* history: what emit() gave and lost
          trace_starts               \* bound

trc_out == <<since, emitted, raised>>
trc_vars == <<trcKind, close_existing, happened, session, sysmon, trace,
              event_queue, poller, trc_out, trace_starts>>

NoSession == [up |-> FALSE, readers |-> {}, buffer |-> <<>>]

TrcInit ==
    /\ trcKind \in TraceKinds /\ close_existing \in BOOLEAN
    /\ happened = 0 /\ session = NoSession /\ sysmon = "absent"
    /\ trace = [t \in Traces |-> "new"]
    /\ event_queue = [t \in Traces |-> <<>>]
    /\ poller = {}
    /\ since = [t \in Traces |-> 0]
    /\ emitted = [t \in Traces |-> <<>>] /\ raised = [t \in Traces |-> {}]
    /\ trace_starts = 0

(* Windows logs an event: to the readers of the session, or to its buffer. *)
(* start_etw_consumer gives OpenTrace the default callback, which prints,  *)
(* and not the one that fills the caller's queue.                          *)
callback_fills_queue == trcKind # "winapi"

TraceEvent ==
    /\ happened < MaxTraced /\ happened' = happened + 1
    /\ trcKind = "sysmon" => sysmon = "running"
    /\ event_queue' = [t \in Traces |->
            IF t \in session.readers /\ callback_fills_queue
            THEN Append(event_queue[t], happened') ELSE event_queue[t]]
    /\ session' = IF session.up /\ session.readers = {}
                  THEN [session EXCEPT !.buffer = Append(@, happened')] ELSE session
    /\ UNCHANGED <<trcKind, close_existing, sysmon, trace, poller, trc_out,
                   trace_starts>>

-----------------------------------------------------------------------------
(* start(): Sysmon for its trace, the process poller, then the session.    *)
(* The exit code of Sysmon's installation is not looked at.                *)
needs_sysmon == trcKind = "sysmon" /\ sysmon # "running"

start_as_service ==
    IF needs_sysmon THEN sysmon' \in {"installed", "running"} ELSE UNCHANGED sysmon

self_hosted_poller == trcKind \in {"dns", "tcp"}

trace_starts_up(t) ==
    /\ trace[t] \in {"new", "stopped", "gone"}
    /\ trace_starts < MaxTraceStarts /\ trace_starts' = trace_starts + 1
    /\ start_as_service
    /\ poller' = IF self_hosted_poller THEN poller \cup {t} ELSE poller
    /\ event_queue' = [event_queue EXCEPT ![t] = <<>>]
    /\ emitted' = [emitted EXCEPT ![t] = <<>>] /\ raised' = [raised EXCEPT ![t] = {}]
    /\ trace' = [trace EXCEPT ![t] = IF trcKind = "winapi" THEN "open" ELSE "look"]
    /\ UNCHANGED <<trcKind, close_existing, happened, session, since>>

is_session_running(t) ==
    /\ trace[t] = "look"
    /\ since' = [since EXCEPT ![t] = happened]
    /\ trace' = [trace EXCEPT ![t] = IF session.up /\ close_existing
                                     THEN "delete" ELSE "open"]
    /\ UNCHANGED <<trcKind, close_existing, happened, session, sysmon,
                   event_queue, poller, emitted, raised, trace_starts>>

\* QueryAllTraces failed: the poller has been started already.
list_etw_sessions_raises(t) ==
    /\ trace[t] = "look"
    /\ trace' = [trace EXCEPT ![t] = "gone"]
    /\ UNCHANGED <<trcKind, close_existing, happened, session, sysmon,
                   event_queue, poller, trc_out, trace_starts>>

Mutant_deleted == session

\* ControlTraceW by name, whosever the session is; its status is ignored.
deleted == NoSession

stop_and_delete(t) ==
    /\ trace[t] = "delete"
    /\ session' = deleted
    /\ trace' = [trace EXCEPT ![t] = "open"]
    /\ UNCHANGED <<trcKind, close_existing, happened, sysmon, event_queue,
                   poller, trc_out, trace_starts>>

(* ETW.start() of pywintrace: a session that is there is read from, or is  *)
(* an OSError, on which start() exits the process.                         *)
joined(t) ==
    /\ session' = [up |-> TRUE, readers |-> session.readers \cup {t}, buffer |-> <<>>]
    /\ event_queue' = [event_queue EXCEPT ![t] = session.buffer]
    /\ trace' = [trace EXCEPT ![t] = "running"]
    /\ UNCHANGED poller

exits(t) ==
    /\ trace' = [trace EXCEPT ![t] = "gone"] /\ poller' = poller \ {t}
    /\ UNCHANGED event_queue

opens(t) ==
    /\ trace[t] = "open" /\ trcKind # "winapi"
    /\ joined(t) \/ (session.up /\ exits(t) /\ UNCHANGED session)
    /\ UNCHANGED <<trcKind, close_existing, happened, sysmon, trc_out, trace_starts>>

(* start_etw_session: ETWSessionExists, or a new session, which stays      *)
(* there when a provider cannot be enabled; then the consumer's thread.    *)
start_etw_session(t) ==
    /\ trace[t] = "open" /\ trcKind = "winapi"
    /\ IF session.up THEN exits(t) /\ UNCHANGED session
       ELSE joined(t) \/ (exits(t) /\ session' = [NoSession EXCEPT !.up = TRUE])
    /\ UNCHANGED <<trcKind, close_existing, happened, sysmon, trc_out, trace_starts>>

-----------------------------------------------------------------------------
(* emit(): blocks for an event; a type that is to be skipped makes it take *)
(* the next one, and a DNS type without a name raises KeyError.            *)
Mutant_taken(t, e) ==
    /\ emitted' = [emitted EXCEPT ![t] = Append(@, e)]
    /\ UNCHANGED raised

in_skip_record_list(e) == trcKind = "dns" /\ TypeOf[e] \in SkipRecords

taken(t, e) ==
    IF trcKind = "dns" /\ TypeOf[e] \notin NamedTypes
    THEN raised' = [raised EXCEPT ![t] = @ \cup {e}] /\ UNCHANGED emitted
    ELSE IF in_skip_record_list(e) THEN UNCHANGED <<emitted, raised>>
    ELSE emitted' = [emitted EXCEPT ![t] = Append(@, e)] /\ UNCHANGED raised

trace_emits(t) ==
    /\ trace[t] \in {"running", "stopped"} /\ event_queue[t] # <<>>
    /\ taken(t, Head(event_queue[t]))
    /\ event_queue' = [event_queue EXCEPT ![t] = Tail(@)]
    /\ UNCHANGED <<trcKind, close_existing, happened, session, sysmon, trace,
                   poller, since, trace_starts>>

\* stop(): the session, unless another trace has closed it; the poller.
trace_stops(t) ==
    /\ trace[t] = "running"
    /\ session' = IF t \in session.readers THEN NoSession ELSE session
    /\ trace' = [trace EXCEPT ![t] = "stopped"]
    /\ poller' = poller \ {t}
    /\ UNCHANGED <<trcKind, close_existing, happened, sysmon, event_queue,
                   trc_out, trace_starts>>

\* The process ends without stop(): the session runs on.
trace_crashes(t) ==
    /\ trace[t] \notin {"new", "gone"}
    /\ session' = [session EXCEPT !.readers = @ \ {t}]
    /\ exits(t)
    /\ UNCHANGED <<trcKind, close_existing, happened, sysmon, trc_out, trace_starts>>

\* stop_service, by an administrator.
stop_service ==
    /\ sysmon = "running" /\ sysmon' = "installed"
    /\ UNCHANGED <<trcKind, close_existing, happened, session, trace,
                   event_queue, poller, trc_out, trace_starts>>

TrcNext ==
    \/ TraceEvent \/ stop_service
    \/ \E t \in Traces :
         \/ trace_starts_up(t) \/ is_session_running(t)
         \/ list_etw_sessions_raises(t) \/ stop_and_delete(t)
         \/ opens(t) \/ start_etw_session(t)
         \/ trace_emits(t) \/ trace_stops(t) \/ trace_crashes(t)

-----------------------------------------------------------------------------
TrcTypeOK ==
    /\ session.readers \subseteq Traces /\ (session.readers # {} => session.up)
    /\ session.readers # {} => session.buffer = <<>>
    /\ sysmon \in {"absent", "installed", "running"}
    /\ trace \in [Traces -> {"new", "look", "delete", "open", "running",
                             "stopped", "gone"}]
    /\ poller \subseteq Traces
    /\ \A t \in Traces : /\ event_queue[t] \in Seq(1 .. happened)
                         /\ emitted[t] \in Seq(1 .. happened)

EventsBetween(t) == {e \in 1 .. happened : emitted[t] # <<>> /\ emitted[t][1] <= e
                                            /\ e <= Last(emitted[t])}

(* However starts, stops, crashes and takeovers of the shared session name *)
(* interleave, a trace emits the events in their order, from the first it  *)
(* gives none is left out but those it must skip or raises on, and with    *)
(* close_existing_session_name none is older than its start: the buffer of *)
(* an earlier session is not replayed (trace.py:104-115).                  *)
EmitsWhatHappensNow ==
    \A t \in Traces :
       LET out == emitted[t] IN
       /\ \A i, j \in DOMAIN out : i < j => out[i] < out[j]
       /\ \A e \in EventsBetween(t) :
            \/ e \in ToSet(out) \/ e \in raised[t]
            \/ in_skip_record_list(e)
       /\ trcKind = "dns" => \A i \in DOMAIN out : TypeOf[out[i]] \notin SkipRecords
       /\ close_existing /\ out # <<>> /\ trcKind # "winapi" => out[1] > since[t]
=============================================================================
