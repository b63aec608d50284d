------------------------------- MODULE EventLog -------------------------------
(***************************************************************************)
(* EventLogSubscriber of wrappers/pywin32w/win_event_log/subscribe.py: a   *)
(* worker thread reads a channel of the Windows event log in batches, puts *)
(* each event on a queue that emit() reads, moves a bookmark behind it and *)
(* saves the bookmark now and then, so that a later subscription resumes   *)
(* after it.  Events are numbered in the order of the channel.  stop() and *)
(* the worker run concurrently; the process may be killed at any point,    *)
(* and only the bookmark file survives.                                    *)
(***************************************************************************)
EXTENDS Naturals, Sequences, FiniteSets

CONSTANTS MaxEvents,      \* bound: events the channel gets
          MaxSessions,    \* bound: subscriptions made, one after the other
          MaxStops,       \* bound: calls of stop()
          EvtBatch,       \* batch_size
          EvtQueueSizes,  \* values of queue_maxsize (0: unbounded)
          EvtSettings     \* values of [resume, from_oldest, bookmark_path]

ASSUME EvtAssumption ==
    /\ MaxEvents \in Nat /\ EvtBatch \in Nat /\ EvtQueueSizes \subseteq Nat

Events == 1 .. MaxEvents
NoFile == MaxEvents + 1

VARIABLES channel,       \* the number of events logged so far
          evt_settings, maxsize,
          file,          \* the event of the bookmark file; 0: an empty bookmark
          next_event,    \* what the subscription handle gives next, minus 1
          bookmark,      \* the event of the bookmark handle
          events,        \* the batch of EvtNext not handled yet
          worker,        \* "none", "ended", or where the thread is
          connected, stop_event, hard_stop,
          stopper,       \* where a call of stop() is
          q,             \* the number of events on _q
          queued,        \* history: the events ever put on the queue
          resumed_from,  \* history: where reading began without a bookmark
          stops, sessions \* history, and bounds

evt_const == <<evt_settings, maxsize>>
evt_thread == <<next_event, bookmark, events, worker, connected, q, queued, file>>
evt_vars == <<channel, evt_const, evt_thread, stop_event, hard_stop, stopper,
              resumed_from, stops, sessions>>

EvtInit ==
    /\ channel = 0
    /\ evt_settings \in EvtSettings /\ maxsize \in EvtQueueSizes
    /\ file = NoFile
    /\ next_event = 0 /\ bookmark = 0 /\ events = <<>> /\ worker = "none"
    /\ connected = FALSE /\ stop_event = FALSE /\ hard_stop = FALSE
    /\ stopper = "out"
    /\ q = 0 /\ queued = {} /\ resumed_from = 0
    /\ stops = 0 /\ sessions = 0

thread_alive == worker \notin {"none", "ended"}

\* A bookmark that has not seen an event is saved as an empty one.
saved == IF evt_settings.bookmark_path THEN bookmark ELSE file

EventLogged ==
    /\ channel < MaxEvents
    /\ channel' = channel + 1
    /\ UNCHANGED <<evt_const, evt_thread, stop_event, hard_stop, stopper,
                   resumed_from, stops, sessions>>

(* connect(), under the lock that stop() holds.  Windows starts after an   *)
(* empty bookmark wherever it likes.                                       *)
after_bookmark == evt_settings.bookmark_path /\ evt_settings.resume /\ file # NoFile

start_positions ==
    IF evt_settings.from_oldest THEN {0}
    ELSE IF after_bookmark THEN (IF file = 0 THEN {0, channel} ELSE {file})
    ELSE {channel}

connect ==
    /\ stopper = "out" /\ ~thread_alive /\ ~connected
    /\ next_event' \in start_positions
    /\ bookmark' = IF after_bookmark THEN file ELSE 0
    /\ resumed_from' = IF after_bookmark /\ file # 0 /\ ~evt_settings.from_oldest
                       THEN resumed_from ELSE next_event'
    /\ sessions < MaxSessions /\ sessions' = sessions + 1
    /\ connected' = TRUE
    /\ UNCHANGED <<channel, evt_const, events, worker, q, queued, file,
                   stop_event, hard_stop, stopper, stops>>

start ==
    /\ stopper = "out" /\ ~thread_alive /\ connected
    /\ stop_event' = FALSE /\ hard_stop' = FALSE
    /\ worker' = "poll"
    /\ UNCHANGED <<channel, evt_const, next_event, bookmark, events, connected,
                   q, queued, file, stopper, resumed_from, stops, sessions>>

\* emit(): None on a timeout, which changes nothing.
emit ==
    /\ q > 0
    /\ q' = q - 1
    /\ UNCHANGED <<channel, evt_const, next_event, bookmark, events, worker,
                   connected, queued, file, stop_event, hard_stop, stopper,
                   resumed_from, stops, sessions>>

-----------------------------------------------------------------------------
(* _run.  The finally clause is _cleanup(): the last save of the bookmark, *)
(* skipped by a forced stop.                                               *)
cleaned_up ==
    /\ file' = IF hard_stop THEN file ELSE saved
    /\ worker' = "ended" /\ events' = <<>> /\ connected' = FALSE
    /\ next_event' = 0 /\ bookmark' = 0
    /\ UNCHANGED <<q, queued>>

\* save_bookmark, when flush_every_seconds have passed.
may_flush == file' \in {file, saved}

poll ==
    /\ worker = "poll" /\ ~stop_event
    /\ \/ /\ next_event = channel /\ may_flush
          /\ UNCHANGED <<events, next_event, worker>>
       \/ \E n \in 1 .. EvtBatch :
            /\ next_event + n <= channel
            /\ events' = [i \in 1 .. n |-> next_event + i]
            /\ next_event' = next_event + n
            /\ worker' = "event"
            /\ UNCHANGED file
    /\ UNCHANGED <<bookmark, connected, q, queued>>

\* Any other error of EvtNext, or the flag: the loop ends.
poll_ends ==
    /\ worker = "poll"
    /\ cleaned_up

Mutant_skipped == FALSE

\* An event is passed over, unmarked, once stop() was called.
skipped == stop_event

event ==
    /\ worker = "event"
    /\ IF events = <<>> THEN worker' = "poll" /\ may_flush /\ UNCHANGED events
       ELSE IF skipped THEN events' = Tail(events) /\ UNCHANGED <<worker, file>>
       ELSE worker' = "put" /\ UNCHANGED <<events, file>>
    /\ UNCHANGED <<next_event, bookmark, connected, q, queued>>

Mutant_put_gives_up == FALSE

\* _put waits for room, and comes back without a put after stop().
put_gives_up == stop_event

put ==
    /\ worker = "put"
    /\ \/ put_gives_up /\ UNCHANGED <<q, queued>>
       \/ /\ ~stop_event \/ ~put_gives_up
          /\ maxsize = 0 \/ q < maxsize
          /\ q' = q + 1 /\ queued' = queued \cup {Head(events)}
    /\ worker' = "mark"
    /\ UNCHANGED <<next_event, bookmark, events, connected, file>>

\* EvtUpdateBookmark, which fails on a handle that stop() has closed.
mark ==
    /\ worker = "mark"
    /\ IF hard_stop /\ evt_settings.bookmark_path THEN cleaned_up
       ELSE /\ bookmark' = Head(events) /\ events' = Tail(events)
            /\ worker' = "event"
            /\ UNCHANGED <<next_event, connected, q, queued, file>>

WorkerThread ==
    /\ poll \/ poll_ends \/ event \/ put \/ mark
    /\ UNCHANGED <<channel, evt_const, stop_event, hard_stop, stopper,
                   resumed_from, stops, sessions>>

-----------------------------------------------------------------------------
(* stop(): the flag, a join with a timeout, a forced stop, another join.   *)
stop_calls ==
    /\ stopper = "out" /\ stops < MaxStops
    /\ stops' = stops + 1
    /\ stop_event' = TRUE
    /\ IF worker = "none" /\ connected
       THEN /\ connected' = FALSE /\ next_event' = 0 /\ bookmark' = 0
            /\ file' = IF hard_stop THEN file ELSE saved
       ELSE UNCHANGED <<connected, next_event, bookmark, file>>
    /\ stopper' = IF worker = "none" THEN "out" ELSE "join"
    /\ UNCHANGED <<channel, evt_const, events, worker, q, queued, hard_stop,
                   resumed_from, sessions>>

stop_forces ==
    /\ stopper = "join" /\ thread_alive
    /\ hard_stop' = TRUE /\ stopper' = "forced"
    /\ UNCHANGED <<channel, evt_const, evt_thread, stop_event, resumed_from,
                   stops, sessions>>

stop_returns ==
    /\ stopper \in {"join", "forced"} /\ ~thread_alive
    /\ worker' = "none" /\ stopper' = "out"
    /\ UNCHANGED <<channel, evt_const, next_event, bookmark, events, connected,
                   q, queued, file, stop_event, hard_stop, resumed_from, stops,
                   sessions>>

\* TimeoutError: the thread is kept, for another stop().
stop_raises ==
    /\ stopper = "forced" /\ thread_alive
    /\ stopper' = "out"
    /\ UNCHANGED <<channel, evt_const, evt_thread, stop_event, hard_stop,
                   resumed_from, stops, sessions>>

crash ==
    /\ connected
    /\ worker' = "none" /\ events' = <<>> /\ q' = 0
    /\ connected' = FALSE /\ stop_event' = FALSE /\ hard_stop' = FALSE
    /\ stopper' = "out" /\ next_event' = 0 /\ bookmark' = 0
    /\ UNCHANGED <<channel, evt_const, queued, file, resumed_from, stops,
                   sessions>>

EvtNextStep ==
    \/ EventLogged \/ connect \/ start \/ emit
    \/ WorkerThread
    \/ stop_calls \/ stop_forces \/ stop_returns \/ stop_raises
    \/ crash

-----------------------------------------------------------------------------
EvtTypeOK ==
    /\ channel \in 0 .. MaxEvents /\ next_event \in 0 .. channel
    /\ file \in 0 .. channel \cup {NoFile} /\ bookmark \in 0 .. channel
    /\ worker \in {"none", "ended", "poll", "event", "put", "mark"}
    /\ stopper \in {"out", "join", "forced"}
    /\ queued \subseteq Events
    /\ maxsize # 0 => q <= maxsize

\* The events that the bookmark file says were read, and were not.
lost_events == {e \in Events : resumed_from < e /\ e <= file} \ queued

(* Across stops, forced stops, kills and resumed subscriptions the         *)
(* bookmark file runs ahead of the queue by at most one event for each     *)
(* call of stop() (subscribe.py:899-925, 811-819).                         *)
OneLostPerStop ==
    file # NoFile => Cardinality(lost_events) <= stops

(* After stop() the worker ends, also when it waits for room in a queue    *)
(* that nobody reads any more (:839-845).                                  *)
StoppedWorkerEnds ==
    stop_event ~> ~thread_alive

(* "If True and bookmark exists, resume after the saved bookmark" (:564)   *)
(* and "A bounded queue applies backpressure (producer waits when full)"   *)
(* (:587): an event before the saved bookmark was given to the reader's    *)
(* queue.  _put comes back without it after stop(), and it is marked.      *)
MarkedAreQueued ==
    file # NoFile => lost_events = {}
=============================================================================
