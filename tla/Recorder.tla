------------------------------ MODULE Recorder ------------------------------
(***************************************************************************)
(* The recorder of one connection, mitm/engines/__parent/                  *)
(* recorder___parent.py: record(), called by the threads of the            *)
(* connection, and the thread it starts, save_message_worker, which        *)
(* rewrites the connection's JSON file for every message                   *)
(* (append_to_json of file_io/jsons.py).                                   *)
(*                                                                         *)
(* A caller has one ClientMessage object, which it fills, hands to         *)
(* record() and reinitializes in every cycle; record() goes through        *)
(* attributes that the callers share.  The option record_pcap is off.      *)
(***************************************************************************)
EXTENDS Naturals, Sequences

CONSTANTS
    Callers,      \* the threads of the connection that record
    MaxMessages,  \* bound: messages of a caller
    LastDay,      \* bound: days
    SetupFails    \* the connection's setup may raise

ASSUME BoundsAssumption == {MaxMessages, LastDay} \subseteq Nat \ {0}
ASSUME FlagAssumption   == SetupFails \in BOOLEAN

Days == 1..LastDay
(* A recording's name: its day, and whose clock reading (to the second) it *)
(* carries; workers that start in the same second share it.                *)
Files == [day : Days, stamp : Callers]

(* What a ClientMessage object holds.  number 0 is an object whose         *)
(* timestamp is None; whole says that every field of the cycle is set.     *)
Messages == [of : Callers, number : 0..MaxMessages, whole : BOOLEAN]
Blank(c)    == [of |-> c, number |-> 0, whole |-> FALSE]
Partial(c, n) == [of |-> c, number |-> n, whole |-> FALSE]
Whole(c, n) == [of |-> c, number |-> n, whole |-> TRUE]

(* A file which json.load does not accept is "torn". *)
FileStates == [state : {"none", "torn", "json"}, entries : Seq(Messages)]
NoFile   == [state |-> "none", entries |-> <<>>]
TornFile == [state |-> "torn", entries |-> <<>>]
Json(entries) == [state |-> "json", entries |-> entries]

VARIABLES
    pc,            \* where each caller is
    object,        \* per caller: its ClientMessage
    calls,         \* per caller: how many messages it has given to record()
    setupFailed,   \* thread_worker_main failed before its threads started
    current,       \* self.class_client_message: whose object it is
    workerThread,  \* self.recorder_worker_thread is set
    messageQueue,  \* self.message_queue
    wpc,           \* where the worker is that a caller started
    previousDate,  \* per worker: previous_date_string
    recordFile,    \* per worker: record_file_path
    wmsg,          \* per worker: the message it holds
    loaded,        \* per worker: current_json_file
    files,         \* the engine's recordings
    day,           \* the day of the computer's clock
    written        \* history: which messages reached which files, in order

callerVars == <<pc, object, calls, setupFailed>>
sharedVars == <<current, workerThread, messageQueue>>
workerVars == <<wpc, previousDate, recordFile, wmsg, loaded>>
recorderVars == <<callerVars, sharedVars, workerVars, files, day, written>>

CallerPcs == {"cycle", "fill", "record", "check", "start", "put", "returned"}
WorkerPcs == {"none", "start", "date", "get", "read", "load", "open", "dump", "dead"}

Init ==
    /\ pc = [c \in Callers |-> "cycle"]
    /\ object = [c \in Callers |-> Blank(c)]
    /\ calls = [c \in Callers |-> 0]
    /\ setupFailed = FALSE
    /\ current \in Callers
    /\ workerThread = FALSE
    /\ messageQueue = <<>>
    /\ wpc = [w \in Callers |-> "none"]
    /\ previousDate = [w \in Callers |-> 1]
    /\ recordFile = [w \in Callers |-> [day |-> 1, stamp |-> w]]
    /\ wmsg = [w \in Callers |-> Blank(w)]
    /\ loaded = [w \in Callers |-> <<>>]
    /\ files = [f \in Files |-> NoFile]
    /\ day = 1
    /\ written = <<>>

---------------------------------------------------------------------------
(* A thread of the connection.                                             *)

Goto(c, label) == pc' = [pc EXCEPT ![c] = label]

(* A new cycle sets the timestamp first (connection_thread_worker.py). *)
new_message(c) ==
    /\ pc[c] = "cycle"
    /\ calls[c] < MaxMessages
    /\ ~setupFailed
    /\ object' = [object EXCEPT ![c] = Partial(c, calls[c] + 1)]
    /\ Goto(c, "fill")
    /\ UNCHANGED <<calls, setupFailed, sharedVars, workerVars, files, day, written>>

fill_message(c) ==
    /\ pc[c] = "fill"
    /\ object' = [object EXCEPT ![c] = Whole(c, calls[c] + 1)]
    /\ Goto(c, "record")
    /\ UNCHANGED <<calls, setupFailed, sharedVars, workerVars, files, day, written>>

(* The exception of a setup that fails is recorded in an object which has  *)
(* no timestamp yet, and the connection is over.                           *)
setup_raises(c) ==
    /\ SetupFails
    /\ \A d \in Callers : pc[d] = "cycle" /\ calls[d] = 0
    /\ ~setupFailed
    /\ setupFailed' = TRUE
    /\ Goto(c, "record")
    /\ UNCHANGED <<object, calls, sharedVars, workerVars, files, day, written>>

---------------------------------------------------------------------------
(* RecorderParent.record.                                                  *)

record(c) ==
    /\ pc[c] = "record"
    /\ current' = c
    /\ Goto(c, "check")
    /\ UNCHANGED <<object, calls, setupFailed, workerThread, messageQueue, workerVars, files,
                   day, written>>

check_worker(c) ==
    /\ pc[c] = "check"
    /\ Goto(c, IF workerThread THEN "put" ELSE "start")
    /\ UNCHANGED <<object, calls, setupFailed, sharedVars, workerVars, files, day, written>>

start_worker(c) ==
    /\ pc[c] = "start"
    /\ workerThread' = TRUE
    /\ wpc' = [wpc EXCEPT ![c] = "start"]
    /\ Goto(c, "put")
    /\ UNCHANGED <<object, calls, setupFailed, current, messageQueue, previousDate, recordFile,
                   wmsg, loaded, files, day, written>>

(* The copy is of the object which self.class_client_message names now. *)
Mutant_Queued_in_front(c) == <<object[current]>> \o messageQueue
Queued(c) == Append(messageQueue, object[current])

put_message(c) ==
    /\ pc[c] = "put"
    /\ messageQueue' = Queued(c)
    /\ calls' = [calls EXCEPT ![c] = @ + 1]
    /\ Goto(c, "returned")
    /\ UNCHANGED <<object, setupFailed, current, workerThread, workerVars, files, day, written>>

reinitialize_dynamic_vars(c) ==
    /\ pc[c] = "returned"
    /\ ~setupFailed
    /\ object' = [object EXCEPT ![c] = Blank(c)]
    /\ Goto(c, "cycle")
    /\ UNCHANGED <<calls, setupFailed, sharedVars, workerVars, files, day, written>>

---------------------------------------------------------------------------
(* save_message_worker.                                                    *)

(* The file's name is made from one reading of the clock, previous_date_   *)
(* string from the next one.                                               *)
worker_starts(w) ==
    /\ wpc[w] = "start"
    /\ \E s \in Callers : recordFile' = [recordFile EXCEPT ![w] = [day |-> day, stamp |-> s]]
    /\ wpc' = [wpc EXCEPT ![w] = "date"]
    /\ UNCHANGED <<callerVars, sharedVars, previousDate, wmsg, loaded, files, day, written>>

worker_reads_date(w) ==
    /\ wpc[w] = "date"
    /\ previousDate' = [previousDate EXCEPT ![w] = day]
    /\ wpc' = [wpc EXCEPT ![w] = "get"]
    /\ UNCHANGED <<callerVars, sharedVars, recordFile, wmsg, loaded, files, day, written>>

(* A new day takes a new file.  ClientMessage.__iter__ formats the         *)
(* timestamp: without one, AttributeError ends the thread.                 *)
HasTimestamp(m) == m.number # 0

message_queue_get(w) ==
    /\ wpc[w] = "get"
    /\ messageQueue # <<>>
    /\ messageQueue' = Tail(messageQueue)
    /\ wmsg' = [wmsg EXCEPT ![w] = Head(messageQueue)]
    /\ previousDate' = [previousDate EXCEPT ![w] = day]
    /\ IF previousDate[w] = day
         THEN UNCHANGED recordFile
         ELSE \E s \in Callers : recordFile' = [recordFile EXCEPT ![w] = [day |-> day, stamp |-> s]]
    /\ wpc' = [wpc EXCEPT ![w] = IF HasTimestamp(Head(messageQueue)) THEN "read" ELSE "dead"]
    /\ UNCHANGED <<callerVars, current, workerThread, loaded, files, day, written>>

(* append_to_json: open for reading, json.load, open for writing (which    *)
(* empties the file), json.dump.                                           *)
Mutant_append_open_missing(w) ==
    /\ wpc[w] = "read"
    /\ wpc' = [wpc EXCEPT ![w] = IF files[recordFile[w]].state = "none" THEN "dead" ELSE "load"]
    /\ loaded' = [loaded EXCEPT ![w] = <<>>]
    /\ UNCHANGED <<callerVars, sharedVars, previousDate, recordFile, wmsg, files, day, written>>
append_open_to_read(w) ==
    /\ wpc[w] = "read"
    /\ wpc' = [wpc EXCEPT ![w] = IF files[recordFile[w]].state = "none" THEN "open" ELSE "load"]
    /\ loaded' = [loaded EXCEPT ![w] = <<>>]
    /\ UNCHANGED <<callerVars, sharedVars, previousDate, recordFile, wmsg, files, day, written>>

append_load(w) ==
    /\ wpc[w] = "load"
    /\ IF files[recordFile[w]].state = "torn"
         THEN wpc' = [wpc EXCEPT ![w] = "dead"] /\ UNCHANGED loaded
         ELSE /\ loaded' = [loaded EXCEPT ![w] = files[recordFile[w]].entries]
              /\ wpc' = [wpc EXCEPT ![w] = "open"]
    /\ UNCHANGED <<callerVars, sharedVars, previousDate, recordFile, wmsg, files, day, written>>

append_open_to_write(w) ==
    /\ wpc[w] = "open"
    /\ files' = [files EXCEPT ![recordFile[w]] = TornFile]
    /\ wpc' = [wpc EXCEPT ![w] = "dump"]
    /\ UNCHANGED <<callerVars, sharedVars, previousDate, recordFile, wmsg, loaded, day, written>>

(* Over what another worker dumped since, the rest of its text may remain. *)
Mutant_Appended_alone(w) == <<wmsg[w]>>
Mutant_Appended_nested(w) == <<loaded[w], wmsg[w]>>
Appended(w) == Append(loaded[w], wmsg[w])

DumpResults(w) ==
    {Json(Appended(w))} \cup (IF files[recordFile[w]] = TornFile THEN {} ELSE {TornFile})

append_dump(w) ==
    /\ wpc[w] = "dump"
    /\ \E result \in DumpResults(w) : files' = [files EXCEPT ![recordFile[w]] = result]
    /\ written' = Append(written, [message |-> wmsg[w], file |-> recordFile[w]])
    /\ wpc' = [wpc EXCEPT ![w] = "get"]
    /\ UNCHANGED <<callerVars, sharedVars, previousDate, recordFile, wmsg, loaded, day>>

---------------------------------------------------------------------------

(* The clock (external). *)
midnight ==
    /\ day < LastDay
    /\ day' = day + 1
    /\ UNCHANGED <<callerVars, sharedVars, workerVars, files, written>>

Caller(c) ==
    \/ new_message(c) \/ fill_message(c) \/ setup_raises(c)
    \/ record(c) \/ check_worker(c) \/ start_worker(c) \/ put_message(c)
    \/ reinitialize_dynamic_vars(c)

Worker(w) ==
    \/ worker_starts(w) \/ worker_reads_date(w) \/ message_queue_get(w)
    \/ append_open_to_read(w) \/ append_load(w) \/ append_open_to_write(w) \/ append_dump(w)

RecorderNext == midnight \/ \E c \in Callers : Caller(c) \/ Worker(c)

(* The operating system runs a worker that can run. *)
RecorderFairness == \A w \in Callers : WF_recorderVars(Worker(w))

RecorderSpec == Init /\ [][RecorderNext]_recorderVars /\ RecorderFairness

---------------------------------------------------------------------------
(* Properties.                                                             *)

(* Every variable keeps its type. *)
RecorderTypeOK ==
    /\ pc \in [Callers -> CallerPcs]
    /\ object \in [Callers -> Messages]
    /\ calls \in [Callers -> 0..MaxMessages]
    /\ setupFailed \in BOOLEAN
    /\ current \in Callers
    /\ workerThread \in BOOLEAN
    /\ messageQueue \in Seq(Messages)
    /\ wpc \in [Callers -> WorkerPcs]
    /\ previousDate \in [Callers -> Days]
    /\ recordFile \in [Callers -> Files]
    /\ wmsg \in [Callers -> Messages]
    /\ loaded \in [Callers -> Seq(Messages)]
    /\ files \in [Files -> FileStates]
    /\ day \in Days
    /\ written \in Seq([message : Messages, file : Files])

(* Message n of caller c is in a file.                                     *)
Written(c, n) ==
    \E i \in 1..Len(written) : written[i].message = Whole(c, n)

(* Where one thread records, what reaches the files is what it recorded,   *)
(* each message whole, once and in the order of the calls.                 *)
(* (PutsItsArgument says what goes wrong where two do.)                    *)
EachOnceInOrder ==
    \A c \in Callers : Callers = {c} =>
        \A i \in 1..Len(written) : written[i].message = Whole(c, i)

(* "Put a copy of the client message object to the queue, so the worker    *)
(* can convert to JSON and/or pcap independently" (lines 92-93): the copy  *)
(* is of the object record() was called with, as it is at the call.        *)
PutsItsArgument ==
    [][\A c \in Callers : put_message(c) => messageQueue'[Len(messageQueue')] = object[c]]_recorderVars

=============================================================================
