-------------------------- MODULE RecsArchiveProofs --------------------------
(***************************************************************************)
(* Theorems about Recorder and RecsArchive, for every value of their       *)
(* constants: one thread's messages are recorded once and in order, also   *)
(* where processes die, no recorded entry is lost, and the archiver leaves *)
(* today's files alone.                                                    *)
(*                                                                         *)
(* What is recorded has at every time one place that holds all of it: its  *)
(* file, the memory of the worker that is rewriting it, the directory of   *)
(* its day, or the zip file of its day.  The steps of the archiver and of  *)
(* the recorder hand it on; those that cannot are the accidents which the  *)
(* history variable spoiled marks.                                         *)
(***************************************************************************)
EXTENDS RecsArchive, SequenceTheorems, TLAPS

-----------------------------------------------------------------------------
(* The recorder by itself: the type invariant, and that one recording      *)
(* thread has its messages written once and in order.  The messages of the *)
(* only caller are numbered; those that are written, the one in the        *)
(* worker's hands and those in the queue are, in this order, its calls so  *)
(* far, until the worker dies.                                             *)

(* A caller in record() has not used up its bound. *)
Recording == {"fill", "record", "check", "start", "put"}
CallsLeft == \A c \in Callers : pc[c] \in Recording => calls[c] < MaxMessages

TypeInv == RecorderTypeOK /\ CallsLeft

LEMMA BoundsAreNumbers == /\ MaxMessages \in Nat /\ MaxMessages >= 1
                          /\ LastDay \in Nat /\ LastDay >= 1
  BY BoundsAssumption

LEMMA MessagesAreTyped ==
    ASSUME NEW c \in Callers
    PROVE  /\ Blank(c) \in Messages
           /\ \A n \in 0..MaxMessages : Partial(c, n) \in Messages /\ Whole(c, n) \in Messages
  BY BoundsAreNumbers DEF Blank, Partial, Whole, Messages

LEMMA TypesHoldAtFirst == Init => TypeInv
<1> SUFFICES ASSUME Init PROVE TypeInv
  OBVIOUS
<1> USE DEF Init
<1>1. RecorderTypeOK
  <2>1. /\ pc \in [Callers -> CallerPcs] /\ wpc \in [Callers -> WorkerPcs]
    BY DEF CallerPcs, WorkerPcs
  <2>2. object \in [Callers -> Messages] /\ wmsg \in [Callers -> Messages]
    BY MessagesAreTyped
  <2>3. calls \in [Callers -> 0..MaxMessages]
    BY BoundsAreNumbers
  <2>4. 1 \in Days
    BY BoundsAreNumbers DEF Days
  <2>5. previousDate \in [Callers -> Days] /\ recordFile \in [Callers -> Files] /\ day \in Days
    BY <2>4 DEF Files
  <2>6. loaded \in [Callers -> Seq(Messages)]
    OBVIOUS
  <2>7. NoFile \in FileStates
    BY DEF NoFile, FileStates
  <2>8. files \in [Files -> FileStates]
    BY <2>7
  <2>9. messageQueue \in Seq(Messages) /\ written \in Seq([message : Messages, file : Files])
    OBVIOUS
  <2> QED
    BY <2>1, <2>2, <2>3, <2>5, <2>6, <2>8, <2>9 DEF RecorderTypeOK
<1>2. CallsLeft
  BY DEF CallsLeft, Recording
<1> QED
  BY <1>1, <1>2 DEF TypeInv

LEMMA TypesArePreserved == TypeInv /\ [RecorderNext]_recorderVars => TypeInv'
<1> SUFFICES ASSUME TypeInv, [RecorderNext]_recorderVars
             PROVE  TypeInv'
  OBVIOUS
<1> USE DEF TypeInv, CallsLeft, Recording
<1>t. RecorderTypeOK
  OBVIOUS
<1>1. ASSUME NEW c \in Callers, Caller(c)
      PROVE  TypeInv'
  <2> USE DEF CallerPcs, Goto
  <2>1. CASE new_message(c)
    <3>1. calls[c] + 1 \in 0..MaxMessages
      BY <1>t, <2>1, BoundsAreNumbers DEF new_message, RecorderTypeOK
    <3>2. object' \in [Callers -> Messages]
      BY <1>t, <2>1, <3>1, MessagesAreTyped DEF new_message, RecorderTypeOK
    <3> QED
      BY <1>t, <2>1, <3>2 DEF new_message, RecorderTypeOK, sharedVars, workerVars
  <2>2. CASE fill_message(c)
    <3>0. calls[c] + 1 \in 0..MaxMessages
      BY <1>t, <2>2, BoundsAreNumbers DEF fill_message, RecorderTypeOK
    <3>1. object' \in [Callers -> Messages]
      BY <1>t, <2>2, <3>0, MessagesAreTyped DEF fill_message, RecorderTypeOK
    <3> QED
      BY <1>t, <2>2, <3>1 DEF fill_message, RecorderTypeOK, sharedVars, workerVars
  <2>3. CASE setup_raises(c)
    BY <1>t, <2>3, BoundsAreNumbers DEF setup_raises, RecorderTypeOK, sharedVars, workerVars
  <2>4. CASE record(c)
    BY <1>t, <2>4 DEF record, RecorderTypeOK, workerVars
  <2>5. CASE check_worker(c)
    BY <1>t, <2>5 DEF check_worker, RecorderTypeOK, sharedVars, workerVars
  <2>6. CASE start_worker(c)
    BY <1>t, <2>6 DEF start_worker, RecorderTypeOK, WorkerPcs
  <2>7. CASE put_message(c)
    <3>1. messageQueue' \in Seq(Messages)
      BY <1>t, <2>7 DEF put_message, Queued, RecorderTypeOK
    <3>2. calls' \in [Callers -> 0..MaxMessages]
      BY <1>t, <2>7, BoundsAreNumbers DEF put_message, RecorderTypeOK
    <3> QED
      BY <1>t, <2>7, <3>1, <3>2 DEF put_message, RecorderTypeOK, workerVars
  <2>8. CASE reinitialize_dynamic_vars(c)
    <3>1. object' \in [Callers -> Messages]
      BY <1>t, <2>8, MessagesAreTyped DEF reinitialize_dynamic_vars, RecorderTypeOK
    <3> QED
      BY <1>t, <2>8, <3>1 DEF reinitialize_dynamic_vars, RecorderTypeOK, sharedVars, workerVars
  <2> QED
    BY <1>1, <2>1, <2>2, <2>3, <2>4, <2>5, <2>6, <2>7, <2>8 DEF Caller
<1>2. ASSUME NEW w \in Callers, Worker(w)
      PROVE  TypeInv'
  <2> USE DEF WorkerPcs, callerVars, sharedVars
  <2>d. day \in Days /\ \A s \in Callers : [day |-> day, stamp |-> s] \in Files
    BY <1>t DEF RecorderTypeOK, Files
  <2>f. \A q \in Seq(Messages) : Json(q) \in FileStates
    BY DEF Json, FileStates
  <2>g. TornFile \in FileStates
    BY DEF TornFile, FileStates
  <2>1. CASE worker_starts(w)
    BY <1>t, <2>d, <2>1 DEF worker_starts, RecorderTypeOK
  <2>2. CASE worker_reads_date(w)
    BY <1>t, <2>d, <2>2 DEF worker_reads_date, RecorderTypeOK
  <2>3. CASE message_queue_get(w)
    <3>1. messageQueue' \in Seq(Messages) /\ Head(messageQueue) \in Messages
      BY <1>t, <2>3 DEF message_queue_get, RecorderTypeOK
    <3>2. recordFile' \in [Callers -> Files]
      BY <1>t, <2>d, <2>3 DEF message_queue_get, RecorderTypeOK
    <3> QED
      BY <1>t, <2>d, <2>3, <3>1, <3>2 DEF message_queue_get, RecorderTypeOK
  <2>4. CASE append_open_to_read(w)
    <3>1. loaded' \in [Callers -> Seq(Messages)]
      BY <1>t, <2>4 DEF append_open_to_read, RecorderTypeOK
    <3> QED
      BY <1>t, <2>4, <3>1 DEF append_open_to_read, RecorderTypeOK
  <2>5. CASE append_load(w)
    <3>1. loaded' \in [Callers -> Seq(Messages)]
      BY <1>t, <2>5 DEF append_load, RecorderTypeOK, FileStates
    <3> QED
      BY <1>t, <2>5, <3>1 DEF append_load, RecorderTypeOK
  <2>6. CASE append_open_to_write(w)
    BY <1>t, <2>g, <2>6 DEF append_open_to_write, RecorderTypeOK
  <2>7. CASE append_dump(w)
    <3>1. Appended(w) \in Seq(Messages)
      BY <1>t DEF Appended, RecorderTypeOK
    <3>2. DumpResults(w) \subseteq FileStates
      BY <2>f, <2>g, <3>1 DEF DumpResults
    <3>3. files' \in [Files -> FileStates]
      BY <1>t, <2>7, <3>2 DEF append_dump, RecorderTypeOK
    <3>4. written' \in Seq([message : Messages, file : Files])
      BY <1>t, <2>7 DEF append_dump, RecorderTypeOK
    <3> QED
      BY <1>t, <2>7, <3>3, <3>4 DEF append_dump, RecorderTypeOK
  <2> QED
    BY <1>2, <2>1, <2>2, <2>3, <2>4, <2>5, <2>6, <2>7 DEF Worker
<1>3. CASE midnight
  BY <1>t, <1>3, BoundsAreNumbers
  DEF midnight, RecorderTypeOK, Days, callerVars, sharedVars, workerVars
<1>4. CASE UNCHANGED recorderVars
  BY <1>t, <1>4 DEF RecorderTypeOK, recorderVars, callerVars, sharedVars, workerVars
<1> QED
  BY <1>1, <1>2, <1>3, <1>4 DEF RecorderNext

(* Every variable of a recorder keeps its type, however many threads call  *)
(* record() and however many messages and days there are.                  *)
THEOREM RecorderTypeCorrect == RecorderSpec => []RecorderTypeOK
<1>1. TypeInv => RecorderTypeOK
  BY DEF TypeInv
<1> QED
  BY TypesHoldAtFirst, TypesArePreserved, <1>1, PTL DEF RecorderSpec

---------------------------------------------------------------------------
(* One recording thread.                                                   *)

Busy == {"read", "load", "open", "dump"}
InHand(c) == IF wpc[c] \in Busy THEN 1 ELSE 0

(* The object's content follows the caller through its cycle. *)
ObjectFollows(c) ==
    /\ pc[c] = "cycle" \/ setupFailed => object[c].number = 0
    /\ pc[c] = "fill" =>
          ~setupFailed /\ object[c] = Partial(c, calls[c] + 1)
    /\ pc[c] \in {"record", "check", "start", "put"} /\ ~setupFailed =>
          object[c] = Whole(c, calls[c] + 1)

(* The caller starts its worker once, before its first message.  (A worker *)
(* that never was may be dead: RecsArchiveProofs, where processes die.)    *)
OneWorker(c) ==
    /\ workerThread => wpc[c] # "none"
    /\ pc[c] = "start" => ~workerThread
    /\ pc[c] = "put" => workerThread
    /\ ~workerThread => wpc[c] \in {"none", "dead"} /\ calls[c] = 0
    /\ calls[c] = 0 => wpc[c] \notin Busy /\ messageQueue = <<>> /\ written = <<>>

(* Every call is written, in hand or in the queue, at its place. *)
InPlace(c) ==
    /\ wpc[c] \in Busy => wmsg[c] = Whole(c, Len(written) + 1)
    /\ wpc[c] # "dead" =>
          /\ calls[c] = Len(written) + InHand(c) + Len(messageQueue)
          /\ \A i \in 1..Len(messageQueue) :
                messageQueue[i] = Whole(c, Len(written) + InHand(c) + i)

(* The message of a failed setup ends the worker. *)
NothingAfterSetup(c) ==
    /\ wpc[c] \notin Busy
    /\ written = <<>>
    /\ \A i \in 1..Len(messageQueue) : messageQueue[i].number = 0

Pipeline(c) ==
    /\ ObjectFollows(c)
    /\ OneWorker(c)
    /\ IF setupFailed THEN NothingAfterSetup(c) ELSE InPlace(c)
    /\ \A i \in 1..Len(written) : written[i].message = Whole(c, i)

LEMMA PipelineHoldsAtFirst ==
    ASSUME NEW c \in Callers, Callers = {c}, Init
    PROVE  Pipeline(c)
  BY DEF Init, Pipeline, ObjectFollows, OneWorker, InPlace, InHand, Busy, Blank

LEMMA PipelineIsPreserved ==
    ASSUME NEW c \in Callers, Callers = {c}, TypeInv, Pipeline(c), [RecorderNext]_recorderVars
    PROVE  Pipeline(c)'
<1> USE DEF Pipeline, ObjectFollows, OneWorker, InPlace, InHand, Busy, NothingAfterSetup
<1>t. /\ pc \in [Callers -> CallerPcs] /\ wpc \in [Callers -> WorkerPcs]
      /\ object \in [Callers -> Messages] /\ wmsg \in [Callers -> Messages]
      /\ calls \in [Callers -> Nat] /\ messageQueue \in Seq(Messages)
      /\ written \in Seq([message : Messages, file : Files])
      /\ workerThread \in BOOLEAN /\ setupFailed \in BOOLEAN
      /\ current = c
  BY BoundsAreNumbers DEF TypeInv, RecorderTypeOK
<1>l. Len(written) \in Nat /\ Len(messageQueue) \in Nat
  BY <1>t
<1>n. calls[c] \in Nat
  BY <1>t
<1>1. CASE Caller(c)
  <2> USE DEF Goto, workerVars
  <2>1. CASE new_message(c)
    BY <1>t, <1>l, <2>1 DEF new_message, sharedVars
  <2>2. CASE fill_message(c)
    BY <1>t, <1>l, <2>2 DEF fill_message, sharedVars, Whole
  <2>3. CASE setup_raises(c)
    BY <1>t, <1>l, <2>3 DEF setup_raises, sharedVars
  <2>4. CASE record(c)
    BY <1>t, <1>l, <2>4 DEF record
  <2>5. CASE check_worker(c)
    BY <1>t, <1>l, <2>5 DEF check_worker, sharedVars
  <2>6. CASE start_worker(c)
    BY <1>t, <1>l, <2>6 DEF start_worker
  <2>7. CASE put_message(c)
    <3>1. /\ messageQueue' = Append(messageQueue, object[c])
          /\ Len(messageQueue') = Len(messageQueue) + 1
          /\ \A i \in 1..Len(messageQueue) : messageQueue'[i] = messageQueue[i]
          /\ messageQueue'[Len(messageQueue) + 1] = object[c]
      BY <1>t, <2>7 DEF put_message, Queued
    <3>2. /\ calls'[c] = calls[c] + 1 /\ pc'[c] = "returned"
          /\ UNCHANGED <<object, setupFailed, workerThread, wpc, wmsg, written>>
      BY <1>t, <2>7 DEF put_message
    <3>3. CASE setupFailed
      BY <1>t, <1>l, <2>7, <3>1, <3>2, <3>3 DEF put_message
    <3>4. CASE ~setupFailed
      <4>1. object[c] = Whole(c, calls[c] + 1)
        BY <2>7, <3>4 DEF put_message
      <4>2. InPlace(c)'
        <5>1. InHand(c)' = InHand(c) /\ InHand(c) \in Nat
          BY <3>2
        <5> HIDE DEF InHand
        <5>2. ASSUME wpc[c] # "dead", NEW i \in 1..Len(messageQueue')
              PROVE  messageQueue'[i] = Whole(c, Len(written) + InHand(c) + i)
          <6>1. CASE i \in 1..Len(messageQueue)
            BY <3>1, <3>4, <5>2, <6>1
          <6>2. CASE i = Len(messageQueue) + 1
            <7>1. calls[c] = Len(written) + InHand(c) + Len(messageQueue)
              BY <3>4, <5>2
            <7>2. calls[c] + 1 = Len(written) + InHand(c) + i
              BY <1>n, <1>l, <5>1, <6>2, <7>1
            <7> QED
              BY <3>1, <4>1, <6>2, <7>2
          <6> QED
            BY <1>l, <3>1, <6>1, <6>2
        <5>3. wpc[c] # "dead" =>
                calls'[c] = Len(written) + InHand(c) + Len(messageQueue')
          <6>1. wpc[c] # "dead" => calls[c] = Len(written) + InHand(c) + Len(messageQueue)
            BY <3>4
          <6> QED
            BY <1>n, <1>l, <3>1, <3>2, <5>1, <6>1
        <5> QED
          BY <1>t, <1>l, <3>2, <3>4, <5>1, <5>2, <5>3
      <4> QED
        <5>1. OneWorker(c)'
          BY <1>t, <1>n, <3>2, <2>7 DEF put_message
        <5>2. ObjectFollows(c)'
          BY <3>2, <3>4
        <5> QED
          BY <3>2, <3>4, <4>2, <5>1, <5>2
    <3> QED
      BY <3>3, <3>4
  <2>8. CASE reinitialize_dynamic_vars(c)
    BY <1>t, <1>l, <2>8 DEF reinitialize_dynamic_vars, sharedVars, Blank
  <2> QED
    BY <1>1, <2>1, <2>2, <2>3, <2>4, <2>5, <2>6, <2>7, <2>8 DEF Caller
<1>2. CASE Worker(c)
  <2> USE DEF callerVars
  <2>1. CASE worker_starts(c)
    BY <1>t, <1>l, <2>1 DEF worker_starts, sharedVars
  <2>2. CASE worker_reads_date(c)
    BY <1>t, <1>l, <2>2 DEF worker_reads_date, sharedVars
  <2>3. CASE message_queue_get(c)
    BY <1>t, <1>l, <2>3 DEF message_queue_get, HasTimestamp, Whole
  <2>4. CASE append_open_to_read(c)
    BY <1>t, <1>l, <2>4 DEF append_open_to_read, sharedVars
  <2>5. CASE append_load(c)
    BY <1>t, <1>l, <2>5 DEF append_load, sharedVars
  <2>6. CASE append_open_to_write(c)
    BY <1>t, <1>l, <2>6 DEF append_open_to_write, sharedVars
  <2>7. CASE append_dump(c)
    BY <1>t, <1>l, <2>7 DEF append_dump, sharedVars
  <2> QED
    BY <1>2, <2>1, <2>2, <2>3, <2>4, <2>5, <2>6, <2>7 DEF Worker
<1>3. CASE midnight
  BY <1>3 DEF midnight, callerVars, sharedVars, workerVars
<1>4. CASE UNCHANGED recorderVars
  BY <1>4 DEF recorderVars, callerVars, sharedVars, workerVars
<1> QED
  BY <1>1, <1>2, <1>3, <1>4 DEF RecorderNext

OnePipeline == \A c \in Callers : Callers = {c} => Pipeline(c)

(* Where one thread records, what reaches the files is what it recorded,   *)
(* each message whole, once and in order: for any number of messages and   *)
(* days, with a worker that midnight, a torn file or a failed setup finds  *)
(* at any point.                                                           *)
THEOREM RecordedOnceInOrder == RecorderSpec => []EachOnceInOrder
<1>1. Init => TypeInv /\ OnePipeline
  BY TypesHoldAtFirst, PipelineHoldsAtFirst DEF OnePipeline
<1>2. TypeInv /\ OnePipeline /\ [RecorderNext]_recorderVars => (TypeInv /\ OnePipeline)'
  BY TypesArePreserved, PipelineIsPreserved DEF OnePipeline
<1>3. OnePipeline => EachOnceInOrder
  BY DEF OnePipeline, Pipeline, EachOnceInOrder
<1> QED
  BY <1>1, <1>2, <1>3, PTL DEF RecorderSpec

-----------------------------------------------------------------------------
(* The recorder and the archiver.                                          *)

(* The recordings that the archiver has begun with stay begun with. *)
Taken(d) == d \in dayDirs \/ zip[d].state # "none"

IsEntry(f, m)    == \E i \in 1..Len(written) : written[i].file = f /\ written[i].message = m
HoldsAll(file, f) == \A m \in Messages : IsEntry(f, m) => Has(file, m)
LoadedAll(w, f)  ==
    \A m \in Messages : IsEntry(f, m) => \E i \in 1..Len(loaded[w]) : loaded[w][i] = m

(* One worker at a time, which has what it rewrites in its hands. *)
WorkerHoldsFile(w) ==
    /\ pc[w] = "start" => ~workerThread
    /\ ~workerThread => wpc[w] \in {"none", "dead"}
    /\ wpc[w] = "open" => files[recordFile[w]] = NoFile
                          \/ files[recordFile[w]].entries = loaded[w]
    /\ wpc[w] = "dump" => files[recordFile[w]] = TornFile

(* What the archiver holds a list of is there. *)
ListsAreTrue ==
    /\ \A f \in Files : files[f].state = "none" => files[f] = NoFile
    /\ apc = "move" => \A f \in toMove : files[f] # NoFile
    /\ apc \in {"archive", "write", "remove"} => directories \subseteq dayDirs
    /\ apc \in {"write", "remove"} => directory \in dayDirs \ directories
    /\ apc = "remove" => zip[directory].state = "zip"

(* The place that has every entry of a recording. *)
WithRecorder(w, f) ==
    IF wpc[w] = "dump" /\ recordFile[w] = f THEN LoadedAll(w, f) ELSE HoldsAll(files[f], f)

Removing(d) == apc = "remove" /\ directory = d
WithArchiver(f) ==
    /\ Taken(f.day)
    /\ IF f.day \in dayDirs /\ ~Removing(f.day)
         THEN HoldsAll(dayDir[f.day][f], f)
         ELSE HoldsAll(zip[f.day].content[f], f)

InOnePlace(w, f) ==
    IF files[f] # NoFile THEN WithRecorder(w, f)
                         ELSE (\E m \in Messages : IsEntry(f, m)) => WithArchiver(f)

EntriesInOnePlace(w) == \A f \in Files : f.day \in spoiled \/ InOnePlace(w, f)

(* Whoever waits is not answered before the archiver has ended; while it   *)
(* runs at the start there is no recorder, while it runs at midnight there *)
(* is no next midnight.                                                    *)
ArchiverAlone ==
    /\ mpc \notin {"wait_at_start", "wait_at_midnight"} \/ ~ArchiverIsFree => answers = <<>>
    /\ ~ArchiverIsFree => mpc \in {"wait_at_start", "wait_at_midnight"}
    /\ Len(answers) <= 1

DaysGoOn ==
    /\ \A f \in Files : files[f] # NoFile => f.day <= day
    /\ \A w \in Callers : recordFile[w].day <= day
    /\ apc \in {"started", "move"} =>
          today <= day /\ (mpc = "wait_at_midnight" => today = day)
    /\ apc = "started" => \A f \in Files : files[f] # NoFile => f.day <= today
    /\ apc = "move" => \A f \in toMove : f.day <= today
---------------------------------------------------------------------------
(* Types.                                                                  *)

Types == TypeOK /\ CallsLeft

(* A directory is empty at first, and so is a zip file. *)
LEMMA ContentsAreTyped ==
    /\ NoFile \in FileStates /\ NoFile.state = "none"
    /\ TornFile.state = "torn" /\ TornFile.entries = <<>>
    /\ Nothing \in [Files -> FileStates]
    /\ \A s \in {"none", "torn", "zip"} : \A content \in [Files -> FileStates] :
          [state |-> s, content |-> content] \in Zips
<1>1. NoFile \in FileStates /\ NoFile.state = "none"
  BY DEF NoFile, FileStates
<1>2. TornFile.state = "torn" /\ TornFile.entries = <<>>
  BY DEF TornFile
<1> QED
  BY <1>1, <1>2 DEF Nothing, Zips

(* The day of a recording is a day. *)
LEMMA DaysOfFiles == 1 \in Days /\ \A f \in Files : f.day \in Days
  BY BoundsAreNumbers DEF Days, Files

(* The types hold at first. *)
LEMMA ArchiveTypesAtFirst == ArchiveInit => Types
<1> SUFFICES ASSUME ArchiveInit PROVE Types
  OBVIOUS
<1>1. RecorderTypeOK /\ CallsLeft
  BY TypesHoldAtFirst DEF ArchiveInit, TypeInv
<1>2. dayDir \in [Days -> [Files -> FileStates]] /\ zip \in [Days -> Zips]
  BY ContentsAreTyped DEF ArchiveInit
<1>3. today \in Days /\ directory \in Days /\ previousDay \in Days
  BY DaysOfFiles DEF ArchiveInit
<1>4. crashes \in 0..MaxCrashes
  BY CrashesAssumption DEF ArchiveInit
<1> QED
  BY <1>1, <1>2, <1>3, <1>4 DEF ArchiveInit, Types, TypeOK

(* Steps that leave the recorder alone keep its types. *)
LEMMA RecorderTypesStay ==
    ASSUME Types, UNCHANGED recorderVars PROVE RecorderTypeOK' /\ CallsLeft'
  BY DEF Types, TypeOK, RecorderTypeOK, CallsLeft, recorderVars, callerVars, sharedVars,
         workerVars

(* Every step keeps the types. *)
LEMMA ArchiveTypesStep == Types /\ [Next]_vars => Types'
<1> SUFFICES ASSUME Types, [Next]_vars PROVE Types'
  OBVIOUS
<1> USE DEF mainVars, archiverVars, archiveVars, historyVars
<1>t. /\ mpc \in {"start", "wait_at_start", "serving", "wait_at_midnight", "stopped"}
      /\ apc \in {"none", "died", "spawned", "started", "move", "archive", "write", "remove"}
      /\ today \in Days /\ toMove \subseteq Files /\ directories \subseteq Days
      /\ directory \in Days /\ answers \in Seq({"done", "error"}) /\ previousDay \in Days
      /\ dayDirs \subseteq Days /\ dayDir \in [Days -> [Files -> FileStates]]
      /\ zip \in [Days -> Zips] /\ crashes \in 0..MaxCrashes /\ spoiled \subseteq Days
      /\ day \in Days /\ files \in [Files -> FileStates]
  BY DEF Types, TypeOK, RecorderTypeOK
<1>a. answers # <<>> => Tail(answers) \in Seq({"done", "error"})
  BY <1>t
<1>b. \A x \in {"done", "error"} : Append(answers, x) \in Seq({"done", "error"})
  BY <1>t
<1>c. \A d \in Days : zip[d] \in Zips /\ zip[d].content \in [Files -> FileStates]
                      /\ dayDir[d] \in [Files -> FileStates]
  BY <1>t DEF Zips
<1>1. CASE Main
  <2>1. RecorderTypeOK' /\ CallsLeft'
    <3>1. UNCHANGED recorderVars
      BY <1>1 DEF Main, recs_archiver_in_process, start_server, loop_at_midnight,
                  loop_at_midnight_goes_on
    <3> QED
      BY <3>1, RecorderTypesStay
  <2> QED
    BY <1>t, <1>a, <1>1, <2>1 DEF Main, recs_archiver_in_process, start_server,
       loop_at_midnight, loop_at_midnight_goes_on, Types, TypeOK, recorderVars
<1>2. CASE Archiver
  <2> USE DEF ArchiverEnds
  <2>1. ASSUME NEW f \in Files, move_file(f) PROVE Types'
    <3>1. RecorderTypeOK' /\ CallsLeft'
      BY <1>t, <2>1, ContentsAreTyped DEF move_file, Types, TypeOK, RecorderTypeOK, CallsLeft,
         callerVars, sharedVars, workerVars
    <3>2. f.day \in Days /\ files[f] \in FileStates
      BY <1>t, DaysOfFiles
    <3>3. dayDir' \in [Days -> [Files -> FileStates]]
      BY <1>t, <1>c, <2>1, <3>2 DEF move_file
    <3> QED
      BY <1>t, <2>1, <3>1, <3>2, <3>3 DEF move_file, Types, TypeOK
  <2>2. ASSUME NEW f \in Files, move_raises(f) PROVE Types'
    <3>1. RecorderTypeOK' /\ CallsLeft'
      BY <2>2, RecorderTypesStay DEF move_raises
    <3> QED
      BY <1>t, <1>b, <2>2, <3>1, DaysOfFiles DEF move_raises, Types, TypeOK
  <2>3. ASSUME NEW f \in Files, rmtree_file(f) PROVE Types'
    <3>1. RecorderTypeOK' /\ CallsLeft'
      BY <2>3, RecorderTypesStay DEF rmtree_file
    <3>2. dayDir' \in [Days -> [Files -> FileStates]]
      BY <1>t, <1>c, <2>3, ContentsAreTyped DEF rmtree_file
    <3> QED
      BY <1>t, <2>3, <3>1, <3>2 DEF rmtree_file, Types, TypeOK
  <2>4. ASSUME NEW d \in Days, archive_open(d) PROVE Types'
    <3>1. RecorderTypeOK' /\ CallsLeft'
      BY <2>4, RecorderTypesStay DEF archive_open
    <3>2. zip' \in [Days -> Zips]
      BY <1>t, <2>4, ContentsAreTyped DEF archive_open
    <3> QED
      BY <1>t, <2>4, <3>1, <3>2 DEF archive_open, Types, TypeOK
  <2>5. CASE archive_write
    <3>1. RecorderTypeOK' /\ CallsLeft'
      BY <2>5, RecorderTypesStay DEF archive_write
    <3>2. zip' \in [Days -> Zips]
      BY <1>t, <1>c, <2>5, ContentsAreTyped DEF archive_write
    <3> QED
      BY <1>t, <2>5, <3>1, <3>2 DEF archive_write, Types, TypeOK
  <2>6. CASE list_recordings \/ list_directories \/ recs_archiver \/ stray_file
    <3>1. RecorderTypeOK' /\ CallsLeft'
      BY <2>6, RecorderTypesStay DEF list_recordings, list_directories, recs_archiver, stray_file
    <3> QED
      BY <1>t, <2>6, <3>1 DEF list_recordings, list_directories, recs_archiver, stray_file,
         Names, Types, TypeOK
  <2>7. CASE rmtree_directory \/ rmtree_fails \/ finalize_output_queue_put
    <3>1. RecorderTypeOK' /\ CallsLeft'
      BY <2>7, RecorderTypesStay DEF rmtree_directory, rmtree_fails, finalize_output_queue_put
    <3> QED
      BY <1>t, <1>b, <2>7, <3>1 DEF rmtree_directory, rmtree_fails, finalize_output_queue_put,
         HalfRemoved, Types, TypeOK
  <2> QED
    BY <1>2, <2>1, <2>2, <2>3, <2>4, <2>5, <2>6, <2>7 DEF Archiver
<1>3. ASSUME NEW c \in Callers, Connection(c) \/ RecorderWorker(c) PROVE Types'
  <2>1. RecorderTypeOK' /\ CallsLeft'
    BY <1>3, TypesArePreserved DEF Types, TypeOK, TypeInv, Connection, RecorderWorker,
       RecorderNext
  <2> QED
    BY <1>t, <1>3, <2>1, DaysOfFiles DEF Connection, RecorderWorker, Serving, Late, Types, TypeOK
<1>4. CASE Midnight
  <2>1. RecorderTypeOK' /\ CallsLeft'
    BY <1>4, TypesArePreserved DEF Types, TypeOK, TypeInv, Midnight, RecorderNext
  <2> QED
    BY <1>t, <1>4, <2>1 DEF Midnight, Types, TypeOK
<1>5. CASE crash
  <2>1. RecorderTypeOK' /\ CallsLeft'
    BY <1>5 DEF crash, Types, TypeOK, RecorderTypeOK, CallsLeft, Recording, CallerPcs, WorkerPcs
  <2>2. spoiled' \subseteq Days
    <3>1. recordFile \in [Callers -> Files]
      BY DEF Types, TypeOK, RecorderTypeOK
    <3> QED
      BY <1>t, <1>5, <3>1, DaysOfFiles DEF crash, HalfRemoved
  <2>3. crashes' \in 0..MaxCrashes
    BY <1>t, <1>5, CrashesAssumption DEF crash
  <2> QED
    BY <1>t, <1>5, <2>1, <2>2, <2>3 DEF crash, Types, TypeOK
<1>6. CASE UNCHANGED vars
  <2>1. RecorderTypeOK' /\ CallsLeft'
    BY <1>6, RecorderTypesStay DEF vars
  <2> QED
    BY <1>t, <1>6, <2>1 DEF vars, Types, TypeOK
<1> QED
  BY <1>1, <1>2, <1>3, <1>4, <1>5, <1>6 DEF Next

(* Every variable of the recorder, the main process and the archiver keeps *)
(* its type.                                                               *)
THEOREM TypeCorrect == Spec => []TypeOK
<1>1. Types => TypeOK
  BY DEF Types
<1> QED
  BY ArchiveTypesAtFirst, ArchiveTypesStep, <1>1, PTL DEF Spec

---------------------------------------------------------------------------
(* The days.                                                               *)

(* What the steps of the recorder and of the clock do to the archiver. *)
LEMMA RecorderLeavesArchiver ==
    ASSUME [Next]_vars, ~Main, ~Archiver, ~crash
    PROVE  /\ UNCHANGED <<mainVars, archiverVars, archiveVars, crashes>>
           /\ spoiled \subseteq spoiled'
  BY DEF Next, Connection, RecorderWorker, Serving, Midnight, vars, historyVars

(* One answer at a time, and none before the archiver has ended. *)
LEMMA AloneStep == Types /\ ArchiverAlone /\ [Next]_vars => ArchiverAlone'
<1> SUFFICES ASSUME Types, ArchiverAlone, [Next]_vars PROVE ArchiverAlone'
  OBVIOUS
<1> USE DEF ArchiverAlone, ArchiverIsFree
<1>t. answers \in Seq({"done", "error"})
      /\ apc \in {"none", "died", "spawned", "started", "move", "archive", "write", "remove"}
  BY DEF Types, TypeOK
<1>1. CASE Main
  <2>1. CASE recs_archiver_in_process \/ loop_at_midnight
    BY <2>1 DEF recs_archiver_in_process, loop_at_midnight
  <2>2. CASE start_server \/ loop_at_midnight_goes_on
    <3>1. answers # <<>> /\ answers' = Tail(answers) /\ apc' = apc
      BY <2>2 DEF start_server, loop_at_midnight_goes_on, archiverVars
    <3>2. answers' = <<>>
      BY <1>t, <3>1
    <3>3. ArchiverIsFree
      BY <3>1
    <3> QED
      BY <3>1, <3>2, <3>3
  <2> QED
    BY <1>1, <2>1, <2>2 DEF Main
<1>2. CASE Archiver
  <2>1. CASE \E f \in Files : move_raises(f)
    <3>1. answers = <<>> /\ answers' = Append(answers, "error") /\ apc' = "none" /\ mpc' = mpc
          /\ mpc \in {"wait_at_start", "wait_at_midnight"}
      BY <2>1 DEF move_raises, ArchiverEnds
    <3>2. Len(answers') = 1
      BY <3>1
    <3> QED
      BY <3>1, <3>2
  <2>2. CASE finalize_output_queue_put
    <3>1. answers = <<>> /\ answers' = Append(answers, "done") /\ apc' = "none" /\ mpc' = mpc
          /\ mpc \in {"wait_at_start", "wait_at_midnight"}
      BY <2>2 DEF finalize_output_queue_put, ArchiverEnds
    <3>2. Len(answers') = 1
      BY <3>1
    <3> QED
      BY <3>1, <3>2
  <2>3. CASE ~(\E f \in Files : move_raises(f)) /\ ~finalize_output_queue_put
    <3>1. ~ArchiverIsFree /\ UNCHANGED <<mpc, answers>>
      BY <1>2, <2>3 DEF Archiver, recs_archiver, stray_file, list_recordings, move_file,
         rmtree_file, list_directories, archive_open, archive_write, rmtree_directory,
         rmtree_fails, mainVars
    <3> QED
      BY <3>1
  <2> QED
    BY <2>1, <2>2, <2>3
<1>3. CASE crash
  BY <1>3 DEF crash
<1>4. CASE ~Main /\ ~Archiver /\ ~crash
  BY <1>4, RecorderLeavesArchiver DEF mainVars, archiverVars
<1> QED
  BY <1>1, <1>2, <1>3, <1>4

(* A file is of today or of an earlier day; what an archiver moves is of a *)
(* day before the one on which it read the clock.                          *)
LEMMA DaysStep == Types /\ ArchiverAlone /\ DaysGoOn /\ [Next]_vars => DaysGoOn'
<1> SUFFICES ASSUME Types, ArchiverAlone, DaysGoOn, [Next]_vars PROVE DaysGoOn'
  OBVIOUS
<1>t. /\ day \in Nat /\ today \in Nat /\ \A f \in Files : f.day \in Nat
      /\ recordFile \in [Callers -> Files] /\ files \in [Files -> FileStates]
  BY DaysOfFiles DEF Types, TypeOK, RecorderTypeOK, Days
<1>1. CASE Main
  <2>1. UNCHANGED <<recorderVars, today, toMove>> /\ (apc' = apc \/ apc' = "spawned")
    BY <1>1 DEF Main, recs_archiver_in_process, start_server, loop_at_midnight,
       loop_at_midnight_goes_on, archiverVars
  <2>2. mpc' = "wait_at_midnight" => apc' = "spawned"
    BY <1>1 DEF Main, recs_archiver_in_process, start_server, loop_at_midnight,
       loop_at_midnight_goes_on
  <2> QED
    BY <2>1, <2>2 DEF DaysGoOn, recorderVars, workerVars
<1>2. CASE Archiver
  <2>1. CASE \E f \in Files : move_file(f)
    <3>1. PICK f \in Files : move_file(f)
      BY <2>1
    <3>2. /\ apc = "move" /\ UNCHANGED <<apc, mpc, today, recordFile, day>> /\ toMove' \subseteq toMove
          /\ \A g \in Files : files'[g] = files[g] \/ files'[g] = NoFile
      BY <1>t, <3>1 DEF move_file, mainVars, workerVars
    <3> QED
      BY <3>2 DEF DaysGoOn
  <2>2. CASE recs_archiver
    BY <1>t, <2>2 DEF recs_archiver, DaysGoOn, recorderVars, mainVars, workerVars
  <2>3. CASE list_recordings
    BY <1>t, <2>3 DEF list_recordings, DaysGoOn, Names, recorderVars, mainVars, workerVars
  <2>4. CASE ~(\E f \in Files : move_file(f)) /\ ~recs_archiver /\ ~list_recordings
    <3>1. UNCHANGED <<recordFile, day, files, mpc, today>> /\ apc' \notin {"started", "move"}
      BY <1>2, <2>4 DEF Archiver, stray_file, move_raises, ArchiverEnds,
         rmtree_file, list_directories, archive_open, archive_write, rmtree_directory,
         rmtree_fails, finalize_output_queue_put, mainVars, recorderVars, workerVars, archiverVars
    <3> QED
      BY <3>1 DEF DaysGoOn
  <2> QED
    BY <2>1, <2>2, <2>3, <2>4
<1>3. ASSUME NEW c \in Callers, Connection(c) PROVE DaysGoOn'
  <2>1. UNCHANGED <<files, recordFile, day, mpc, apc, today, toMove>>
    BY <1>3 DEF Connection, Serving, Caller, new_message, fill_message, setup_raises, record,
       check_worker, start_worker, put_message, reinitialize_dynamic_vars, workerVars, mainVars,
       archiverVars
  <2> QED
    BY <2>1 DEF DaysGoOn
<1>4. ASSUME NEW w \in Callers, RecorderWorker(w) PROVE DaysGoOn'
  <2>1. /\ UNCHANGED <<day, mpc, apc, today, toMove>>
        /\ mpc \in {"serving", "wait_at_midnight"}
    BY <1>4 DEF RecorderWorker, Serving, Worker, worker_starts, worker_reads_date,
       message_queue_get, append_open_to_read, append_load, append_open_to_write, append_dump,
       mainVars, archiverVars
  <2>2. \A v \in Callers : recordFile'[v].day <= day
    <3>1. \A v \in Callers : recordFile'[v] = recordFile[v] \/ recordFile'[v].day = day
      BY <1>t, <1>4 DEF RecorderWorker, Worker, worker_starts, worker_reads_date,
         message_queue_get, append_open_to_read, append_load, append_open_to_write, append_dump
    <3> QED
      BY <1>t, <3>1 DEF DaysGoOn
  <2>3. \A f \in Files : files'[f] # NoFile => f.day <= day
    <3>1. \A f \in Files : files'[f] = files[f] \/ f = recordFile[w]
      BY <1>t, <1>4 DEF RecorderWorker, Worker, worker_starts, worker_reads_date,
         message_queue_get, append_open_to_read, append_load, append_open_to_write, append_dump
    <3> QED
      BY <1>t, <3>1 DEF DaysGoOn
  <2>4. apc = "started" => today = day
    BY <2>1 DEF DaysGoOn, ArchiverAlone, ArchiverIsFree
  <2> QED
    BY <2>1, <2>2, <2>3, <2>4 DEF DaysGoOn
<1>5. CASE Midnight
  <2>1. /\ UNCHANGED <<files, recordFile, mpc, apc, today, toMove>> /\ day' = day + 1
        /\ mpc = "wait_at_midnight" => ArchiverIsFree
    BY <1>5 DEF Midnight, midnight, workerVars, mainVars, archiverVars
  <2> QED
    BY <1>t, <2>1 DEF DaysGoOn, ArchiverIsFree
<1>6. CASE crash
  BY <1>6 DEF crash, DaysGoOn
<1>7. CASE UNCHANGED vars
  BY <1>7 DEF vars, recorderVars, workerVars, mainVars, archiverVars, DaysGoOn
<1> QED
  BY <1>1, <1>2, <1>3, <1>4, <1>5, <1>6, <1>7 DEF Next

(* The archiver never moves a recording of the current day, although it    *)
(* compares with the day on which it began (recs_files.py, line 110) and   *)
(* midnight may pass while it runs.                                        *)
THEOREM ArchiverLeavesTodaysFiles == Spec => TodaysFilesStay
<1> DEFINE I == Types /\ ArchiverAlone /\ DaysGoOn
<1>1. ArchiveInit => I
  <2> SUFFICES ASSUME ArchiveInit PROVE I
    OBVIOUS
  <2>1. Types
    BY ArchiveTypesAtFirst
  <2>2. ArchiverAlone
    BY DEF ArchiveInit, ArchiverAlone, ArchiverIsFree
  <2>3. DaysGoOn
    BY DEF ArchiveInit, Init, DaysGoOn
  <2> QED
    BY <2>1, <2>2, <2>3
<1>2. I /\ [Next]_vars => I'
  BY ArchiveTypesStep, AloneStep, DaysStep
<1>3. I /\ [Next]_vars => [\A f \in Files : move_file(f) => f.day # day]_vars
  <2> SUFFICES ASSUME I, NEW f \in Files, move_file(f) PROVE f.day # day
    OBVIOUS
  <2>1. f.day <= today /\ f.day # today /\ today <= day
    BY DEF move_file, ToArchive, DaysGoOn
  <2>2. f.day \in Nat /\ today \in Nat /\ day \in Nat
    BY DaysOfFiles DEF Types, TypeOK, RecorderTypeOK, Days
  <2> QED
    BY <2>1, <2>2
<1> HIDE DEF I
<1> QED
  BY <1>1, <1>2, <1>3, PTL DEF Spec, TodaysFilesStay

---------------------------------------------------------------------------
(* No entry is lost.                                                       *)

(* One worker writes one file a day. *)
LEMMA OneFileADay ==
    ASSUME NEW c, Callers = {c}, NEW f \in Files, NEW g \in Files, f.day = g.day
    PROVE  f = g
  BY DEF Files

(* What a worker does with a file. *)
LEMMA WhatWorkersWrite ==
    ASSUME Types, NEW w \in Callers, Worker(w)
    PROVE  /\ \A f \in Files : files'[f] # files[f] =>
                 f = recordFile[w] /\ wpc[w] \in {"open", "dump"} /\ files'[f].state # "none"
           /\ recordFile' # recordFile => wpc[w] \in {"start", "get"}
           /\ wpc[w] # "open" => wpc'[w] # "dump"
           /\ wpc[w] \notin {"none", "dead"} /\ UNCHANGED <<pc, workerThread>>
<1>1. files \in [Files -> FileStates] /\ recordFile \in [Callers -> Files]
      /\ wpc \in [Callers -> WorkerPcs]
  BY DEF Types, TypeOK, RecorderTypeOK
<1>2. TornFile.state = "torn" /\ \A q : Json(q).state = "json"
  BY DEF TornFile, Json
<1>3. CASE append_dump(w)
  <2>1. \A x \in DumpResults(w) : x.state # "none"
    BY <1>2 DEF DumpResults
  <2> QED
    BY <1>1, <1>3, <2>1 DEF append_dump, callerVars, sharedVars
<1>4. CASE append_open_to_write(w)
  BY <1>1, <1>2, <1>4 DEF append_open_to_write, callerVars, sharedVars
<1>5. CASE ~append_dump(w) /\ ~append_open_to_write(w)
  <2>1. files' = files /\ wpc[w] \notin {"none", "dead"} /\ UNCHANGED <<pc, workerThread>>
    BY <1>5 DEF Worker, worker_starts, worker_reads_date, message_queue_get,
       append_open_to_read, append_load, callerVars, sharedVars
  <2>2. recordFile' # recordFile => wpc[w] \in {"start", "get"}
    BY <1>5 DEF Worker, worker_starts, worker_reads_date, message_queue_get,
       append_open_to_read, append_load
  <2>3. wpc'[w] # "dump"
    BY <1>1, <1>5 DEF Worker, worker_starts, worker_reads_date, message_queue_get,
       append_open_to_read, append_load
  <2> QED
    BY <2>1, <2>2, <2>3
<1> QED
  BY <1>3, <1>4, <1>5

(* A caller changes no file; the one that starts a worker had none. *)
LEMMA WhatCallersLeave ==
    ASSUME Types, NEW c \in Callers, Caller(c)
    PROVE  /\ UNCHANGED <<files, written, recordFile, loaded, day>>
           /\ \/ UNCHANGED <<wpc, workerThread>> /\ (pc'[c] = "start" => ~workerThread)
              \/ /\ pc[c] = "start" /\ workerThread' /\ pc'[c] = "put"
                 /\ wpc' = [wpc EXCEPT ![c] = "start"]
<1>1. pc \in [Callers -> CallerPcs] /\ wpc \in [Callers -> WorkerPcs]
  BY DEF Types, TypeOK, RecorderTypeOK
<1>2. CASE start_worker(c)
  BY <1>1, <1>2 DEF start_worker, Goto
<1>3. CASE ~start_worker(c)
  <2>1. /\ UNCHANGED <<files, written, recordFile, loaded, day>>
        /\ UNCHANGED <<wpc, workerThread>>
    BY <1>3 DEF Caller, new_message, fill_message, setup_raises, record,
       check_worker, put_message, reinitialize_dynamic_vars, workerVars, sharedVars
  <2>2. pc'[c] = "start" => ~workerThread
    BY <1>1, <1>3 DEF Caller, new_message, fill_message, setup_raises, record,
       check_worker, put_message, reinitialize_dynamic_vars, Goto
  <2> QED
    BY <2>1, <2>2
<1> QED
  BY <1>2, <1>3

(* What the archiver changes of the recorder's state. *)
LEMMA WhatTheArchiverTakes ==
    ASSUME Types, Main \/ Archiver
    PROVE  /\ UNCHANGED <<pc, workerThread, wpc, recordFile, loaded, written>>
           /\ files' = files \/ \E f \in Files : move_file(f)
  BY DEF Main, recs_archiver_in_process, start_server, loop_at_midnight,
     loop_at_midnight_goes_on, Archiver, recs_archiver, stray_file, list_recordings, move_file,
     move_raises, rmtree_file, list_directories, archive_open, archive_write, rmtree_directory,
     rmtree_fails, finalize_output_queue_put, recorderVars, callerVars, sharedVars, workerVars

(* What a worker is about to write over, it has in its hands. *)
LEMMA WorkerHoldsFileStep ==
    ASSUME NEW c, Callers = {c}, Types, ListsAreTrue, WorkerHoldsFile(c), [Next]_vars
    PROVE  WorkerHoldsFile(c)'
<1> USE DEF WorkerHoldsFile
<1>t. /\ files \in [Files -> FileStates] /\ recordFile \in [Callers -> Files]
      /\ wpc \in [Callers -> WorkerPcs] /\ loaded \in [Callers -> Seq(Messages)]
      /\ c \in Callers /\ recordFile[c] \in Files
  BY DEF Types, TypeOK, RecorderTypeOK
<1>1. CASE Main \/ Archiver
  <2>1. CASE files' = files
    BY <1>1, <2>1, WhatTheArchiverTakes
  <2>2. CASE \E f \in Files : move_file(f)
    <3>1. PICK f \in Files : move_file(f)
      BY <2>2
    <3>2. /\ files' = [files EXCEPT ![f] = NoFile]
          /\ wpc[c] = "dump" => recordFile[c] # f
      BY <1>t, <3>1 DEF move_file, IsOpen
    <3> QED
      BY <1>t, <1>1, <3>2, WhatTheArchiverTakes
  <2> QED
    BY <1>1, <2>1, <2>2, WhatTheArchiverTakes
<1>2. CASE Connection(c)
  BY <1>t, <1>2, WhatCallersLeave DEF Connection
<1>3. CASE RecorderWorker(c)
  <2>1. Worker(c)
    BY <1>3 DEF RecorderWorker
  <2>2. workerThread' /\ pc'[c] # "start"
    BY <1>t, <2>1, WhatWorkersWrite DEF Types, TypeOK, RecorderTypeOK
  <2>3. CASE append_open_to_read(c)
    BY <1>t, <2>2, <2>3 DEF append_open_to_read, ListsAreTrue, NoFile
  <2>4. CASE append_load(c)
    BY <1>t, <2>2, <2>4 DEF append_load
  <2>5. CASE append_open_to_write(c)
    BY <1>t, <2>2, <2>5 DEF append_open_to_write
  <2>6. CASE ~append_open_to_read(c) /\ ~append_load(c) /\ ~append_open_to_write(c)
    <3>1. wpc'[c] \notin {"open", "dump"}
      BY <1>t, <2>1, <2>6 DEF Worker, worker_starts, worker_reads_date, message_queue_get,
         append_dump
    <3> QED
      BY <2>2, <3>1
  <2> QED
    BY <2>3, <2>4, <2>5, <2>6
<1>4. CASE Midnight
  BY <1>4 DEF Midnight, midnight, callerVars, sharedVars, workerVars
<1>5. CASE crash
  BY <1>t, <1>5 DEF crash
<1>6. CASE UNCHANGED vars
  BY <1>6 DEF vars, recorderVars, callerVars, sharedVars, workerVars
<1> QED
  BY <1>1, <1>2, <1>3, <1>4, <1>5, <1>6 DEF Next

(* A file that is on the archiver's list is there until the archiver moves *)
(* it, and so is a directory until the archiver has removed it.            *)
LEMMA ListsStep == Types /\ ListsAreTrue /\ [Next]_vars => ListsAreTrue'
<1> SUFFICES ASSUME Types, ListsAreTrue, [Next]_vars PROVE ListsAreTrue'
  OBVIOUS
<1>t. /\ files \in [Files -> FileStates] /\ zip \in [Days -> Zips]
      /\ dayDirs \subseteq Days /\ directory \in Days /\ NoFile.state = "none"
  BY ContentsAreTyped DEF Types, TypeOK, RecorderTypeOK
<1>1. CASE Main
  <2>1. UNCHANGED <<files, toMove, directories, directory, dayDirs, zip>>
        /\ (apc' = apc \/ apc' = "spawned")
    BY <1>1 DEF Main, recs_archiver_in_process, start_server, loop_at_midnight,
       loop_at_midnight_goes_on, recorderVars, archiverVars, archiveVars
  <2> QED
    BY <2>1 DEF ListsAreTrue
<1>2. CASE Archiver
  <2> USE DEF ArchiverEnds, recorderVars, archiveVars
  <2>1. ASSUME NEW f \in Files, move_file(f) PROVE ListsAreTrue'
    <3>1. /\ apc = "move" /\ apc' = "move" /\ files' = [files EXCEPT ![f] = NoFile]
          /\ toMove' = toMove \ {f}
      BY <2>1 DEF move_file
    <3> QED
      BY <1>t, <3>1 DEF ListsAreTrue
  <2>2. ASSUME NEW f \in Files, move_raises(f) PROVE ListsAreTrue'
    BY <2>2 DEF move_raises, ListsAreTrue
  <2>3. ASSUME NEW f \in Files, rmtree_file(f) PROVE ListsAreTrue'
    BY <2>3 DEF rmtree_file, ListsAreTrue, archiverVars
  <2>4. ASSUME NEW d \in Days, archive_open(d) PROVE ListsAreTrue'
    BY <2>4 DEF archive_open, ListsAreTrue
  <2>5. CASE archive_write
    BY <1>t, <2>5 DEF archive_write, ListsAreTrue
  <2>6. CASE list_recordings
    BY <2>6 DEF list_recordings, Names, ListsAreTrue
  <2>7. CASE list_directories \/ recs_archiver \/ stray_file
    BY <2>7 DEF list_directories, recs_archiver, stray_file, ListsAreTrue
  <2>8. CASE rmtree_directory \/ rmtree_fails \/ finalize_output_queue_put
    BY <2>8 DEF rmtree_directory, rmtree_fails, finalize_output_queue_put, ListsAreTrue
  <2> QED
    BY <1>2, <2>1, <2>2, <2>3, <2>4, <2>5, <2>6, <2>7, <2>8 DEF Archiver
<1>3. CASE crash
  BY <1>3 DEF crash, ListsAreTrue, archiveVars
<1>4. CASE ~Main /\ ~Archiver /\ ~crash
  <2>1. UNCHANGED <<apc, toMove, directories, directory, dayDirs, zip>>
    BY <1>4, RecorderLeavesArchiver DEF archiverVars, archiveVars
  <2>2. \A f \in Files : files'[f] = files[f] \/ files'[f].state # "none"
    BY <1>4, WhatWorkersWrite, WhatCallersLeave DEF Next, Connection, RecorderWorker, Midnight,
       midnight, vars, recorderVars
  <2>3. \A f \in Files : /\ files[f] # NoFile => files'[f] # NoFile
                         /\ files'[f].state = "none" => files'[f] = NoFile
    BY <1>t, <2>2 DEF ListsAreTrue
  <2>4. toMove \subseteq Files
    BY DEF Types, TypeOK
  <2> QED
    BY <2>1, <2>3, <2>4 DEF ListsAreTrue
<1> QED
  BY <1>1, <1>2, <1>3, <1>4

(* The elements of a sequence. *)
LEMMA ElementsOf == ASSUME NEW S, NEW s \in Seq(S), NEW i \in 1..Len(s) PROVE s[i] \in S
OBVIOUS

(* A place stays one while nobody writes there. *)
LEMMA PlacesStay ==
    ASSUME NEW c, NEW f, written' = written
    PROVE  /\ \A m \in Messages : IsEntry(f, m)' <=> IsEntry(f, m)
           /\ \A x : HoldsAll(x, f)' <=> HoldsAll(x, f)
           /\ loaded'[c] = loaded[c] => (LoadedAll(c, f)' <=> LoadedAll(c, f))
  BY DEF IsEntry, HoldsAll, LoadedAll, Has

LEMMA RecorderPlaceStays ==
    ASSUME NEW c, NEW f, WithRecorder(c, f), written' = written, files'[f] = files[f],
           loaded'[c] = loaded[c],
           (wpc'[c] = "dump" /\ recordFile'[c] = f) <=> (wpc[c] = "dump" /\ recordFile[c] = f)
    PROVE  WithRecorder(c, f)'
  BY PlacesStay DEF WithRecorder

LEMMA ArchiverPlaceStays ==
    ASSUME NEW f, WithArchiver(f), written' = written, UNCHANGED <<dayDirs, dayDir, zip>>,
           Removing(f.day)' <=> Removing(f.day)
    PROVE  WithArchiver(f)'
  BY PlacesStay DEF WithArchiver, Taken

(* The archiver hands the entries of a recording on. *)
LEMMA ArchiverKeepsEntries ==
    ASSUME NEW c, Callers = {c}, Types, WorkerHoldsFile(c), ListsAreTrue,
           NEW f \in Files, InOnePlace(c, f), f.day \notin spoiled', Main \/ Archiver
    PROVE  InOnePlace(c, f)'
<1> USE DEF InOnePlace
<1>t. /\ files \in [Files -> FileStates] /\ recordFile \in [Callers -> Files]
      /\ dayDir \in [Days -> [Files -> FileStates]] /\ zip \in [Days -> Zips]
      /\ dayDirs \subseteq Days /\ directories \subseteq Days /\ directory \in Days
      /\ f.day \in Days /\ c \in Callers
  BY DaysOfFiles DEF Types, TypeOK, RecorderTypeOK
<1>u. UNCHANGED <<wpc, recordFile, loaded, written>>
  BY WhatTheArchiverTakes
<1>e. (\E m \in Messages : IsEntry(f, m)') <=> (\E m \in Messages : IsEntry(f, m))
  BY <1>u, PlacesStay
<1>h. \A x : HoldsAll(x, f)' <=> HoldsAll(x, f)
  BY <1>u, PlacesStay
<1>w. files'[f] = files[f] /\ WithRecorder(c, f) => WithRecorder(c, f)'
  BY <1>u, RecorderPlaceStays
<1>0. ASSUME files'[f] = files[f], WithArchiver(f) => WithArchiver(f)' PROVE InOnePlace(c, f)'
  BY <1>0, <1>e, <1>w
<1>1. CASE Main
  <2>1. UNCHANGED <<files, directory, dayDirs, dayDir, zip>> /\ (Removing(f.day)' <=> Removing(f.day))
    BY <1>1 DEF Main, recs_archiver_in_process, start_server, loop_at_midnight,
       loop_at_midnight_goes_on, recorderVars, archiverVars, archiveVars, Removing, ArchiverIsFree
  <2> QED
    BY <1>0, <1>u, <2>1, ArchiverPlaceStays
<1>2. CASE Archiver
  <2> USE DEF ArchiverEnds, recorderVars, archiveVars, archiverVars
  <2>1. ASSUME NEW g \in Files, move_file(g) PROVE InOnePlace(c, f)'
    <3>0. /\ apc = "move" /\ apc' = "move" /\ g \in toMove /\ ~IsOpen(g)
          /\ dayDirs' = dayDirs \cup {g.day} /\ zip' = zip
          /\ dayDir' = [dayDir EXCEPT ![g.day][g] = files[g]]
          /\ files' = [files EXCEPT ![g] = NoFile]
      BY <2>1 DEF move_file, ToArchive
    <3>1. CASE g = f
      <4>1. files[f] # NoFile
        BY <3>0, <3>1 DEF ListsAreTrue
      <4>2. HoldsAll(files[f], f)
        BY <1>t, <3>0, <3>1, <4>1 DEF WithRecorder, IsOpen
      <4>3. f.day \in dayDirs' /\ dayDir'[f.day][f] = files[f] /\ ~Removing(f.day)'
        BY <1>t, <3>0, <3>1 DEF Removing
      <4>4. WithArchiver(f)'
        BY <1>h, <4>2, <4>3 DEF WithArchiver, Taken
      <4> QED
        BY <1>t, <3>0, <3>1, <4>4
    <3>2. CASE g # f
      <4>1. g.day # f.day
        BY <3>2, OneFileADay
      <4>2. /\ files'[f] = files[f] /\ (f.day \in dayDirs' <=> f.day \in dayDirs)
            /\ dayDir'[f.day] = dayDir[f.day] /\ zip'[f.day] = zip[f.day]
        BY <1>t, <3>0, <3>2, <4>1, DaysOfFiles
      <4>3. ~Removing(f.day) /\ ~Removing(f.day)'
        BY <3>0 DEF Removing
      <4>4. WithArchiver(f) => WithArchiver(f)'
        BY <1>h, <4>2, <4>3 DEF WithArchiver, Taken
      <4> QED
        BY <1>0, <4>2, <4>4
    <3> QED
      BY <3>1, <3>2
  <2>2. ASSUME NEW g \in Files, move_raises(g) PROVE InOnePlace(c, f)'
    <3>0. /\ apc = "move" /\ apc' = "none" /\ g \in toMove
          /\ dayDirs' = dayDirs \cup {g.day} /\ UNCHANGED <<files, dayDir, zip>>
      BY <2>2 DEF move_raises, ToArchive
    <3>1. CASE g = f
      <4>1. files[f] # NoFile
        BY <3>0, <3>1 DEF ListsAreTrue
      <4> QED
        BY <1>w, <3>0, <4>1
    <3>2. CASE g # f
      <4>1. g.day # f.day
        BY <3>2, OneFileADay
      <4>2. f.day \in dayDirs' <=> f.day \in dayDirs
        BY <3>0, <4>1
      <4>3. ~Removing(f.day) /\ ~Removing(f.day)'
        BY <3>0 DEF Removing
      <4>4. WithArchiver(f) => WithArchiver(f)'
        BY <1>h, <3>0, <4>2, <4>3 DEF WithArchiver, Taken
      <4> QED
        BY <1>0, <3>0, <4>4
    <3> QED
      BY <3>1, <3>2
  <2>3. ASSUME NEW g \in Files, rmtree_file(g) PROVE InOnePlace(c, f)'
    <3>0. /\ apc = "remove" /\ UNCHANGED <<apc, directory, files, dayDirs, zip>>
          /\ dayDir' = [dayDir EXCEPT ![directory][g] = NoFile]
      BY <2>3 DEF rmtree_file
    <3>1. (Removing(f.day)' <=> Removing(f.day)) /\ (Removing(f.day) \/ dayDir'[f.day] = dayDir[f.day])
      BY <1>t, <3>0 DEF Removing
    <3>2. WithArchiver(f) => WithArchiver(f)'
      BY <1>h, <3>0, <3>1 DEF WithArchiver, Taken
    <3> QED
      BY <1>0, <3>0, <3>2
  <2>4. ASSUME NEW d \in Days, archive_open(d) PROVE InOnePlace(c, f)'
    <3>0. /\ apc = "archive" /\ apc' = "write" /\ UNCHANGED <<files, dayDirs, dayDir>>
          /\ zip' = [zip EXCEPT ![d] = [state |-> "torn", content |-> Nothing]] /\ d \in dayDirs
      BY <2>4 DEF archive_open, ListsAreTrue
    <3>1. ~Removing(f.day) /\ ~Removing(f.day)'
      BY <3>0 DEF Removing
    <3>2. d = f.day \/ zip'[f.day] = zip[f.day]
      BY <1>t, <3>0
    <3>3. WithArchiver(f) => WithArchiver(f)'
      BY <1>h, <3>0, <3>1, <3>2 DEF WithArchiver, Taken
    <3> QED
      BY <1>0, <3>0, <3>3
  <2>5. CASE archive_write
    <3>0. /\ apc = "write" /\ apc' = "remove" /\ UNCHANGED <<files, dayDirs, dayDir, directory>>
          /\ zip' = [zip EXCEPT ![directory] = [state |-> "zip", content |-> dayDir[directory]]]
          /\ directory \in dayDirs
      BY <2>5 DEF archive_write, ListsAreTrue
    <3>1. ~Removing(f.day) /\ (Removing(f.day)' <=> f.day = directory)
      BY <3>0 DEF Removing
    <3>2. IF f.day = directory THEN zip'[f.day].state = "zip" /\ zip'[f.day].content = dayDir[f.day]
                               ELSE zip'[f.day] = zip[f.day]
      BY <1>t, <3>0
    <3>3. WithArchiver(f) => WithArchiver(f)'
      BY <1>h, <3>0, <3>1, <3>2 DEF WithArchiver, Taken
    <3> QED
      BY <1>0, <3>0, <3>3
  <2>6. CASE rmtree_directory
    <3>0. /\ apc = "remove" /\ apc' = "archive" /\ UNCHANGED <<files, dayDir, zip>>
          /\ dayDirs' = dayDirs \ {directory} /\ zip[directory].state = "zip"
      BY <2>6 DEF rmtree_directory, ListsAreTrue
    <3>1. ~Removing(f.day)' /\ (Removing(f.day) <=> f.day = directory)
      BY <3>0 DEF Removing
    <3>2. WithArchiver(f) => WithArchiver(f)'
      BY <1>h, <3>0, <3>1 DEF WithArchiver, Taken
    <3> QED
      BY <1>0, <3>0, <3>2
  <2>7. CASE rmtree_fails
    <3>0. /\ apc = "remove" /\ apc' = "archive" /\ UNCHANGED <<files, dayDirs, dayDir, zip>>
          /\ dayDir[directory] # zip[directory].content => directory \in spoiled'
      BY <2>7 DEF rmtree_fails, HalfRemoved
    <3>1. ~Removing(f.day)' /\ (Removing(f.day) <=> f.day = directory)
      BY <3>0 DEF Removing
    <3>2. Removing(f.day) => dayDir[f.day] = zip[f.day].content
      BY <3>0, <3>1
    <3>3. WithArchiver(f) => WithArchiver(f)'
      BY <1>h, <3>0, <3>1, <3>2 DEF WithArchiver, Taken
    <3> QED
      BY <1>0, <3>0, <3>3
  <2>8. CASE list_recordings \/ list_directories \/ recs_archiver \/ stray_file
              \/ finalize_output_queue_put
    <3>0. UNCHANGED <<files, dayDirs, dayDir, zip>> /\ ~Removing(f.day) /\ ~Removing(f.day)'
      BY <2>8 DEF list_recordings, list_directories, recs_archiver, stray_file,
         finalize_output_queue_put, Removing
    <3> QED
      BY <1>0, <1>u, <3>0, ArchiverPlaceStays
  <2> QED
    BY <1>2, <2>1, <2>2, <2>3, <2>4, <2>5, <2>6, <2>7, <2>8 DEF Archiver
<1> QED
  BY <1>1, <1>2

(* A worker rewrites a file with what it has loaded and its message, and   *)
(* makes a new one where there is no entry yet.                            *)
LEMMA WorkerKeepsEntries ==
    ASSUME NEW c, Callers = {c}, Types, WorkerHoldsFile(c), ListsAreTrue,
           NEW f \in Files, InOnePlace(c, f), f.day \notin spoiled', RecorderWorker(c)
    PROVE  InOnePlace(c, f)'
<1> USE DEF InOnePlace
<1>t. /\ files \in [Files -> FileStates] /\ recordFile \in [Callers -> Files]
      /\ wpc \in [Callers -> WorkerPcs] /\ loaded \in [Callers -> Seq(Messages)]
      /\ written \in Seq([message : Messages, file : Files]) /\ wmsg \in [Callers -> Messages]
      /\ c \in Callers /\ recordFile[c] \in Files /\ loaded[c] \in Seq(Messages)
      /\ wmsg[c] \in Messages
  BY DEF Types, TypeOK, RecorderTypeOK
<1>u. Worker(c) /\ UNCHANGED <<apc, directory, dayDirs, dayDir, zip>> /\ spoiled' = spoiled \cup {g.day : g \in Late}
      /\ (Removing(f.day)' <=> Removing(f.day))
  BY DEF RecorderWorker, Serving, archiverVars, archiveVars, Removing
<1>1. CASE append_dump(c)
  <2>0. /\ wpc[c] = "dump" /\ wpc'[c] = "get" /\ UNCHANGED <<recordFile, loaded>>
        /\ files[recordFile[c]] = TornFile /\ TornFile # NoFile
        /\ written' = Append(written, [message |-> wmsg[c], file |-> recordFile[c]])
        /\ files' = [files EXCEPT ![recordFile[c]] = Json(Append(loaded[c], wmsg[c]))]
    BY <1>t, <1>1 DEF append_dump, DumpResults, WorkerHoldsFile, Appended, TornFile, NoFile
  <2>1. \A m \in Messages : IsEntry(f, m)' <=> IsEntry(f, m) \/ (f = recordFile[c] /\ m = wmsg[c])
    <3>1. /\ Len(written) \in Nat /\ Len(written') = Len(written) + 1
          /\ \A i \in 1..Len(written) : written'[i] = written[i]
          /\ written'[Len(written) + 1] = [message |-> wmsg[c], file |-> recordFile[c]]
      BY <1>t, <2>0
    <3>2. \A i : i \in 1..Len(written') <=> i \in 1..Len(written) \/ i = Len(written) + 1
      BY <3>1
    <3> QED
      BY <3>1, <3>2 DEF IsEntry
  <2>2. CASE f = recordFile[c]
    <3>1. LoadedAll(c, f)
      BY <2>0, <2>2 DEF WithRecorder
    <3>2. files'[f] = Json(Append(loaded[c], wmsg[c])) /\ files'[f] # NoFile
      BY <1>t, <2>0, <2>2 DEF Json, NoFile
    <3>3. \A m \in Messages :
             (m = wmsg[c] \/ \E i \in 1..Len(loaded[c]) : loaded[c][i] = m) => Has(files'[f], m)
      <4>1. files'[f].entries = Append(loaded[c], wmsg[c])
        BY <3>2 DEF Json
      <4>2. /\ Len(loaded[c]) \in Nat /\ Len(files'[f].entries) = Len(loaded[c]) + 1
            /\ \A i \in 1..Len(loaded[c]) : files'[f].entries[i] = loaded[c][i]
            /\ files'[f].entries[Len(loaded[c]) + 1] = wmsg[c]
        BY <1>t, <4>1
      <4>3. \A i : i \in 1..Len(loaded[c]) \/ i = Len(loaded[c]) + 1 => i \in 1..Len(files'[f].entries)
        BY <4>2
      <4> QED
        BY <4>2, <4>3 DEF Has
    <3>4. HoldsAll(files[f], f)'
      BY <2>1, <3>1, <3>3 DEF HoldsAll, LoadedAll, Has
    <3> QED
      BY <2>0, <3>2, <3>4 DEF WithRecorder
  <2>3. CASE f # recordFile[c]
    <3>1. files'[f] = files[f]
      BY <1>t, <2>0, <2>3
    <3>2. \A x : HoldsAll(x, f)' <=> HoldsAll(x, f)
      BY <2>1, <2>3 DEF HoldsAll, Has
    <3>3. WithRecorder(c, f) => WithRecorder(c, f)'
      BY <2>0, <2>3, <3>1, <3>2 DEF WithRecorder
    <3>4. WithArchiver(f) => WithArchiver(f)'
      BY <1>u, <3>2 DEF WithArchiver, Taken
    <3> QED
      BY <2>1, <2>3, <3>1, <3>3, <3>4
  <2> QED
    BY <2>2, <2>3
<1>2. CASE append_open_to_write(c) /\ f = recordFile[c]
  <2>0. /\ wpc[c] = "open" /\ wpc'[c] = "dump" /\ UNCHANGED <<recordFile, loaded, written>>
        /\ files'[f] = TornFile /\ TornFile # NoFile
    BY <1>t, <1>2 DEF append_open_to_write, TornFile, NoFile
  <2>1. LoadedAll(c, f)
    <3>1. CASE files[f] # NoFile
      <4>1. HoldsAll(files[f], f) /\ files[f].entries = loaded[c]
        BY <1>2, <2>0, <3>1 DEF WithRecorder, WorkerHoldsFile
      <4> QED
        BY <4>1 DEF HoldsAll, LoadedAll, Has
    <3>2. CASE files[f] = NoFile
      <4>1. f \in Late \/ ~Begun(f.day)
        BY <2>0, <3>2 DEF Late
      <4>2. ~Begun(f.day)
        BY <1>u, <4>1
      <4>3. ~Taken(f.day)
        BY <4>2 DEF Begun, Taken
      <4> QED
        BY <3>2, <4>3 DEF WithArchiver, LoadedAll
    <3> QED
      BY <3>1, <3>2
  <2>2. LoadedAll(c, f)'
    BY <2>0, <2>1, PlacesStay
  <2> QED
    BY <1>2, <2>0, <2>2 DEF WithRecorder
<1>3. CASE ~append_dump(c) /\ ~(append_open_to_write(c) /\ f = recordFile[c])
  <2>1. written' = written /\ files'[f] = files[f] /\ wpc[c] # "dump"
    BY <1>t, <1>u, <1>3 DEF Worker, worker_starts, worker_reads_date, message_queue_get,
       append_open_to_read, append_load, append_open_to_write
  <2>2. ~(wpc'[c] = "dump" /\ recordFile'[c] = f)
    BY <1>t, <1>u, <1>3 DEF Worker, worker_starts, worker_reads_date, message_queue_get,
       append_open_to_read, append_load, append_open_to_write
  <2>3. WithRecorder(c, f) => WithRecorder(c, f)'
    BY <2>1, <2>2, PlacesStay DEF WithRecorder
  <2>4. WithArchiver(f) => WithArchiver(f)'
    BY <1>u, <2>1, ArchiverPlaceStays
  <2> QED
    BY <2>1, <2>3, <2>4, PlacesStay
<1> QED
  BY <1>1, <1>2, <1>3

(* So does every step but the accidents. *)
LEMMA EntriesStep ==
    ASSUME NEW c, Callers = {c}, Types, WorkerHoldsFile(c), ListsAreTrue,
           EntriesInOnePlace(c), [Next]_vars
    PROVE  EntriesInOnePlace(c)'
<1> SUFFICES ASSUME NEW f \in Files, f.day \notin spoiled' PROVE InOnePlace(c, f)'
  BY DEF EntriesInOnePlace
<1>t. wpc \in [Callers -> WorkerPcs] /\ c \in Callers /\ recordFile \in [Callers -> Files]
  BY DEF Types, TypeOK, RecorderTypeOK
<1>0. InOnePlace(c, f)
  <2>1. spoiled \subseteq spoiled'
    BY DEF Next, Main, recs_archiver_in_process, start_server, loop_at_midnight,
       loop_at_midnight_goes_on, Archiver, recs_archiver, stray_file, list_recordings, move_file,
       move_raises, rmtree_file, list_directories, archive_open, archive_write, rmtree_directory,
       rmtree_fails, finalize_output_queue_put, Connection, RecorderWorker, Serving, Midnight,
       crash, vars, historyVars
  <2> QED
    BY <2>1 DEF EntriesInOnePlace
<1>1. ASSUME written' = written, UNCHANGED <<files, apc, directory, dayDirs, dayDir, zip>>,
             loaded' = loaded, recordFile' = recordFile,
             wpc'[c] = "dump" <=> wpc[c] = "dump"
      PROVE  InOnePlace(c, f)'
  <2>1. WithRecorder(c, f) => WithRecorder(c, f)'
    BY <1>1, RecorderPlaceStays
  <2>2. WithArchiver(f) => WithArchiver(f)'
    BY <1>1, ArchiverPlaceStays DEF Removing
  <2> QED
    BY <1>0, <1>1, <2>1, <2>2, PlacesStay DEF InOnePlace
<1>2. CASE Main \/ Archiver
  BY <1>0, <1>2, ArchiverKeepsEntries
<1>3. CASE RecorderWorker(c)
  BY <1>0, <1>3, WorkerKeepsEntries
<1>4. CASE Connection(c)
  <2>1. wpc'[c] = "dump" <=> wpc[c] = "dump"
    BY <1>t, <1>4, WhatCallersLeave DEF Connection, WorkerHoldsFile
  <2>2. /\ UNCHANGED <<apc, directory, dayDirs, dayDir, zip>>
        /\ UNCHANGED <<files, written, recordFile, loaded>>
    BY <1>t, <1>4, WhatCallersLeave DEF Connection, Serving, archiverVars, archiveVars
  <2> QED
    BY <1>1, <2>1, <2>2
<1>5. CASE Midnight \/ UNCHANGED vars
  BY <1>1, <1>5 DEF Midnight, midnight, vars, recorderVars, workerVars, archiverVars, archiveVars
<1>6. CASE crash
  <2>1. /\ UNCHANGED <<files, written, recordFile, loaded, dayDirs, dayDir, zip, directory>>
        /\ wpc'[c] = "dead" /\ apc' = "none"
    BY <1>t, <1>6 DEF crash, archiveVars
  <2>2. ~(wpc[c] = "dump" /\ recordFile[c] = f)
    BY <1>t, <1>6 DEF crash
  <2>3. WithRecorder(c, f) => WithRecorder(c, f)'
    BY <2>1, <2>2, RecorderPlaceStays
  <2>4. Removing(f.day) => dayDir[f.day] = zip[f.day].content
    BY <1>6 DEF crash, HalfRemoved, Removing
  <2>5. WithArchiver(f) => WithArchiver(f)'
    BY <2>1, <2>4, PlacesStay DEF WithArchiver, Taken, Removing
  <2> QED
    BY <1>0, <2>1, <2>3, <2>5, PlacesStay DEF InOnePlace
<1> QED
  BY <1>2, <1>3, <1>4, <1>5, <1>6 DEF Next

(* What has been recorded is kept, for any number of messages, days, runs  *)
(* of the archiver and crashes: in its file, in the directory or the zip   *)
(* file of its day or in the hands of the worker that rewrites it, but for *)
(* the days of the three accidents.  One thread records: two may overwrite *)
(* each other's files.                                                     *)
THEOREM RecordingsAreKept ==
    ASSUME NEW c, Callers = {c} PROVE Spec => []KeptSomewhere
<1> DEFINE I == Types /\ WorkerHoldsFile(c) /\ ListsAreTrue /\ EntriesInOnePlace(c)
<1>1. ArchiveInit => I
  <2> SUFFICES ASSUME ArchiveInit PROVE I
    OBVIOUS
  <2>1. WorkerHoldsFile(c)
    BY DEF ArchiveInit, Init, WorkerHoldsFile
  <2>2. ListsAreTrue
    BY DEF ArchiveInit, Init, ListsAreTrue
  <2>3. EntriesInOnePlace(c)
    BY DEF ArchiveInit, Init, EntriesInOnePlace, InOnePlace, IsEntry
  <2> QED
    BY <2>1, <2>2, <2>3, ArchiveTypesAtFirst
<1>2. I /\ [Next]_vars => I'
  BY ArchiveTypesStep, WorkerHoldsFileStep, ListsStep, EntriesStep
<1>3. I => KeptSomewhere
  <2> SUFFICES ASSUME I, NEW i \in 1..Len(written), written[i].file.day \notin spoiled
               PROVE  Kept(written[i])
    BY DEF KeptSomewhere
  <2> DEFINE f == written[i].file
             m == written[i].message
  <2>0. written \in Seq([message : Messages, file : Files]) /\ i \in 1..Len(written)
    BY DEF Types, TypeOK, RecorderTypeOK
  <2>1. written[i] \in [message : Messages, file : Files]
    BY ONLY <2>0, ElementsOf
  <2>2. f \in Files /\ m \in Messages /\ IsEntry(f, m)
    BY <2>1 DEF IsEntry
  <2>3. InOnePlace(c, f)
    BY <2>2 DEF EntriesInOnePlace
  <2>4. WithRecorder(c, f) \/ WithArchiver(f)
    BY <2>2, <2>3 DEF InOnePlace
  <2>5. CASE WithRecorder(c, f)
    BY <2>2, <2>5 DEF WithRecorder, HoldsAll, LoadedAll, Kept
  <2>6. CASE WithArchiver(f)
    BY <2>2, <2>6 DEF WithArchiver, HoldsAll, Kept
  <2> QED
    BY <2>4, <2>5, <2>6
<1> HIDE DEF I
<1> QED
  BY <1>1, <1>2, <1>3, PTL DEF Spec

---------------------------------------------------------------------------
(* The recorder with the archiver beside it.                               *)

(* Neither the archiver nor the death of the processes disturbs the order. *)
LEMMA PipelineGoesOn ==
    ASSUME NEW c \in Callers, Callers = {c}, Types, Pipeline(c), [Next]_vars
    PROVE  Pipeline(c)'
<1>1. CASE Connection(c) \/ RecorderWorker(c) \/ Midnight
  <2>1. RecorderNext /\ TypeInv
    BY <1>1 DEF Connection, RecorderWorker, Midnight, RecorderNext, Types, TypeOK, TypeInv
  <2> QED
    BY <2>1, PipelineIsPreserved
<1>2. CASE Main \/ Archiver \/ UNCHANGED vars
  <2>1. UNCHANGED <<callerVars, sharedVars, workerVars, written>>
    BY <1>2 DEF Main, recs_archiver_in_process, start_server, loop_at_midnight,
       loop_at_midnight_goes_on, Archiver, recs_archiver, stray_file, list_recordings, move_file,
       move_raises, rmtree_file, list_directories, archive_open, archive_write, rmtree_directory,
       rmtree_fails, finalize_output_queue_put, vars, recorderVars
  <2> QED
    BY <2>1 DEF callerVars, sharedVars, workerVars, Pipeline, ObjectFollows, OneWorker, InPlace,
       InHand, NothingAfterSetup
<1>3. CASE crash
  <2>1. pc'[c] = "returned" /\ wpc'[c] = "dead" /\ messageQueue' = <<>>
        /\ UNCHANGED <<object, calls, setupFailed, workerThread, written>>
    BY <1>3 DEF crash
  <2>2. ObjectFollows(c)'
    BY <2>1 DEF Pipeline, ObjectFollows
  <2>3. OneWorker(c)'
    BY <2>1 DEF Pipeline, OneWorker, Busy
  <2>4. (IF setupFailed THEN NothingAfterSetup(c) ELSE InPlace(c))'
    BY <2>1 DEF Pipeline, NothingAfterSetup, InPlace, Busy
  <2> QED
    BY <2>1, <2>2, <2>3, <2>4 DEF Pipeline
<1> QED
  BY <1>1, <1>2, <1>3 DEF Next

(* Where one thread records, its messages are written whole, once and in   *)
(* order also while archivers run and after any number of crashes.         *)
THEOREM OnceInOrderWithArchiver == Spec => []EachOnceInOrder
<1>1. ArchiveInit => Types /\ OnePipeline
  BY ArchiveTypesAtFirst, PipelineHoldsAtFirst DEF OnePipeline, ArchiveInit
<1>2. Types /\ OnePipeline /\ [Next]_vars => (Types /\ OnePipeline)'
  BY ArchiveTypesStep, PipelineGoesOn DEF OnePipeline
<1>3. OnePipeline => EachOnceInOrder
  BY DEF OnePipeline, Pipeline, EachOnceInOrder
<1> QED
  BY <1>1, <1>2, <1>3, PTL DEF Spec

=====================
