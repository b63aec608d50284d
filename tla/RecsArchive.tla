---------------------------- MODULE RecsArchive ----------------------------
(***************************************************************************)
(* Recordings and their archives: the recorder of a connection (Recorder)  *)
(* together with recs_archiver of mitm/recs_files.py, which the server     *)
(* runs in a process of its own when it starts and after every midnight    *)
(* (mitm_main.py), while connections go on recording.  A run moves the     *)
(* files of earlier days into a directory per day, makes each directory a  *)
(* zip file and removes it.                                                *)
(*                                                                         *)
(* One engine; its recordings are the files of Recorder.  A crash ends all *)
(* processes at once, and the recorder's connection with them.             *)
(***************************************************************************)
EXTENDS Recorder, FiniteSets

CONSTANTS
    MaxCrashes,   \* bound: crashes
    Troubles      \* which of AllTroubles happen

(* A json file lies in the root of the recordings; a directory cannot be   *)
(* removed.                                                                *)
AllTroubles == {"stray", "locked"}
ASSUME CrashesAssumption  == MaxCrashes \in Nat
ASSUME TroublesAssumption == Troubles \subseteq AllTroubles

(* The contents of a directory or of a zip file. *)
Nothing   == [f \in Files |-> NoFile]
Names(content) == {f \in Files : content[f] # NoFile}

VARIABLES
    mpc,          \* where the main process is: the thread that waits for the archiver
    apc,          \* where the archiver process is
    today,        \* the archiver's today_date_string
    toMove,       \* the archiver's list of recordings
    directories,  \* the archiver's archive_directories: what is left of them
    directory,    \* the archiver's archive_directory
    answers,      \* FINALIZE_RECS_ARCHIVE_QUEUE
    previousDay,  \* previous_date of _loop_at_midnight_recs_archive
    dayDirs,      \* the directories that exist
    dayDir,       \* per day: the content of its directory
    zip,          \* per day: the zip file
    crashes,      \* how often the processes have died
    spoiled       \* history: days that may lose entries (see KeptSomewhere)

mainVars == <<mpc, answers, previousDay>>
archiverVars == <<apc, today, toMove, directories, directory>>
archiveVars == <<dayDirs, dayDir, zip>>
historyVars == <<crashes, spoiled>>
vars == <<recorderVars, mainVars, archiverVars, archiveVars, historyVars>>

Zips == [state : {"none", "torn", "zip"}, content : [Files -> FileStates]]

ArchiveInit ==
    /\ Init
    /\ mpc = "start"
    /\ apc = "none"
    /\ today = 1
    /\ toMove = {}
    /\ directories = {}
    /\ directory = 1
    /\ answers = <<>>
    /\ previousDay = 1
    /\ dayDirs = {}
    /\ dayDir = [d \in Days |-> Nothing]
    /\ zip = [d \in Days |-> [state |-> "none", content |-> Nothing]]
    /\ crashes = 0
    /\ spoiled = {}

---------------------------------------------------------------------------
(* The main process: mitm_server at its start, and the thread              *)
(* _loop_at_midnight_recs_archive, which assigns previous_date at its end  *)
(* what it read at its start.  Connections are served in between.          *)

ArchiverIsFree == apc \in {"none", "died"}

recs_archiver_in_process ==
    /\ mpc = "start"
    /\ ArchiverIsFree
    /\ apc' = "spawned"
    /\ mpc' = "wait_at_start"
    /\ UNCHANGED <<recorderVars, answers, previousDay, today, toMove, directories, directory,
                   archiveVars, historyVars>>

(* An archiver that failed keeps the server from starting. *)
start_server ==
    /\ mpc = "wait_at_start"
    /\ answers # <<>>
    /\ answers' = Tail(answers)
    /\ mpc' = IF Head(answers) = "error" THEN "stopped" ELSE "serving"
    /\ previousDay' = day
    /\ UNCHANGED <<recorderVars, archiverVars, archiveVars, historyVars>>

loop_at_midnight ==
    /\ mpc = "serving"
    /\ day # previousDay
    /\ ArchiverIsFree
    /\ apc' = "spawned"
    /\ mpc' = "wait_at_midnight"
    /\ previousDay' = day
    /\ UNCHANGED <<recorderVars, answers, today, toMove, directories, directory, archiveVars,
                   historyVars>>

(* An archiver that failed is an error in a log. *)
loop_at_midnight_goes_on ==
    /\ mpc = "wait_at_midnight"
    /\ answers # <<>>
    /\ answers' = Tail(answers)
    /\ mpc' = "serving"
    /\ UNCHANGED <<recorderVars, previousDay, archiverVars, archiveVars, historyVars>>

---------------------------------------------------------------------------
(* recs_archiver.                                                          *)

ArchiverEnds == apc' = "none" /\ UNCHANGED <<today, toMove, directories, directory>>

recs_archiver ==
    /\ apc = "spawned"
    /\ today' = day
    /\ apc' = "started"
    /\ UNCHANGED <<recorderVars, mainVars, toMove, directories, directory, archiveVars,
                   historyVars>>

(* The raise for a file in the root is outside the try: no answer. *)
stray_file ==
    /\ "stray" \in Troubles
    /\ apc = "started"
    /\ apc' = "died"
    /\ UNCHANGED <<today, toMove, directories, directory>>
    /\ UNCHANGED <<recorderVars, mainVars, archiveVars, historyVars>>

list_recordings ==
    /\ apc = "started"
    /\ toMove' = Names(files)
    /\ apc' = "move"
    /\ UNCHANGED <<recorderVars, mainVars, today, directories, directory, archiveVars,
                   historyVars>>

(* Windows does not move a file that is open. *)
IsOpen(f) == \E w \in Callers : wpc[w] \in {"load", "dump"} /\ recordFile[w] = f

Mutant_ToArchive_all == toMove
ToArchive == {f \in toMove : f.day # today}

move_file(f) ==
    /\ apc = "move"
    /\ f \in ToArchive
    /\ ~IsOpen(f)
    /\ toMove' = toMove \ {f}
    /\ dayDirs' = dayDirs \cup {f.day}
    /\ dayDir' = [dayDir EXCEPT ![f.day][f] = files[f]]
    /\ files' = [files EXCEPT ![f] = NoFile]
    /\ UNCHANGED <<callerVars, sharedVars, workerVars, day, written, mainVars, apc, today,
                   directories, directory, zip, historyVars>>

Mutant_move_raises_no_answer(f) ==
    /\ apc = "move"
    /\ f \in ToArchive
    /\ IsOpen(f)
    /\ dayDirs' = dayDirs \cup {f.day}
    /\ ArchiverEnds
    /\ UNCHANGED <<recorderVars, mainVars, dayDir, zip, historyVars>>
move_raises(f) ==
    /\ apc = "move"
    /\ f \in ToArchive
    /\ IsOpen(f)
    /\ dayDirs' = dayDirs \cup {f.day}
    /\ answers' = Append(answers, "error")
    /\ ArchiverEnds
    /\ UNCHANGED <<recorderVars, mpc, previousDay, dayDir, zip, historyVars>>

(* Every directory, whatever run made it. *)
list_directories ==
    /\ apc = "move"
    /\ ToArchive = {}
    /\ directories' = dayDirs
    /\ apc' = "archive"
    /\ UNCHANGED <<recorderVars, mainVars, today, toMove, directory, archiveVars, historyVars>>

(* archive(): ZipFile(archive_path, 'w') empties an earlier archive. *)
archive_open(d) ==
    /\ apc = "archive"
    /\ d \in directories
    /\ directory' = d
    /\ directories' = directories \ {d}
    /\ zip' = [zip EXCEPT ![d] = [state |-> "torn", content |-> Nothing]]
    /\ apc' = "write"
    /\ UNCHANGED <<recorderVars, mainVars, today, toMove, dayDirs, dayDir, historyVars>>

archive_write ==
    /\ apc = "write"
    /\ zip' = [zip EXCEPT ![directory] = [state |-> "zip", content |-> dayDir[directory]]]
    /\ apc' = "remove"
    /\ UNCHANGED <<recorderVars, mainVars, today, toMove, directories, directory, dayDirs,
                   dayDir, historyVars>>

(* shutil.rmtree with ignore_errors. *)
HalfRemoved ==
    IF apc = "remove" /\ dayDir[directory] # zip[directory].content THEN {directory} ELSE {}

rmtree_file(f) ==
    /\ apc = "remove"
    /\ f \in Names(dayDir[directory])
    /\ dayDir' = [dayDir EXCEPT ![directory][f] = NoFile]
    /\ UNCHANGED <<recorderVars, mainVars, archiverVars, dayDirs, zip, historyVars>>

rmtree_directory ==
    /\ apc = "remove"
    /\ Names(dayDir[directory]) = {}
    /\ dayDirs' = dayDirs \ {directory}
    /\ apc' = "archive"
    /\ UNCHANGED <<recorderVars, mainVars, today, toMove, directories, directory, dayDir, zip,
                   historyVars>>

rmtree_fails ==
    /\ "locked" \in Troubles
    /\ apc = "remove"
    /\ apc' = "archive"
    /\ spoiled' = spoiled \cup HalfRemoved
    /\ UNCHANGED <<recorderVars, mainVars, today, toMove, directories, directory, archiveVars,
                   crashes>>

finalize_output_queue_put ==
    /\ apc = "archive"
    /\ directories = {}
    /\ answers' = Append(answers, "done")
    /\ ArchiverEnds
    /\ UNCHANGED <<recorderVars, mpc, previousDay, archiveVars, historyVars>>

---------------------------------------------------------------------------
(* The recorder in this server.                                            *)

(* A recording is made, or made anew, when the archiver has begun with the *)
(* recordings of its day.                                                  *)
Begun(d) ==
    \/ d \in dayDirs
    \/ zip[d].state # "none"
    \/ apc = "move" /\ d \in {f.day : f \in ToArchive}

Late == {f \in Files : files[f] = NoFile /\ files'[f] # NoFile /\ Begun(f.day)}

Serving ==
    /\ mpc \in {"serving", "wait_at_midnight"}
    /\ spoiled' = spoiled \cup {f.day : f \in Late}
    /\ UNCHANGED <<mainVars, archiverVars, archiveVars, crashes>>

Connection(c)     == Caller(c) /\ Serving
RecorderWorker(w) == Worker(w) /\ Serving

(* Neither a run of the archiver at midnight nor the writing of a message  *)
(* lasts a whole day.                                                      *)
Midnight ==
    /\ midnight
    /\ mpc = "wait_at_midnight" => ArchiverIsFree
    /\ \A w \in Callers : wpc[w] \in {"read", "load", "open", "dump"} => previousDate[w] = day
    /\ UNCHANGED <<mainVars, archiverVars, archiveVars, historyVars>>

(* All processes die (external). *)
crash ==
    /\ crashes < MaxCrashes
    /\ mpc # "start"
    /\ crashes' = crashes + 1
    /\ mpc' = "start"
    /\ answers' = <<>>
    /\ apc' = "none"
    /\ pc' = [c \in Callers |-> "returned"]
    /\ wpc' = [w \in Callers |-> "dead"]
    /\ messageQueue' = <<>>
    /\ spoiled' = spoiled
         \cup HalfRemoved
         \cup {recordFile[w].day : w \in {v \in Callers : wpc[v] = "dump"}}
    /\ UNCHANGED <<object, calls, setupFailed, current, workerThread, previousDate, recordFile,
                   wmsg, loaded, files, day, written, previousDay, today, toMove, directories,
                   directory, archiveVars>>

---------------------------------------------------------------------------

Main ==
    \/ recs_archiver_in_process \/ start_server
    \/ loop_at_midnight \/ loop_at_midnight_goes_on

Archiver ==
    \/ recs_archiver \/ stray_file \/ list_recordings
    \/ \E f \in Files : move_file(f) \/ move_raises(f) \/ rmtree_file(f)
    \/ list_directories
    \/ \E d \in Days : archive_open(d)
    \/ archive_write \/ rmtree_directory \/ rmtree_fails
    \/ finalize_output_queue_put

Next ==
    \/ Main
    \/ Archiver
    \/ \E c \in Callers : Connection(c) \/ RecorderWorker(c)
    \/ Midnight
    \/ crash

(* The operating system runs every process and thread that can run; the    *)
(* midnight thread looks every minute.                                     *)
Fairness ==
    /\ WF_vars(Main)
    /\ WF_vars(Archiver)
    /\ \A w \in Callers : WF_vars(RecorderWorker(w))

Spec == ArchiveInit /\ [][Next]_vars /\ Fairness

---------------------------------------------------------------------------
(* Properties.                                                             *)

(* Every variable keeps its type. *)
TypeOK ==
    /\ RecorderTypeOK
    /\ mpc \in {"start", "wait_at_start", "serving", "wait_at_midnight", "stopped"}
    /\ apc \in {"none", "died", "spawned", "started", "move", "archive", "write", "remove"}
    /\ today \in Days
    /\ toMove \subseteq Files
    /\ directories \subseteq Days
    /\ directory \in Days
    /\ answers \in Seq({"done", "error"})
    /\ previousDay \in Days
    /\ dayDirs \subseteq Days
    /\ dayDir \in [Days -> [Files -> FileStates]]
    /\ zip \in [Days -> Zips]
    /\ crashes \in 0..MaxCrashes
    /\ spoiled \subseteq Days

Has(file, m) == \E i \in 1..Len(file.entries) : file.entries[i] = m

(* Where an entry can be found again: in its file, which a worker may be   *)
(* rewriting, in the directory of the day or in the zip file of the day.   *)
Kept(e) ==
    LET f == e.file
    IN  \/ Has(files[f], e.message)
        \/ Has(dayDir[f.day][f], e.message)
        \/ Has(zip[f.day].content[f], e.message)
        \/ \E w \in Callers :
              /\ wpc[w] = "dump" /\ recordFile[w] = f
              /\ \E i \in 1..Len(loaded[w]) : loaded[w][i] = e.message

(* What has been recorded is kept, whatever moves it and whenever the      *)
(* processes die, but for the days of three accidents: a directory that is *)
(* half removed, a rewriting that is cut off, and a recording made after   *)
(* the archiver has begun with its day.                                    *)
KeptSomewhere ==
    \A i \in 1..Len(written) : Kept(written[i]) \/ written[i].file.day \in spoiled

(* "Each day of recordings will have separate archive" (line 59): an       *)
(* archiver that runs when nothing has died loses no entry of any day.     *)
ArchivesAreWhole == \A i \in 1..Len(written) : Kept(written[i])

(* "We don't need to archive today's files" (line 110): the recordings of  *)
(* the current day stay where their recorders append to them, also when an *)
(* archiver runs over midnight.                                            *)
TodaysFilesStay == [][\A f \in Files : move_file(f) => f.day # day]_vars

(* Whoever waits for the archiver is answered, if only with its error,     *)
(* unless the archiver raises before its try.                              *)
ArchiverAnswers ==
    mpc \in {"wait_at_start", "wait_at_midnight"}
        ~> mpc \notin {"wait_at_start", "wait_at_midnight"} \/ apc = "died"

(* The archiver leaves today's files alone and answers who waits for it.   *)
ArchiverKeepsItsTerms == TodaysFilesStay /\ ArchiverAnswers

(* Messages given to record() are written though the archiver moves the    *)
(* file away between two of them, unless the processes die.                *)
RecordedUnlessCrashed ==
    \A c \in Callers : \A n \in 1..MaxMessages :
        (calls[c] >= n /\ ~setupFailed) ~> Written(c, n) \/ crashes > 0

=============================================================================
