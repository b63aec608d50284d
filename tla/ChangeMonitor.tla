----------------------------- MODULE ChangeMonitor -----------------------------
(***************************************************************************)
(* The change monitor: its checks (monitor/change_monitor.py,              *)
(* monitor/checks/) and the DiffChecker (diff_check.py) that compares an   *)
(* observation with what it keeps in memory and in the input file.         *)
(*                                                                         *)
(* One monitor runs, of a kind "file" (a URL is the same: one hash),       *)
(* "network" (the connections seen so far) or "dns" (a list learned for    *)
(* some hours, then statistics of what is not in it, rotated at midnight). *)
(* Contents are sets of items, a hash is a set of one; an input file is    *)
(* absent, torn by a crash between its truncation and its writing, or      *)
(* whole.  A torn text reads as '', a torn JSON raises in every cycle.     *)
(* hash_file of a missing file raises and changes nothing: it is no step.  *)
(***************************************************************************)
EXTENDS Integers, FiniteSets

CONSTANTS MonItems,        \* hashes, connections or DNS requests
          MonKinds,        \* kinds of monitors that run
          MaxCycles,       \* bound: cycles over all runs
          MaxMonRestarts,  \* bound: restarts, at any step
          MaxMonDays       \* bound: days

ASSUME MonAssumption == MonKinds \subseteq {"file", "network", "dns"}

VARIABLES monKind, monKwargs,  \* print_kwargs is a dict (TRUE) or None
          monWriteOnly,        \* input_file_write_only
          monAlways,           \* settings['alert_always']
          monPc,               \* "idle", "write", "hit", "hitWrite"
          monKnown,            \* previous_content of the (first) DiffChecker
          monObject,           \* check_object, which grows in a network check
          monFile,             \* its input file
          monReport,           \* what the last cycle reported
          monLearning,         \* the learning time has not passed
          hitTodo,             \* entries to count in this cycle
          hitKnown, hitFile,   \* the statistics, in memory and in their file
          hitPrevious,         \* previous_day
          monDay,              \* today
          monCycles, monRestarts,
          monOpen, monTold,    \* history: what is there, what this run told
          monAtStart,          \* history: the file's content when the run began,
                               \* and for a file check after its last write
          hitCount, hitBackups          \* history: hits, and hits in rotated files

monSettings == <<monKind, monKwargs, monWriteOnly, monAlways>>
monState == <<monPc, monKnown, monObject, monFile, monReport, monLearning>>
hitState == <<hitTodo, hitKnown, hitFile, hitPrevious, hitCount, hitBackups>>
monHistory == <<monOpen, monTold, monAtStart>>
monitor_vars == <<monSettings, monState, hitState, monDay, monCycles, monRestarts,
                  monHistory>>

Entries == MonItems \X {"dict", "list"}
NoHits == [e \in Entries |-> 0]
Absent == [state |-> "absent", content |-> {}]
NoStatistics == [state |-> "absent", content |-> NoHits]
Whole(content) == [state |-> "whole", content |-> content]

MonInit ==
    /\ monKind \in MonKinds
    /\ monKwargs \in (IF monKind = "dns" THEN {TRUE} ELSE BOOLEAN)
    /\ monWriteOnly \in (IF monKind = "dns" THEN BOOLEAN ELSE {TRUE})
    /\ monAlways \in (IF monKind = "dns" THEN BOOLEAN ELSE {FALSE})
    /\ monPc = "idle"
    /\ monKnown = {} /\ monObject = {} /\ monReport = {}
    /\ monFile = Absent
    /\ monLearning = TRUE
    /\ hitTodo = {}
    /\ hitKnown = NoHits /\ hitFile = NoStatistics
    /\ hitPrevious = 1 /\ monDay = 1
    /\ monCycles = 0 /\ monRestarts = 0
    /\ monOpen = {} /\ monTold = {} /\ monAtStart = {}
    /\ hitCount = NoHits /\ hitBackups = NoHits
-----------------------------------------------------------------------------
(* _handle_input_file: the file is read while nothing is known, or in      *)
(* every cycle; what cannot be found leaves nothing known then.            *)
ReadsFile(known, empty) == known = empty \/ ~monWriteOnly
Mutant_ReadInputFile(known, file, empty) == known
ReadInputFile(known, file, empty) ==
    IF ~ReadsFile(known, empty) THEN known
    ELSE IF file.state = "whole" THEN file.content
    ELSE empty
JsonIsTorn(known, file, empty) == ReadsFile(known, empty) /\ file.state = "torn"

(* A cycle of a file or network check, up to the truncation of the file.   *)
(* The first cycle of a file check is not reported.  Without print_kwargs  *)
(* the write raises before it opens the file, and the report is lost; a    *)
(* file check raises then in any case.                                     *)
execute_cycle(open) ==
    LET current == IF monKind = "network" THEN monObject \cup open ELSE open
        previous == ReadInputFile(monKnown, monFile, {})
        reported == IF monKind = "network" THEN current \ previous
                    ELSE IF previous = {} THEN {} ELSE current
    IN  /\ monPc = "idle" /\ monKind # "dns" /\ monCycles < MaxCycles
        /\ ~(monKind = "network" /\ JsonIsTorn(monKnown, monFile, {}))
        /\ monCycles' = monCycles + 1
        /\ monOpen' = open
        /\ monObject' = current
        /\ monKnown' = IF previous # current THEN current ELSE previous
        /\ IF previous = current \/ ~monKwargs
           THEN monReport' = {} /\ UNCHANGED <<monPc, monFile>>
           ELSE /\ monReport' = reported
                /\ monPc' = "write"
                /\ monFile' = [state |-> "torn", content |-> {}]
        /\ monTold' = IF monPc' = "idle" THEN monTold \cup monReport' ELSE monTold
        /\ UNCHANGED <<monSettings, monLearning, hitState, monDay, monRestarts,
                       monAtStart>>

(* write_file, write_json_file; then the cycle returns.  A learning cycle  *)
(* raises for the key 'domain', which no event has: it reports nothing.    *)
write ==
    /\ monPc = "write"
    /\ monFile' = Whole(monKnown)
    /\ monPc' = "idle"
    /\ monTold' = monTold \cup monReport
    /\ monAtStart' = IF monKind = "file" THEN monKnown ELSE monAtStart
    /\ UNCHANGED <<monSettings, monKnown, monObject, monReport, monLearning, hitState,
                   monDay, monCycles, monRestarts, monOpen>>

(* A cycle of a DNS check: _aggregation_handling, and what is to be        *)
(* counted.  An entry that is new after the learning is counted as a list  *)
(* of one dictionary, an entry that is always alerted as the dictionary.   *)
dns_cycle(request) ==
    LET known == ReadInputFile(monKnown, monFile, {})
        new == request \notin known
    IN  /\ monPc = "idle" /\ monKind = "dns" /\ monCycles < MaxCycles
        /\ ~JsonIsTorn(monKnown, monFile, {})
        /\ monCycles' = monCycles + 1
        /\ IF new /\ monLearning
           THEN /\ monKnown' = known \cup {request}
                /\ monFile' = [state |-> "torn", content |-> {}]
                /\ monPc' = "write"
                /\ UNCHANGED hitTodo
           ELSE /\ monKnown' = known
                /\ hitTodo' = {e \in {request} \X {"dict", "list"} :
                                 IF e[2] = "list" THEN new ELSE monAlways}
                /\ monPc' = IF hitTodo' = {} THEN "idle" ELSE "hit"
                /\ UNCHANGED monFile
        /\ UNCHANGED <<monSettings, monObject, monReport, monLearning, hitKnown,
                       hitFile, hitPrevious, hitCount, hitBackups, monDay, monRestarts,
                       monHistory>>

(* _hit_statistics_only_handling: a file with statistics is put aside on a *)
(* new day, and only then does previous_day follow; one entry is counted.  *)
Mutant_AfterRotation(known) == known
AfterRotation(known) == NoHits
ToCount == IF \E e \in hitTodo : e[2] = "list" THEN CHOOSE e \in hitTodo : e[2] = "list"
           ELSE CHOOSE e \in hitTodo : TRUE
hit ==
    LET known == ReadInputFile(hitKnown, hitFile, NoHits)
        rotates == monDay # hitPrevious /\ hitFile.state = "whole"
        kept == IF rotates THEN AfterRotation(known) ELSE known
    IN  /\ monPc = "hit"
        /\ ~JsonIsTorn(hitKnown, hitFile, NoHits)
        /\ ~(monDay # hitPrevious /\ hitFile.state = "torn")
        /\ hitPrevious' = IF rotates THEN monDay ELSE hitPrevious
        /\ hitBackups' = IF rotates
                         THEN [e \in Entries |-> hitBackups[e] + hitFile.content[e]]
                         ELSE hitBackups
        /\ hitKnown' = [kept EXCEPT ![ToCount] = @ + 1]
        /\ hitFile' = [state |-> "torn", content |-> NoHits]
        /\ monPc' = "hitWrite"
        /\ UNCHANGED <<monSettings, monKnown, monObject, monFile, monReport, monLearning,
                       hitTodo, hitCount, monDay, monCycles, monRestarts, monHistory>>
hit_write ==
    /\ monPc = "hitWrite"
    /\ hitFile' = Whole(hitKnown)
    /\ hitCount' = [hitCount EXCEPT ![ToCount] = @ + 1]
    /\ hitTodo' = hitTodo \ {ToCount}
    /\ monPc' = IF hitTodo' = {} THEN "idle" ELSE "hit"
    /\ UNCHANGED <<monSettings, monKnown, monObject, monFile, monReport, monLearning,
                   hitKnown, hitPrevious, hitBackups, monDay, monCycles, monRestarts,
                   monHistory>>
-----------------------------------------------------------------------------
learning_time_passes ==
    /\ monKind = "dns" /\ monLearning /\ monPc = "idle"
    /\ monLearning' = FALSE
    /\ UNCHANGED <<monSettings, monPc, monKnown, monObject, monFile, monReport, hitState,
                   monDay, monCycles, monRestarts, monHistory>>
midnight ==
    /\ monKind = "dns" /\ monDay < MaxMonDays
    /\ monDay' = monDay + 1
    /\ UNCHANGED <<monSettings, monState, hitState, monCycles, monRestarts, monHistory>>

(* The program ends at any step and is started again: initiate_before_action. *)
restart ==
    /\ monRestarts < MaxMonRestarts
    /\ monRestarts' = monRestarts + 1
    /\ monPc' = "idle"
    /\ monKnown' = {} /\ monObject' = {} /\ monReport' = {} /\ monOpen' = {}
    /\ monLearning' = TRUE
    /\ hitTodo' = {} /\ hitKnown' = NoHits /\ hitPrevious' = monDay
    /\ monTold' = {}
    /\ monAtStart' = monFile.content
    /\ UNCHANGED <<monSettings, monFile, hitFile, hitCount, hitBackups, monDay, monCycles>>

MonNext ==
    \/ \E open \in SUBSET MonItems :
          /\ monKind = "file" => Cardinality(open) = 1
          /\ execute_cycle(open)
    \/ \E request \in MonItems : dns_cycle(request)
    \/ write \/ hit \/ hit_write
    \/ learning_time_passes \/ midnight \/ restart
-----------------------------------------------------------------------------
MonTypeOK ==
    /\ monPc \in {"idle", "write", "hit", "hitWrite"}
    /\ monKnown \subseteq MonItems /\ monReport \subseteq MonItems
    /\ monFile.state \in {"absent", "torn", "whole"} /\ monFile.content \subseteq MonItems
    /\ hitTodo \subseteq Entries

(* What the run has told is never told again as a new connection, and      *)
(* every open connection that was not in the file at the start is told.    *)
NewConnectionsToldOnce ==
    monKind = "network" /\ monKwargs =>
        /\ monPc = "write" => monReport \cap monTold = {}
        /\ monPc = "idle" => monOpen \subseteq monTold \cup monAtStart

(* A content other than the one saved last is told, also when it changed   *)
(* while the monitor did not run.                                          *)
ChangedFileIsTold ==
    monKind = "file" /\ monPc = "write" /\ monAtStart # {} =>
        monReport = monOpen /\ monOpen # monAtStart

(* A hit is in one file: that of the statistics, or one put aside.         *)
HitsCountedOnce ==
    hitFile.state # "torn" =>
        \A e \in Entries : hitCount[e] = hitBackups[e] + hitFile.content[e]

(* No observation is forgotten by a restart of the monitor, but those of   *)
(* a file that a crash tore.                                               *)
MonitorForgetsNothing == NewConnectionsToldOnce /\ ChangedFileIsTold /\ HitsCountedOnce
=============================================================================
