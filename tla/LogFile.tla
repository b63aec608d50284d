-------------------------------- MODULE LogFile --------------------------------
(***************************************************************************)
(* A CSV log file of wrappers/loggingw that starts anew each midnight:     *)
(* TimedRotatingFileHandler of the standard library, used by the one       *)
(* thread of a QueueListener, with what handlers.py and filters.py add to  *)
(* it: HeaderFilter, a doRollover that writes the header, and a thread     *)
(* that calls doRollover when the day is over.  The process may be killed  *)
(* and started again on the same files.                                    *)
(*                                                                         *)
(* A file is known by its number, so that a stream opened before a rename  *)
(* still names the file it writes; the number of a file that has no name   *)
(* any more and is not open may be used again.  Times are days.            *)
(***************************************************************************)
EXTENDS Naturals, Sequences, FiniteSets

CONSTANTS MaxDays,       \* bound: days
          MaxRecords,    \* bound: records logged
          MaxRestarts,   \* bound: kills of the process
          MaxRounds,     \* bound: rollovers of the rotation thread
          RotationThread \* values of rotate_at_rollover_time

ASSUME LogAssumption ==
    /\ MaxDays \in Nat \ {0} /\ MaxRecords \in Nat /\ RotationThread \subseteq BOOLEAN

Days == 1 .. MaxDays
None == 0
Header == 0
FileIds == 1 .. MaxDays + 3

VARIABLES day, rotate_at_rollover_time,
          contents,       \* what each file holds: "header" or a record
          base, rotated,  \* the file at baseFilename, and of each day
          modified,       \* the day baseFilename was last changed
          stream,         \* handler.stream
          rolloverAt,     \* handler.rolloverAt
          last_rollover_at, \* of the rotation thread
          listener, rotator, \* where the two threads are
          logged, restarts, rounds

log_vars == <<day, rotate_at_rollover_time, contents, base, rotated, modified,
              stream, rolloverAt, last_rollover_at, listener, rotator, logged,
              restarts, rounds>>

used == {base, stream} \cup {rotated[d] : d \in Days}
new_file == CHOOSE f \in FileIds : f \notin used

\* get_timed_rotating_file_handler_extended on a directory without logs.
LogInit ==
    /\ day = 1 /\ rotate_at_rollover_time \in RotationThread
    /\ contents = [f \in FileIds |-> IF f = 1 THEN <<Header>> ELSE <<>>]
    /\ base = 1 /\ rotated = [d \in Days |-> None] /\ modified = 1
    /\ stream = 1 /\ rolloverAt = 2 /\ last_rollover_at = 2
    /\ listener = "idle" /\ rotator = "idle"
    /\ logged = 0 /\ restarts = 0 /\ rounds = 0

\* open(baseFilename, 'a'): the file, and what the files then hold.
opened == IF base = None THEN new_file ELSE base
held == IF base = None THEN [contents EXCEPT ![opened] = <<>>] ELSE contents

\* open(baseFilename, 'a').write(text)
appended(text) ==
    /\ base' = opened
    /\ contents' = [held EXCEPT ![opened] = Append(@, text)]
    /\ modified' = day

Midnight ==
    /\ day < MaxDays
    /\ day' = day + 1
    /\ UNCHANGED <<rotate_at_rollover_time, contents, base, rotated, modified,
                   stream, rolloverAt, last_rollover_at, listener, rotator,
                   logged, restarts, rounds>>

-----------------------------------------------------------------------------
(* doRollover, by the thread that is "exists" (the standard library's      *)
(* steps, then new_do_rollover's).  Each operator gives the place where    *)
(* the thread goes on.                                                     *)
old_day == rolloverAt - 1

ro_exists(next) ==
    /\ next = IF rotated[old_day] # None THEN "header" ELSE "close"
    /\ UNCHANGED <<contents, base, rotated, modified, stream, rolloverAt>>

ro_close(next) ==
    /\ stream' = None /\ next = "rename"
    /\ UNCHANGED <<contents, base, rotated, modified, rolloverAt>>

ro_rename(next) ==
    /\ IF base # None
       THEN rotated' = [rotated EXCEPT ![old_day] = base] /\ base' = None
       ELSE UNCHANGED <<rotated, base>>
    /\ next = "open"
    /\ UNCHANGED <<contents, modified, stream, rolloverAt>>

ro_open(next) ==
    /\ base' = opened /\ contents' = held
    /\ stream' = opened /\ next = "schedule"
    /\ modified' = IF base = None THEN day ELSE modified
    /\ UNCHANGED <<rotated, rolloverAt>>

ro_schedule(next) ==
    /\ rolloverAt' = day + 1 /\ next = "header"
    /\ UNCHANGED <<contents, base, rotated, modified, stream>>

ro_header(next, done) ==
    /\ appended(Header) /\ next = done
    /\ UNCHANGED <<rotated, stream, rolloverAt>>

doRollover(at, next, done) ==
    \/ at = "exists" /\ ro_exists(next)
    \/ at = "close" /\ ro_close(next)
    \/ at = "rename" /\ ro_rename(next)
    \/ at = "open" /\ ro_open(next)
    \/ at = "schedule" /\ ro_schedule(next)
    \/ at = "header" /\ ro_header(next, done)

-----------------------------------------------------------------------------
(* The listener's thread: Handler.handle, whose filter runs before the     *)
(* handler decides to roll over.                                           *)
header_needed == base = None \/ contents[base] = <<>>

record_filtered ==
    /\ listener = "idle" /\ logged < MaxRecords
    /\ IF header_needed THEN appended(Header)
       ELSE UNCHANGED <<base, contents, modified>>
    /\ listener' = IF day >= rolloverAt THEN "exists" ELSE "write"
    /\ UNCHANGED <<day, rotate_at_rollover_time, rotated, stream, rolloverAt,
                   last_rollover_at, rotator, logged, restarts, rounds>>

listener_rolls_over ==
    /\ doRollover(listener, listener', "write")
    /\ UNCHANGED <<day, rotate_at_rollover_time, last_rollover_at, rotator,
                   logged, restarts, rounds>>

record_written ==
    /\ listener = "write"
    /\ logged' = logged + 1
    /\ IF stream # None
       THEN /\ contents' = [contents EXCEPT ![stream] = Append(@, logged')]
            /\ modified' = IF stream = base THEN day ELSE modified
            /\ UNCHANGED <<base, stream>>
       ELSE appended(logged') /\ stream' = base'
    /\ listener' = "idle"
    /\ UNCHANGED <<day, rotate_at_rollover_time, rotated, rolloverAt,
                   last_rollover_at, rotator, restarts, rounds>>

(* _start_interval_rotation: no lock is taken.                             *)
rotation_due == day >= rolloverAt /\ rolloverAt = last_rollover_at

rotator_checks ==
    /\ rotate_at_rollover_time /\ rotator = "idle" /\ rotation_due
    /\ rounds < MaxRounds /\ rounds' = rounds + 1
    /\ rotator' = "exists"
    /\ UNCHANGED <<day, rotate_at_rollover_time, contents, base, rotated,
                   modified, stream, rolloverAt, last_rollover_at, listener,
                   logged, restarts>>

rotator_rolls_over ==
    /\ doRollover(rotator, rotator', "remember")
    /\ UNCHANGED <<day, rotate_at_rollover_time, last_rollover_at, listener,
                   logged, restarts, rounds>>

rotator_remembers ==
    /\ rotator = "remember"
    /\ last_rollover_at' = rolloverAt /\ rotator' = "idle"
    /\ UNCHANGED <<day, rotate_at_rollover_time, contents, base, rotated,
                   modified, stream, rolloverAt, listener, logged, restarts, rounds>>

(* Killed and started again: the handler opens the file and computes the   *)
(* rollover from its last change; HeaderFilter then writes the header to   *)
(* a file without one.                                                     *)
Mutant_first_header(f) == [held EXCEPT ![f] = Append(@, Header)]

first_header(f) ==
    [held EXCEPT ![f] = IF @ = <<>> THEN <<Header>> ELSE @]

Restart ==
    /\ restarts < MaxRestarts /\ restarts' = restarts + 1
    /\ LET since == IF base = None THEN day ELSE modified
       IN /\ base' = opened /\ stream' = opened
          /\ rolloverAt' = since + 1 /\ last_rollover_at' = since + 1
          /\ contents' = first_header(opened)
          /\ modified' = IF held[opened] = <<>> THEN day ELSE since
    /\ listener' = "idle" /\ rotator' = "idle"
    /\ UNCHANGED <<day, rotate_at_rollover_time, rotated, logged, rounds>>

LogThreads ==
    \/ listener # "idle" /\ listener_rolls_over
    \/ record_written
    \/ rotator_checks
    \/ rotator # "idle" /\ rotator_rolls_over
    \/ rotator_remembers

LogNext == Midnight \/ record_filtered \/ LogThreads \/ Restart

-----------------------------------------------------------------------------
LogTypeOK ==
    /\ day \in Days /\ logged \in 0 .. MaxRecords
    /\ base \in {None} \cup FileIds /\ stream \in {None} \cup FileIds
    /\ rotated \in [Days -> {None} \cup FileIds]
    /\ rolloverAt \in 2 .. MaxDays + 1 /\ modified \in 1 .. day
    /\ contents \in [FileIds -> Seq({Header} \cup 1 .. MaxRecords)]

on_disk == ({base} \cup {rotated[d] : d \in Days}) \ {None}
places(item, f) == {i \in DOMAIN contents[f] : contents[f][i] = item}

(* Without the rotation thread every record is kept in one file, also over *)
(* midnights and kills, and a file of records has one header, its first    *)
(* line (filters.py:22-33, handlers.py:126-136).                           *)
OneHeaderAndEveryRecord ==
    ~rotate_at_rollover_time =>
      /\ \A r \in 1 .. logged :
            Cardinality({f \in on_disk : places(r, f) # {}}) = 1
      /\ \A f \in on_disk :
            contents[f] # <<>> => places(Header, f) = {1}

(* "If set to True, the log file will be rotated at the rollover time,     *)
(* even if there's nothing to write." (loggingw.py:117): with both threads *)
(* at rest, the rotation thread sees that the day is over.                 *)
RotatesOnTime ==
    rotate_at_rollover_time /\ listener = "idle" /\ rotator = "idle"
        /\ day >= rolloverAt
    => rotation_due
=============================================================================
