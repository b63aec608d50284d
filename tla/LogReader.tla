------------------------------- MODULE LogReader -------------------------------
(***************************************************************************)
(* LogReader of wrappers/loggingw/reading.py: a program asks again and     *)
(* again for the new lines of a CSV log that another program writes and    *)
(* rotates.  get_latest_lines looks at the directory four times and then   *)
(* reads one or two files; the writer may work in between.  A row is a     *)
(* number, written once; HeaderRow is the first line of every file.        *)
(***************************************************************************)
EXTENDS Naturals, Sequences, FiniteSets

CONSTANTS MaxRows, MaxRotations, MaxPolls   \* bounds

ASSUME ReaderAssumption == MaxRows \in Nat /\ MaxRotations \in Nat

HeaderRow == 0

VARIABLES there,        \* the log file exists
          current,      \* its lines
          archived,     \* the lines of the rotated files, oldest first
          written,      \* rows written so far
          reader,       \* where get_latest_lines is
          header_read,  \* self.header is set
          existing_lines, existing_count,
          previous,     \* the newest rotated file when it was looked for
          log_files_count, \* current_log_files_count
          from_previous,\* new_lines_from_previous_file
          reported,     \* history: what the calls have returned
          polls,
          since_poll,   \* history: rotations since the last call began
          disturbed     \* history: a rotation within a call, or two between

file_vars == <<there, current, archived, written>>
reader_vars == <<reader, header_read, existing_lines, existing_count, previous,
                 log_files_count, from_previous, reported, polls>>
read_vars == <<file_vars, reader_vars, since_poll, disturbed>>

(* create_logger opens the file at once (delay=False), so it is there      *)
(* whenever rotated files are.                                             *)
ReaderInit ==
    /\ there \in BOOLEAN
    /\ current = IF there THEN <<HeaderRow>> ELSE <<>>
    /\ archived \in {<<>>} \cup (IF there THEN {<< <<HeaderRow>> >>} ELSE {}) /\ written = 0
    /\ reader = "idle" /\ header_read = FALSE
    /\ existing_lines = {} /\ existing_count = 0 /\ previous = 0
    /\ log_files_count = 0 /\ from_previous = <<>>
    /\ reported = <<>> /\ polls = 0 /\ since_poll = 0 /\ disturbed = FALSE

-----------------------------------------------------------------------------
(* The program that logs.                                                  *)
row_written ==
    /\ written < MaxRows
    /\ written' = written + 1
    /\ current' = Append(IF there THEN current ELSE <<HeaderRow>>, written')
    /\ there' = TRUE
    /\ UNCHANGED <<archived, reader_vars, since_poll, disturbed>>

log_rotated ==
    /\ there /\ Len(archived) < MaxRotations
    /\ archived' = Append(archived, current)
    /\ current' = <<HeaderRow>>
    /\ since_poll' = since_poll + 1
    /\ disturbed' = (disturbed \/ reader # "idle" \/ since_poll > 0)
    /\ UNCHANGED <<there, written, reader_vars>>

-----------------------------------------------------------------------------
(* get_logs_paths without a date counts the log file itself twice, once by *)
(* its name's pattern and once as the last file.                           *)
files_counted ==
    Len(archived) + (IF there THEN 2 ELSE 0)

\* read_csv_to_list_of_dicts_by_header: without a header the first line is it.
rows_of(lines) == IF header_read \/ lines = <<>> THEN lines ELSE Tail(lines)

\* _extract_new_lines_only: the rows at the places that hold a new one, in order.
InOrder(f) == \A k, l \in DOMAIN f : k < l => f[k] < f[l]
Enumeration(S) ==
    CHOOSE f \in [1 .. Cardinality(S) -> S] : InOrder(f) /\ S = {f[k] : k \in DOMAIN f}
new_lines(rows) ==
    LET f == Enumeration({i \in DOMAIN rows : rows[i] \notin existing_lines})
    IN [k \in DOMAIN f |-> rows[f[k]]]

get_latest_lines ==
    /\ reader = "idle" /\ polls < MaxPolls
    /\ polls' = polls + 1 /\ since_poll' = 0
    /\ existing_count' = IF existing_count = 0 THEN files_counted ELSE existing_count
    /\ reader' = IF existing_count' = 0 THEN "idle" ELSE "previous"
    /\ UNCHANGED <<file_vars, header_read, existing_lines, previous, log_files_count,
                   from_previous, reported, disturbed>>

previous_looked_for ==
    /\ reader = "previous"
    /\ previous' = Len(archived)
    /\ reader' = "count"
    /\ UNCHANGED <<file_vars, header_read, existing_lines, existing_count,
                   log_files_count, from_previous, reported, polls, since_poll, disturbed>>

files_are_counted ==
    /\ reader = "count"
    /\ log_files_count' = files_counted
    /\ reader' = IF log_files_count' > existing_count THEN "read_previous" ELSE "read_latest"
    /\ UNCHANGED <<file_vars, header_read, existing_lines, existing_count,
                   previous, from_previous, reported, polls, since_poll, disturbed>>

Mutant_left_of_previous(rows) == rows

left_of_previous(rows) == new_lines(rows)

(* The rows of the rotated file that were not returned yet.  Without a     *)
(* previous file the csv reader raises on the path None: the call ends.    *)
previous_read ==
    /\ reader = "read_previous"
    /\ IF previous = 0
       THEN /\ reader' = "idle"
            /\ UNCHANGED <<header_read, existing_lines, existing_count, from_previous>>
       ELSE /\ from_previous' = left_of_previous(rows_of(archived[previous]))
            /\ header_read' = TRUE
            /\ existing_lines' = {}
            /\ existing_count' = log_files_count
            /\ reader' = "read_latest"
    /\ UNCHANGED <<file_vars, previous, log_files_count, reported, polls, since_poll,
                   disturbed>>

latest_read ==
    /\ reader = "read_latest"
    /\ LET rows == new_lines(rows_of(current)) IN
          /\ existing_lines' = existing_lines \cup {rows[i] : i \in DOMAIN rows}
          /\ reported' = reported \o from_previous \o rows
    /\ header_read' = TRUE /\ from_previous' = <<>> /\ reader' = "idle"
    /\ UNCHANGED <<file_vars, existing_count, previous, log_files_count, polls,
                   since_poll, disturbed>>

Reader == get_latest_lines \/ previous_looked_for \/ files_are_counted
            \/ previous_read \/ latest_read
ReaderNext == row_written \/ log_rotated \/ Reader

-----------------------------------------------------------------------------
ReaderTypeOK ==
    /\ written \in 0 .. MaxRows /\ existing_lines \subseteq 0 .. MaxRows
    /\ previous \in 0 .. MaxRotations + 1

(* From the first row returned on, the rows come in the order they were    *)
(* written, each once and none left out, over a rotation between two calls *)
(* (reading.py:320-407).  Lines that are headers may come between them.    *)
InARow(lines) ==
    \A i, j \in DOMAIN lines :
       /\ i < j /\ lines[i] # HeaderRow /\ lines[j] # HeaderRow
       /\ \A k \in i + 1 .. j - 1 : lines[k] = HeaderRow
       => lines[j] = lines[i] + 1

RowsInOrderOnce == ~disturbed => InARow(reported)
=============================================================================
