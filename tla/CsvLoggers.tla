------------------------------ MODULE CsvLoggers ------------------------------
(***************************************************************************)
(* CsvLogger and ExceptionCsvLogger of wrappers/loggingw/loggingw.py: an   *)
(* object writes rows by a named logger, which may exist already, and      *)
(* checks each row against its own header.  A header and a row are their   *)
(* numbers of cells.  What becomes of a row on its way is in LoggerSetup.  *)
(***************************************************************************)
EXTENDS Naturals, Sequences, FiniteSets

CONSTANTS CsvNames,       \* names of loggers
          CustomHeaders,  \* numbers of cells of custom_header; 0: None
          MaxCsvObjects,  \* bound: objects made
          MaxCsvRows      \* bound: calls of write()

ASSUME CsvAssumption == CustomHeaders \subseteq Nat /\ MaxCsvRows \in Nat

CsvSettings == [directory_path : BOOLEAN, log_queue : BOOLEAN,
                start_listener : BOOLEAN, no_listener : BOOLEAN]
NoFileHeader == 0

VARIABLES csv_loggers,   \* for each existing logger: the header of its file, its rows
          csv_objects,   \* the objects: [name, header, exceptions]
          csv_result,    \* how the last call ended
          csv_writes     \* bound

csv_vars == <<csv_loggers, csv_objects, csv_result, csv_writes>>

CsvInit ==
    /\ csv_loggers = <<>> /\ csv_objects = <<>>
    /\ csv_result = "none" /\ csv_writes = 0

(* __init__.  A logger that exists is taken as it is, whatever the header  *)
(* of its file; without a listener of its own the file is another process's. *)
csv_settings_error(name, s) ==
    \/ s.start_listener /\ s.no_listener
    \/ name \notin DOMAIN csv_loggers /\
         (~s.directory_path \/ ((s.start_listener \/ s.no_listener) /\ ~s.log_queue))

object_header(exceptions, custom) == IF exceptions THEN custom + 2 ELSE custom

make_csv_logger(name, s, exceptions, custom) ==
    /\ Len(csv_objects) < MaxCsvObjects
    /\ LET header == object_header(exceptions, custom)
           object == [name |-> name, header |-> header, exceptions |-> exceptions]
           logger == [header |-> IF s.no_listener THEN NoFileHeader ELSE header,
                      rows |-> <<>>] IN
       IF csv_settings_error(name, s)
       THEN csv_result' = "ValueError" /\ UNCHANGED <<csv_loggers, csv_objects>>
       ELSE /\ csv_loggers' = [n \in DOMAIN csv_loggers \cup {name} |->
                                 IF n \in DOMAIN csv_loggers THEN csv_loggers[n] ELSE logger]
            /\ csv_objects' = Append(csv_objects, object)
            /\ csv_result' = "made"
    /\ UNCHANGED csv_writes

(* CsvLogger.write: a header of None is no line that can be counted.       *)
written_row(object, cells) ==
    IF object.header = 0
    THEN csv_result' = "Error" /\ UNCHANGED csv_loggers
    ELSE IF cells # object.header
    THEN csv_result' = "ValueError" /\ UNCHANGED csv_loggers
    ELSE /\ csv_loggers' = [csv_loggers EXCEPT ![object.name].rows = Append(@, cells)]
         /\ csv_result' = "written"

csv_write_row(object, cells) ==
    /\ ~object.exceptions
    /\ csv_writes < MaxCsvRows /\ csv_writes' = csv_writes + 1
    /\ written_row(object, cells)
    /\ UNCHANGED csv_objects

(* ExceptionCsvLogger.write: getattr takes no None for a name, and the     *)
(* custom string is one cell, whatever commas it has (its columns).        *)
exception_cells(columns) == IF columns = 0 THEN 2 ELSE 3

write_exception(object, message, attribute, columns) ==
    /\ object.exceptions
    /\ csv_writes < MaxCsvRows /\ csv_writes' = csv_writes + 1
    /\ IF message # "text" /\ ~attribute
       THEN csv_result' = "TypeError" /\ UNCHANGED csv_loggers
       ELSE written_row(object, exception_cells(columns))
    /\ UNCHANGED csv_objects

\* A caller gives the columns that it gave the header.
CsvNext ==
    \/ \E name \in CsvNames, s \in CsvSettings, exceptions \in BOOLEAN,
          custom \in CustomHeaders : make_csv_logger(name, s, exceptions, custom)
    \/ \E i \in DOMAIN csv_objects :
         LET object == csv_objects[i] IN
         \/ \E cells \in 1 .. 3 : csv_write_row(object, cells)
         \/ \E message \in {"text", "exception", "none"}, attribute \in BOOLEAN :
              write_exception(object, message, attribute, object.header - 2)

-----------------------------------------------------------------------------
(* The types of the CSV loggers. *)
CsvTypeOK ==
    /\ DOMAIN csv_loggers \subseteq CsvNames
    /\ \A n \in DOMAIN csv_loggers :
         csv_loggers[n] \in [header : Nat, rows : Seq(Nat \ {0})]
    /\ csv_objects \in Seq([name : DOMAIN csv_loggers, header : Nat, exceptions : BOOLEAN])
    /\ csv_writes \in 0 .. MaxCsvRows

(* An exception logger logs what it is given: the exception or, without    *)
(* one, the traceback ("If None, the message will be retrieved from        *)
(* current traceback frame").                                              *)
ExceptionIsLogged == [][
    \A i \in DOMAIN csv_objects, message \in {"exception", "none"}, attribute \in BOOLEAN :
        write_exception(csv_objects[i], message, attribute, csv_objects[i].header - 2)
          => csv_result' = "written" ]_csv_vars
=============================================================================
