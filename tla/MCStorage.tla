------------------------------ MODULE MCStorage ------------------------------
(***************************************************************************)
(* What the program keeps in files: the helpers that move and copy them,   *)
(* the loggers, their files, rotation and readers, the CSV loggers, the    *)
(* PCAP files, the statistics and the configuration files.  They share no  *)
(* state: in a behaviour one of them runs and each of the others stays in  *)
(* one initial state.                                                      *)
(***************************************************************************)
EXTENDS Files, LogFile, LogReader, LoggerSetup, CsvLoggers, PcapWriter, Statistics,
        TomlUpdate

CONSTANT Parts   \* the components of which one runs

VARIABLE part    \* the component of the behaviour

(* Two directories, one of them with a directory of its own, and four of   *)
(* five files with contents of their own.                                  *)
MCStems == {"a$", "a_", "d"}
MCClean == [s \in MCStems \cup {"s", "root"} |-> IF s = "a$" THEN "a_" ELSE s]
MCRoot == <<Name("root")>>
MCSource == Append(MCRoot, Name("s"))
MCTarget == Append(MCRoot, Name("d"))
MCBelow == Append(MCSource, Name("d"))
MCNumber == (Append(MCSource, Name("a$")) :> 1) @@ (Append(MCSource, Name("a_")) :> 2)
            @@ (Append(MCTarget, Name("a$")) :> 3) @@ (Append(MCTarget, Name("a_")) :> 4)
            @@ (Append(MCBelow, Name("a_")) :> 5)
MCTrees ==
    {[p \in {MCRoot, MCSource, MCTarget, MCBelow} \cup files |->
        IF p \in files THEN MCNumber[p] ELSE 0] :
     files \in {s \in SUBSET DOMAIN MCNumber : Cardinality(s) = 4}}
MCPaths == {Append(MCSource, Name("a$")), Append(MCSource, Name("a_")),
            Append(MCTarget, Name("a_"))}
MCDirs == {MCSource, MCTarget, MCBelow}

(* Calls of create_logger: as mitm_main.py and its processes make them,    *)
(* the example of the function, and calls without a queue.                 *)
MCCall == [name |-> TRUE, multi |-> TRUE, get_listener |-> FALSE, queue_handler |-> FALSE,
           queue |-> TRUE, file_path |-> FALSE, directory |-> FALSE, stream |-> TRUE,
           timedfile |-> TRUE]
MCExampleCall == MCCall
MCExampleCalls == {MCExampleCall}
MCLoggerCalls ==
    {MCExampleCall,
     [MCCall EXCEPT !.file_path = TRUE],
     [MCCall EXCEPT !.directory = TRUE, !.stream = FALSE],
     [MCCall EXCEPT !.multi = FALSE, !.directory = TRUE],
     [MCCall EXCEPT !.queue = FALSE, !.file_path = TRUE],
     [MCCall EXCEPT !.multi = FALSE, !.queue_handler = TRUE, !.stream = FALSE,
                    !.timedfile = FALSE],
     [MCCall EXCEPT !.name = FALSE, !.multi = FALSE, !.get_listener = TRUE,
                    !.file_path = TRUE],
     [MCCall EXCEPT !.multi = FALSE, !.get_listener = TRUE, !.file_path = TRUE]}

MCMessage(engine, action, client, server, len) ==
    [engine |-> engine, action |-> action, client |-> client, server |-> server,
     len |-> len]
MCMessages ==
    {MCMessage("a", "client_receive", "c", "s", 3),
     MCMessage("a", "service_receive", "c", "s", 2),
     MCMessage("a", "client_send", "c", "s", 2),
     MCMessage("a", "service_receive", "c", "s", 0),
     MCMessage("b", "client_receive", "d", "s", 1)}

MCUrlHost == [u \in Urls |-> IF u = "ip/" THEN "ip" ELSE "a"]
MCHostDomain == [h \in {"a", "ip"} |-> IF h = "a" THEN "a" ELSE ""]
MCSizes == {<<1, 0>>, <<3, NoSize>>}
MCPercentage == <<1, 4>>
MCFilters == {{{"a/2"}}}

MCTexts == {"", "list", "1", "2", "3", "4", "5", "7", "9", "a", "b", "c", "d", "e", "f", "g",
            "k", "l", "m"}
MCTomlFiles == {
    <<Key("k", "1"), Comment("c"), Section("a"), Key("k", "1"), Comment("d"),
      ListKey("l"), Item("1"), Comment("e"), Item("2"), ListEnd,
      Section("b"), Key("k", "2"), ListKey("l"), ListEnd>>,
    <<Section("b"), Key("m", "1"), ListKey("l"), Item("3"), ListEnd, Comment("f"),
      Section("a"), Key("k", "3")>>}
MCKeys == {<<"z", "k">>, <<"a", "k">>, <<"a", "l">>, <<"b", "k">>, <<"b", "l">>, <<"b", "m">>}
MCValues(key) ==
    IF key[2] = "l" THEN {<<"list">>, <<"list", "4">>, <<"9">>}
    ELSE {<<"1">>, <<"7">>, <<"list", "1">>}
MCChanges ==
    UNION {{f \in [keys -> UNION {MCValues(key) : key \in keys}] :
              \A key \in keys : f[key] \in MCValues(key)} :
           keys \in {s \in SUBSET MCKeys : Cardinality(s) \in {1, 2}}}
MCChangesFiles ==
    MCTomlFiles \cup {<<Key("k", "5"), Section("b"), Key("l", "5")>>,
                      <<Section("a"), ListKey("l"), Item("4"), Comment("g"), ListEnd>>}

FsIdle == tree = CHOOSE t \in MCTrees : TRUE
LogIdle == rotate_at_rollover_time = FALSE
ReaderIdle == there /\ archived = <<>>
LoggerIdle == lgr_call = MCExampleCall /\ start_method = "spawn"
TomlIdle == toml = CHOOSE t \in MCTomlFiles : TRUE

MCInit ==
    /\ part \in Parts
    /\ FsInit /\ (part # "files" => FsIdle)
    /\ LogInit /\ (part # "log" => LogIdle)
    /\ ReaderInit /\ (part # "reader" => ReaderIdle)
    /\ LoggerInit /\ (part # "logger" => LoggerIdle)
    /\ CsvInit /\ PcapInit /\ StatInit
    /\ TomlInit /\ (part # "toml" => TomlIdle)

MCNext ==
    /\ UNCHANGED part
    /\ \/ /\ part = "files" /\ FsNext
          /\ UNCHANGED <<log_vars, read_vars, lgr_vars, csv_vars, pcap_vars, stat_vars, toml_vars>>
       \/ /\ part = "log" /\ LogNext
          /\ UNCHANGED <<fs_vars, read_vars, lgr_vars, csv_vars, pcap_vars, stat_vars, toml_vars>>
       \/ /\ part = "reader" /\ ReaderNext
          /\ UNCHANGED <<fs_vars, log_vars, lgr_vars, csv_vars, pcap_vars, stat_vars, toml_vars>>
       \/ /\ part = "logger" /\ LoggerNext
          /\ UNCHANGED <<fs_vars, log_vars, read_vars, csv_vars, pcap_vars, stat_vars, toml_vars>>
       \/ /\ part = "csv" /\ CsvNext
          /\ UNCHANGED <<fs_vars, log_vars, read_vars, lgr_vars, pcap_vars, stat_vars, toml_vars>>
       \/ /\ part = "pcap" /\ PcapNext
          /\ UNCHANGED <<fs_vars, log_vars, read_vars, lgr_vars, csv_vars, stat_vars, toml_vars>>
       \/ /\ part = "statistics" /\ StatNext
          /\ UNCHANGED <<fs_vars, log_vars, read_vars, lgr_vars, csv_vars, pcap_vars, toml_vars>>
       \/ /\ part = "toml" /\ TomlNext
          /\ UNCHANGED <<fs_vars, log_vars, read_vars, lgr_vars, csv_vars, pcap_vars, stat_vars>>

mc_vars == <<part, fs_vars, log_vars, read_vars, lgr_vars, csv_vars, pcap_vars, stat_vars,
             toml_vars>>

(* The threads of the loggers run on. *)
MCSpec ==
    MCInit /\ [][MCNext]_mc_vars /\ WF_lgr_vars(part = "logger" /\ LoggerThreads)

(* The types of all components. *)
StorageTypeOK ==
    /\ part \in Parts
    /\ FsTypeOK /\ LogTypeOK /\ ReaderTypeOK /\ LoggerTypeOK /\ CsvTypeOK /\ PcapTypeOK
    /\ StatTypeOK /\ TomlTypeOK

(* What is logged is in the files, whole, once and in order, and so is     *)
(* what a reader of the files gets (loggingw.py, handlers.py, reading.py). *)
LogsAreComplete ==
    OneHeaderAndEveryRecord /\ RowsInOrderOnce /\ LogRecordsOnceInOrder
=============================================================================
