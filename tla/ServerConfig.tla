------------------------------ MODULE ServerConfig ------------------------------
(***************************************************************************)
(* load_config (mitm/config_static.py, import_config.py) and the engines   *)
(* (initialize_engines.py): how the server reads its settings and the      *)
(* directories of engines, what it refuses, and which engine then gets the *)
(* connection of a name.                                                   *)
(*                                                                         *)
(* A setting is what a check asks of it.  A domain is a name; Normal is    *)
(* strip().lower().rstrip('.') and Within says which name is a substring   *)
(* of which.  An address in on_port_connect stands for itself, for a file  *)
(* that holds one, or for a file that does not.                            *)
(***************************************************************************)
EXTENDS Integers, Sequences

CONSTANTS MainConfigs,    \* the settings of config.toml that are tried
          EngineConfigs,  \* contents of engine_config.toml that are tried
          MaxEngines,     \* bound: directories of engines
          CfgNames,       \* names that connections ask for
          Normal,         \* name -> normalised name
          Within          \* pairs <<substring, normalised name>>

ASSUME CfgAssumption ==
    /\ MaxEngines \in Nat
    /\ \A n \in CfgNames : <<Normal[n], Normal[n]>> \in Within

VARIABLES main,          \* config.toml, and whether the process is admin
          gateway,       \* set_default_dns_gateway and its two variants
          engineDirs,    \* engine_config.toml files, in the order of os.walk
          engines_list,  \* the local engines_list of import_engines_configs
          ENGINES_LIST, REFERENCE_MODULE,  \* of config_static, after the import
          cfgPc,         \* the step of load_config
          result,        \* what load_config returned: 0, 1, "raised" as 2
          asked, assigned   \* the last name and assign_class_by_domain of it

cfg_vars == <<main, gateway, engineDirs, engines_list, ENGINES_LIST, REFERENCE_MODULE,
              cfgPc, result, asked, assigned>>
None == <<>>
Raised == 2
Reference == 0    \* engines are numbered from 1 in their list

CfgInit ==
    /\ main \in MainConfigs
    /\ gateway = "none"
    /\ engineDirs = <<>> /\ engines_list = <<>>
    /\ ENGINES_LIST = None /\ REFERENCE_MODULE = FALSE
    /\ cfgPc = "manipulations" /\ result = None
    /\ asked = None /\ assigned = None

Ends(code) == cfgPc' = "ended" /\ result' = <<code>>
CfgGoesTo(pc) == cfgPc' = pc /\ UNCHANGED result

(* manipulations_after_import.                                             *)
manipulations_after_import ==
    /\ cfgPc = "manipulations"
    /\ gateway' = IF main.gateway = "l" THEN "localhost"
                  ELSE IF main.gateway = "n" THEN "interface" ELSE main.gateway
    /\ CfgGoesTo("check")
    /\ UNCHANGED <<main, engineDirs, engines_list, ENGINES_LIST, REFERENCE_MODULE, asked,
                   assigned>>

(* check_config.  The resolving settings are asked for even where the DNS  *)
(* server is not enabled.  The directories of engines are read after it.   *)
SettingsAllowed ==
    /\ main.dns \/ main.tcp
    /\ main.localhost \/ main.admin
    /\ gateway # "none" /\ ~main.admin => ~main.dynamic /\ main.gatewayIsCurrent
    /\ main.by_engine \/ main.pass \/ main.all # "no"
check_config(dirs) ==
    /\ cfgPc = "check"
    /\ engineDirs' = dirs
    /\ IF SettingsAllowed THEN CfgGoesTo("engines") ELSE Ends(1)
    /\ UNCHANGED <<main, gateway, engines_list, ENGINES_LIST, REFERENCE_MODULE, asked,
                   assigned>>
-----------------------------------------------------------------------------
(* fill_engine_fields_from_config and initialize_engine of one directory.  *)
(* A port that is no number raises here, so that the check of it in        *)
(* check_engines_configs, which would return 1, is never reached by it.    *)
Mutant_Target(name) == name
Target(name) == Normal[name]
FillRaises(config) ==
    \/ config.ssh = "partial"
    \/ config.domains = <<>>
    \/ \E i \in 1..Len(config.domains) :
          /\ config.domains[i].port = "text"
          /\ \A k \in 1..i : config.domains[k].port # "none"
FillFails(config) == \E i \in 1..Len(config.domains) : config.domains[i].port = "none"
Filled(config) ==
    [targets |-> {Target(config.domains[i].name) : i \in 1..Len(config.domains)},
     ports |-> {config.domains[i].port : i \in 1..Len(config.domains)},
     on_port_connect |-> config.on_port_connect,
     get_process_name |-> config.get_process_name]

import_next_engine ==
    LET config == engineDirs[Len(engines_list) + 1]
    IN  /\ cfgPc = "engines" /\ Len(engines_list) < Len(engineDirs)
        /\ IF FillRaises(config) THEN Ends(Raised) /\ UNCHANGED engines_list
           ELSE IF FillFails(config) \/ ~config.classes
           THEN Ends(1) /\ UNCHANGED engines_list
           ELSE /\ engines_list' = Append(engines_list, Filled(config))
                /\ UNCHANGED <<cfgPc, result>>
        /\ UNCHANGED <<main, gateway, engineDirs, ENGINES_LIST, REFERENCE_MODULE, asked,
                       assigned>>

(* The reference module, and only then the globals.                        *)
import_reference ==
    /\ cfgPc = "engines" /\ Len(engines_list) = Len(engineDirs)
    /\ ENGINES_LIST' = engines_list /\ REFERENCE_MODULE' = TRUE
    /\ CfgGoesTo("check_engines")
    /\ UNCHANGED <<main, gateway, engineDirs, engines_list, asked, assigned>>

(* check_engines_configs.                                                  *)
Mutant_EnginesAllowed(engines) == engines # <<>> \/ main.no_engines = "addresses"
EnginesAllowed(engines) ==
    /\ IF main.no_engines = "no" THEN engines # <<>> ELSE main.no_engines = "addresses"
    /\ engines = <<>> => ~main.by_engine
    /\ \A i \in 1..Len(engines) :
          DOMAIN engines[i].on_port_connect \cap engines[i].ports = {}
check_engines_configs ==
    /\ cfgPc = "check_engines"
    /\ IF EnginesAllowed(ENGINES_LIST) THEN CfgGoesTo("check_admin") ELSE Ends(1)
    /\ UNCHANGED <<main, gateway, engineDirs, engines_list, ENGINES_LIST,
                   REFERENCE_MODULE, asked, assigned>>

(* check_admin_rights_for_process_name.                                    *)
check_admin_rights_for_process_name ==
    LET enabled == \/ main.process_name
                   \/ \E i \in 1..Len(ENGINES_LIST) :
                         ENGINES_LIST[i].get_process_name = "true"
        needed == (main.by_engine /\ main.localhost) \/ main.all = "this_device"
    IN  /\ cfgPc = "check_admin"
        /\ Ends(IF enabled /\ needed /\ ~main.admin THEN 1 ELSE 0)
        /\ UNCHANGED <<main, gateway, engineDirs, engines_list, ENGINES_LIST,
                       REFERENCE_MODULE, asked, assigned>>
-----------------------------------------------------------------------------
(* assign_class_by_domain: the first engine one of whose targets is within *)
(* the name, or which has a port for an address within the name.  An       *)
(* address that cannot be read raises, when the search gets to it.         *)
Matches(engine, name) == \E t \in engine.targets : <<t, name>> \in Within
Unreadable(engine) == "bad" \in {engine.on_port_connect[p] : p \in DOMAIN engine.on_port_connect}
MatchesPort(engine, name) ==
    \E p \in DOMAIN engine.on_port_connect : <<engine.on_port_connect[p], name>> \in Within
Stops(engine, name) ==
    Matches(engine, name) \/ Unreadable(engine) \/ MatchesPort(engine, name)
assign_class_by_domain(name) ==
    LET at == {i \in 1..Len(ENGINES_LIST) : Stops(ENGINES_LIST[i], Normal[name])}
        first == CHOOSE i \in at : \A k \in at : i <= k
        engine == ENGINES_LIST[first]
    IN  /\ result = <<0>>
        /\ asked' = <<name>>
        /\ assigned' = IF at = {} THEN <<Reference>>
                       ELSE IF ~Matches(engine, Normal[name]) /\ Unreadable(engine)
                       THEN <<>> ELSE <<first>>
        /\ UNCHANGED <<main, gateway, engineDirs, engines_list, ENGINES_LIST,
                       REFERENCE_MODULE, cfgPc, result>>

CfgNext ==
    \/ manipulations_after_import
    \/ \E n \in 0..MaxEngines : \E dirs \in [1..n -> EngineConfigs] : check_config(dirs)
    \/ import_next_engine \/ import_reference
    \/ check_engines_configs \/ check_admin_rights_for_process_name
    \/ \E name \in CfgNames : assign_class_by_domain(name)
-----------------------------------------------------------------------------
CfgTypeOK ==
    /\ cfgPc \in {"manipulations", "check", "engines", "check_engines", "check_admin",
                  "ended"}
    /\ result \in {None} \cup {<<r>> : r \in {0, 1, Raised}}
    /\ cfgPc = "ended" <=> result # None

(* A name that an engine's file lists, however it is written, is given to  *)
(* an engine and never to the reference module; a name within which no     *)
(* domain and no address of an engine is, is never given to an engine.     *)
ListedNamesReachEngines ==
    assigned # <<>> =>
        LET Lists(i) == \E k \in 1..Len(engineDirs[i].domains) :
                            Normal[engineDirs[i].domains[k].name] = Normal[asked[1]]
        IN  /\ (\E i \in 1..Len(engineDirs) : Lists(i)) => assigned # <<Reference>>
            /\ assigned # <<Reference>> =>
                 \/ \E k \in 1..Len(engineDirs[assigned[1]].domains) :
                       <<Normal[engineDirs[assigned[1]].domains[k].name], Normal[asked[1]]>>
                           \in Within
                 \/ MatchesPort(engineDirs[assigned[1]], Normal[asked[1]])

(* The server starts with all directories of engines or with none of them, *)
(* and never without any way to answer: with DNS by engines it has one.    *)
StartsWithAllEngines ==
    /\ ENGINES_LIST # None => Len(ENGINES_LIST) = Len(engineDirs)
    /\ result = <<0>> =>
         /\ REFERENCE_MODULE
         /\ main.by_engine => ENGINES_LIST # None
         /\ ~main.admin => main.localhost /\ (gateway # "none" => main.gatewayIsCurrent)

(* What is in the files of the engines is what connections get.            *)
EnginesAsConfigured == ListedNamesReachEngines /\ StartsWithAllEngines
=============================================================================
