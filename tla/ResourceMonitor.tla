---------------------------- MODULE ResourceMonitor ----------------------------
(***************************************************************************)
(* SystemResourceMonitor of system_resource_monitor.py, the module's one   *)
(* instance of it, and its users in system_resources.py: a thread measures *)
(* the machine again and again and publishes each measurement to queues,   *)
(* to a dictionary that processes share and to get_results(); others wait  *)
(* until the machine has resources left, or test the disk's speed.  A      *)
(* measurement is the load of the machine.                                 *)
(***************************************************************************)
EXTENDS Naturals, Sequences, FiniteSets

CONSTANTS Loads,        \* loads of the machine, as percentages
          MaxLoad,      \* cpu_percent_max and memory_percent_max
          WaitingProcs, \* processes that wait for resources
          MaxStarts,    \* bound: calls of start_monitoring
          MaxChanges,   \* bound: changes of the load
          MaxSpeedTests \* bound: tests of the disk's speed

NoLoad == 1000          \* no entry yet
NotAsked == 2000        \* an entry that is None

VARIABLES load,
          monitor,       \* "none", "made", or where the instance's thread is
          mon_options,   \* [get_cpu, maximum, dict]: of the first start
          running,
          measured,      \* results of run_check_system_resources
          maximum_disk_io,
          manager_dict,  \* the shared dictionary's entry
          results,       \* what get_results() returns
          stopping,      \* a call of stop_monitoring is in join()
          waiter,        \* where each waiting process is
          speed_test,    \* "out", "copy", "results" or "failed"
          mon_starts, changes, tests \* bounds

mon_instance == <<monitor, mon_options, running, measured, maximum_disk_io,
                  manager_dict, results>>
mon_bounds == <<mon_starts, changes, tests>>
resource_vars == <<load, mon_instance, stopping, waiter, speed_test, mon_bounds>>

Settings == [get_cpu : BOOLEAN, maximum : BOOLEAN, dict : BOOLEAN]
DiskSettings == [get_cpu |-> FALSE, maximum |-> TRUE, dict |-> FALSE]

ResourceInit ==
    /\ load \in Loads
    /\ monitor = "none" /\ mon_options = DiskSettings /\ running = FALSE
    /\ measured = NoLoad /\ maximum_disk_io = 0 /\ manager_dict = NoLoad
    /\ results = NoLoad /\ stopping = FALSE
    /\ waiter = [w \in WaitingProcs |-> "out"]
    /\ speed_test = "out"
    /\ mon_starts = 0 /\ changes = 0 /\ tests = 0

load_changes ==
    /\ changes < MaxChanges /\ changes' = changes + 1
    /\ load' \in Loads \ {load}
    /\ UNCHANGED <<mon_instance, stopping, waiter, speed_test, mon_starts, tests>>

(* start_monitoring: the global is never cleared, and a second call, even  *)
(* after a stop, only says that monitoring is already running.             *)
started(options) ==
    IF monitor = "none"
    THEN /\ monitor' = "check" /\ running' = TRUE /\ mon_options' = options
         /\ UNCHANGED <<measured, maximum_disk_io, manager_dict, results>>
    ELSE UNCHANGED mon_instance

start_monitoring(options) ==
    /\ mon_starts < MaxStarts /\ mon_starts' = mon_starts + 1
    /\ started(options)
    /\ UNCHANGED <<load, stopping, waiter, speed_test, changes, tests>>

\* stop(): the flag, and join().
stop_begins ==
    /\ running /\ ~stopping
    /\ running' = FALSE /\ stopping' = TRUE
    /\ UNCHANGED <<load, monitor, mon_options, measured, maximum_disk_io, manager_dict,
                   results, waiter, speed_test, mon_bounds>>

monitor_stops ==
    /\ stopping /\ monitor = "ended"
    /\ stopping' = FALSE
    /\ UNCHANGED <<load, mon_instance, waiter, speed_test, mon_bounds>>

-----------------------------------------------------------------------------
(* run_check_system_resources.                                             *)
while_running ==
    /\ monitor = "check"
    /\ monitor' = IF running THEN "measure" ELSE "ended"
    /\ UNCHANGED <<mon_options, running, measured, maximum_disk_io, manager_dict, results>>

\* check_system_resources: its threads measure for an interval, and are joined.
check_system_resources ==
    /\ monitor = "measure"
    /\ measured' = load
    /\ maximum_disk_io' = IF mon_options.maximum /\ load > maximum_disk_io
                          THEN load ELSE maximum_disk_io
    /\ monitor' = "publish"
    /\ UNCHANGED <<mon_options, running, manager_dict, results>>

\* manager_dict.update(results); what was not asked for is None.
published == IF mon_options.get_cpu THEN measured ELSE NotAsked

Mutant_publish ==
    /\ monitor = "publish"
    /\ manager_dict' = IF mon_options.dict /\ manager_dict = NoLoad
                       THEN published ELSE manager_dict
    /\ monitor' = "results"
    /\ UNCHANGED <<mon_options, running, measured, maximum_disk_io, results>>
publish ==
    /\ monitor = "publish"
    /\ manager_dict' = IF mon_options.dict THEN published ELSE manager_dict
    /\ monitor' = "results"
    /\ UNCHANGED <<mon_options, running, measured, maximum_disk_io, results>>

set_results ==
    /\ monitor = "results"
    /\ results' = measured /\ monitor' = "check"
    /\ UNCHANGED <<mon_options, running, measured, maximum_disk_io, manager_dict>>

MonitorThread ==
    /\ while_running \/ check_system_resources \/ publish \/ set_results
    /\ UNCHANGED <<load, stopping, waiter, speed_test, mon_bounds>>

-----------------------------------------------------------------------------
(* wait_for_resource_availability: by the shared dictionary, unless that   *)
(* is empty, or by a measurement of its own.                               *)
wait_begins(w) ==
    /\ waiter[w] = "out"
    /\ waiter' = [waiter EXCEPT ![w] = "waiting"]
    /\ UNCHANGED <<load, mon_instance, stopping, speed_test, mon_bounds>>

seen_load == IF manager_dict # NoLoad THEN manager_dict ELSE load

looks(w) ==
    /\ waiter[w] = "waiting"
    /\ waiter' = [waiter EXCEPT ![w] =
                    IF seen_load = NotAsked THEN "raised"   \* None < 80
                    ELSE IF seen_load < MaxLoad THEN "went on" ELSE "waiting"]
    /\ UNCHANGED <<load, mon_instance, stopping, speed_test, mon_bounds>>

(* _test_disk_speed_with_monitoring: get_results() has no entry before the *)
(* first measurement (KeyError), nor if another start had other options;   *)
(* a second test gets the results of the first.                            *)
test_begins ==
    /\ speed_test = "out" /\ ~stopping
    /\ tests < MaxSpeedTests /\ tests' = tests + 1
    /\ started(DiskSettings)
    /\ speed_test' = "copy"
    /\ UNCHANGED <<load, stopping, waiter, mon_starts, changes>>

has_results == results # NoLoad /\ mon_options.maximum

test_ends ==
    /\ speed_test = "copy"
    /\ IF ~has_results
       THEN speed_test' = "failed" /\ UNCHANGED <<running, stopping>>
       ELSE /\ speed_test' = "results"
            /\ stopping' = TRUE /\ running' = FALSE
    /\ UNCHANGED <<load, monitor, mon_options, measured, maximum_disk_io,
                   manager_dict, results, waiter, mon_bounds>>

test_returns ==
    /\ speed_test = "results" /\ monitor = "ended"
    /\ speed_test' = "out" /\ stopping' = FALSE
    /\ UNCHANGED <<load, mon_instance, waiter, mon_bounds>>

ResourceThreads ==
    \/ MonitorThread \/ monitor_stops \/ test_ends \/ test_returns
    \/ \E w \in WaitingProcs : looks(w)

ResourceNext ==
    \/ ResourceThreads
    \/ load_changes \/ stop_begins \/ test_begins
    \/ \E options \in Settings : start_monitoring(options)
    \/ \E w \in WaitingProcs : wait_begins(w)

-----------------------------------------------------------------------------
(* The types of the monitor and its users. *)
ResourceTypeOK ==
    /\ load \in Loads
    /\ monitor \in {"none", "check", "measure", "publish", "results", "ended"}
    /\ mon_options \in Settings /\ running \in BOOLEAN /\ stopping \in BOOLEAN
    /\ {measured, results} \subseteq Loads \cup {NoLoad}
    /\ manager_dict \in Loads \cup {NoLoad, NotAsked}
    /\ maximum_disk_io \in Loads \cup {0}
    /\ waiter \in [WaitingProcs -> {"out", "waiting", "went on", "raised"}]
    /\ speed_test \in {"out", "copy", "results", "failed"}

(* Processes wait no longer than the machine is busy: once the load stays  *)
(* below the maximum and the monitor is not stopped, every process that    *)
(* waits goes on (or fails), however old the entry that it saw first.      *)
WaitersGoOn ==
    <>[](load < MaxLoad /\ running) =>
        \A w \in WaitingProcs : []<>(waiter[w] # "waiting")
=============================================================================
