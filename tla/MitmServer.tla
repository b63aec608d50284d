----------------------------- MODULE MitmServer -----------------------------
(***************************************************************************)
(* The life of the MITM server's main process, mitm/mitm_main.py: the      *)
(* start of its child processes in order, the changes it makes to the      *)
(* network adapter, every early return, the watch over the children, and   *)
(* exit_cleanup(), which signals run on top of whatever the main thread is *)
(* doing and the console's close event runs in a thread of its own.        *)
(*                                                                         *)
(* The adapter outlives the process: a later run of the program finds it   *)
(* as an earlier one left it.                                              *)
(***************************************************************************)
EXTENDS Naturals, Sequences

CONSTANTS
    Interfaces,      \* processes of listening interfaces
    Configs,         \* configurations of the server
    UserDns,         \* how users have set the adapter's DNS
    MaxRuns,         \* runs of the program
    MaxSignals,      \* signals and console events, in all runs
    MaxCrashes       \* child processes that crash, in all runs

(* localhost: is_localhost; set_dns: one of set_default_dns_gateway*;      *)
(* tcp, dns: the servers are enabled; broker: _is_broker_needed(); pcap:   *)
(* record_pcap; records: enable_request_response_recordings_in_logs.       *)
Options == {"localhost", "set_dns", "tcp", "dns", "broker", "pcap", "records"}
ASSUME ConfigsAssumption ==
    \A c \in Configs : c \subseteq Options /\ c \cap {"tcp", "dns"} # {}

(* Addresses obtained by DHCP, the user's own static ones, the gateway the *)
(* server sets, or a static list without an address.                       *)
DnsSettings == {"dynamic", "own", "server", "empty"}
ASSUME UserDnsAssumption == UserDns \subseteq {"dynamic", "own"}
ASSUME BoundsAssumption  ==
    MaxRuns \in Nat \ {0} /\ {MaxSignals, MaxCrashes} \subseteq Nat

LogListeners == {"exceptions log", "network log", "statistics log"}
Children == LogListeners \cup {"archiver", "pcap", "broker", "dns server"} \cup Interfaces
(* A listener's process is named by the address it listens on. *)
ASSUME InterfacesAssumption ==
    Interfaces \cap (LogListeners \cup {"archiver", "pcap", "broker", "dns server"}) = {}

VARIABLES
    config,      \* the options of config.toml that are on
    adapter,     \* the adapter's DNS, virtual IPs (by run) and DHCP + static coexistence
    before,      \* the adapter at the start of this run
    run,         \* how often the program was started
    pc,          \* the main thread's place in mitm_server_main
    frames,      \* calls of exit_cleanup on the main thread's stack: their places
    console,     \* the place of the console handler's exit_cleanup
    known,       \* "nothing", then "config", then "interface" (NETWORK_INTERFACE_SETTINGS)
    isSet,       \* IS_SET_DNS_GATEWAY
    saved,       \* NETWORK_INTERFACE_IS_DYNAMIC and ..._IPV4_ADDRESS_LIST ("unset": never read)
    child,       \* the state of each child process
    ready,       \* the children whose is_ready event is set
    watched,     \* multiprocess_list
    answered,    \* what FINALIZE_RECS_ARCHIVE_QUEUE holds
    signals, crashes,
    stopped      \* a signal's exit_cleanup has ended while the server served

adapterVars == <<adapter, before, isSet, saved>>
childVars   == <<child, ready, watched, answered>>
envVars     == <<config, run, signals, crashes>>
vars == <<envVars, adapterVars, childVars, pc, frames, console, known, stopped>>

CleanupSteps == <<"addresses", "dns", "archiver", "children">>
CleanupPlaces == {CleanupSteps[i] : i \in DOMAIN CleanupSteps}
Places == {"config", "interface", "logs", "archive", "archive wait", "dns flag", "dns read", "dns set",
           "virtual ips", "statistics", "pcap", "broker", "tcp", "tcp wait", "dns server",
           "dns wait", "ready", "poll", "exiting", "ended"}

Init ==
    /\ config \in Configs
    /\ adapter \in [dns : UserDns, ips : {{}}, coexist : {FALSE}]
    /\ before = adapter
    /\ run = 1
    /\ pc = "config" /\ frames = <<>> /\ console = "none"
    /\ known = "nothing" /\ isSet = FALSE /\ saved = "unset"
    /\ child = [c \in Children |-> "none"]
    /\ ready = {} /\ watched = {} /\ answered = "none"
    /\ signals = 0 /\ crashes = 0 /\ stopped = FALSE

On(option) == option \in config
Alive(c)   == child[c] \in {"starting", "up"}
AliveSet   == {c \in Children : Alive(c)}
Killed(S)  == [c \in Children |-> IF c \in S /\ Alive(c) THEN "dead" ELSE child[c]]

---------------------------------------------------------------------------
(* mitm_server: each step starts with the main thread in it, no cleanup on *)
(* its stack.  Return leaves for the interpreter's exit.  Raise goes by    *)
(* way of mitm_server_main's handler: it means to write the exception and  *)
(* to call exit_cleanup, but MITM_ERROR_LOGGER.write(e), once there is     *)
(* such a logger, raises a TypeError (CsvLoggers: getattr takes no None    *)
(* for a name), and the process ends without a cleanup.                    *)
At(place) == pc = place /\ frames = <<>>
Goto(place) == pc' = place /\ UNCHANGED frames
Return == Goto("exiting")
HasErrorLogger == child["exceptions log"] # "none"
AfterException == IF HasErrorLogger THEN <<>> ELSE <<"addresses">>
Raise == pc' = "exiting" /\ frames' = AfterException

(* exit_cleanup itself raises: is_localhost has no value before the config *)
(* is loaded, and netsh gets no name before the interface is known.        *)
CleanupRaises == known = "nothing" \/ (known = "config" /\ ~On("localhost"))

load_config ==
    /\ At("config")
    /\ \/ Goto("interface") /\ known' = "config"
       \/ Return /\ UNCHANGED known
    /\ UNCHANGED <<envVars, adapterVars, childVars, console, stopped>>

(* Removes virtual IPs of previous runs, then reads the adapter's settings, *)
(* which may fail.                                                          *)
Mutant_get_ipv4s_keeps_old ==
    /\ At("interface")
    /\ \/ Goto("logs") /\ known' = "interface"
       \/ Return /\ UNCHANGED known
    /\ UNCHANGED <<envVars, adapterVars, childVars, console, stopped>>
get_ipv4s_for_tcp_server ==
    /\ At("interface")
    /\ adapter' = IF On("localhost") THEN adapter ELSE [adapter EXCEPT !.ips = {}]
    /\ \/ Goto("logs") /\ known' = "interface"
       \/ Return /\ UNCHANGED known
    /\ UNCHANGED <<envVars, before, isSet, saved, childVars, console, stopped>>

start_loggers ==
    /\ At("logs")
    /\ child' = [child EXCEPT !["exceptions log"] = "up", !["network log"] = "up"]
    /\ Goto(IF On("records") THEN "archive" ELSE IF On("tcp") THEN "dns flag" ELSE "dns server")
    /\ UNCHANGED <<envVars, adapterVars, ready, watched, answered, console, known, stopped>>

start_archiver ==
    /\ At("archive")
    /\ child' = [child EXCEPT !["archiver"] = "up"]
    /\ Goto("archive wait")
    /\ UNCHANGED <<envVars, adapterVars, ready, watched, answered, console, known, stopped>>

(* FINALIZE_RECS_ARCHIVE_QUEUE.get() has no timeout. *)
get_archiver_result ==
    /\ At("archive wait")
    /\ answered # "none"
    /\ answered' = "none"
    /\ IF answered = "error" THEN Return ELSE Goto(IF On("tcp") THEN "dns flag" ELSE "dns server")
    /\ UNCHANGED <<envVars, adapterVars, child, ready, watched, console, known, stopped>>

(* _add_virtual_ips_set_default_dns_gateway, up to line 1009. *)
set_flag ==
    /\ At("dns flag")
    /\ isSet' = (isSet \/ On("set_dns"))
    /\ Goto(IF On("set_dns") THEN "dns read" ELSE "virtual ips")
    /\ UNCHANGED <<envVars, adapter, before, saved, childVars, console, known, stopped>>

(* dns.get_default_dns_gateway runs netsh and may raise. *)
read_dns ==
    /\ At("dns read")
    /\ \/ saved' = adapter.dns /\ Goto("dns set")
       \/ UNCHANGED saved /\ Raise
    /\ UNCHANGED <<envVars, adapter, before, isSet, childVars, console, known, stopped>>

(* The mode which was read is a string, and every string is true: line     *)
(* 1018 never keeps a setting that is right already.                       *)
set_dns ==
    /\ At("dns set")
    /\ \/ adapter' = [adapter EXCEPT !.dns = "server"] /\ Goto("virtual ips")
       \/ UNCHANGED adapter /\ Return
    /\ UNCHANGED <<envVars, before, isSet, saved, childVars, console, known, stopped>>

(* networks.add_virtual_ips_to_network_interface: coexistence, then the IPs. *)
WithIps(ips) == [adapter EXCEPT !.ips = @ \cup ips, !.coexist = TRUE]

(* All virtual IPs are added and can be bound, or there is a timeout. *)
add_virtual_ips ==
    /\ At("virtual ips")
    /\ IF On("localhost")
       THEN Goto("statistics") /\ UNCHANGED adapter
       ELSE \/ adapter' = WithIps({run}) /\ Goto("statistics")
            \/ (\E ips \in {{}, {run}} : adapter' = WithIps(ips)) /\ Return
    /\ UNCHANGED <<envVars, before, isSet, saved, childVars, console, known, stopped>>

start_statistics ==
    /\ At("statistics")
    /\ child' = [child EXCEPT !["statistics log"] = "up"]
    /\ Goto("pcap")
    /\ UNCHANGED <<envVars, adapterVars, ready, watched, answered, console, known, stopped>>

(* The processes that multiprocess_list gets, of which only the PCAP       *)
(* writer has no event to wait for.                                        *)
Started(S) ==
    /\ child' = [c \in Children |-> IF c \in S THEN "starting" ELSE child[c]]
    /\ watched' = watched \cup S

start_pcap ==
    /\ At("pcap")
    /\ Started({"pcap"} \cap config)
    /\ Goto("broker")
    /\ UNCHANGED <<envVars, adapterVars, ready, answered, console, known, stopped>>

start_broker ==
    /\ At("broker")
    /\ Started({"broker"} \cap config)
    /\ Goto("tcp")
    /\ UNCHANGED <<envVars, adapterVars, ready, answered, console, known, stopped>>

start_tcp_process ==
    /\ At("tcp")
    /\ LET left == Interfaces \ watched
       IN  IF left = {} THEN UNCHANGED <<child, watched>> /\ Goto("tcp wait")
                        ELSE Started({CHOOSE i \in left : TRUE}) /\ Goto("tcp")
    /\ UNCHANGED <<envVars, adapterVars, ready, answered, console, known, stopped>>

(* _wait_for_events: an event that is not set in time ends the start. *)
Mutant_Wait_any(events, next) == \/ events \cap ready # {} /\ Goto(next)
                                 \/ events \cap ready = {} /\ Return
Mutant_Wait_forever(events, next) == events \subseteq ready /\ Goto(next)
Wait(events, next) == \/ events \subseteq ready /\ Goto(next)
                      \/ ~(events \subseteq ready) /\ Return

TcpEvents == Interfaces \cup ({"broker"} \cap config)

wait_for_tcp ==
    /\ At("tcp wait")
    /\ Wait(TcpEvents, IF On("dns") THEN "dns server" ELSE "ready")
    /\ UNCHANGED <<envVars, adapterVars, childVars, console, known, stopped>>

start_dns_server ==
    /\ At("dns server")
    /\ Started({"dns server"})
    /\ Goto("dns wait")
    /\ UNCHANGED <<envVars, adapterVars, ready, answered, console, known, stopped>>

wait_for_dns ==
    /\ At("dns wait")
    /\ Wait({"dns server"}, "ready")
    /\ UNCHANGED <<envVars, adapterVars, childVars, console, known, stopped>>

(* "The Server is Ready for Operation!"; the listeners of log queues that  *)
(* are alive join the watch.                                               *)
watch_listeners ==
    /\ At("ready")
    /\ watched' = watched \cup (LogListeners \cap AliveSet)
    /\ Goto("poll")
    /\ UNCHANGED <<envVars, adapterVars, child, ready, answered, console, known, stopped>>

(* is_process_crashed: one dead process, and the others are killed. *)
Crashed == \E c \in watched : ~Alive(c)

Mutant_poll_all_dead ==
    /\ At("poll")
    /\ \A c \in watched : ~Alive(c)
    /\ Return
    /\ UNCHANGED <<envVars, adapterVars, childVars, console, known, stopped>>
poll ==
    /\ At("poll")
    /\ Crashed
    /\ child' = Killed(watched)
    /\ Return
    /\ UNCHANGED <<envVars, adapterVars, ready, watched, answered, console, known, stopped>>

(* The interpreter's exit: daemons are terminated, the archiver is joined. *)
exit ==
    /\ At("exiting")
    /\ ~Alive("archiver")
    /\ child' = Killed(Children)
    /\ Goto("ended")
    /\ UNCHANGED <<envVars, adapterVars, ready, watched, answered, console, known, stopped>>

mitm_server ==
    \/ load_config \/ get_ipv4s_for_tcp_server \/ start_loggers \/ start_archiver
    \/ get_archiver_result \/ set_flag \/ read_dns \/ set_dns \/ add_virtual_ips
    \/ start_statistics \/ start_pcap \/ start_broker \/ start_tcp_process
    \/ wait_for_tcp \/ start_dns_server \/ wait_for_dns \/ watch_listeners \/ poll \/ exit

---------------------------------------------------------------------------
(* exit_cleanup, by the main thread or the console handler's. *)

(* interface['dns_mode']: a string where the callers expect a boolean. *)
DnsMode(dns) == CASE dns = "dynamic" -> "dynamic"
                  [] dns = "unset"   -> "False"
                  [] OTHER           -> "static"

(* Lines 127 to 133: "not is_dns_dynamic" is never true of a string, so a  *)
(* change from one static list to another goes unnoticed.  A saved mode    *)
(* that was read is true, and the DNS becomes dynamic; one that was not is *)
(* False, and the DNS gets the empty list, with which Windows may do       *)
(* either.                                                                 *)
Mutant_RestoredDns_unread == IF ~isSet \/ DnsMode(adapter.dns) = DnsMode(saved) THEN {adapter.dns} ELSE {saved}
Mutant_RestoredDns_if_equal ==
    IF ~isSet \/ DnsMode(adapter.dns) # DnsMode(saved) THEN {adapter.dns} ELSE {"dynamic"}
RestoredDns ==
    IF ~isSet \/ DnsMode(adapter.dns) = DnsMode(saved) THEN {adapter.dns}
    ELSE IF saved = "unset" THEN {"empty", "dynamic"} ELSE {"dynamic"}

RestoreAddresses ==
    /\ adapter' = IF On("localhost") THEN adapter
                  ELSE [adapter EXCEPT !.ips = {}, !.coexist = FALSE]
    /\ UNCHANGED child

RestoreDns ==
    /\ \E dns \in RestoredDns : adapter' = [adapter EXCEPT !.dns = dns]
    /\ UNCHANGED child

EndArchiver == child' = Killed({"archiver"}) /\ UNCHANGED adapter

(* The sentinels of lines 143 to 158 and the loop over active_children. *)
Mutant_EndChildren_archiver_only == child' = Killed({"archiver"}) /\ UNCHANGED adapter
EndChildren == child' = Killed(Children) /\ UNCHANGED adapter

CleanupStep(place) ==
    /\ CASE place = "addresses" -> RestoreAddresses
         [] place = "dns"       -> RestoreDns
         [] place = "archiver"  -> EndArchiver
         [] place = "children"  -> EndChildren
    /\ UNCHANGED <<envVars, before, isSet, saved, ready, watched, answered, pc, known>>

After(place) == CleanupSteps[1 + CHOOSE i \in DOMAIN CleanupSteps : CleanupSteps[i] = place]

(* The topmost frame runs; its last step returns to what it interrupted. *)
exit_cleanup ==
    /\ frames # <<>>
    /\ LET top == frames[Len(frames)]
       IN  /\ CleanupStep(top)
           /\ IF top = "children"
              THEN /\ frames' = SubSeq(frames, 1, Len(frames) - 1)
                   /\ stopped' = (stopped \/ pc = "poll")
              ELSE /\ frames' = [frames EXCEPT ![Len(frames)] = After(top)]
                   /\ UNCHANGED stopped
    /\ UNCHANGED console

MainThread == mitm_server \/ exit_cleanup

---------------------------------------------------------------------------
(* Signals and the console. *)

(* A wait which SIGINT interrupts raises InterruptedError after the        *)
(* handler: its frame lies above that of mitm_server_main's cleanup, if    *)
(* that comes to be.  A SIGBREAK waits until the wait is over.             *)
Waits == {"archive wait", "tcp wait", "dns wait"}
Interrupted ==
    {[pc |-> pc, frames |-> Append(frames, "addresses")]} \cup
    (IF pc \in Waits /\ frames = <<>>
     THEN {[pc |-> "exiting", frames |-> AfterException \o <<"addresses">>]} ELSE {})

(* _graceful_shutdown calls exit_cleanup and returns.  The children are in *)
(* the console's group: the signal may end them, too.                      *)
_graceful_shutdown ==
    /\ pc # "ended"
    /\ signals < MaxSignals
    /\ signals' = signals + 1
    /\ \/ /\ CleanupRaises
          /\ pc' = "exiting" /\ frames' = <<>>
       \/ /\ ~CleanupRaises
          /\ \E to \in Interrupted : pc' = to.pc /\ frames' = to.frames
    /\ \E S \in {{}, Children} : child' = Killed(S)
    /\ UNCHANGED <<config, run, crashes, adapterVars, ready, watched, answered, console, known, stopped>>

(* ExitHandler.console_handler; an exception in it leaves the event to the *)
(* default handler, which ends the process.                                *)
console_handler ==
    /\ pc # "ended"
    /\ console = "none"
    /\ signals < MaxSignals
    /\ signals' = signals + 1
    /\ console' = IF CleanupRaises THEN "done" ELSE "addresses"
    /\ \E S \in {{}, Children} : child' = Killed(S)
    /\ UNCHANGED <<config, run, crashes, adapterVars, ready, watched, answered, pc, frames, known, stopped>>

console_cleanup ==
    /\ pc # "ended"
    /\ console \in CleanupPlaces
    /\ CleanupStep(console)
    /\ console' = IF console = "children" THEN "done" ELSE After(console)
    /\ UNCHANGED <<frames, stopped>>

(* Windows ends the process when the handler is done, or takes too long. *)
console_closed ==
    /\ pc # "ended"
    /\ console # "none"
    /\ pc' = "ended" /\ frames' = <<>>
    /\ child' = Killed(Children)
    /\ UNCHANGED <<envVars, adapterVars, ready, watched, answered, console, known, stopped>>

---------------------------------------------------------------------------
(* Child processes and the next run. *)

(* A process of a listening interface can only bind an address the adapter *)
(* has; after error 10049 its listen() fails and it exits.                 *)
Bindable(c) == c \in Interfaces => (On("localhost") \/ run \in adapter.ips)

child_ready(c) ==
    /\ child[c] = "starting"
    /\ IF Bindable(c) THEN /\ child' = [child EXCEPT ![c] = "up"]
                           /\ ready' = ready \cup ({c} \ {"pcap"})
                      ELSE /\ child' = [child EXCEPT ![c] = "dead"]
                           /\ UNCHANGED ready
    /\ UNCHANGED <<envVars, adapterVars, watched, answered, pc, frames, console, known, stopped>>

(* recs_archiver: it answers and ends. *)
archiver_ends ==
    /\ child["archiver"] = "up"
    /\ \E result \in {"ok", "error"} : answered' = result
    /\ child' = [child EXCEPT !["archiver"] = "dead"]
    /\ UNCHANGED <<envVars, adapterVars, ready, watched, pc, frames, console, known, stopped>>

child_crashes(c) ==
    /\ Alive(c)
    /\ crashes < MaxCrashes
    /\ crashes' = crashes + 1
    /\ child' = [child EXCEPT ![c] = "dead"]
    /\ UNCHANGED <<config, run, signals, adapterVars, ready, watched, answered, pc, frames, console, known, stopped>>

start_again ==
    /\ pc = "ended"
    /\ run < MaxRuns
    /\ run' = run + 1
    /\ before' = adapter
    /\ pc' = "config" /\ frames' = <<>> /\ console' = "none"
    /\ known' = "nothing" /\ isSet' = FALSE /\ saved' = "unset"
    /\ child' = [c \in Children |-> "none"]
    /\ ready' = {} /\ watched' = {} /\ answered' = "none"
    /\ stopped' = FALSE
    /\ UNCHANGED <<config, adapter, signals, crashes>>

Environment ==
    \/ _graceful_shutdown \/ console_handler \/ start_again
    \/ \E c \in Children : child_crashes(c)
Child == \E c \in Children : child_ready(c)

Next == MainThread \/ console_cleanup \/ console_closed \/ Child \/ archiver_ends \/ Environment

(* Threads and processes run; nobody has to send a signal, crash or start  *)
(* the program again.                                                      *)
Fairness ==
    /\ WF_vars(MainThread)
    /\ WF_vars(console_cleanup) /\ WF_vars(console_closed)
    /\ \A c \in Children : WF_vars(child_ready(c))
    /\ WF_vars(archiver_ends)

Spec == Init /\ [][Next]_vars /\ Fairness

---------------------------------------------------------------------------
(* Properties. *)

TypeOK ==
    /\ config \in Configs
    /\ {adapter, before} \subseteq [dns : DnsSettings, ips : SUBSET (1 .. MaxRuns), coexist : BOOLEAN]
    /\ run \in 1 .. MaxRuns
    /\ pc \in Places
    /\ frames \in Seq(CleanupPlaces)
    /\ console \in CleanupPlaces \cup {"none", "done"}
    /\ known \in {"nothing", "config", "interface"}
    /\ isSet \in BOOLEAN
    /\ saved \in DnsSettings \cup {"unset"}
    /\ child \in [Children -> {"none", "starting", "up", "dead"}]
    /\ ready \subseteq Children /\ watched \subseteq Children
    /\ answered \in {"none", "ok", "error"}
    /\ signals \in 0 .. MaxSignals /\ crashes \in 0 .. MaxCrashes
    /\ stopped \in BOOLEAN

(* A server that was stopped by a signal while it served leaves no virtual *)
(* IP on the adapter, no coexistence, and DNS by DHCP if that is what it   *)
(* found, whatever else happened: a second signal in the cleanup, the      *)
(* console's cleanup beside it, children that die first.                   *)
StoppedServerRestores ==
    pc = "ended" /\ stopped =>
        /\ ~On("localhost") => adapter.ips = {} /\ ~adapter.coexist
        /\ saved = "dynamic" => adapter.dns = "dynamic"

(* ... and every user's DNS as it was ("Returned default DNS gateway",     *)
(* line 135).                                                              *)
StoppedServerRestoresDns == pc = "ended" /\ stopped => adapter.dns = before.dns

(* Once the adapter's settings are read, no virtual IP of an earlier run,  *)
(* however that ended, is on the adapter.                                  *)
OnlyOwnAddresses == known = "interface" /\ ~On("localhost") => adapter.ips \subseteq {run}

(* While the server serves and has seen no process die, the adapter has    *)
(* the addresses its processes listen on, though a cleanup may have        *)
(* removed them in the midst of the start.                                 *)
ServesOnItsAddresses ==
    (/\ At("poll") /\ console = "none" /\ \A c \in watched : Alive(c)
     /\ On("tcp") /\ ~On("localhost")) => adapter.ips = {run}

(* In every run of the server the adapter has this run's addresses: none   *)
(* of an earlier one, and those that its processes listen on.              *)
AddressesAreThisRuns == OnlyOwnAddresses /\ ServesOnItsAddresses

(* The server calls itself ready only after each of its servers was.       *)
ReadyMeansReady ==
    [][pc # "poll" /\ pc' = "poll" =>
        /\ On("tcp") => TcpEvents \subseteq ready
        /\ On("dns") => "dns server" \in ready]_vars

(* Every start ends in service or in the process's end, unless the         *)
(* archiver died before it answered.                                       *)
StartEnds ==
    pc = "config" ~> \/ pc \in {"poll", "ended"}
                     \/ pc = "archive wait" /\ child["archiver"] = "dead" /\ answered = "none"

(* A server that serves ends after a signal, and after the death of any    *)
(* process it watches.                                                     *)
ServerStops == pc = "poll" /\ (frames # <<>> \/ \E c \in watched : ~Alive(c)) ~> pc = "ended"

(* The life of a server: it is ready when it says so, every start comes to *)
(* an end, and so does every server that is told to stop.                  *)
StartsAndStops == ReadyMeansReady /\ StartEnds /\ ServerStops

(* A signal, "Graceful interrupt" in line 1111, ends the process whenever  *)
(* it comes.                                                               *)
SignalStops == frames # <<>> ~> pc = "ended"
=============================================================================
