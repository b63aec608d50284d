-------------------------- MODULE MitmServerProofs --------------------------
(***************************************************************************)
(* Theorems about MitmServer, for every value of its constants.            *)
(*                                                                         *)
(* A cleanup may run at every point of the start and of the service, on    *)
(* top of the main thread or beside it, and more than one may.  What keeps *)
(* the adapter right is the order of a cleanup's steps: it takes the       *)
(* addresses first and kills the processes that listen on them last.       *)
(***************************************************************************)
EXTENDS MitmServer, SequenceTheorems, TLAPS

(* The settings are read before anything is started. *)
InterfaceIsKnown ==
    pc \notin {"config", "interface", "exiting", "ended"} => known = "interface"

AddressesRestored == ~On("localhost") => adapter.ips = {} /\ ~adapter.coexist
DnsRestored       == saved = "dynamic" => adapter.dns = "dynamic"

(* A cleanup that interrupts the service leaves what it has restored. *)
CleanupsRestore ==
    /\ pc = "dns read" \/ saved # "unset" => isSet
    /\ pc = "poll" => \A i \in 1..Len(frames) :
          /\ frames[i] \in {"dns", "archiver", "children"} => AddressesRestored
          /\ frames[i] \in {"archiver", "children"} => DnsRestored
    /\ stopped => pc \in {"poll", "exiting", "ended"} /\ AddressesRestored /\ DnsRestored

(* A server is started when those before it are ready. *)
ReadyInOrder ==
    /\ On("tcp") /\ pc \in {"tcp wait", "dns server", "dns wait", "ready", "poll"} =>
          Interfaces \subseteq watched
    /\ On("tcp") /\ pc \in {"dns server", "dns wait", "ready", "poll"} => TcpEvents \subseteq ready
    /\ On("dns") /\ pc \in {"ready", "poll"} => "dns server" \in ready

(* Who is ready, or on the way to it, is watched. *)
StartedAreWatched ==
    ready \subseteq watched /\ \A c \in Children : child[c] = "starting" => c \in watched

(* Addresses taken away in the midst of the start: each process that was   *)
(* listening is dead, or will be before the start goes on.                 *)
Serving == {"statistics", "pcap", "broker", "tcp", "tcp wait", "dns server", "dns wait", "ready",
            "poll"}
LosersDie ==
    (/\ On("tcp") /\ ~On("localhost") /\ console = "none"
     /\ pc \in Serving /\ adapter.ips # {run}) =>
        \A i \in Interfaces : Alive(i) /\ i \in ready =>
            \E k \in 1..Len(frames) : frames[k] \in {"dns", "archiver", "children"}

IInv == TypeOK /\ InterfaceIsKnown /\ OnlyOwnAddresses /\ CleanupsRestore /\ ReadyInOrder
        /\ StartedAreWatched /\ LosersDie
---------------------------------------------------------------------------
(* Types.                                                                  *)

(* The steps of a cleanup, in their order. *)
LEMMA OrderOfSteps ==
    /\ CleanupPlaces = {"addresses", "dns", "archiver", "children"}
    /\ After("addresses") = "dns" /\ After("dns") = "archiver" /\ After("archiver") = "children"
<1>1. /\ DOMAIN CleanupSteps = 1..4
      /\ CleanupSteps[1] = "addresses" /\ CleanupSteps[2] = "dns"
      /\ CleanupSteps[3] = "archiver" /\ CleanupSteps[4] = "children"
  BY DEF CleanupSteps
<1>2. 1..4 = {1, 2, 3, 4}
  OBVIOUS
<1>3. CleanupPlaces = {"addresses", "dns", "archiver", "children"}
  BY <1>1, <1>2 DEF CleanupPlaces
<1>4. /\ (CHOOSE i \in DOMAIN CleanupSteps : CleanupSteps[i] = "addresses") = 1
      /\ (CHOOSE i \in DOMAIN CleanupSteps : CleanupSteps[i] = "dns") = 2
      /\ (CHOOSE i \in DOMAIN CleanupSteps : CleanupSteps[i] = "archiver") = 3
  BY <1>1, <1>2
<1>5. 1 + 1 = 2 /\ 1 + 2 = 3 /\ 1 + 3 = 4
  OBVIOUS
<1> QED
  BY <1>1, <1>3, <1>4, <1>5 DEF After

(* A step of the topmost cleanup replaces its place or takes it away. *)
LEMMA WhatCleanupLeaves ==
    ASSUME TypeOK, exit_cleanup
    PROVE  /\ frames # <<>> /\ Len(frames) \in 1..Len(frames) /\ frames[Len(frames)] \in CleanupPlaces
           /\ CleanupStep(frames[Len(frames)]) /\ console' = console
           /\ frames' \in Seq(CleanupPlaces)
           /\ \/ /\ frames[Len(frames)] = "children"
                 /\ Len(frames') = Len(frames) - 1
                 /\ \A i \in 1..(Len(frames) - 1) : frames'[i] = frames[i]
                 /\ stopped' = (stopped \/ pc = "poll")
              \/ /\ frames[Len(frames)] # "children"
                 /\ Len(frames') = Len(frames)
                 /\ frames'[Len(frames)] = After(frames[Len(frames)])
                 /\ \A i \in 1..(Len(frames) - 1) : frames'[i] = frames[i]
                 /\ stopped' = stopped
<1>1. frames \in Seq(CleanupPlaces) /\ frames # <<>>
  BY DEF TypeOK, exit_cleanup
<1>2. Len(frames) \in Nat /\ Len(frames) >= 1
  BY <1>1, EmptySeq
<1>3. Len(frames) \in 1..Len(frames) /\ frames[Len(frames)] \in CleanupPlaces
  BY <1>1, <1>2
<1>4. CASE frames[Len(frames)] = "children"
  <2>1. frames' = SubSeq(frames, 1, Len(frames) - 1) /\ stopped' = (stopped \/ pc = "poll")
    BY <1>4 DEF exit_cleanup
  <2>2. /\ SubSeq(frames, 1, Len(frames) - 1) \in Seq(CleanupPlaces)
        /\ Len(SubSeq(frames, 1, Len(frames) - 1)) = Len(frames) - 1
        /\ \A i \in 1..(Len(frames) - 1) : SubSeq(frames, 1, Len(frames) - 1)[i] = frames[i]
    <3> DEFINE n == Len(frames) - 1
    <3>1. n \in 0..Len(frames) /\ n + 1 - 1 = n /\ 1 \in 1..(Len(frames) + 1)
      BY <1>1, <1>2
    <3>2. \A i \in 1..n : 1 + i - 1 = i
      OBVIOUS
    <3> QED
      BY <1>1, <1>2, <3>1, <3>2, SubSeqProperties
  <2> QED
    BY <1>1, <1>3, <1>4, <2>1, <2>2 DEF exit_cleanup
<1>5. CASE frames[Len(frames)] # "children"
  <2>1. frames' = [frames EXCEPT ![Len(frames)] = After(frames[Len(frames)])] /\ stopped' = stopped
    BY <1>5 DEF exit_cleanup
  <2>2. After(frames[Len(frames)]) \in CleanupPlaces
    BY <1>3, <1>5, OrderOfSteps
  <2>3. /\ frames' \in Seq(CleanupPlaces) /\ Len(frames') = Len(frames)
        /\ frames'[Len(frames)] = After(frames[Len(frames)])
        /\ \A i \in 1..(Len(frames) - 1) : frames'[i] = frames[i]
    BY <1>1, <1>2, <1>3, <2>1, <2>2
  <2> QED
    BY <1>1, <1>3, <1>5, <2>1, <2>3 DEF exit_cleanup
<1> QED
  BY <1>4, <1>5

(* The adapter's settings a run can leave. *)
AdapterSettings == [dns : DnsSettings, ips : SUBSET (1 .. MaxRuns), coexist : BOOLEAN]

(* What a step of a cleanup changes. *)
LEMMA WhatAStepRestores ==
    ASSUME TypeOK, NEW place \in CleanupPlaces, CleanupStep(place)
    PROVE  /\ adapter' \in AdapterSettings /\ child' \in [Children -> {"none", "starting", "up", "dead"}]
           /\ adapter'.ips = adapter.ips \/ (place = "addresses" /\ adapter'.ips = {} /\ ~On("localhost"))
           /\ place = "addresses" => AddressesRestored'
           /\ place # "addresses" =>
                 adapter'.ips = adapter.ips /\ adapter'.coexist = adapter.coexist
           /\ place # "dns" => adapter'.dns = adapter.dns
           /\ place = "dns" /\ (saved # "unset" => isSet) => DnsRestored'
           /\ DnsRestored => DnsRestored'
           /\ AddressesRestored => AddressesRestored'
           /\ \A c \in Children : child'[c] = child[c] \/ child'[c] = "dead"
           /\ place = "children" => \A c \in Children : child'[c] \notin {"starting", "up"}
           /\ UNCHANGED <<envVars, before, isSet, saved, ready, watched, answered, pc, known>>
<1>0. adapter \in AdapterSettings /\ child \in [Children -> {"none", "starting", "up", "dead"}]
      /\ UNCHANGED <<envVars, before, isSet, saved, ready, watched, answered, pc, known>>
  BY DEF TypeOK, CleanupStep, AdapterSettings
<1>1. CASE place = "addresses"
  <2>1. RestoreAddresses
    BY <1>1 DEF CleanupStep
  <2> QED
    BY <1>0, <1>1, <2>1 DEF RestoreAddresses, AdapterSettings, AddressesRestored, DnsRestored, On,
                            envVars
<1>2. CASE place = "dns"
  <2>1. RestoreDns
    BY <1>2 DEF CleanupStep
  <2>2. PICK dns \in RestoredDns : adapter' = [adapter EXCEPT !.dns = dns]
    BY <2>1 DEF RestoreDns
  <2>3. dns \in DnsSettings
    BY <1>0, <2>2 DEF RestoredDns, DnsSettings, AdapterSettings
  <2>4. DnsRestored \/ (saved # "unset" => isSet) => (saved = "dynamic" => dns = "dynamic")
    <3>1. DnsMode("dynamic") = "dynamic"
      BY DEF DnsMode
    <3>2. \A d \in DnsSettings : DnsMode(d) = "dynamic" => d = "dynamic"
      BY DEF DnsMode, DnsSettings
    <3>3. adapter.dns \in DnsSettings
      BY <1>0 DEF AdapterSettings
    <3> QED
      BY <2>2, <3>1, <3>2, <3>3 DEF RestoredDns, DnsRestored
  <2>5. adapter'.dns = dns /\ adapter'.ips = adapter.ips /\ adapter'.coexist = adapter.coexist
        /\ adapter' \in AdapterSettings /\ child' = child
    BY <1>0, <2>1, <2>2, <2>3 DEF AdapterSettings, RestoreDns
  <2> QED
    BY <1>0, <1>2, <2>4, <2>5 DEF AddressesRestored, DnsRestored, On, envVars
<1>3. CASE place \in {"archiver", "children"}
  <2>1. adapter' = adapter /\ child' = Killed(IF place = "archiver" THEN {"archiver"} ELSE Children)
    BY <1>3 DEF CleanupStep, EndArchiver, EndChildren
  <2> QED
    BY <1>0, <1>3, <2>1 DEF Killed, Alive, AddressesRestored, DnsRestored, On, envVars
<1> QED
  BY <1>1, <1>2, <1>3, OrderOfSteps

(* Where the main thread goes when nothing disturbs it. *)
LEMMA MainGoesOn ==
    ASSUME TypeOK, mitm_server
    PROVE  /\ frames = <<>> /\ pc' \in Places /\ frames' \in Seq(CleanupPlaces)
           /\ frames' = <<>> \/ pc' = "exiting"
           /\ UNCHANGED <<envVars, before, console, stopped>>
<1>1. <<>> \in Seq(CleanupPlaces) /\ <<"addresses">> \in Seq(CleanupPlaces)
  <2>1. "addresses" \in CleanupPlaces
    BY OrderOfSteps
  <2> QED
    BY <2>1
<1>2. Raise => pc' = "exiting" /\ frames' \in Seq(CleanupPlaces)
  BY <1>1 DEF Raise, AfterException
<1>3. Return => pc' = "exiting" /\ frames' = frames
  BY DEF Return, Goto
<1>4. CASE load_config \/ get_ipv4s_for_tcp_server \/ start_loggers \/ start_archiver
  BY <1>1, <1>3, <1>4 DEF load_config, get_ipv4s_for_tcp_server, start_loggers, start_archiver,
     At, Goto, Places, adapterVars
<1>5. CASE get_archiver_result \/ set_flag \/ set_dns \/ add_virtual_ips
  BY <1>1, <1>3, <1>5 DEF get_archiver_result, set_flag, set_dns, add_virtual_ips, At, Goto,
     Places, adapterVars
<1>6. CASE read_dns
  BY <1>1, <1>2, <1>6 DEF read_dns, At, Goto, Places
<1>7. CASE start_statistics \/ start_pcap \/ start_broker \/ start_tcp_process \/ start_dns_server
  BY <1>1, <1>7 DEF start_statistics, start_pcap, start_broker, start_tcp_process,
     start_dns_server, At, Goto, Places, adapterVars
<1>8. CASE wait_for_tcp \/ wait_for_dns \/ watch_listeners \/ poll \/ exit
  BY <1>1, <1>3, <1>8 DEF wait_for_tcp, wait_for_dns, watch_listeners, poll, exit, Wait, At, Goto,
     Places, adapterVars
<1> QED
  BY <1>4, <1>5, <1>6, <1>7, <1>8 DEF mitm_server

(* Every variable keeps its type. *)
LEMMA TypeInit == Init => TypeOK
<1> SUFFICES ASSUME Init PROVE TypeOK
  OBVIOUS
<1>1. adapter \in AdapterSettings /\ before \in AdapterSettings
  BY UserDnsAssumption DEF Init, AdapterSettings, DnsSettings
<1>2. run \in 1..MaxRuns /\ signals \in 0..MaxSignals /\ crashes \in 0..MaxCrashes
  BY BoundsAssumption DEF Init
<1>3. pc \in Places /\ frames \in Seq(CleanupPlaces) /\ config \in Configs
  BY DEF Init, Places
<1>4. /\ child \in [Children -> {"none", "starting", "up", "dead"}]
      /\ ready \subseteq Children /\ watched \subseteq Children
  BY DEF Init
<1> QED
  BY <1>1, <1>2, <1>3, <1>4 DEF Init, TypeOK, AdapterSettings

(* The processes that were started are children. *)
LEMMA StartedType ==
    ASSUME TypeOK, NEW S \in SUBSET Children, Started(S)
    PROVE  /\ child' \in [Children -> {"none", "starting", "up", "dead"}]
           /\ watched' \subseteq Children
BY DEF TypeOK, Started

(* A step of the main thread keeps the types. *)
LEMMA MainTypes == TypeOK /\ mitm_server => TypeOK'
<1> SUFFICES ASSUME TypeOK, mitm_server PROVE TypeOK'
  OBVIOUS
<1>0. /\ pc' \in Places /\ frames' \in Seq(CleanupPlaces)
      /\ UNCHANGED <<config, run, signals, crashes, before, console, stopped>>
  BY MainGoesOn DEF envVars
<1>1. /\ adapter \in AdapterSettings /\ run \in 1..MaxRuns
      /\ child \in [Children -> {"none", "starting", "up", "dead"}]
      /\ ready \subseteq Children /\ watched \subseteq Children
      /\ {"exceptions log", "network log", "statistics log", "archiver", "pcap", "broker",
          "dns server"} \subseteq Children /\ Interfaces \subseteq Children
  BY DEF TypeOK, AdapterSettings, Children, LogListeners
<1>2. adapter' \in AdapterSettings /\ saved' \in DnsSettings \cup {"unset"}
      /\ isSet' \in BOOLEAN
  <2>1. CASE UNCHANGED adapterVars
    BY <1>1, <2>1 DEF adapterVars, TypeOK
  <2>2. CASE get_ipv4s_for_tcp_server
    BY <1>1, <2>2 DEF get_ipv4s_for_tcp_server, AdapterSettings, TypeOK
  <2>3. CASE set_flag
    BY <1>1, <2>3 DEF set_flag, On, TypeOK
  <2>4. CASE read_dns
    BY <1>1, <2>4 DEF read_dns, AdapterSettings, TypeOK
  <2>5. CASE set_dns
    BY <1>1, <2>5 DEF set_dns, AdapterSettings, DnsSettings, TypeOK
  <2>6. CASE add_virtual_ips
    <3>1. \A ips \in {{}, {run}} : WithIps(ips) \in AdapterSettings
      BY <1>1 DEF WithIps, AdapterSettings
    <3> QED
      BY <1>1, <2>6, <3>1 DEF add_virtual_ips, TypeOK
  <2> QED
    BY <2>1, <2>2, <2>3, <2>4, <2>5, <2>6
    DEF mitm_server, load_config, start_loggers, start_archiver, get_archiver_result,
        start_statistics, start_pcap, start_broker, start_tcp_process, wait_for_tcp,
        start_dns_server, wait_for_dns, watch_listeners, poll, exit, adapterVars
<1>3. /\ child' \in [Children -> {"none", "starting", "up", "dead"}]
      /\ ready' \subseteq Children /\ watched' \subseteq Children
      /\ answered' \in {"none", "ok", "error"}
  <2>1. CASE UNCHANGED childVars
    BY <2>1 DEF childVars, TypeOK
  <2>2. CASE start_loggers \/ start_archiver \/ start_statistics
    BY <1>1, <2>2 DEF start_loggers, start_archiver, start_statistics, TypeOK
  <2>3. CASE get_archiver_result
    BY <2>3 DEF get_archiver_result, TypeOK
  <2>4. CASE start_pcap \/ start_broker \/ start_dns_server
    <3>1. PICK S \in SUBSET Children : Started(S) /\ UNCHANGED <<ready, answered>>
      BY <1>1, <2>4 DEF start_pcap, start_broker, start_dns_server
    <3> QED
      BY <3>1, StartedType DEF TypeOK
  <2>5. CASE start_tcp_process
    <3>1. CASE UNCHANGED <<child, watched>>
      BY <2>5, <3>1 DEF start_tcp_process, TypeOK
    <3>2. CASE Interfaces \ watched # {} /\ Started({CHOOSE i \in Interfaces \ watched : TRUE})
      <4>1. (CHOOSE i \in Interfaces \ watched : TRUE) \in Interfaces
        BY <3>2
      <4>2. {CHOOSE i \in Interfaces \ watched : TRUE} \in SUBSET Children
        BY <1>1, <4>1
      <4> QED
        BY <2>5, <3>2, <4>2, StartedType DEF start_tcp_process, TypeOK
    <3> QED
      BY <2>5, <3>1, <3>2 DEF start_tcp_process
  <2>6. CASE watch_listeners
    BY <1>1, <2>6 DEF watch_listeners, LogListeners, TypeOK
  <2>7. CASE poll \/ exit
    BY <1>1, <2>7 DEF poll, exit, Killed, TypeOK
  <2> QED
    BY <2>1, <2>2, <2>3, <2>4, <2>5, <2>6, <2>7
    DEF mitm_server, load_config, get_ipv4s_for_tcp_server, set_flag, read_dns, set_dns,
        add_virtual_ips, wait_for_tcp, wait_for_dns, childVars
<1>4. known' \in {"nothing", "config", "interface"}
  BY DEF mitm_server, load_config, get_ipv4s_for_tcp_server, start_loggers, start_archiver,
         get_archiver_result, set_flag, read_dns, set_dns, add_virtual_ips, start_statistics,
         start_pcap, start_broker, start_tcp_process, wait_for_tcp, start_dns_server, wait_for_dns,
         watch_listeners, poll, exit, TypeOK
<1> QED
  BY <1>0, <1>2, <1>3, <1>4 DEF TypeOK, AdapterSettings

(* So does every step: a cleanup's, a child's and the environment's. *)
LEMMA TypeStep == TypeOK /\ [Next]_vars => TypeOK'
<1> SUFFICES ASSUME TypeOK, [Next]_vars PROVE TypeOK'
  OBVIOUS
<1>0. /\ adapter \in AdapterSettings /\ frames \in Seq(CleanupPlaces)
      /\ child \in [Children -> {"none", "starting", "up", "dead"}]
      /\ "addresses" \in CleanupPlaces
  BY OrderOfSteps DEF TypeOK, AdapterSettings
<1>1. \A S : Killed(S) \in [Children -> {"none", "starting", "up", "dead"}]
  BY <1>0 DEF Killed
<1>2. CASE mitm_server
  BY <1>2, MainTypes
<1>3. CASE exit_cleanup
  <2>1. /\ CleanupStep(frames[Len(frames)]) /\ frames[Len(frames)] \in CleanupPlaces
        /\ frames' \in Seq(CleanupPlaces) /\ console' = console /\ stopped' \in BOOLEAN
    BY <1>3, WhatCleanupLeaves DEF TypeOK
  <2>2. /\ adapter' \in AdapterSettings /\ child' \in [Children -> {"none", "starting", "up", "dead"}]
        /\ UNCHANGED <<envVars, before, isSet, saved, ready, watched, answered, pc, known>>
    BY <2>1, WhatAStepRestores
  <2> QED
    BY <2>1, <2>2 DEF TypeOK, AdapterSettings, envVars
<1>4. CASE console_cleanup
  <2>1. console \in CleanupPlaces /\ CleanupStep(console) /\ UNCHANGED <<frames, stopped>>
        /\ console' = IF console = "children" THEN "done" ELSE After(console)
    BY <1>4 DEF console_cleanup
  <2>2. /\ adapter' \in AdapterSettings /\ child' \in [Children -> {"none", "starting", "up", "dead"}]
        /\ UNCHANGED <<envVars, before, isSet, saved, ready, watched, answered, pc, known>>
    BY <2>1, WhatAStepRestores
  <2>3. console' \in CleanupPlaces \cup {"none", "done"}
    BY <2>1, OrderOfSteps
  <2> QED
    BY <2>1, <2>2, <2>3 DEF TypeOK, AdapterSettings, envVars
<1>5. CASE console_closed
  <2>1. pc' \in Places /\ frames' \in Seq(CleanupPlaces)
    BY <1>5 DEF console_closed, Places
  <2> QED
    BY <1>1, <1>5, <2>1 DEF console_closed, TypeOK, envVars, adapterVars
<1>6. CASE _graceful_shutdown
  <2>1. pc' \in Places /\ frames' \in Seq(CleanupPlaces)
    <3>1. CASE pc' = "exiting" /\ frames' = <<>>
      BY <3>1 DEF Places
    <3>2. ASSUME NEW to \in Interrupted, pc' = to.pc, frames' = to.frames
          PROVE  pc' \in Places /\ frames' \in Seq(CleanupPlaces)
      <4>1. CASE to = [pc |-> pc, frames |-> Append(frames, "addresses")]
        <5>1. Append(frames, "addresses") \in Seq(CleanupPlaces)
          BY <1>0
        <5>2. to.pc = pc /\ to.frames = Append(frames, "addresses")
          BY <4>1
        <5> QED
          BY <3>2, <5>1, <5>2 DEF TypeOK
      <4>2. CASE to = [pc |-> "exiting", frames |-> AfterException \o <<"addresses">>]
        <5>1. AfterException \o <<"addresses">> \in Seq(CleanupPlaces)
          <6>1. AfterException \in Seq(CleanupPlaces) /\ <<"addresses">> \in Seq(CleanupPlaces)
            BY <1>0 DEF AfterException
          <6> QED
            BY <6>1
        <5>2. to.pc = "exiting" /\ to.frames = AfterException \o <<"addresses">>
          BY <4>2
        <5> QED
          BY <3>2, <5>1, <5>2 DEF Places
      <4> QED
        BY <4>1, <4>2, <3>2 DEF Interrupted
    <3> QED
      BY <1>6, <3>1, <3>2 DEF _graceful_shutdown
  <2>2. signals' \in 0..MaxSignals
    BY <1>6, BoundsAssumption DEF _graceful_shutdown, TypeOK
  <2> QED
    BY <1>1, <1>6, <2>1, <2>2 DEF _graceful_shutdown, TypeOK, adapterVars
<1>7. CASE console_handler
  <2>1. signals' \in 0..MaxSignals
    BY <1>7, BoundsAssumption DEF console_handler, TypeOK
  <2> QED
    BY <1>0, <1>1, <1>7, <2>1 DEF console_handler, TypeOK, adapterVars
<1>8. CASE start_again
  <2>1. run' \in 1..MaxRuns
    BY <1>8, BoundsAssumption DEF start_again, TypeOK
  <2>2. pc' \in Places /\ frames' \in Seq(CleanupPlaces)
    BY <1>8 DEF start_again, Places
  <2>3. child' \in [Children -> {"none", "starting", "up", "dead"}]
    BY <1>8 DEF start_again
  <2> QED
    BY <1>8, <2>1, <2>2, <2>3 DEF start_again, TypeOK
<1>9. CASE archiver_ends \/ \E c \in Children : child_ready(c) \/ child_crashes(c)
  <2>1. child' \in [Children -> {"none", "starting", "up", "dead"}]
    BY <1>0, <1>9 DEF archiver_ends, child_ready, child_crashes
  <2>2. crashes' \in 0..MaxCrashes
    BY <1>9, BoundsAssumption DEF archiver_ends, child_ready, child_crashes, TypeOK, envVars
  <2> QED
    BY <1>9, <2>1, <2>2 DEF archiver_ends, child_ready, child_crashes, TypeOK, envVars, adapterVars
<1>10. CASE UNCHANGED vars
  BY <1>10 DEF vars, envVars, adapterVars, childVars, TypeOK
<1> QED
  BY <1>2, <1>3, <1>4, <1>5, <1>6, <1>7, <1>8, <1>9, <1>10 DEF Next, MainThread, Child, Environment

---------------------------------------------------------------------------
(* The adapter.                                                            *)

(* Only the main thread goes on, and only it adds addresses. *)
LEMMA WhatOthersDo ==
    ASSUME TypeOK, [Next]_vars, ~mitm_server, ~start_again
    PROVE  /\ UNCHANGED <<config, run, known, isSet, saved>>
           /\ \/ pc' = pc
              \/ pc' \in {"exiting", "ended"}
           /\ \/ UNCHANGED <<adapter, stopped>>
              \/ exit_cleanup /\ pc' = pc
              \/ console_cleanup /\ UNCHANGED <<pc, frames, stopped>>
           /\ adapter'.ips = adapter.ips \/ (adapter'.ips = {} /\ ~On("localhost"))
           /\ watched' = watched /\ ready \subseteq ready'
<1>1. CASE exit_cleanup
  <2>1. CleanupStep(frames[Len(frames)]) /\ frames[Len(frames)] \in CleanupPlaces
    BY <1>1, WhatCleanupLeaves
  <2> QED
    BY <1>1, <2>1, WhatAStepRestores DEF envVars
<1>2. CASE console_cleanup
  <2>1. CleanupStep(console) /\ console \in CleanupPlaces
    BY <1>2 DEF console_cleanup
  <2>2. UNCHANGED <<pc, frames, stopped>>
    BY <1>2, <2>1 DEF console_cleanup, CleanupStep
  <2> QED
    BY <1>2, <2>1, <2>2, WhatAStepRestores DEF envVars
<1>3. CASE _graceful_shutdown
  <2>1. pc' = pc \/ pc' = "exiting"
    BY <1>3 DEF _graceful_shutdown, Interrupted
  <2> QED
    BY <1>3, <2>1 DEF _graceful_shutdown, adapterVars
<1>4. CASE console_handler \/ console_closed \/ archiver_ends
           \/ \E c \in Children : child_ready(c) \/ child_crashes(c)
  BY <1>4 DEF console_handler, console_closed, archiver_ends, child_ready, child_crashes, adapterVars,
              envVars
<1>5. CASE UNCHANGED vars
  BY <1>5 DEF vars, envVars, adapterVars, childVars
<1> QED
  BY <1>1, <1>2, <1>3, <1>4, <1>5 DEF Next, MainThread, Child, Environment

(* No address of an earlier run is left. *)
LEMMA AddressesStep ==
    TypeOK /\ InterfaceIsKnown /\ OnlyOwnAddresses /\ [Next]_vars
      => InterfaceIsKnown' /\ OnlyOwnAddresses'
<1> SUFFICES ASSUME TypeOK, InterfaceIsKnown, OnlyOwnAddresses, [Next]_vars
             PROVE  InterfaceIsKnown' /\ OnlyOwnAddresses'
  OBVIOUS
<1>0. adapter \in AdapterSettings
  BY DEF TypeOK, AdapterSettings
<1>1. CASE mitm_server
  <2>1. UNCHANGED <<config, run>>
    BY <1>1, MainGoesOn DEF envVars
  <2>2. CASE load_config
    BY <1>0, <2>1, <2>2 DEF load_config, Goto, Return, adapterVars, OnlyOwnAddresses, InterfaceIsKnown, On
  <2>3. CASE get_ipv4s_for_tcp_server
    BY <1>0, <2>1, <2>3 DEF get_ipv4s_for_tcp_server, AdapterSettings, Goto, Return, InterfaceIsKnown,
                       OnlyOwnAddresses, On
  <2>4. CASE ~load_config /\ ~get_ipv4s_for_tcp_server
    <3>1. known' = known /\ (pc' \in {"exiting", "ended"} \/ pc \notin {"config", "interface", "exiting", "ended"})
      BY <1>1, <2>4
      DEF mitm_server, start_loggers, start_archiver, get_archiver_result, set_flag, read_dns,
          set_dns, add_virtual_ips, start_statistics, start_pcap, start_broker, start_tcp_process,
          wait_for_tcp, start_dns_server, wait_for_dns, watch_listeners, poll, exit, At, Goto
    <3>2. adapter'.ips = adapter.ips \/ adapter'.ips = adapter.ips \cup {run}
      BY <1>0, <1>1, <2>4
      DEF mitm_server, start_loggers, start_archiver, get_archiver_result, set_flag, read_dns,
          set_dns, add_virtual_ips, WithIps, start_statistics, start_pcap, start_broker,
          start_tcp_process, wait_for_tcp, start_dns_server, wait_for_dns, watch_listeners, poll,
          exit, adapterVars, AdapterSettings
    <3> QED
      BY <2>1, <3>1, <3>2 DEF InterfaceIsKnown, OnlyOwnAddresses, On
  <2> QED
    BY <2>2, <2>3, <2>4
<1>2. CASE start_again
  BY <1>2 DEF start_again, InterfaceIsKnown, OnlyOwnAddresses
<1>3. CASE ~mitm_server /\ ~start_again
  BY <1>3, WhatOthersDo DEF InterfaceIsKnown, OnlyOwnAddresses, On
<1> QED
  BY <1>1, <1>2, <1>3

(* What a cleanup of a serving server has restored stays. *)
LEMMA CleanupsRestoreStep == TypeOK /\ CleanupsRestore /\ [Next]_vars => CleanupsRestore'
<1> SUFFICES ASSUME TypeOK, CleanupsRestore, [Next]_vars PROVE CleanupsRestore'
  OBVIOUS
<1>0. frames \in Seq(CleanupPlaces) /\ adapter \in AdapterSettings
  BY DEF TypeOK, AdapterSettings
<1>1. CASE mitm_server
  <2>1. frames' = <<>> \/ pc' = "exiting"
    BY <1>1, MainGoesOn
  <2>2. pc' = "dns read" \/ saved' # "unset" => isSet'
    BY <1>1 DEF CleanupsRestore, mitm_server, load_config, get_ipv4s_for_tcp_server,
      start_loggers, start_archiver, get_archiver_result, set_flag, read_dns, set_dns,
      add_virtual_ips, start_statistics, start_pcap, start_broker, start_tcp_process, wait_for_tcp,
      start_dns_server, wait_for_dns, watch_listeners, poll, exit, At, Goto, Return, Raise, Wait,
      adapterVars, On
  <2>3. stopped' => /\ pc' \in {"poll", "exiting", "ended"}
                    /\ UNCHANGED <<adapter, saved, config>>
    BY <1>1 DEF CleanupsRestore, mitm_server, load_config, get_ipv4s_for_tcp_server,
      start_loggers, start_archiver, get_archiver_result, set_flag, read_dns, set_dns,
      add_virtual_ips, start_statistics, start_pcap, start_broker, start_tcp_process, wait_for_tcp,
      start_dns_server, wait_for_dns, watch_listeners, poll, exit, At, Goto, Return,
      adapterVars, envVars
  <2>4. stopped' = stopped
    BY <1>1, MainGoesOn
  <2>5. stopped' => AddressesRestored' /\ DnsRestored'
    BY <2>3, <2>4 DEF CleanupsRestore, AddressesRestored, DnsRestored, On
  <2>6. pc' = "poll" => 1..Len(frames') = {}
    BY <2>1
  <2> QED
    BY <2>2, <2>3, <2>5, <2>6 DEF CleanupsRestore
<1>2. CASE start_again
  BY <1>2 DEF start_again, CleanupsRestore
<1>3. CASE ~mitm_server /\ ~start_again
  <2>1. UNCHANGED <<config, isSet, saved>> /\ (pc' = pc \/ pc' \in {"exiting", "ended"})
    BY <1>3, WhatOthersDo
  <2>2. CASE exit_cleanup
    <3> DEFINE n == Len(frames)
               top == frames[n]
    <3>1. /\ top \in CleanupPlaces /\ CleanupStep(top) /\ n \in 1..n
          /\ frames' \in Seq(CleanupPlaces)
          /\ \/ top = "children" /\ Len(frames') = n - 1 /\ stopped' = (stopped \/ pc = "poll")
             \/ /\ top # "children" /\ Len(frames') = n /\ frames'[n] = After(top)
                /\ stopped' = stopped
          /\ \A i \in 1..(n - 1) : frames'[i] = frames[i]
      BY <2>2, WhatCleanupLeaves
    <3>2. /\ AddressesRestored => AddressesRestored'
          /\ DnsRestored => DnsRestored'
          /\ top = "addresses" => AddressesRestored'
          /\ top = "dns" => DnsRestored'
          /\ pc' = pc
      BY <3>1, WhatAStepRestores DEF CleanupsRestore
    <3>3. pc = "poll" => \A i \in 1..n :
            /\ frames[i] \in {"dns", "archiver", "children"} => AddressesRestored
            /\ frames[i] \in {"archiver", "children"} => DnsRestored
      BY DEF CleanupsRestore
    <3>4. n \in Nat
      BY <1>0
    <3> HIDE DEF n, top
    <3>5. ASSUME pc = "poll", NEW i \in 1..Len(frames')
          PROVE  /\ frames'[i] \in {"dns", "archiver", "children"} => AddressesRestored'
                 /\ frames'[i] \in {"archiver", "children"} => DnsRestored'
      <4>1. CASE i \in 1..(n - 1)
        <5>1. i \in 1..n /\ frames'[i] = frames[i]
          BY <3>1, <3>4, <4>1
        <5> QED
          BY <3>2, <3>3, <3>5, <5>1
      <4>2. CASE i = n /\ top # "children"
        <5>1. frames'[i] = After(top) /\ top = frames[n]
          BY <3>1, <4>2 DEF top
        <5>2. top = "addresses" \/ top = "dns" \/ top = "archiver"
          BY <3>1, <4>2, OrderOfSteps
        <5>3. CASE top = "addresses"
          BY <3>2, <5>1, <5>3, OrderOfSteps
        <5>4. CASE top = "dns"
          BY <3>1, <3>2, <3>3, <3>5, <5>1, <5>4, OrderOfSteps
        <5>5. CASE top = "archiver"
          BY <3>1, <3>2, <3>3, <3>5, <5>1, <5>5, OrderOfSteps
        <5> QED
          BY <5>2, <5>3, <5>4, <5>5
      <4> QED
        BY <3>1, <3>4, <3>5, <4>1, <4>2
    <3>6. stopped' => pc' \in {"poll", "exiting", "ended"} /\ AddressesRestored' /\ DnsRestored'
      <4>1. CASE stopped
        BY <3>2, <4>1 DEF CleanupsRestore
      <4>2. CASE pc = "poll" /\ top = "children"
        BY <3>1, <3>2, <3>3, <4>2 DEF top
      <4> QED
        BY <3>1, <4>1, <4>2
    <3> QED
      BY <2>1, <3>2, <3>5, <3>6 DEF CleanupsRestore
  <2>3. CASE console_cleanup
    <3>1. console \in CleanupPlaces /\ CleanupStep(console) /\ UNCHANGED <<pc, frames, stopped>>
      BY <2>3 DEF console_cleanup, CleanupStep
    <3>2. (AddressesRestored => AddressesRestored') /\ (DnsRestored => DnsRestored')
      BY <3>1, WhatAStepRestores
    <3> QED
      BY <2>1, <3>1, <3>2 DEF CleanupsRestore
  <2>4. CASE ~exit_cleanup /\ ~console_cleanup
    <3>1. UNCHANGED <<adapter, stopped>>
      BY <1>3, <2>4, WhatOthersDo
    <3>2. (AddressesRestored => AddressesRestored') /\ (DnsRestored => DnsRestored')
      BY <2>1, <3>1 DEF AddressesRestored, DnsRestored, On
    <3>3. pc' = "poll" => frames' = frames \/ frames' = Append(frames, "addresses")
      <4>1. CASE _graceful_shutdown
        BY <4>1 DEF _graceful_shutdown, Interrupted
      <4>2. CASE ~_graceful_shutdown
        BY <1>3, <2>4, <4>2 DEF Next, MainThread, Child, Environment, console_handler,
           console_closed, archiver_ends, child_ready, child_crashes, vars
      <4> QED
        BY <4>1, <4>2
    <3>4. ASSUME pc' = "poll", NEW i \in 1..Len(frames')
          PROVE  \/ i \in 1..Len(frames) /\ frames'[i] = frames[i]
                 \/ frames'[i] = "addresses"
      BY <1>0, <3>3, <3>4
    <3>5. pc' = "poll" => pc = "poll"
      BY <2>1
    <3> QED
      BY <2>1, <3>1, <3>2, <3>4, <3>5 DEF CleanupsRestore
  <2> QED
    BY <2>2, <2>3, <2>4
<1> QED
  BY <1>1, <1>2, <1>3

---------------------------------------------------------------------------
(* The servers.                                                            *)

(* A server is ready before the next one starts, and stays so. *)
LEMMA ReadyInOrderStep == TypeOK /\ ReadyInOrder /\ [Next]_vars => ReadyInOrder'
<1> SUFFICES ASSUME TypeOK, ReadyInOrder, [Next]_vars PROVE ReadyInOrder'
  OBVIOUS
<1>1. CASE mitm_server
  <2>0. UNCHANGED config /\ frames = <<>>
    BY <1>1, MainGoesOn DEF envVars
  <2>1. CASE pc' \notin {"tcp wait", "dns server", "dns wait", "ready", "poll"}
    BY <2>1 DEF ReadyInOrder
  <2>2. CASE start_tcp_process
    <3>1. CASE Interfaces \ watched = {}
      BY <2>0, <2>2, <3>1 DEF start_tcp_process, Goto, ReadyInOrder, On, TcpEvents
    <3>2. CASE Interfaces \ watched # {}
      BY <2>1, <2>2, <3>2 DEF start_tcp_process, Goto
    <3> QED
      BY <3>1, <3>2
  <2>3. CASE wait_for_tcp
    BY <2>0, <2>3 DEF wait_for_tcp, Wait, Goto, Return, At, childVars, ReadyInOrder, On, TcpEvents
  <2>4. CASE start_dns_server
    BY <2>0, <2>4 DEF start_dns_server, Started, Goto, At, ReadyInOrder, On, TcpEvents
  <2>5. CASE wait_for_dns
    BY <2>0, <2>5 DEF wait_for_dns, Wait, Goto, Return, At, childVars, ReadyInOrder, On, TcpEvents
  <2>6. CASE watch_listeners
    BY <2>0, <2>6 DEF watch_listeners, Goto, At, ReadyInOrder, On, TcpEvents
  <2>7. CASE start_loggers \/ get_archiver_result
    BY <2>0, <2>1, <2>7 DEF start_loggers, get_archiver_result, Goto, Return, At, ReadyInOrder, On
  <2>8. CASE \/ load_config \/ get_ipv4s_for_tcp_server \/ start_archiver \/ set_flag \/ read_dns
             \/ set_dns \/ add_virtual_ips \/ start_statistics \/ start_pcap \/ start_broker
             \/ poll \/ exit
    BY <2>1, <2>8 DEF load_config, get_ipv4s_for_tcp_server, start_archiver, set_flag, read_dns,
       set_dns, add_virtual_ips, start_statistics, start_pcap, start_broker, poll, exit, Goto,
       Return, Raise
  <2> QED
    BY <1>1, <2>2, <2>3, <2>4, <2>5, <2>6, <2>7, <2>8 DEF mitm_server
<1>2. CASE start_again
  BY <1>2 DEF start_again, ReadyInOrder
<1>3. CASE ~mitm_server /\ ~start_again
  BY <1>3, WhatOthersDo DEF ReadyInOrder, On, TcpEvents
<1> QED
  BY <1>1, <1>2, <1>3

(* A child is put on the list of the watched as it is started. *)
LEMMA StartedAreWatchedStep == TypeOK /\ StartedAreWatched /\ [Next]_vars => StartedAreWatched'
<1> SUFFICES ASSUME TypeOK, StartedAreWatched, [Next]_vars PROVE StartedAreWatched'
  OBVIOUS
<1>0. child \in [Children -> {"none", "starting", "up", "dead"}]
  BY DEF TypeOK
<1>1. \A S : child' = Killed(S) => \A c \in Children : child'[c] = "starting" => child[c] = "starting"
  BY DEF Killed
<1>2. ASSUME NEW S, Started(S), ready' = ready PROVE StartedAreWatched'
  BY <1>2 DEF Started, StartedAreWatched
<1>3. CASE mitm_server
  <2>1. CASE start_tcp_process /\ Interfaces \ watched = {}
    BY <2>1 DEF start_tcp_process, StartedAreWatched
  <2>2. CASE start_pcap \/ start_broker \/ start_dns_server
             \/ (start_tcp_process /\ Interfaces \ watched # {})
    BY <1>2, <2>2 DEF start_pcap, start_broker, start_dns_server, start_tcp_process
  <2>3. CASE start_loggers \/ start_archiver \/ start_statistics
    BY <1>0, <2>3 DEF start_loggers, start_archiver, start_statistics, StartedAreWatched
  <2>4. CASE poll \/ exit
    <3>1. PICK S : child' = Killed(S) /\ UNCHANGED <<ready, watched>>
      BY <2>4 DEF poll, exit
    <3> QED
      BY <1>1, <3>1 DEF StartedAreWatched
  <2>5. CASE \/ load_config \/ get_ipv4s_for_tcp_server \/ get_archiver_result \/ set_flag \/ read_dns
             \/ set_dns \/ add_virtual_ips \/ wait_for_tcp \/ wait_for_dns \/ watch_listeners
    BY <2>5 DEF load_config, get_ipv4s_for_tcp_server, get_archiver_result, set_flag, read_dns,
       set_dns, add_virtual_ips, wait_for_tcp, wait_for_dns, watch_listeners, childVars,
       StartedAreWatched
  <2> QED
    BY <1>3, <2>1, <2>2, <2>3, <2>4, <2>5 DEF mitm_server
<1>4. CASE exit_cleanup \/ console_cleanup
  <2>1. PICK place \in CleanupPlaces : CleanupStep(place)
    BY <1>4, WhatCleanupLeaves DEF console_cleanup
  <2> QED
    BY <2>1, WhatAStepRestores DEF StartedAreWatched
<1>5. CASE _graceful_shutdown \/ console_handler \/ console_closed
  <2>1. PICK S : child' = Killed(S) /\ UNCHANGED <<ready, watched>>
    BY <1>5 DEF _graceful_shutdown, console_handler, console_closed
  <2> QED
    BY <1>1, <2>1 DEF StartedAreWatched
<1>6. CASE archiver_ends \/ \E c \in Children : child_ready(c) \/ child_crashes(c)
  BY <1>0, <1>6 DEF archiver_ends, child_ready, child_crashes, StartedAreWatched
<1>7. CASE start_again \/ UNCHANGED vars
  BY <1>7 DEF start_again, vars, childVars, StartedAreWatched
<1> QED
  BY <1>3, <1>4, <1>5, <1>6, <1>7 DEF Next, MainThread, Child, Environment

(* A list that grew at its end keeps what it held. *)
LEMMA Grown ==
    ASSUME NEW S, NEW l \in Seq(S), NEW x
    PROVE  /\ Len(l) \in Nat
           /\ Len(Append(l, x)) = Len(l) + 1
           /\ \A j \in 1..Len(l) : Append(l, x)[j] = l[j]
OBVIOUS

(* A cleanup in the midst of the start leaves no process that listened.    *)
LEMMA LosersDieStep ==
    TypeOK /\ InterfaceIsKnown /\ OnlyOwnAddresses /\ StartedAreWatched /\ LosersDie /\ [Next]_vars
      => LosersDie'
<1> SUFFICES ASSUME TypeOK, InterfaceIsKnown, OnlyOwnAddresses, StartedAreWatched, LosersDie,
                    [Next]_vars,
                    (/\ On("tcp") /\ ~On("localhost") /\ console = "none"
                     /\ pc \in Serving /\ adapter.ips # {run})',
                    NEW i \in Interfaces, Alive(i)', i \in ready'
             PROVE  \E k \in 1..Len(frames') : frames'[k] \in {"dns", "archiver", "children"}
  BY DEF LosersDie
<1>0. /\ frames \in Seq(CleanupPlaces) /\ adapter \in AdapterSettings
      /\ child \in [Children -> {"none", "starting", "up", "dead"}]
      /\ i \in Children /\ i \notin LogListeners \cup {"archiver", "pcap", "broker", "dns server"}
  BY InterfacesAssumption DEF TypeOK, AdapterSettings, Children
<1>len. /\ Len(frames) \in Nat
        /\ Len(Append(frames, "addresses")) = Len(frames) + 1
        /\ \A j \in 1..Len(frames) : Append(frames, "addresses")[j] = frames[j]
  <2>1. frames \in Seq(CleanupPlaces)
    BY <1>0
  <2> QED
    BY ONLY <2>1, Grown
<1>1. CASE mitm_server
  <2>0. frames = <<>> /\ UNCHANGED <<config, run, console>>
    BY <1>1, MainGoesOn DEF envVars
  <2>1. pc' \in Serving /\ pc' \notin {"exiting", "ended"}
    BY DEF Serving
  <2>2. CASE pc \in Serving
    <3>1. adapter' = adapter /\ ready' = ready
      BY <1>1, <2>2 DEF Serving, mitm_server, load_config, get_ipv4s_for_tcp_server,
        start_loggers, start_archiver, get_archiver_result, set_flag, read_dns, set_dns,
        add_virtual_ips, start_statistics, start_pcap, start_broker, start_tcp_process,
        wait_for_tcp, start_dns_server, wait_for_dns, watch_listeners, poll, exit, At, adapterVars,
        childVars
    <3>2. ~Alive(i)
      <4>1. \A k \in 1..Len(frames) : FALSE
        BY <2>0
      <4> QED
        BY <2>0, <2>2, <3>1, <4>1 DEF LosersDie, On
    <3>3. child'[i] = child[i] \/ start_tcp_process
      BY <1>0, <1>1, <2>1, <2>2 DEF Serving, mitm_server, load_config, get_ipv4s_for_tcp_server,
        start_loggers, start_archiver, get_archiver_result, set_flag, read_dns, set_dns,
        add_virtual_ips, start_statistics, start_pcap, start_broker, start_tcp_process,
        wait_for_tcp, start_dns_server, wait_for_dns, watch_listeners, poll, exit, At, adapterVars,
        childVars, Started, Return, Goto, LogListeners
    <3>4. CASE start_tcp_process
      <4>1. CASE Interfaces \ watched = {}
        BY <3>2, <3>4, <4>1 DEF start_tcp_process, Alive
      <4>2. CASE Interfaces \ watched # {}
        <5>1. PICK x \in Interfaces \ watched : Started({x})
          BY <3>4, <4>2 DEF start_tcp_process
        <5>2. i # x
          BY <3>1 DEF StartedAreWatched
        <5> QED
          BY <1>0, <3>2, <5>1, <5>2 DEF Started, Alive
      <4> QED
        BY <4>1, <4>2
    <3> QED
      BY <3>2, <3>3, <3>4 DEF Alive
  <2>3. CASE pc \notin Serving
    <3>1. add_virtual_ips /\ adapter'.ips = adapter.ips \cup {run}
      <4>1. CASE start_loggers \/ get_archiver_result
        BY <2>0, <2>1, <4>1 DEF start_loggers, get_archiver_result, Goto, Return, Serving, On
      <4>2. CASE add_virtual_ips
        <5>1. adapter' = WithIps({run})
          BY <2>0, <2>1, <4>2 DEF add_virtual_ips, Return, Goto, On
        <5> QED
          BY <1>0, <4>2, <5>1 DEF WithIps, AdapterSettings
      <4>3. CASE load_config \/ get_ipv4s_for_tcp_server \/ start_archiver \/ set_flag \/ read_dns \/ set_dns
        BY <2>1, <4>3 DEF load_config, get_ipv4s_for_tcp_server, start_archiver, set_flag,
           read_dns, set_dns, Goto, Return, Raise, Serving
      <4>4. CASE \/ start_statistics \/ start_pcap \/ start_broker \/ start_tcp_process
                 \/ wait_for_tcp \/ start_dns_server \/ wait_for_dns \/ watch_listeners \/ poll \/ exit
        BY <2>1, <2>3, <4>4 DEF start_statistics, start_pcap, start_broker, start_tcp_process,
           wait_for_tcp, start_dns_server, wait_for_dns, watch_listeners, poll, exit, At, Goto,
           Serving
      <4> QED
        BY <1>1, <4>1, <4>2, <4>3, <4>4 DEF mitm_server
    <3>2. adapter.ips \subseteq {run}
      BY <2>0, <3>1 DEF add_virtual_ips, At, InterfaceIsKnown, OnlyOwnAddresses, On
    <3> QED
      BY <2>0, <3>1, <3>2
  <2> QED
    BY <2>2, <2>3
<1>2. CASE start_again
  BY <1>2 DEF start_again, Serving
<1>3. CASE ~mitm_server /\ ~start_again
  <2>1. UNCHANGED <<config, run>> /\ pc' = pc
    BY <1>3, WhatOthersDo DEF Serving
  <2>2. pc \in Serving /\ On("tcp") /\ ~On("localhost") /\ adapter.ips \subseteq {run}
    BY <2>1 DEF On, InterfaceIsKnown, OnlyOwnAddresses, Serving
  <2>3. CASE exit_cleanup
    <3> DEFINE n == Len(frames)
               top == frames[n]
    <3>1. /\ top \in CleanupPlaces /\ CleanupStep(top) /\ n \in 1..n /\ console' = console
          /\ frames' \in Seq(CleanupPlaces)
          /\ \/ top = "children" /\ Len(frames') = n - 1
             \/ top # "children" /\ Len(frames') = n /\ frames'[n] = After(top)
          /\ \A k \in 1..(n - 1) : frames'[k] = frames[k]
      BY <2>3, WhatCleanupLeaves
    <3>2. /\ adapter'.ips = adapter.ips \/ top = "addresses"
          /\ \A c \in Children : child'[c] = child[c] \/ child'[c] = "dead"
          /\ top = "children" => \A c \in Children : child'[c] \notin {"starting", "up"}
          /\ ready' = ready
      BY <3>1, WhatAStepRestores
    <3>3. top # "children" /\ Alive(i)
      BY <1>0, <3>2 DEF Alive
    <3>4. n \in Nat
      BY <1>len
    <3>5. adapter.ips # {run} => \E k \in 1..n : frames[k] \in {"dns", "archiver", "children"}
      BY <2>2, <3>1, <3>2, <3>3 DEF LosersDie
    <3>6. frames[n] = top
      OBVIOUS
    <3> HIDE DEF n, top
    <3>7. Len(frames') = n /\ frames'[n] = After(top) /\ n \in 1..n
          /\ \A k \in 1..(n - 1) : frames'[k] = frames[k]
      BY <3>1, <3>3
    <3>8. CASE top = "addresses"
      BY <3>7, <3>8, OrderOfSteps
    <3>9. CASE top \in {"dns", "archiver"}
      BY <3>7, <3>9, OrderOfSteps
    <3> QED
      BY <3>1, <3>3, <3>8, <3>9, OrderOfSteps
  <2>4. CASE console_cleanup
    BY <2>4, OrderOfSteps DEF console_cleanup
  <2>5. CASE ~exit_cleanup /\ ~console_cleanup
    <3>1. adapter' = adapter
      BY <1>3, <2>5, WhatOthersDo
    <3>2. CASE \E c \in Children : child_ready(c)
      <4>1. PICK c \in Children : child_ready(c)
        BY <3>2
      <4>2. c \in Interfaces => ready' = ready /\ child'[c] = "dead"
        BY <1>0, <2>1, <2>2, <3>1, <4>1 DEF child_ready, Bindable, On
      <4>3. c # i
        BY <4>2 DEF Alive
      <4>4. ready \subseteq ready' /\ i \in ready /\ child'[i] = child[i]
        BY <1>0, <4>1, <4>3 DEF child_ready
      <4>5. frames' = frames /\ console' = console
        BY <4>1 DEF child_ready
      <4> QED
        BY <2>1, <2>2, <3>1, <4>4, <4>5 DEF LosersDie, Alive
    <3>3. CASE ~\E c \in Children : child_ready(c)
      <4>1. ready' = ready /\ console' = console /\ (frames' = frames \/ frames' = Append(frames, "addresses"))
            /\ (child'[i] = child[i] \/ child'[i] = "dead")
        <5>1. CASE _graceful_shutdown
          <6>1. child'[i] = child[i] \/ child'[i] = "dead"
            BY <1>0, <5>1 DEF _graceful_shutdown, Killed
          <6>2. pc' # "exiting"
            BY <2>1, <2>2 DEF Serving
          <6>3. frames' = Append(frames, "addresses")
            BY <5>1, <6>2 DEF _graceful_shutdown, Interrupted
          <6> QED
            BY <5>1, <6>1, <6>3 DEF _graceful_shutdown
        <5>2. CASE console_handler
          BY <5>2 DEF console_handler
        <5>3. CASE console_closed
          BY <5>3 DEF console_closed, Serving
        <5>4. CASE archiver_ends \/ UNCHANGED vars \/ \E c \in Children : child_crashes(c)
          BY <1>0, <5>4 DEF archiver_ends, child_crashes, vars, childVars
        <5> QED
          BY <1>3, <2>5, <3>3, <5>1, <5>2, <5>3, <5>4 DEF Next, MainThread, Child, Environment
      <4>2. PICK k \in 1..Len(frames) : frames[k] \in {"dns", "archiver", "children"}
        BY <2>1, <2>2, <3>1, <4>1 DEF LosersDie, Alive
      <4>3. k \in 1..Len(frames') /\ frames'[k] = frames[k]
        <5>1. CASE frames' = frames
          BY <5>1
        <5>2. CASE frames' = Append(frames, "addresses")
          <6>2. k \in 1..(Len(frames) + 1)
            BY <1>len
          <6> QED
            BY <5>2, <1>len, <6>2
        <5> QED
          BY <4>1, <5>1, <5>2
      <4> QED
        BY <4>2, <4>3
    <3> QED
      BY <3>2, <3>3
  <2> QED
    BY <2>3, <2>4, <2>5
<1> QED
  BY <1>1, <1>2, <1>3

---------------------------------------------------------------------------

(* The inductive invariant holds at first and every step keeps it. *)
LEMMA Invariance == Spec => []IInv
<1>1. Init => IInv
  <2> SUFFICES ASSUME Init PROVE IInv
    OBVIOUS
  <2>1. InterfaceIsKnown /\ OnlyOwnAddresses /\ CleanupsRestore
    BY DEF Init, InterfaceIsKnown, OnlyOwnAddresses, CleanupsRestore
  <2>2. ReadyInOrder /\ StartedAreWatched /\ LosersDie
    BY DEF Init, ReadyInOrder, StartedAreWatched, LosersDie, Serving
  <2> QED
    BY <2>1, <2>2, TypeInit DEF IInv
<1>2. IInv /\ [Next]_vars => IInv'
  BY TypeStep, AddressesStep, CleanupsRestoreStep, ReadyInOrderStep, StartedAreWatchedStep,
     LosersDieStep DEF IInv
<1> QED
  BY <1>1, <1>2, PTL DEF Spec

(* Every variable of the server's main process keeps its type. *)
THEOREM TypeCorrect == Spec => []TypeOK
<1>1. IInv => TypeOK
  BY DEF IInv
<1> QED
  BY <1>1, Invariance, PTL

(* A server that a signal stopped leaves no address on the adapter, and a  *)
(* dynamic DNS as it found it (exit_cleanup, lines 118 to 160), however    *)
(* many cleanups ran at once.                                              *)
THEOREM AdapterIsRestored == Spec => []StoppedServerRestores
<1>1. IInv => StoppedServerRestores
  BY DEF IInv, CleanupsRestore, StoppedServerRestores, AddressesRestored, DnsRestored
<1> QED
  BY <1>1, Invariance, PTL

(* The adapter has this run's addresses while the server serves, and none  *)
(* of an earlier run, although a cleanup may have taken them away in the   *)
(* midst of the start.                                                     *)
THEOREM AddressesStayThisRuns ==
    ASSUME Interfaces # {}
    PROVE  Spec => []AddressesAreThisRuns
<1>1. IInv => AddressesAreThisRuns
  <2> SUFFICES ASSUME IInv, At("poll"), console = "none", \A c \in watched : Alive(c),
                      On("tcp"), ~On("localhost"), adapter.ips # {run}
               PROVE  FALSE
    BY DEF AddressesAreThisRuns, ServesOnItsAddresses, IInv
  <2>1. PICK i \in Interfaces : TRUE
    OBVIOUS
  <2>2. Alive(i) /\ i \in ready
    BY <2>1 DEF IInv, ReadyInOrder, At, TcpEvents
  <2>3. \E k \in 1..Len(frames) : frames[k] \in {"dns", "archiver", "children"}
    BY <2>1, <2>2 DEF IInv, LosersDie, Serving, At
  <2> QED
    BY <2>3 DEF At
<1> QED
  BY <1>1, Invariance, PTL

(* "The Server is Ready for Operation!" is said only after each server's   *)
(* event was set (_wait_for_events).                                       *)
THEOREM ReadyIsReady == Spec => ReadyMeansReady
<1>1. IInv /\ [Next]_vars =>
        [pc # "poll" /\ pc' = "poll" =>
            /\ On("tcp") => TcpEvents \subseteq ready
            /\ On("dns") => "dns server" \in ready]_vars
  <2> SUFFICES ASSUME IInv, [Next]_vars, pc # "poll", pc' = "poll"
               PROVE  /\ On("tcp") => TcpEvents \subseteq ready
                      /\ On("dns") => "dns server" \in ready
    OBVIOUS
  <2>1. mitm_server
    BY WhatOthersDo DEF IInv, start_again
  <2>2. pc = "ready"
    BY <2>1 DEF mitm_server, load_config, get_ipv4s_for_tcp_server,
        start_loggers, start_archiver, get_archiver_result, set_flag, read_dns, set_dns,
        add_virtual_ips, start_statistics, start_pcap, start_broker, start_tcp_process,
        wait_for_tcp, start_dns_server, wait_for_dns, watch_listeners, poll, exit, At, Goto, Return,
        Raise, Wait
  <2> QED
    BY <2>2 DEF IInv, ReadyInOrder
<1> QED
  BY <1>1, Invariance, PTL DEF Spec, ReadyMeansReady
=============================================================================
