--------------------------- MODULE VirtualAddresses ---------------------------
(***************************************************************************)
(* networks.py: add_virtual_ips_to_network_interface, which finds free     *)
(* addresses of the adapter's /24 by ARP or in VMware's DHCP files, adds   *)
(* them with netsh and waits until PowerShell lists them; the static and   *)
(* the dynamic configuration of an adapter; and the Microsoft loopback     *)
(* device, created through setup_device.py.  An address is its last byte.  *)
(*                                                                         *)
(* The other hosts, Windows and VMware's DHCP server are the environment,  *)
(* and act between any two steps of the call.                              *)
(***************************************************************************)
EXTENDS Naturals, Sequences, FiniteSets, SequencesExt

CONSTANTS LastAddress,     \* the last byte the search tries (255)
          OwnAddress, Gateway,
          NumbersOfIps,    \* number_of_ips of a call
          LeaseFiles,      \* contents of vmnetdhcp.leases: <<address, state>>
          Infrastructure,  \* addresses in vmnetdhcp.conf and vmnetnat.conf
          WaitSeconds,     \* wait_until_applied_seconds
          MaxCalls, MaxJoins, MaxDevices  \* bounds

Addresses == 1 .. LastAddress

ASSUME AddressAssumption ==
    /\ LastAddress \in Nat /\ {OwnAddress, Gateway} \subseteq Addresses
    /\ NumbersOfIps \subseteq Nat /\ WaitSeconds \in Nat \ {0} /\ MaxDevices \in Nat
    /\ \A l \in LeaseFiles : \A i \in DOMAIN l : l[i] = <<l[i][1], l[i][2]>>

VARIABLES vmware,      \* the interface is one of VMware's
          leases,      \* the lease file
          others,      \* addresses of other hosts, which answer ARP
          newcomers,   \* history: those taken since the call began
          is_dynamic,  \* DHCPEnabled
          statics,     \* addresses that DHCP did not give
          adding,        \* the call that is running
          calls,       \* bound
          devices,     \* loopback device nodes: "node" or "adapter" each
          loopback,    \* where a caller of get_create_... is
          failures     \* history: driver installations that failed

net_vars == <<vmware, leases, others, newcomers, is_dynamic, statics, adding, calls>>
dev_vars == <<devices, loopback, failures>>
adr_vars == <<net_vars, dev_vars>>

NoCall == [at |-> "none", ask |-> "", number |-> 0, skip |-> {}, used |-> {},
           counter |-> 1, assign |-> <<>>, added |-> 0, waited |-> 0]

AdrInit ==
    /\ vmware \in BOOLEAN /\ leases \in LeaseFiles
    /\ others \in SUBSET (Addresses \ {OwnAddress}) /\ Gateway \in others
    /\ newcomers = {}
    /\ is_dynamic \in BOOLEAN /\ statics = IF is_dynamic THEN {} ELSE {OwnAddress}
    /\ adding = NoCall /\ calls = 0
    /\ devices = <<>> /\ loopback = "out" /\ failures = 0

current_ipv4s == {OwnAddress} \cup statics

HostJoins(a) ==
    /\ Cardinality(newcomers) < MaxJoins
    /\ a \notin others \cup current_ipv4s
    /\ others' = others \cup {a} /\ newcomers' = newcomers \cup {a}
    /\ UNCHANGED <<vmware, leases, is_dynamic, statics, adding, calls, dev_vars>>

-----------------------------------------------------------------------------
Mutant_active == {l[1] : l \in {k \in ToSet(leases) : k[2] = "free"}}

(* _get_vmware_dhcp_leased_ips: the last block of an address that has a    *)
(* binding state decides.                                                  *)
active ==
    {a \in Addresses :
       \E i \in DOMAIN leases :
          /\ leases[i] = <<a, "active">>
          /\ \A j \in i + 1 .. Len(leases) : leases[j][1] = a => leases[j][2] = ""}

(* The arguments, then the adapter's addresses as they are now.  What is   *)
(* asked for: a number, a list with masks, both, a list without masks.     *)
add_virtual_ips(ask, n, list) ==
    /\ adding.at \in {"none", "returned", "raised"} /\ calls < MaxCalls
    /\ calls' = calls + 1 /\ newcomers' = {}
    /\ adding' = [NoCall EXCEPT
          !.at = IF ask \in {"both", "no masks"} THEN "raised"
                 ELSE IF ask = "number" /\ n > 0 THEN "search" ELSE "coexist",
          !.ask = ask, !.number = n,
          !.skip = current_ipv4s \cup {Gateway},
          !.used = IF vmware THEN active \cup Infrastructure ELSE {},
          !.assign = IF ask = "list" THEN list ELSE <<>>]
    /\ UNCHANGED <<vmware, leases, others, is_dynamic, statics, dev_vars>>

Mutant_in_use(a) == a \in others

\* One address: SendARP now, or the lease file as it was read.
in_use(a) == IF vmware THEN a \in adding.used ELSE a \in others

\* VlanIPPoolExhaustedError after the last one.
generate_unused_ipv4 ==
    /\ adding.at = "search"
    /\ LET a == adding.counter
           tried == [adding EXCEPT !.counter = @ + 1]
       IN adding' = IF a > LastAddress THEN [adding EXCEPT !.at = "raised"]
                  ELSE IF in_use(a) \/ a \in adding.skip THEN tried
                  ELSE [tried EXCEPT
                         !.assign = Append(@, a),
                         !.at = IF Len(adding.assign) + 1 = adding.number
                                THEN "coexist" ELSE "search"]
    /\ UNCHANGED <<vmware, leases, others, newcomers, is_dynamic, statics,
                   calls, dev_vars>>

\* simulate_only returns the addresses; a failed netsh returns None.
coexistence ==
    /\ adding.at = "coexist"
    /\ adding' \in {[adding EXCEPT !.at = "add"], [adding EXCEPT !.at = "none"]}
    /\ UNCHANGED <<vmware, leases, others, newcomers, is_dynamic, statics,
                   calls, dev_vars>>

\* The result of netsh is not looked at.
add_virtual_ip ==
    /\ adding.at = "add"
    /\ IF adding.added = Len(adding.assign)
       THEN adding' = [adding EXCEPT !.at = "wait"] /\ UNCHANGED statics
       ELSE /\ adding' = [adding EXCEPT !.added = @ + 1]
            /\ statics' \in {statics, statics \cup {adding.assign[adding.added + 1]}}
    /\ UNCHANGED <<vmware, leases, others, newcomers, is_dynamic, calls, dev_vars>>

Mutant_applied == ToSet(adding.assign) \subseteq statics \/ adding.waited > 0

\* get_interface_ips("virtual"): every address that DHCP did not give.
applied == statics = ToSet(adding.assign)

wait_until_applied ==
    /\ adding.at = "wait"
    /\ adding' = IF applied THEN [adding EXCEPT !.at = "returned"]
               ELSE [adding EXCEPT !.waited = @ + 1,
                       !.at = IF adding.waited + 1 = WaitSeconds THEN "raised" ELSE "wait"]
    /\ UNCHANGED <<vmware, leases, others, newcomers, is_dynamic, statics,
                   calls, dev_vars>>

\* remove_virtual_ip, when no call runs.
remove_virtual_ip(a) ==
    /\ adding.at \in {"none", "returned", "raised"}
    /\ a \in statics \ {OwnAddress}
    /\ statics' = statics \ {a} /\ adding' = NoCall
    /\ UNCHANGED <<vmware, leases, others, newcomers, is_dynamic, calls, dev_vars>>

\* set_static_ips; set_dynamic_ip.
set_static_ips ==
    /\ adding.at = "none" /\ is_dynamic
    /\ is_dynamic' = FALSE /\ statics' = {OwnAddress}
    /\ UNCHANGED <<vmware, leases, others, newcomers, adding, calls, dev_vars>>

set_dynamic_ip ==
    /\ adding.at = "none" /\ ~is_dynamic
    /\ is_dynamic' = TRUE /\ statics' = {}
    /\ UNCHANGED <<vmware, leases, others, newcomers, adding, calls, dev_vars>>

-----------------------------------------------------------------------------
(* get_create_microsoft_loopback_device_network_configuration: look for    *)
(* the adapter; without one, register a device node and install the driver *)
(* on every node with the hardware id.                                     *)
Mutant_found == FALSE

found == \E i \in DOMAIN devices : devices[i] = "adapter"

look_for_loopback ==
    /\ loopback = "out"
    /\ loopback' = IF found THEN "has it" ELSE "create"
    /\ UNCHANGED <<devices, failures>>

create_root_enumerated_devnode ==
    /\ loopback = "create" /\ Len(devices) < MaxDevices
    /\ devices' = Append(devices, "node")
    /\ loopback' = "driver"
    /\ UNCHANGED failures

update_driver_for_hwids ==
    /\ loopback = "driver"
    /\ devices' = [i \in DOMAIN devices |-> "adapter"]
    /\ loopback' = "has it"
    /\ UNCHANGED failures

\* An error of Windows, or the end of the process: the node stays.
driver_fails ==
    /\ loopback = "driver"
    /\ failures < MaxDevices
    /\ failures' = failures + 1 /\ loopback' = "out"
    /\ UNCHANGED devices

\* remove_device: the one instance that the caller was given.
remove_microsoft_loopback_device ==
    /\ loopback = "has it"
    /\ \/ loopback' = "out" /\ UNCHANGED devices
       \/ \E i \in DOMAIN devices :
            /\ devices[i] = "adapter"
            /\ \A j \in 1 .. i - 1 : devices[j] # "adapter"
            /\ devices' = RemoveAt(devices, i) /\ loopback' = "out"
    /\ UNCHANGED failures

LoopbackDevice ==
    /\ \/ look_for_loopback \/ create_root_enumerated_devnode
       \/ update_driver_for_hwids \/ driver_fails
       \/ remove_microsoft_loopback_device
    /\ UNCHANGED net_vars

AddressNext ==
    \/ \E a \in Addresses : HostJoins(a) \/ remove_virtual_ip(a)
    \/ \E ask \in {"number", "list", "both", "no masks"}, n \in NumbersOfIps :
         (n = 0 \/ ask = "number") /\ add_virtual_ips(ask, n, <<LastAddress>>)
    \/ generate_unused_ipv4 \/ coexistence \/ add_virtual_ip
    \/ wait_until_applied
    \/ set_static_ips \/ set_dynamic_ip

-----------------------------------------------------------------------------
AdrTypeOK ==
    /\ others \subseteq Addresses /\ statics \subseteq Addresses
    /\ newcomers \subseteq others
    /\ adding.at \in {"none", "search", "coexist", "add", "wait", "returned", "raised"}
    /\ adding.counter \in 1 .. LastAddress + 1 /\ adding.waited \in 0 .. WaitSeconds
    /\ Len(devices) <= MaxDevices

\* The addresses that the call has chosen by itself.
chosen == IF adding.ask = "number" THEN ToSet(adding.assign) ELSE {}

(* The addresses a call finds are as many as asked for and different, none *)
(* is the adapter's own or its gateway, and none belongs to a host that    *)
(* held it before the call began: by ARP, or, on VMware's networks, by an  *)
(* active lease (networks.py:537-572, 595-611).  A call that returns left  *)
(* the adapter with these addresses and no other.                          *)
AddressesAreFree ==
    /\ chosen \cap (adding.skip \cup {OwnAddress, Gateway}) = {}
    /\ Cardinality(chosen) = Len(adding.assign) \/ adding.ask # "number"
    /\ ~vmware => chosen \cap others \subseteq newcomers
    /\ vmware => \A i \in DOMAIN leases :
                    leases[i][2] = "active" /\ leases[i][1] \in chosen
                    => \E j \in i + 1 .. Len(leases) :
                          leases[j][1] = leases[i][1] /\ leases[j][2] # ""
    /\ adding.at = "returned" => /\ adding.ask = "number" => Cardinality(chosen) = adding.number
                               /\ statics = ToSet(adding.assign)

(* However often the loopback device is asked for and given back, and      *)
(* whichever installations fail half way, at most one device more is left  *)
(* than installations failed (networks.py:330-343).                        *)
OneDevicePerFailure ==
    Len(devices) <= 1 + failures

(* A call that adds addresses, all of them taken by netsh, returns them,   *)
(* whatever addresses the interface had before (networks.py:776-784).      *)
AddedIsReturned ==
    adding.at = "raised" /\ adding.waited > 0 => ~(ToSet(adding.assign) \subseteq statics)
=============================================================================
