------------------------------ MODULE MCNetwork ------------------------------
(***************************************************************************)
(* What surrounds the connections: the configuration the server starts     *)
(* with, the addresses it adds, the DNS server, the accept loop and the    *)
(* WebSocket frames.  They share no state: in a behaviour one of them runs *)
(* and each of the others stays in one initial state.                      *)
(***************************************************************************)
EXTENDS DnsServer, AcceptLoop, VirtualAddresses, ServerConfig, WebSocketFrames

VARIABLE part   \* the component of the behaviour

Parts == {"dns", "accept", "addresses", "loopback", "config", "websocket"}

MCUnder == {<<n, n>> : n \in DnsNames} \cup {<<"www.shop", "shop">>}
MCIn == MCUnder \cup {<<"myshop", "shop">>}
MCEngines == << [reference |-> FALSE, targets |-> << <<"shop", "ip1">> >>, excluded |-> {}],
                [reference |-> FALSE, targets |-> << <<"myshop", "ip2">> >>,
                 excluded |-> {}] >>
MCDnsConfigs ==
    [modes : {{"engine"}, {"pass"}, {"all"}, {}, {"engine", "all"}},
     offline : BOOLEAN, interface : BOOLEAN]
MCListenerOf == [c \in Clients |-> "p1"]
MCHostOf == [c \in Clients |-> "h"]

MCLeases == {<<>>, << <<3, "active">>, <<4, "active">>, <<3, "free">>, <<4, "">> >>}

(* config.toml: with DNS, and with neither DNS nor TCP. *)
MCMain ==
    [dns : {TRUE}, tcp : BOOLEAN, localhost : BOOLEAN, admin : BOOLEAN,
     gateway : {"none", "l", "n", "list"}, dynamic : BOOLEAN, gatewayIsCurrent : BOOLEAN,
     by_engine : {TRUE}, pass : BOOLEAN, all : {"no"}, no_engines : {"no"},
     process_name : {FALSE}]
    \cup
    [dns : {TRUE}, tcp : {TRUE}, localhost : {TRUE}, admin : {TRUE}, gateway : {"none"},
     dynamic : {TRUE}, gatewayIsCurrent : {TRUE}, by_engine : BOOLEAN, pass : BOOLEAN,
     all : {"no", "this_device"}, no_engines : {"no", "addresses", "nothing"},
     process_name : {FALSE}]
    \cup
    [dns : {FALSE}, tcp : BOOLEAN, localhost : {TRUE}, admin : {TRUE}, gateway : {"none"},
     dynamic : {TRUE}, gatewayIsCurrent : {TRUE}, by_engine : {TRUE}, pass : {TRUE},
     all : {"no"}, no_engines : {"no"}, process_name : BOOLEAN]
MCName(n, p) == [name |-> n, port |-> p]
MCNoPorts == [p \in {} |-> ""]
MCEngine(domains, ports, process_name) ==
    [domains |-> domains, on_port_connect |-> ports, get_process_name |-> process_name,
     ssh |-> "none", classes |-> TRUE]
MCEngineConfigs ==
    LET other == MCEngine(<<MCName("other", "443")>>, MCNoPorts, "none") IN
    {MCEngine(<<MCName("Shop.", "443")>>, MCNoPorts, "none"),
     MCEngine(<<MCName("myshop", "443"), MCName("Shop.", "80")>>,
              [p \in {"22"} |-> "1.2.3.4"], "true"),
     MCEngine(<<MCName("myshop", "443")>>, [p \in {"443"} |-> "1.2.3.4"], "none"),
     MCEngine(<<MCName("myshop", "none")>>, MCNoPorts, "none"),
     MCEngine(<<>>, MCNoPorts, "none"),
     [other EXCEPT !.on_port_connect = [p \in {"22"} |-> "bad"]],
     MCEngine(<<MCName("other", "text")>>, MCNoPorts, "none"),
     [other EXCEPT !.ssh = "partial"], [other EXCEPT !.classes = FALSE]}
MCNormal == [n \in CfgNames \cup {"Shop."} |-> IF n = "Shop." THEN "shop" ELSE n]
MCWithin == {<<n, n>> : n \in CfgNames} \cup {<<"shop", "myshop">>}

DnsIdle == dnsConfig = [modes |-> {"pass"}, offline |-> FALSE, interface |-> TRUE]
AccIdle ==
    /\ certMode = "default" /\ caFile = "old"
    /\ certFiles = [f \in CertFiles |-> "old"] /\ accTls = [c \in Clients |-> TRUE]
AdrIdle == ~vmware /\ leases = <<>> /\ others = {Gateway} /\ is_dynamic
CfgIdle == main = CHOOSE m \in MCMain : m.dns

MCInit ==
    /\ part \in Parts
    /\ DnsInit /\ (part # "dns" => DnsIdle)
    /\ AccInit /\ (part # "accept" => AccIdle)
    /\ AdrInit /\ (part # "addresses" => AdrIdle)
    /\ others \subseteq {Gateway, OwnAddress + 1}
    /\ CfgInit /\ (part # "config" => CfgIdle)
    /\ WsInit

MCNext ==
    /\ UNCHANGED part
    /\ \/ /\ part = "dns" /\ DnsNext
          /\ UNCHANGED <<accVars, adr_vars, cfg_vars, ws_vars>>
       \/ /\ part = "accept" /\ AccNext
          /\ UNCHANGED <<dnsVars, adr_vars, cfg_vars, ws_vars>>
       \/ /\ \/ part = "addresses" /\ AddressNext
             \/ part = "loopback" /\ LoopbackDevice
          /\ UNCHANGED <<dnsVars, accVars, cfg_vars, ws_vars>>
       \/ /\ part = "config" /\ CfgNext
          /\ UNCHANGED <<dnsVars, accVars, adr_vars, ws_vars>>
       \/ /\ part = "websocket" /\ WsNext
          /\ UNCHANGED <<dnsVars, accVars, adr_vars, cfg_vars>>

mc_vars == <<part, dnsVars, accVars, adr_vars, cfg_vars, ws_vars>>

(* The loop of the DNS server runs on; its clients need not. *)
MCSpec == MCInit /\ [][MCNext]_mc_vars /\ WF_dnsVars(part = "dns" /\ DnsLoop)

(* The types of all components. *)
NetTypeOK ==
    /\ part \in Parts
    /\ DnsTypeOK /\ AccTypeOK /\ AdrTypeOK /\ CfgTypeOK /\ WsTypeOK

(* What the DNS server answers: the reply of a query is the answer to its  *)
(* question, cached or not, and names of engines lead to this computer     *)
(* (dns_server.py).                                                        *)
DnsAnswersAreRight == DnsAnswersItsQuestion /\ DnsEngineNamesStayHere

(* What a client is served: by TLS when it speaks it, with a certificate   *)
(* that the CA of this run signed (socket_wrapper.py, creator.py).         *)
ServedAsAsked == ServedOverTls /\ ServedByTheCa

(* The addresses a call finds are nobody else's, and the loopback devices  *)
(* are given back (networks.py).                                           *)
AddressesAreOurs == AddressesAreFree /\ OneDevicePerFailure
=============================================================================
