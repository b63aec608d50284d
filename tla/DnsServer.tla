------------------------------ MODULE DnsServer ------------------------------
(***************************************************************************)
(* The DNS server, wrappers/socketw/dns_server.py: one loop that takes a   *)
(* request at a time, and a thread that empties the cache at any moment.   *)
(* A request is its transaction id, its name and its type; the whole of it *)
(* is the key of the cache, as client_data is in the code.  Names are      *)
(* atoms: how they are related as strings is given by two relations.       *)
(* Lists of addresses are kept by reference, as the code keeps them.       *)
(***************************************************************************)
EXTENDS Naturals, Sequences, FiniteSets, SequencesExt

CONSTANTS DnsIds,       \* transaction ids
          DnsNames,     \* names asked for, and the domains of the engines
          DnsTypes,     \* record types asked for
          UnderDomain,  \* <<n, d>>: n is d, or ends with "." + d
          InName,       \* <<n, d>>: d occurs in n as a substring
          DnsEngines,   \* engine_list
          LiveIps,      \* addresses in the answers of the live service
          AllTarget,    \* resolve_all_domains_target
          OfflineIp,    \* offline_route_ipv4
          DnsRetries,   \* dns_service_retries
          DnsConfigs,   \* the settings the server may be started with
          MaxDnsRequests \* bound: requests in a behaviour

(* An engine: is it '__reference_general', its domain_target_dict as a     *)
(* sequence of <<domain, address>>, the names its exclude patterns match.  *)
IsList(s) == Len(s) \in Nat /\ DOMAIN s = 1 .. Len(s)

ASSUME DnsAssumption ==
    /\ DnsRetries \in Nat /\ MaxDnsRequests \in Nat
    /\ UnderDomain \subseteq InName
    /\ \A n \in DnsNames : <<n, n>> \in UnderDomain
    /\ \A c \in DnsConfigs : c.modes \subseteq {"engine", "pass", "all"}
    /\ IsList(DnsEngines) /\ \A i \in DOMAIN DnsEngines : IsList(DnsEngines[i].targets)

VARIABLES dnsPc,      \* where the loop is
          dnsConfig,  \* the settings
          dnsReq,     \* client_data, dns_object
          dnsCount,   \* requests received so far: it also numbers the lists
          dnsCache,   \* dns_questions_to_answers_cache
          dnsCached,  \* dns_cached_request
          dnsForward, \* forward_to_tcp_server
          dnsResp,    \* dns_response
          dnsTries,   \* counter
          dnsIps,     \* ipv4_addresses: the list it refers to
          dnsHeap,    \* the contents of the lists
          dnsKnown,   \* known_a_records_domains_dict: name to list
          dnsKnownIp, \* known_a_records_ipv4_dict: address to names
          dnsAsked,   \* questions sent to the live service
          dnsSent     \* <<request, response>> sent to the clients

dnsConn == <<dnsReq, dnsCount, dnsCached, dnsForward, dnsResp, dnsTries>>
dnsFiles == <<dnsIps, dnsHeap, dnsKnown, dnsKnownIp>>
dnsWire == <<dnsAsked, dnsSent>>
dnsVars == <<dnsPc, dnsConfig, dnsCache, dnsConn, dnsFiles, dnsWire>>

DnsRequest == [id : DnsIds, name : DnsNames, type : DnsTypes]
Garbled == [id |-> "none", name |-> "none", ips |-> {}, parses |-> FALSE]
Answer(r, ips) == [id |-> r.id, name |-> r.name, ips |-> ips, parses |-> TRUE]

Mode(m) == m \in dnsConfig.modes
-----------------------------------------------------------------------------
(* Which names belong to the engines. *)

Interceptors == {i \in 1 .. Len(DnsEngines) : ~DnsEngines[i].reference}
intercept_domains ==
    UNION {{t[1] : t \in Range(DnsEngines[i].targets)} : i \in Interceptors}
excluded == UNION {DnsEngines[i].excluded : i \in Interceptors}

Mutant_intercepted_exact(n) == n \in intercept_domains
intercepted(n) ==
    /\ \E d \in intercept_domains : <<n, d>> \in UnderDomain
    /\ n \notin excluded

(* The addresses an engine gives for a name: the first domain of its       *)
(* dictionary that occurs in the name decides, a longer match or not.      *)
Mutant_get_target_ip_exact(n, engine) ==
    {t[2] : t \in {u \in Range(engine.targets) : u[1] = n}}
get_target_ip_from_engine(n, engine) ==
    LET hits == {i \in 1 .. Len(engine.targets) : <<n, engine.targets[i][1]>> \in InName}
    IN  {engine.targets[i][2] : i \in {h \in hits : \A k \in hits : h <= k}}

(* The target of a forwarded name, a set of at most one address. *)
resolved_target(n) ==
    IF Mode("engine")
    THEN LET found == {i \in 1 .. Len(DnsEngines) :
                          get_target_ip_from_engine(n, DnsEngines[i]) # {}}
         IN  UNION {get_target_ip_from_engine(n, DnsEngines[i]) :
                      i \in {f \in found : \A k \in found : f <= k}}
    ELSE {AllTarget}

forward_to_tcp_server(r) ==
    /\ r.type = "A"
    /\ \/ Mode("all")
       \/ Mode("engine") /\ intercepted(r.name)
BlockedHttps(r) == r.type = "HTTPS" /\ Mode("engine") /\ intercepted(r.name)

(* What offline mode answers; building an answer of any other type from an *)
(* IPv4 address may raise, and then there is none.                         *)
OfflineAnswers(r) ==
    CASE r.type \in {"AAAA", "SRV", "SOA", "HTTPS", "ANY"} -> {Answer(r, {})}
      [] r.type = "A" -> {Answer(r, {OfflineIp})}
      [] OTHER -> {}

(* What the live service may answer. *)
LiveAnswers(r) ==
    {Garbled} \cup
    {Answer(r, ips) : ips \in IF r.type = "A" THEN SUBSET LiveIps ELSE {{}}}
-----------------------------------------------------------------------------
DnsInit ==
    /\ dnsPc = "test_config"
    /\ dnsConfig \in DnsConfigs
    /\ dnsReq = [id |-> "none", name |-> "none", type |-> "none"]
    /\ dnsCount = 0
    /\ dnsCache = <<>>
    /\ dnsCached = FALSE
    /\ dnsForward = FALSE
    /\ dnsResp = Garbled
    /\ dnsTries = 0
    /\ dnsIps = 0
    /\ dnsHeap = [l \in 0 .. MaxDnsRequests |-> {}]
    /\ dnsKnown = <<>>
    /\ dnsKnownIp = <<>>
    /\ dnsAsked = {}
    /\ dnsSent = {}

(* DnsServer.__init__: a configuration with no or two modes, an interface  *)
(* the host does not have and a used port end the process with code 1.     *)
DnsGoodConfig == Cardinality(dnsConfig.modes) = 1 /\ dnsConfig.interface
test_config ==
    /\ dnsPc = "test_config"
    /\ \E portUsed \in BOOLEAN :
          dnsPc' = IF DnsGoodConfig /\ ~portUsed THEN "bind" ELSE "returned"
    /\ UNCHANGED <<dnsConfig, dnsCache, dnsConn, dnsFiles, dnsWire>>

(* The port was free when it was tested, and may be used by now: bind is   *)
(* outside of every try.                                                   *)
dns_bind ==
    /\ dnsPc = "bind"
    /\ dnsPc' \in {"recv", "raised"}
    /\ UNCHANGED <<dnsConfig, dnsCache, dnsConn, dnsFiles, dnsWire>>

(* recvfrom; ConnectionResetError and unknown exceptions change nothing. *)
dns_recv(r) ==
    /\ dnsPc = "recv"
    /\ dnsCount < MaxDnsRequests
    /\ dnsReq' = r
    /\ dnsCount' = dnsCount + 1
    /\ dnsForward' = FALSE
    /\ dnsCached' = FALSE
    /\ dnsPc' = "lookup"
    /\ UNCHANGED <<dnsConfig, dnsCache, dnsResp, dnsTries, dnsFiles, dnsWire>>

(* `if client_data in cache`, and the decisions on a request that is not. *)
Mutant_CacheKey_no_id(r) == [r EXCEPT !.id = CHOOSE i \in DnsIds : TRUE]
CacheKey(r) == r
dns_lookup ==
    /\ dnsPc = "lookup"
    /\ dnsCached' = (CacheKey(dnsReq) \in DOMAIN dnsCache)
    /\ dnsForward' = (~dnsCached' /\ forward_to_tcp_server(dnsReq))
    /\ dnsTries' = 0
    /\ dnsPc' = CASE dnsCached' -> "cached"
                  [] ~dnsCached' /\ BlockedHttps(dnsReq) -> "blocked"
                  [] dnsForward' -> "forward"
                  [] OTHER -> IF dnsConfig.offline THEN "offline" ELSE "live"
    /\ UNCHANGED <<dnsConfig, dnsCache, dnsReq, dnsCount, dnsResp, dnsFiles, dnsWire>>

(* The second read of the cache: the clearing thread may have been there,  *)
(* and the KeyError drops the request.                                     *)
dns_read_cache ==
    /\ dnsPc = "cached"
    /\ IF CacheKey(dnsReq) \in DOMAIN dnsCache
       THEN dnsResp' = dnsCache[CacheKey(dnsReq)] /\ dnsPc' = "parse"
       ELSE dnsPc' = "recv" /\ UNCHANGED dnsResp
    /\ UNCHANGED <<dnsConfig, dnsCache, dnsReq, dnsCount, dnsCached, dnsForward,
                   dnsTries, dnsFiles, dnsWire>>

(* HTTPS records of engine domains get an empty answer. *)
dns_block_https ==
    /\ dnsPc = "blocked"
    /\ dnsSent' = dnsSent \cup {<<dnsReq, Answer(dnsReq, {})>>}
    /\ dnsPc' = "recv"
    /\ UNCHANGED <<dnsConfig, dnsCache, dnsConn, dnsFiles, dnsAsked>>

(* An answer with the engine's target; without a target there is no answer *)
(* at all.                                                                 *)
dns_forward ==
    /\ dnsPc = "forward"
    /\ IF resolved_target(dnsReq.name) = {}
       THEN dnsPc' = "recv" /\ dnsForward' = FALSE /\ UNCHANGED dnsResp
       ELSE /\ dnsResp' = Answer(dnsReq, resolved_target(dnsReq.name))
            /\ dnsPc' = "parse"
            /\ UNCHANGED dnsForward
    /\ UNCHANGED <<dnsConfig, dnsCache, dnsReq, dnsCount, dnsCached, dnsTries,
                   dnsFiles, dnsWire>>

dns_offline ==
    /\ dnsPc = "offline"
    /\ \/ /\ dnsResp' \in OfflineAnswers(dnsReq)
          /\ dnsPc' = "parse"
       \/ /\ OfflineAnswers(dnsReq) = {}
          /\ dnsPc' = "recv" /\ UNCHANGED dnsResp
    /\ UNCHANGED <<dnsConfig, dnsCache, dnsReq, dnsCount, dnsCached, dnsForward,
                   dnsTries, dnsFiles, dnsWire>>

(* One try at the live service, from a socket of its own.  The answer goes *)
(* into the cache before it is parsed.                                     *)
dns_live_answers ==
    /\ dnsPc = "live"
    /\ dnsAsked' = dnsAsked \cup {dnsReq}
    /\ dnsResp' \in LiveAnswers(dnsReq)
    /\ dnsCache' = [k \in DOMAIN dnsCache \cup {CacheKey(dnsReq)} |->
                       IF k = CacheKey(dnsReq) THEN dnsResp' ELSE dnsCache[k]]
    /\ dnsPc' = "parse"
    /\ UNCHANGED <<dnsConfig, dnsReq, dnsCount, dnsCached, dnsForward, dnsTries,
                   dnsFiles, dnsSent>>

(* Only a TimeoutError is tried again; after the last try there is no      *)
(* answer.                                                                 *)
Mutant_dns_live_timeout_uncounted ==
    /\ dnsPc = "live"
    /\ dnsAsked' = dnsAsked \cup {dnsReq}
    /\ dnsTries' = 1 - dnsTries
    /\ UNCHANGED <<dnsPc, dnsConfig, dnsCache, dnsReq, dnsCount, dnsCached, dnsForward,
                   dnsResp, dnsFiles, dnsSent>>
Mutant_dns_live_timeout_one_more ==
    /\ dnsPc = "live"
    /\ dnsAsked' = dnsAsked \cup {dnsReq}
    /\ dnsTries' = dnsTries + 1
    /\ dnsPc' = IF dnsTries > DnsRetries + 1 THEN "recv" ELSE "live"
    /\ UNCHANGED <<dnsConfig, dnsCache, dnsReq, dnsCount, dnsCached, dnsForward,
                   dnsResp, dnsFiles, dnsSent>>
dns_live_timeout ==
    /\ dnsPc = "live"
    /\ dnsAsked' = dnsAsked \cup {dnsReq}
    /\ dnsTries' = dnsTries + 1
    /\ dnsPc' = IF dnsTries' = DnsRetries + 1 THEN "recv" ELSE "live"
    /\ UNCHANGED <<dnsConfig, dnsCache, dnsReq, dnsCount, dnsCached, dnsForward,
                   dnsResp, dnsFiles, dnsSent>>

(* Any other exception, of a socket or of the parser, ends in the outer    *)
(* `except Exception`: the request is dropped.                             *)
dns_exception ==
    /\ dnsPc \in {"lookup", "live", "parse"}
    /\ dnsPc' = "recv"
    /\ UNCHANGED <<dnsConfig, dnsCache, dnsConn, dnsFiles, dnsWire>>

(* Only an answer that was not built here is parsed, and only then is the  *)
(* list of addresses a new one; then the answer is sent.                   *)
NewList(resp) ==
    /\ dnsIps' = dnsCount
    /\ dnsHeap' = [dnsHeap EXCEPT ![dnsCount] = resp.ips]
dns_send ==
    /\ dnsPc = "parse"
    /\ dnsResp.parses
    /\ IF dnsForward THEN UNCHANGED <<dnsIps, dnsHeap>> ELSE NewList(dnsResp)
    /\ dnsForward' = FALSE
    /\ dnsSent' = dnsSent \cup {<<dnsReq, dnsResp>>}
    /\ dnsPc' = "record"
    /\ UNCHANGED <<dnsConfig, dnsCache, dnsReq, dnsCount, dnsCached, dnsResp, dnsTries,
                   dnsKnown, dnsKnownIp, dnsAsked>>

(* known_a_records_domains_dict, of requests that were not cached: the     *)
(* first answer of a name is kept as the list itself, later addresses are  *)
(* appended to it.                                                         *)
KeepDomain(n) ==
    IF dnsCached \/ dnsHeap[dnsIps] = {}
    THEN UNCHANGED <<dnsKnown, dnsHeap>>
    ELSE IF n \in DOMAIN dnsKnown
         THEN /\ dnsHeap' = [dnsHeap EXCEPT ![dnsKnown[n]] = @ \cup dnsHeap[dnsIps]]
              /\ UNCHANGED dnsKnown
         ELSE /\ dnsKnown' = [k \in DOMAIN dnsKnown \cup {n} |->
                                 IF k = n THEN dnsIps ELSE dnsKnown[k]]
              /\ UNCHANGED dnsHeap

(* known_a_records_ipv4_dict, of every request unless offline. *)
KeepIps(n) ==
    dnsKnownIp' =
       IF dnsConfig.offline THEN dnsKnownIp
       ELSE [ip \in DOMAIN dnsKnownIp \cup dnsHeap[dnsIps] |->
                (IF ip \in DOMAIN dnsKnownIp THEN dnsKnownIp[ip] ELSE {})
                \cup (IF ip \in dnsHeap[dnsIps] THEN {n} ELSE {})]

dns_record ==
    /\ dnsPc = "record"
    /\ KeepDomain(dnsReq.name)
    /\ KeepIps(dnsReq.name)
    /\ dnsPc' = "recv"
    /\ UNCHANGED <<dnsConfig, dnsCache, dnsConn, dnsIps, dnsWire>>

(* thread_worker_empty_dns_cache *)
empty_dns_cache ==
    /\ dnsPc \notin {"test_config", "bind", "returned", "raised"}
    /\ dnsCache # <<>>
    /\ dnsCache' = <<>>
    /\ UNCHANGED <<dnsPc, dnsConfig, dnsConn, dnsFiles, dnsWire>>

DnsLoop ==
    \/ dns_lookup \/ dns_read_cache \/ dns_block_https \/ dns_forward \/ dns_offline
    \/ dns_live_answers \/ dns_live_timeout \/ dns_exception \/ dns_send \/ dns_record

DnsNext ==
    \/ test_config
    \/ dns_bind
    \/ \E r \in DnsRequest : dns_recv(r)
    \/ DnsLoop
    \/ empty_dns_cache

(* The loop runs on; requests and the clearing of the cache need not come. *)
DnsSpec == DnsInit /\ [][DnsNext]_dnsVars /\ WF_dnsVars(DnsLoop)
-----------------------------------------------------------------------------
(* Every answer sent is an answer to the very question it is sent for: same *)
(* transaction id and same name, although answers come from the cache, from *)
(* the live service after retries, and are built here.                      *)
DnsAnswersItsQuestion ==
    \A s \in dnsSent : s[2].id = s[1].id /\ s[2].name = s[1].name

(* When engines resolve, a question for a domain of an engine or for one of *)
(* its subdomains is never asked of the live service, and once it is marked *)
(* to be forwarded a target is found: the test that marks it compares whole *)
(* labels, the search for the target compares substrings.                   *)
OfAnEngine(n) ==
    /\ \E i \in Interceptors : \E t \in Range(DnsEngines[i].targets) :
          <<n, t[1]>> \in UnderDomain
    /\ n \notin excluded
DnsEngineNamesStayHere ==
    /\ Mode("engine") =>
          \A r \in dnsAsked : r.type \in {"A", "HTTPS"} => ~OfAnEngine(r.name)
    /\ dnsPc = "forward" => resolved_target(dnsReq.name) # {}

(* Whatever the live service does, the loop comes back for the next request. *)
DnsTakesNextRequest == (dnsPc = "lookup") ~> (dnsPc = "recv")

(* 'Aggregation of all the A records domains and their IPv4 answers'        *)
(* (dns_server.py:377): what the file of known domains holds of a name was  *)
(* answered to a question for that name.                                    *)
DnsKnownAreAnswers ==
    \A n \in DOMAIN dnsKnown :
        dnsHeap[dnsKnown[n]] \subseteq UNION {s[2].ips : s \in {t \in dnsSent : t[1].name = n}}

DnsTypeOK ==
    /\ dnsPc \in {"test_config", "bind", "returned", "raised", "recv", "lookup", "cached",
                  "blocked", "forward", "offline", "live", "parse", "record"}
    /\ dnsConfig \in DnsConfigs
    /\ dnsCount \in 0 .. MaxDnsRequests
    /\ dnsTries \in 0 .. DnsRetries + 1
    /\ dnsCached \in BOOLEAN /\ dnsForward \in BOOLEAN
    /\ DOMAIN dnsCache \subseteq DnsRequest
    /\ dnsIps \in 0 .. MaxDnsRequests
    /\ \A n \in DOMAIN dnsKnown : dnsKnown[n] \in 0 .. dnsCount
    /\ dnsAsked \subseteq DnsRequest
=============================================================================
