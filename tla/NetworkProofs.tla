---------------------------- MODULE NetworkProofs ----------------------------
(***************************************************************************)
(* Theorems about the components of MCNetwork, for every value of their    *)
(* constants: each one for the component's own specification, and for a    *)
(* behaviour of MCNetwork, in which one of the components runs.            *)
(***************************************************************************)
EXTENDS MCNetwork, FiniteSetTheorems, SequenceTheorems, WellFoundedInduction, TLAPS

(* A set of numbers has a least one: the first of a list that fits.        *)
LEMMA Least ==
    ASSUME NEW S, S \subseteq Nat, S # {}
    PROVE  \E m \in S : \A k \in S : m <= k
<1>1. PICK m \in S : \A k \in S : <<k, m>> \notin OpToRel(<, Nat)
  BY NatLessThanWellFounded, WFMin
<1>2. \A k \in S : ~(k < m)
  BY <1>1 DEF OpToRel
<1> QED
  BY <1>2

(* A list that grew at its end. *)
LEMMA Grown ==
    ASSUME NEW S, NEW l \in Seq(S), NEW x \in S
    PROVE  /\ Append(l, x) \in Seq(S) /\ Len(l) \in Nat
           /\ Len(Append(l, x)) = Len(l) + 1 /\ Append(l, x)[Len(l) + 1] = x
           /\ \A j \in 1..Len(l) : Append(l, x)[j] = l[j]
OBVIOUS

---------------------------------------------------------------------------
(* The DNS server.                                                         *)

Handling == {"lookup", "cached", "blocked", "forward", "offline", "live", "parse", "record"}

(* A response, if it can be parsed at all, is one to the request. *)
Answers(r, resp) == resp.parses => resp.id = r.id /\ resp.name = r.name

DnsTypes2 ==
    /\ DnsTypeOK
    /\ dnsPc \in Handling => dnsReq \in DnsRequest
    /\ dnsPc = "live" => dnsTries <= DnsRetries
    /\ dnsIps <= dnsCount

(* The server runs in one mode. *)
OneMode == dnsPc \notin {"test_config", "returned"} => Cardinality(dnsConfig.modes) = 1

CacheAnswers ==
    /\ \A k \in DOMAIN dnsCache : Answers(k, dnsCache[k])
    /\ dnsPc = "parse" => Answers(dnsReq, dnsResp)
    /\ DnsAnswersItsQuestion

(* Where a request is taken, the engines have been asked. *)
EnginesWereAsked ==
    /\ dnsPc = "live" /\ Mode("engine") /\ dnsReq.type \in {"A", "HTTPS"} =>
          ~OfAnEngine(dnsReq.name)
    /\ dnsPc = "forward" => Mode("all") \/ (Mode("engine") /\ OfAnEngine(dnsReq.name))
    /\ Mode("engine") => \A r \in dnsAsked : r.type \in {"A", "HTTPS"} => ~OfAnEngine(r.name)

DnsInv == DnsTypes2 /\ OneMode /\ CacheAnswers /\ EnginesWereAsked

(* The test of the name and what it is compared with are of the same       *)
(* domains.                                                                *)
LEMMA InterceptedAreOfEngines == \A n : intercepted(n) <=> OfAnEngine(n)
<1> TAKE n
<1>1. (\E d \in intercept_domains : <<n, d>> \in UnderDomain)
      <=> \E i \in Interceptors : \E t \in Range(DnsEngines[i].targets) : <<n, t[1]>> \in UnderDomain
  <2>1. \A d : d \in intercept_domains
              <=> \E i \in Interceptors : \E t \in Range(DnsEngines[i].targets) : d = t[1]
    BY DEF intercept_domains
  <2> QED
    BY <2>1
<1> QED
  BY <1>1 DEF intercepted, OfAnEngine

(* A name that belongs to an engine has a target: a domain under which it  *)
(* is occurs in it.                                                        *)
LEMMA EngineNamesHaveTargets ==
    ASSUME NEW n, OfAnEngine(n), Mode("engine")
    PROVE  resolved_target(n) # {}
<1>0. PICK i \in Interceptors :
          \E u \in Range(DnsEngines[i].targets) : <<n, u[1]>> \in UnderDomain
  BY DEF OfAnEngine
<1>1. PICK t \in Range(DnsEngines[i].targets) : <<n, t[1]>> \in UnderDomain
  BY <1>0
<1>2. i \in 1 .. Len(DnsEngines) /\ i \in DOMAIN DnsEngines /\ Len(DnsEngines) \in Nat
  BY <1>1, DnsAssumption DEF Interceptors, IsList
<1>3. get_target_ip_from_engine(n, DnsEngines[i]) # {}
  <2> DEFINE s == DnsEngines[i].targets
             hits == {h \in 1 .. Len(s) : <<n, s[h][1]>> \in InName}
  <2>1. Len(s) \in Nat /\ DOMAIN s = 1 .. Len(s)
    BY <1>2, DnsAssumption DEF IsList
  <2>2. PICK h \in 1 .. Len(s) : s[h] = t
    BY <1>1, <2>1 DEF Range
  <2>3. h \in hits
    BY <1>1, <2>2, DnsAssumption
  <2>4. hits \subseteq Nat
    BY <2>1
  <2> HIDE DEF hits
  <2>5. PICK m \in hits : \A k \in hits : m <= k
    BY <2>3, <2>4, Least
  <2> USE DEF hits
  <2>6. s[m][2] \in get_target_ip_from_engine(n, DnsEngines[i])
    BY <2>5 DEF get_target_ip_from_engine
  <2> QED
    BY <2>6
<1> DEFINE those == {f \in 1 .. Len(DnsEngines) : get_target_ip_from_engine(n, DnsEngines[f]) # {}}
<1>4. i \in those /\ those \subseteq Nat
  BY <1>2, <1>3
<1> HIDE DEF those
<1>5. PICK m \in those : \A k \in those : m <= k
  BY <1>4, Least
<1> USE DEF those
<1>6. get_target_ip_from_engine(n, DnsEngines[m]) \subseteq resolved_target(n)
  BY <1>5 DEF resolved_target
<1>7. get_target_ip_from_engine(n, DnsEngines[m]) # {}
  BY <1>5
<1> QED
  BY <1>6, <1>7

(* At first nothing has been asked or answered. *)
LEMMA DnsAtFirst == DnsInit => DnsInv
<1> SUFFICES ASSUME DnsInit PROVE DnsInv
  OBVIOUS
<1>0. DOMAIN dnsCache = {} /\ DOMAIN dnsKnown = {}
  BY DEF DnsInit
<1>1. DnsTypes2
  BY <1>0, DnsAssumption DEF DnsInit, DnsTypes2, DnsTypeOK, Handling
<1>2. OneMode /\ CacheAnswers /\ EnginesWereAsked
  BY DEF DnsInit, OneMode, CacheAnswers, EnginesWereAsked, DnsAnswersItsQuestion
<1> QED
  BY <1>1, <1>2 DEF DnsInv

(* Every step of the loop, and the thread that empties the cache, keep the *)
(* types.                                                                  *)
LEMMA DnsTypesStep == DnsTypes2 /\ [DnsNext]_dnsVars => DnsTypes2'
<1> SUFFICES ASSUME DnsTypes2, [DnsNext]_dnsVars PROVE DnsTypes2'
  OBVIOUS
<1> USE DEF DnsTypes2, DnsTypeOK, Handling, dnsConn, dnsFiles, dnsWire
<1>a. DnsRetries \in Nat /\ MaxDnsRequests \in Nat
  BY DnsAssumption
<1>1. CASE test_config \/ dns_bind
  BY <1>1 DEF test_config, dns_bind
<1>2. ASSUME NEW r \in DnsRequest, dns_recv(r) PROVE DnsTypes2'
  <2>1. dnsCount' = dnsCount + 1 /\ dnsCount' \in 0 .. MaxDnsRequests /\ dnsIps \in Nat
        /\ dnsCount \in Nat
    BY <1>a, <1>2 DEF dns_recv
  <2>2. \A n \in DOMAIN dnsKnown : dnsKnown[n] \in 0 .. dnsCount'
    BY <2>1
  <2>3. dnsIps' = dnsIps /\ dnsIps <= dnsCount'
    BY <1>2, <2>1 DEF dns_recv
  <2>4. /\ dnsPc' = "lookup" /\ dnsReq' = r /\ dnsCached' = FALSE /\ dnsForward' = FALSE
        /\ UNCHANGED <<dnsConfig, dnsCache, dnsTries, dnsKnown, dnsAsked>>
    BY <1>2 DEF dns_recv
  <2> QED
    BY <2>1, <2>2, <2>3, <2>4
<1>3. CASE dns_lookup
  <2>1. dnsCached' \in BOOLEAN /\ dnsForward' \in BOOLEAN
    BY <1>3 DEF dns_lookup
  <2>2. dnsPc' \in {"cached", "blocked", "forward", "offline", "live"}
    BY <1>3, <2>1 DEF dns_lookup
  <2> QED
    BY <1>a, <1>3, <2>1, <2>2 DEF dns_lookup
<1>4. CASE dns_read_cache \/ dns_block_https \/ dns_forward \/ dns_offline \/ dns_exception
  BY <1>4 DEF dns_read_cache, dns_block_https, dns_forward, dns_offline, dns_exception
<1>5. CASE dns_live_answers
  <2>1. DOMAIN dnsCache' \subseteq DnsRequest
    BY <1>5 DEF dns_live_answers, CacheKey
  <2> QED
    BY <1>5, <2>1 DEF dns_live_answers
<1>6. CASE dns_live_timeout
  BY <1>a, <1>6 DEF dns_live_timeout
<1>7. CASE dns_send
  <2>1. dnsIps' = dnsIps \/ dnsIps' = dnsCount
    BY <1>7 DEF dns_send, NewList
  <2>2. dnsIps' \in 0 .. MaxDnsRequests /\ dnsIps' <= dnsCount
    BY <1>a, <2>1
  <2> QED
    BY <1>7, <2>2 DEF dns_send
<1>8. CASE dns_record
  <2>1. \A n \in DOMAIN dnsKnown' : dnsKnown'[n] \in 0 .. dnsCount
    BY <1>a, <1>8 DEF dns_record, KeepDomain
  <2> QED
    BY <1>8, <2>1 DEF dns_record
<1>9. CASE empty_dns_cache
  BY <1>9 DEF empty_dns_cache
<1>10. CASE UNCHANGED dnsVars
  BY <1>10 DEF dnsVars
<1> QED
  BY <1>1, <1>2, <1>3, <1>4, <1>5, <1>6, <1>7, <1>8, <1>9, <1>10 DEF DnsNext, DnsLoop

(* The settings do not change once they were tested. *)
LEMMA OneModeStep == OneMode /\ [DnsNext]_dnsVars => OneMode'
  BY DEF OneMode, DnsNext, DnsLoop, test_config, DnsGoodConfig, dns_bind, dns_recv, dns_lookup,
     dns_read_cache, dns_block_https, dns_forward, dns_offline, dns_live_answers,
     dns_live_timeout, dns_exception, dns_send, dns_record, empty_dns_cache, dnsVars

(* What is put into the cache is an answer to its key, and is read from it *)
(* by its key.                                                             *)
LEMMA CacheStep == DnsTypes2 /\ CacheAnswers /\ [DnsNext]_dnsVars => CacheAnswers'
<1> SUFFICES ASSUME DnsTypes2, CacheAnswers, [DnsNext]_dnsVars PROVE CacheAnswers'
  OBVIOUS
<1> USE DEF CacheAnswers, DnsAnswersItsQuestion, dnsConn, dnsFiles, dnsWire
<1>a. \A r, ips : Answers(r, Answer(r, ips)) /\ Answer(r, ips).id = r.id /\ Answer(r, ips).name = r.name
  BY DEF Answers, Answer
<1>1. CASE dns_read_cache
  BY <1>1 DEF dns_read_cache, CacheKey
<1>2. CASE dns_block_https
  BY <1>2, <1>a DEF dns_block_https
<1>3. CASE dns_forward
  BY <1>3, <1>a DEF dns_forward
<1>4. CASE dns_offline
  <2>1. \A resp \in OfflineAnswers(dnsReq) : Answers(dnsReq, resp)
    BY <1>a DEF OfflineAnswers
  <2> QED
    BY <1>4, <2>1 DEF dns_offline
<1>5. CASE dns_live_answers
  <2>1. Answers(dnsReq, dnsResp')
    <3>1. Answers(dnsReq, Garbled)
      BY DEF Answers, Garbled
    <3> QED
      BY <1>5, <1>a, <3>1 DEF dns_live_answers, LiveAnswers
  <2>2. \A k \in DOMAIN dnsCache' : Answers(k, dnsCache'[k])
    BY <1>5, <2>1 DEF dns_live_answers, CacheKey
  <2> QED
    BY <1>5, <2>1, <2>2 DEF dns_live_answers
<1>6. CASE dns_send
  BY <1>6 DEF dns_send, Answers
<1>7. CASE empty_dns_cache
  BY <1>7 DEF empty_dns_cache
<1>8. CASE dns_lookup
  <2>1. dnsPc' # "parse"
    BY <1>8 DEF dns_lookup
  <2> QED
    BY <1>8, <2>1 DEF dns_lookup
<1>9. CASE test_config \/ dns_bind \/ (\E r \in DnsRequest : dns_recv(r)) \/ dns_live_timeout
           \/ dns_exception \/ dns_record
  BY <1>9 DEF test_config, dns_bind, dns_recv, dns_live_timeout, dns_exception, dns_record,
     DnsTypes2, DnsTypeOK
<1>10. CASE UNCHANGED dnsVars
  BY <1>10 DEF dnsVars
<1> QED
  BY <1>1, <1>2, <1>3, <1>4, <1>5, <1>6, <1>7, <1>8, <1>9, <1>10 DEF DnsNext, DnsLoop

(* A request goes to the live service after the engines were asked. *)
LEMMA EnginesStep == EnginesWereAsked /\ [DnsNext]_dnsVars => EnginesWereAsked'
<1> SUFFICES ASSUME EnginesWereAsked, [DnsNext]_dnsVars PROVE EnginesWereAsked'
  OBVIOUS
<1> USE DEF EnginesWereAsked, dnsConn, dnsFiles, dnsWire, Mode
<1>a. dnsConfig' = dnsConfig
  BY DEF DnsNext, DnsLoop, test_config, DnsGoodConfig, dns_bind, dns_recv, dns_lookup,
     dns_read_cache, dns_block_https, dns_forward, dns_offline, dns_live_answers,
     dns_live_timeout, dns_exception, dns_send, dns_record, empty_dns_cache, dnsVars
<1>1. CASE dns_lookup
  <2>1. dnsReq' = dnsReq /\ dnsAsked' = dnsAsked
    BY <1>1 DEF dns_lookup
  <2>2. dnsPc' = "forward" => forward_to_tcp_server(dnsReq)
    BY <1>1 DEF dns_lookup
  <2>3. dnsPc' = "live" => ~forward_to_tcp_server(dnsReq) /\ ~BlockedHttps(dnsReq)
    BY <1>1 DEF dns_lookup
  <2> QED
    BY <1>a, <2>1, <2>2, <2>3, InterceptedAreOfEngines DEF forward_to_tcp_server, BlockedHttps
<1>2. CASE dns_live_answers \/ dns_live_timeout
  BY <1>a, <1>2 DEF dns_live_answers, dns_live_timeout
<1>3. CASE test_config \/ dns_bind \/ (\E r \in DnsRequest : dns_recv(r)) \/ dns_read_cache
           \/ dns_block_https \/ dns_forward \/ dns_offline \/ dns_exception \/ dns_send
           \/ dns_record
  BY <1>a, <1>3 DEF test_config, dns_bind, dns_recv, dns_read_cache, dns_block_https,
     dns_forward, dns_offline, dns_exception, dns_send, dns_record
<1>4. CASE empty_dns_cache \/ UNCHANGED dnsVars
  BY <1>a, <1>4 DEF empty_dns_cache, dnsVars
<1> QED
  BY <1>1, <1>2, <1>3, <1>4 DEF DnsNext, DnsLoop

(* The inductive invariant, and what it says of the answers. *)
LEMMA DnsStep == DnsInv /\ [DnsNext]_dnsVars => DnsInv'
  BY DnsTypesStep, OneModeStep, CacheStep, EnginesStep DEF DnsInv

(* What the invariant says of the answers. *)
LEMMA DnsAnswersFollow == DnsInv => DnsTypeOK /\ DnsAnswersAreRight
<1> SUFFICES ASSUME DnsInv PROVE DnsTypeOK /\ DnsAnswersAreRight
  OBVIOUS
<1> USE DEF DnsInv
<1>1. dnsPc = "forward" => resolved_target(dnsReq.name) # {}
  <2> SUFFICES ASSUME dnsPc = "forward" PROVE resolved_target(dnsReq.name) # {}
    OBVIOUS
  <2>1. CASE Mode("engine")
    <3>1. ~Mode("all")
      <4>1. Cardinality(dnsConfig.modes) = 1
        BY DEF OneMode
      <4>2. "engine" \in dnsConfig.modes /\ dnsConfig.modes \subseteq {"engine", "pass", "all"}
        BY <2>1, DnsAssumption DEF Mode, DnsTypes2, DnsTypeOK
      <4>3. IsFiniteSet(dnsConfig.modes)
        <5>1. IsFiniteSet({"engine", "pass", "all"})
          <6>1. IsFiniteSet({"engine"})
            BY FS_Singleton
          <6>2. IsFiniteSet({"engine"} \cup {"pass"})
            BY <6>1, FS_AddElement
          <6>3. IsFiniteSet(({"engine"} \cup {"pass"}) \cup {"all"})
            BY <6>2, FS_AddElement
          <6>4. ({"engine"} \cup {"pass"}) \cup {"all"} = {"engine", "pass", "all"}
            OBVIOUS
          <6> QED
            BY <6>3, <6>4
        <5> QED
          BY <4>2, <5>1, FS_Subset
      <4>4. PICK m : dnsConfig.modes = {m}
        BY <4>1, <4>3, FS_Singleton
      <4> QED
        BY <4>2, <4>4 DEF Mode
    <3> QED
      BY <2>1, <3>1, EngineNamesHaveTargets DEF EnginesWereAsked
  <2>2. CASE ~Mode("engine")
    BY <2>2 DEF resolved_target
  <2> QED
    BY <2>1, <2>2
<1>2. DnsEngineNamesStayHere
  BY <1>1 DEF EnginesWereAsked, DnsEngineNamesStayHere
<1> QED
  BY <1>2 DEF DnsTypes2, CacheAnswers, DnsAnswersAreRight

---------------------------------------------------------------------------
(* The accept loop and the certificates.                                   *)

ProcPcs == {"test_config", "ca", "caOpen", "caWrite", "crt", "rmtree", "listening", "raised"}
AccPcs ==
    {"none", "pending", "over", "peek", "select", "call", "wrap", "sni", "ca", "sniCa", "caOpen",
     "sniCaOpen", "caWrite", "sniCaWrite", "get", "sniGet", "open", "sniOpen", "write", "sniWrite",
     "load", "sniLoad", "handshake", "readError", "wrapped", "served"}

(* Where a CA has been loaded or made. *)
HasCa == {"caOpen", "sniCaOpen", "caWrite", "sniCaWrite", "get", "sniGet", "open", "sniOpen",
          "write", "sniWrite"}

AccTypes ==
    /\ AccTypeOK
    /\ procPc \in [Listeners -> ProcPcs] /\ accPc \in [Clients -> AccPcs]
    /\ \A p \in Listeners : procPc[p] \in {"caOpen", "caWrite"} => caOf[p] \in Keys
    /\ \A c \in Clients : accPc[c] \in HasCa => caOf[c] \in Keys

(* The names of files and of actors are different. *)
LEMMA KeysAreReadable ==
    /\ \A k \in Keys : Readable(k) /\ k \notin {"absent", "empty", "none", "custom"}
    /\ \A f \in Keys \cup {"absent", "empty"} : Readable(f) => f \in Keys
    /\ Listeners \subseteq Keys /\ Clients \subseteq Keys /\ "old" \in Keys
  BY AcceptAssumption DEF Keys, Actors, Readable

(* The file of a client's certificate, and the process it comes to. *)
LEMMA FilesOfClients ==
    \A c \in Clients : /\ CertFile(c) \in CertFiles /\ ListenerOf[c] \in Listeners
                       /\ HostOf[c] \in Hosts /\ c \in Actors
  BY AcceptAssumption DEF CertFile, CertFiles, Hosts, Actors

(* The types at first. *)
LEMMA AccTypesAtFirst == AccInit => AccTypes
<1> SUFFICES ASSUME AccInit PROVE AccTypes
  OBVIOUS
<1>1. AccTypeOK
  <2>1. "old" \in Keys
    BY KeysAreReadable
  <2>2. certFiles \in [CertFiles -> Keys \cup {"absent", "empty"}]
    BY <2>1 DEF AccInit
  <2>3. caOf \in [Actors -> Keys \cup {"none"}]
    BY DEF AccInit
  <2> QED
    BY <2>1, <2>2, <2>3 DEF AccInit, AccTypeOK
<1>2. procPc \in [Listeners -> ProcPcs] /\ accPc \in [Clients -> AccPcs]
  BY DEF AccInit, ProcPcs, AccPcs
<1> QED
  BY <1>1, <1>2 DEF AccTypes, AccInit, HasCa

(* The steps of a process that starts keep the types. *)
LEMMA AccTypesProcess ==
    ASSUME AccTypes, NEW p \in Listeners, ProcessStep(p)
    PROVE  AccTypes'
<1> USE DEF accThreads, accShared, accDisk, accLogs
<1>t. /\ procPc \in [Listeners -> ProcPcs] /\ caOf \in [Actors -> Keys \cup {"none"}]
      /\ caFile \in Keys \cup {"absent", "empty"} /\ p \in Actors /\ p \in Keys
      /\ certFiles \in [CertFiles -> Keys \cup {"absent", "empty"}]
      /\ procPc[p] \in {"caOpen", "caWrite"} => caOf[p] \in Keys
  BY KeysAreReadable DEF AccTypes, AccTypeOK, Actors
<1>1. UNCHANGED <<certMode, accPc, accTls, accSsl, accContext, accError, accMessage>>
  BY DEF ProcessStep, wrapper_test_config, process_load_ca, process_open_ca, process_write_ca,
     process_write_crt, process_remove_cached
<1>2. procPc' \in [Listeners -> ProcPcs]
  BY <1>t DEF ProcessStep, wrapper_test_config, process_load_ca, LoadRootCa, process_open_ca,
     process_write_ca, process_write_crt, process_remove_cached, ProcPcs
<1>3. /\ caOf' \in [Actors -> Keys \cup {"none"}]
      /\ \A a \in Actors : caOf'[a] = caOf[a] \/ caOf'[a] \in Keys
      /\ procPc'[p] \in {"caOpen", "caWrite"} => caOf'[p] \in Keys
      /\ \A q \in Listeners : q # p => procPc'[q] = procPc[q]
  <2>1. CASE process_load_ca(p)
    BY <1>t, <2>1, KeysAreReadable DEF process_load_ca, LoadRootCa
  <2>2. CASE ~process_load_ca(p)
    BY <1>t, <2>2 DEF ProcessStep, wrapper_test_config, process_open_ca,
       process_write_ca, process_write_crt, process_remove_cached
  <2> QED
    BY <2>1, <2>2
<1>4. caFile' \in Keys \cup {"absent", "empty"}
  BY <1>t DEF ProcessStep, wrapper_test_config, process_load_ca, process_open_ca,
     process_write_ca, process_write_crt, process_remove_cached
<1>5. certFiles' \in [CertFiles -> Keys \cup {"absent", "empty"}]
  BY <1>t DEF ProcessStep, wrapper_test_config, process_load_ca, process_open_ca,
     process_write_ca, process_write_crt, process_remove_cached, RemoveCached
<1>6. \A q \in Listeners : procPc'[q] \in {"caOpen", "caWrite"} => caOf'[q] \in Keys
  BY <1>3 DEF AccTypes, Actors
<1>7. \A c \in Clients : accPc[c] \in HasCa => caOf'[c] \in Keys
  BY <1>3 DEF AccTypes, Actors
<1> QED
  BY <1>1, <1>2, <1>3, <1>4, <1>5, <1>6, <1>7 DEF AccTypes, AccTypeOK

ClientStep(c) ==
    connect(c) \/ lookup_raises(c) \/ accept(c) \/ accept_fails(c) \/ ConnectionStep(c)

(* What a connection's thread changes of what all share: itself.           *)
LEMMA WhatClientsChange ==
    ASSUME AccTypes, NEW c \in Clients, ClientStep(c)
    PROVE  /\ UNCHANGED <<certMode, procPc, accTls, crtFile>>
           /\ \A d \in Clients : d # c =>
                 /\ accPc'[d] = accPc[d] /\ accSsl'[d] = accSsl[d] /\ accContext'[d] = accContext[d]
           /\ \A a \in Actors : a # c => caOf'[a] = caOf[a]
           /\ accPc[c] # "none" \/ procPc[ListenerOf[c]] = "listening"
           /\ accPc' \in [Clients -> AccPcs]
  BY DEF AccTypes, AccTypeOK, ClientStep, ConnectionStep, connect, lookup_raises, accept,
     accept_fails, peek, peek_fails, select_certificate, wrap, sni_handle, load_ca, LoadRootCa,
     open_ca, write_ca, get_cached, open_cert, write_cert, load_chain, sni_raises,
     handshake_succeeds, handshake_fails, read_error, wrapped, after_wrap, Unforeseen, call,
     accSettled, accLogs, GoesTo, Step, Then, AccPcs

(* The steps of a connection's thread keep the types. *)
LEMMA AccTypesClient ==
    ASSUME AccTypes, NEW c \in Clients, ClientStep(c)
    PROVE  AccTypes'
<1> USE DEF accSettled, accLogs, GoesTo, Step, Then
<1>t. /\ accPc \in [Clients -> AccPcs] /\ caOf \in [Actors -> Keys \cup {"none"}]
      /\ caFile \in Keys \cup {"absent", "empty"} /\ c \in Actors /\ c \in Keys
      /\ certFiles \in [CertFiles -> Keys \cup {"absent", "empty"}] /\ CertFile(c) \in CertFiles
      /\ accContext \in [Clients -> Keys \cup {"none", "custom"}]
      /\ accSsl \in [Clients -> BOOLEAN]
      /\ accMessage \in [Listeners -> SUBSET Clients] /\ accError \in [Clients -> SUBSET Clients]
      /\ accPc[c] \in HasCa => caOf[c] \in Keys
      /\ ListenerOf[c] \in Listeners
  BY KeysAreReadable, FilesOfClients DEF AccTypes, AccTypeOK
<1>1. /\ UNCHANGED <<certMode, procPc, accTls, crtFile>>
      /\ \A d \in Clients : d # c => accPc'[d] = accPc[d]
      /\ accPc' \in [Clients -> AccPcs]
  BY WhatClientsChange
<1>2. /\ caOf' \in [Actors -> Keys \cup {"none"}]
      /\ \A a \in Actors : caOf'[a] = caOf[a] \/ caOf'[a] \in Keys
      /\ accPc'[c] \in HasCa => caOf'[c] \in Keys
  <2>1. CASE load_ca(c)
    BY <1>t, <2>1, KeysAreReadable DEF load_ca, LoadRootCa
  <2>2. CASE ~load_ca(c)
    <3>1. caOf' = caOf
      BY <2>2 DEF ClientStep, ConnectionStep, connect, lookup_raises, accept,
         accept_fails, peek, peek_fails, select_certificate, wrap, sni_handle,
         open_ca, write_ca, get_cached, open_cert, write_cert, load_chain, sni_raises,
         handshake_succeeds, handshake_fails, read_error, wrapped, after_wrap, Unforeseen, call
    <3>2. accPc'[c] \in HasCa => accPc[c] \in HasCa
      BY <1>t, <2>2 DEF ClientStep, ConnectionStep, connect, lookup_raises, accept,
         accept_fails, peek, peek_fails, select_certificate, wrap, sni_handle,
         open_ca, write_ca, get_cached, open_cert, write_cert, load_chain, sni_raises,
         handshake_succeeds, handshake_fails, read_error, wrapped, after_wrap, Unforeseen, call,
         HasCa
    <3> QED
      BY <1>t, <3>1, <3>2
  <2> QED
    BY <2>1, <2>2
<1>3. caFile' \in Keys \cup {"absent", "empty"}
  BY <1>t DEF ClientStep, ConnectionStep, connect, lookup_raises, accept,
     accept_fails, peek, peek_fails, select_certificate, wrap, sni_handle, load_ca,
     open_ca, write_ca, get_cached, open_cert, write_cert, load_chain, sni_raises,
     handshake_succeeds, handshake_fails, read_error, wrapped, call, HasCa
<1>4. certFiles' \in [CertFiles -> Keys \cup {"absent", "empty"}]
  BY <1>t DEF ClientStep, ConnectionStep, connect, lookup_raises, accept,
     accept_fails, peek, peek_fails, select_certificate, wrap, sni_handle, load_ca,
     open_ca, write_ca, get_cached, open_cert, write_cert, load_chain, sni_raises,
     handshake_succeeds, handshake_fails, read_error, wrapped, call, HasCa
<1>5. accContext' \in [Clients -> Keys \cup {"none", "custom"}] /\ accSsl' \in [Clients -> BOOLEAN]
  <2>1. certFiles[CertFile(c)] \in Keys \/ ~Readable(certFiles[CertFile(c)])
    BY <1>t, KeysAreReadable
  <2> QED
    BY <1>t, <2>1 DEF ClientStep, ConnectionStep, connect, lookup_raises, accept,
       accept_fails, peek, peek_fails, select_certificate, wrap, sni_handle, load_ca,
       open_ca, write_ca, get_cached, open_cert, write_cert, load_chain, sni_raises,
       handshake_succeeds, handshake_fails, read_error, wrapped, call
<1>6. accMessage' \in [Listeners -> SUBSET Clients] /\ accError' \in [Clients -> SUBSET Clients]
  BY <1>t DEF ClientStep, ConnectionStep, connect, lookup_raises, accept,
     accept_fails, peek, peek_fails, select_certificate, wrap, sni_handle, load_ca,
     open_ca, write_ca, get_cached, open_cert, write_cert, load_chain, sni_raises,
     handshake_succeeds, handshake_fails, read_error, wrapped, call
<1>7. \A p \in Listeners : procPc[p] \in {"caOpen", "caWrite"} => caOf'[p] \in Keys
  BY <1>2 DEF AccTypes, Actors
<1>8. \A d \in Clients : accPc'[d] \in HasCa => caOf'[d] \in Keys
  BY <1>1, <1>2 DEF AccTypes, Actors
<1> QED
  BY <1>1, <1>2, <1>3, <1>4, <1>5, <1>6, <1>7, <1>8 DEF AccTypes, AccTypeOK


(* Every step keeps the types. *)
LEMMA AccTypesStep == AccTypes /\ [AccNext]_accVars => AccTypes'
<1> SUFFICES ASSUME AccTypes, [AccNext]_accVars PROVE AccTypes'
  OBVIOUS
<1>1. CASE UNCHANGED accVars
  BY <1>1 DEF AccTypes, AccTypeOK, accVars, accThreads, accShared, accDisk, accLogs
<1> QED
  BY <1>1, AccTypesProcess, AccTypesClient DEF AccNext, ClientStep

(* A thread reaches the worker without TLS, or after the handshake. *)
LEMMA TlsStep == AccTypes /\ ServedOverTls /\ [AccNext]_accVars => ServedOverTls'
<1> SUFFICES ASSUME AccTypes, ServedOverTls, [AccNext]_accVars PROVE ServedOverTls'
  OBVIOUS
<1> USE DEF ServedOverTls
<1>1. CASE UNCHANGED accVars
  BY <1>1 DEF accVars, accThreads
<1>2. ASSUME NEW p \in Listeners, ProcessStep(p) PROVE ServedOverTls'
  BY <1>2 DEF ProcessStep, wrapper_test_config, process_load_ca, process_open_ca,
     process_write_ca, process_write_crt, process_remove_cached, accThreads
<1>3. ASSUME NEW c \in Clients, ClientStep(c) PROVE ServedOverTls'
  <2>1. /\ UNCHANGED accTls
        /\ \A d \in Clients : d # c => accPc'[d] = accPc[d] /\ accSsl'[d] = accSsl[d]
    BY <1>3, WhatClientsChange
  <2>2. accPc'[c] \in {"call", "served"} /\ accTls[c] => accSsl'[c]
    BY <1>3 DEF AccTypes, AccTypeOK, ClientStep, ConnectionStep, connect, lookup_raises, accept,
       accept_fails, peek, peek_fails, select_certificate, wrap, sni_handle, load_ca, LoadRootCa,
       open_ca, write_ca, get_cached, open_cert, write_cert, load_chain, sni_raises,
       handshake_succeeds, handshake_fails, read_error, wrapped, after_wrap, Unforeseen, call,
       GoesTo, Step, Then, AccPcs, accSettled
  <2> QED
    BY <2>1, <2>2
<1> QED
  BY <1>1, <1>2, <1>3 DEF AccNext, ClientStep

(* A CA is in its file and in what was made of it for the clients; the     *)
(* files of the names hold nothing that another CA signed.                 *)
Settled ==
    /\ caFile \in Keys /\ crtFile = caFile
    /\ \A p \in Listeners : procPc[p] \in {"test_config", "listening", "raised"}
    /\ \A f \in Hosts : certFiles[f] \in {"absent", "empty", caFile}

(* A thread does not make a CA, and loads nothing that another one signed: *)
(* the default certificate was written over before.                        *)
UsesIt(c) ==
    /\ accPc[c] \notin {"caOpen", "sniCaOpen", "caWrite", "sniCaWrite"}
    /\ accPc[c] \in HasCa => caOf[c] = caFile
    /\ certMode = "default" /\ accPc[c] \in {"write", "load", "sniWrite", "sniLoad"} =>
          certFiles["default"] \in {"empty", caFile}
    /\ certMode # "custom" => accContext[c] \in {"none", caFile}
    /\ accSsl[c] => accContext[c] # "none"

(* The only process makes the CA, before it accepts. *)
Starting(p) ==
    /\ Listeners = {p}
    /\ \A c \in Clients : accPc[c] = "none" /\ accContext[c] = "none" /\ ~accSsl[c]
    /\ procPc[p] # "listening"
    /\ procPc[p] = "test_config" => caFile = "absent"
    /\ procPc[p] \in {"ca", "caOpen"} => caFile = "absent"
    /\ procPc[p] \in {"caOpen", "caWrite"} => caOf[p] = p
    /\ procPc[p] \in {"crt", "rmtree"} => caFile = p
    /\ procPc[p] = "rmtree" => crtFile = p

OneCa == (Settled /\ \A c \in Clients : UsesIt(c)) \/ \E p \in Listeners : Starting(p)

(* A CA is there before the start, or one process makes it. *)
CaIsMadeOnce == (\E p : Listeners = {p}) \/ caFile = "old"

(* A process has either found its CA or starts alone at first. *)
LEMMA OneCaAtFirst == AccInit /\ CaIsMadeOnce => OneCa
<1> SUFFICES ASSUME AccInit, CaIsMadeOnce PROVE OneCa
  OBVIOUS
<1> USE DEF AccInit
<1>1. CASE caFile = "old"
  <2>1. Settled
    BY <1>1, KeysAreReadable DEF Settled, CertFiles
  <2>2. \A c \in Clients : UsesIt(c)
    BY <1>1 DEF UsesIt, HasCa
  <2> QED
    BY <2>1, <2>2 DEF OneCa
<1>2. CASE caFile # "old"
  <2>1. PICK p : Listeners = {p}
    BY <1>2 DEF CaIsMadeOnce
  <2>2. Starting(p)
    BY <1>2, <2>1 DEF Starting
  <2> QED
    BY <2>1, <2>2 DEF OneCa
<1> QED
  BY <1>1, <1>2

(* The steps of the process that starts alone. *)
LEMMA OneCaStarts ==
    ASSUME AccTypes, NEW p \in Listeners, Starting(p), ProcessStep(p)
    PROVE  OneCa'
<1> USE DEF Starting
<1>k. /\ Readable(p) /\ p \in Keys /\ p \notin {"absent", "empty", "none", "custom"}
      /\ ~Readable("absent")
  BY KeysAreReadable DEF Readable
<1>t. procPc \in [Listeners -> ProcPcs] /\ caOf \in [Actors -> Keys \cup {"none"}] /\ p \in Actors
  BY DEF AccTypes, AccTypeOK, Actors
<1>1. UNCHANGED <<accPc, accContext, accSsl, certMode>>
  BY DEF ProcessStep, wrapper_test_config, process_load_ca, process_open_ca, process_write_ca,
     process_write_crt, process_remove_cached, accThreads
<1>2. CASE process_remove_cached(p)
  <2>1. Settled'
    BY <1>2, <1>k, <1>t DEF process_remove_cached, RemoveCached, Settled, CertFiles, accThreads
  <2>2. \A c \in Clients : UsesIt(c)'
    BY <1>1 DEF UsesIt, HasCa
  <2> QED
    BY <2>1, <2>2 DEF OneCa
<1>3. CASE ~process_remove_cached(p)
  <2>1. Starting(p)'
    BY <1>1, <1>3, <1>k, <1>t DEF ProcessStep, wrapper_test_config, process_load_ca, LoadRootCa,
       process_open_ca, process_write_ca, process_write_crt, accDisk
  <2> QED
    BY <2>1 DEF OneCa
<1> QED
  BY <1>2, <1>3

(* A process that starts when the CA is there. *)
LEMMA OneCaListens ==
    ASSUME AccTypes, Settled, \A c \in Clients : UsesIt(c), NEW p \in Listeners, ProcessStep(p)
    PROVE  OneCa'
<1>1. wrapper_test_config(p)
  BY DEF Settled, ProcessStep, process_load_ca, process_open_ca, process_write_ca,
     process_write_crt, process_remove_cached
<1>2. caFile # "absent"
  BY KeysAreReadable DEF Settled
<1>3. Settled'
  BY <1>1, <1>2 DEF Settled, wrapper_test_config, accDisk, AccTypes
<1>4. \A c \in Clients : UsesIt(c)'
  BY <1>1 DEF UsesIt, wrapper_test_config, accDisk, accThreads
<1> QED
  BY <1>3, <1>4 DEF OneCa

(* The thread of a connection writes what the CA signs, and loads it. *)
LEMMA OneCaServes ==
    ASSUME AccTypes, Settled, \A c \in Clients : UsesIt(c), NEW c \in Clients, ClientStep(c)
    PROVE  OneCa'
<1> USE DEF GoesTo, Step, Then, accSettled, accLogs
<1>k. Readable(caFile) /\ caFile \notin {"absent", "empty", "none", "custom"}
  BY KeysAreReadable DEF Settled
<1>t. /\ accPc \in [Clients -> AccPcs] /\ caOf \in [Actors -> Keys \cup {"none"}]
      /\ certFiles \in [CertFiles -> Keys \cup {"absent", "empty"}]
      /\ accContext \in [Clients -> Keys \cup {"none", "custom"}]
      /\ accSsl \in [Clients -> BOOLEAN]
      /\ CertFile(c) \in CertFiles /\ c \in Actors /\ HostOf[c] \in Hosts
      /\ certMode \in {"default", "domain", "custom"} /\ Hosts \subseteq CertFiles
  BY FilesOfClients, AcceptAssumption DEF AccTypes, AccTypeOK, CertFiles
<1>u. UsesIt(c)
  OBVIOUS
<1>w. /\ UNCHANGED <<certMode, procPc, accTls, crtFile>>
      /\ \A d \in Clients : d # c =>
            /\ accPc'[d] = accPc[d] /\ accSsl'[d] = accSsl[d] /\ accContext'[d] = accContext[d]
      /\ \A a \in Actors : a # c => caOf'[a] = caOf[a]
  BY WhatClientsChange
<1>1. caFile' = caFile
  BY <1>u DEF UsesIt, ClientStep, ConnectionStep, connect, lookup_raises, accept,
     accept_fails, peek, peek_fails, select_certificate, wrap, sni_handle, load_ca,
     open_ca, write_ca, get_cached, open_cert, write_cert, load_chain, sni_raises,
     handshake_succeeds, handshake_fails, read_error, wrapped, call
<1>2. /\ \A f \in CertFiles : certFiles'[f] = certFiles[f] \/ certFiles'[f] \in {"empty", caFile}
      /\ certMode = "default" /\ accPc'[c] \in {"write", "load", "sniWrite", "sniLoad"} =>
            certFiles'["default"] \in {"empty", caFile}
  <2>1. CASE open_cert(c)
    BY <1>t, <2>1 DEF open_cert, CertFile
  <2>2. CASE write_cert(c)
    BY <1>t, <1>u, <2>2 DEF write_cert, CertFile, UsesIt, HasCa
  <2>3. CASE ~open_cert(c) /\ ~write_cert(c)
    <3>1. certFiles' = certFiles
      BY <2>3 DEF ClientStep, ConnectionStep, connect, lookup_raises, accept,
         accept_fails, peek, peek_fails, select_certificate, wrap, sni_handle, load_ca,
         open_ca, write_ca, get_cached, load_chain, sni_raises,
         handshake_succeeds, handshake_fails, read_error, wrapped, call
    <3>2. certMode = "default" => (accPc'[c] \in {"write", "load", "sniWrite", "sniLoad"} =>
                                       accPc[c] \in {"write", "load", "sniWrite", "sniLoad"})
      BY <1>t, <2>3 DEF ClientStep, ConnectionStep, connect, lookup_raises, accept,
         accept_fails, peek, peek_fails, select_certificate, wrap, sni_handle, load_ca, LoadRootCa,
         open_ca, write_ca, get_cached, load_chain, sni_raises,
         handshake_succeeds, handshake_fails, read_error, wrapped, after_wrap, Unforeseen, call
    <3> QED
      BY <1>u, <3>1, <3>2 DEF UsesIt
  <2> QED
    BY <2>1, <2>2, <2>3
<1>3. Settled'
  BY <1>1, <1>2, <1>w, <1>t DEF Settled
<1>4. /\ accPc'[c] \notin {"caOpen", "sniCaOpen", "caWrite", "sniCaWrite"}
      /\ accPc'[c] \in HasCa => caOf'[c] = caFile
  BY <1>k, <1>t, <1>u DEF UsesIt, HasCa, ClientStep, ConnectionStep, connect, lookup_raises, accept,
     accept_fails, peek, peek_fails, select_certificate, wrap, sni_handle, load_ca, LoadRootCa,
     open_ca, write_ca, get_cached, open_cert, write_cert, load_chain, sni_raises,
     handshake_succeeds, handshake_fails, read_error, wrapped, after_wrap, Unforeseen, call
<1>5. /\ certMode # "custom" => accContext'[c] \in {"none", caFile}
      /\ accSsl'[c] => accContext'[c] # "none"
  <2>1. CASE load_chain(c)
    <3> DEFINE file == certFiles[CertFile(c)]
    <3>1. Readable(file) => file \notin {"absent", "empty", "none"}
      BY <1>t, KeysAreReadable DEF Readable
    <3>2. certMode # "custom" /\ Readable(file) => file = caFile
      BY <1>t, <1>u, <2>1 DEF load_chain, UsesIt, CertFile, Settled, Readable
    <3>3. /\ accContext' = IF Readable(file) THEN [accContext EXCEPT ![c] = file] ELSE accContext
          /\ accSsl' = accSsl
      BY <2>1 DEF load_chain
    <3> HIDE DEF file
    <3> QED
      BY <1>t, <1>u, <3>1, <3>2, <3>3 DEF UsesIt
  <2>2. CASE ~load_chain(c)
    BY <1>t, <1>u, <2>2 DEF UsesIt, ClientStep, ConnectionStep, connect, lookup_raises, accept,
       accept_fails, peek, peek_fails, select_certificate, wrap, sni_handle, load_ca,
       open_ca, write_ca, get_cached, open_cert, write_cert, sni_raises,
       handshake_succeeds, handshake_fails, read_error, wrapped, call
  <2> QED
    BY <2>1, <2>2
<1>6. UsesIt(c)'
  BY <1>1, <1>2, <1>4, <1>5, <1>w DEF UsesIt
<1>7. ASSUME NEW d \in Clients, d # c PROVE UsesIt(d)'
  <2>1. UsesIt(d) /\ d \in Actors
    BY FilesOfClients
  <2>2. certFiles["default"] \in {"empty", caFile} => certFiles'["default"] \in {"empty", caFile}
    BY <1>2 DEF CertFiles
  <2> QED
    BY <1>1, <1>7, <1>w, <2>1, <2>2 DEF UsesIt
<1> QED
  BY <1>3, <1>6, <1>7 DEF OneCa

(* There is one CA from the first connection on. *)
LEMMA OneCaStep == AccTypes /\ OneCa /\ [AccNext]_accVars => OneCa'
<1> SUFFICES ASSUME AccTypes, OneCa, [AccNext]_accVars PROVE OneCa'
  OBVIOUS
<1>1. CASE UNCHANGED accVars
  BY <1>1 DEF OneCa, Settled, UsesIt, Starting, accVars, accThreads, accShared, accDisk, accLogs
<1>2. CASE \E p \in Listeners : ProcessStep(p)
  <2>1. PICK q \in Listeners : ProcessStep(q)
    BY <1>2
  <2>2. (\E p \in Listeners : Starting(p)) => Starting(q)
    BY DEF Starting
  <2> QED
    BY <2>1, <2>2, OneCaStarts, OneCaListens DEF OneCa
<1>3. CASE \E c \in Clients : ClientStep(c)
  <2>1. PICK c \in Clients : ClientStep(c)
    BY <1>3
  <2>2. ~\E p \in Listeners : Starting(p)
    <3>1. accPc[c] # "none" \/ procPc[ListenerOf[c]] = "listening"
      BY <2>1, WhatClientsChange
    <3> QED
      BY <3>1, FilesOfClients DEF Starting
  <2> QED
    BY <2>1, <2>2, OneCaServes DEF OneCa
<1> QED
  BY <1>1, <1>2, <1>3 DEF AccNext, ClientStep

(* What one CA says of the certificates that are served. *)
LEMMA ServedFollows == OneCa => ServedByTheCa
  BY DEF OneCa, Settled, UsesIt, Starting, ServedByTheCa

---------------------------------------------------------------------------
(* The addresses of the adapter, and the loopback device.                  *)

CallAts == {"none", "search", "coexist", "add", "wait", "returned", "raised"}
CallAsks == {"", "number", "list", "both", "no masks"}
Calls ==
    [at : CallAts, ask : CallAsks, number : Nat,
     skip : SUBSET Addresses, used : SUBSET (Addresses \cup Infrastructure),
     counter : 1 .. LastAddress + 1, assign : Seq(Addresses), added : Nat,
     waited : 0 .. WaitSeconds]

AdrTypes ==
    /\ others \subseteq Addresses /\ statics \subseteq Addresses /\ newcomers \subseteq others
    /\ leases \in LeaseFiles /\ vmware \in BOOLEAN
    /\ adding \in Calls

(* How far a call is. *)
CallGoesOn ==
    /\ adding.at \in {"search", "coexist"} => adding.added = 0
    /\ adding.added <= Len(adding.assign)
    /\ adding.at \in {"search", "coexist", "add"} => adding.waited = 0
    /\ adding.at = "wait" => adding.waited < WaitSeconds
    /\ adding.at = "returned" => statics = ToSet(adding.assign)

(* What the search has found so far lies behind it, was free when it was   *)
(* looked at, and is as much as was asked for when the search is over.     *)
SearchFinds ==
    adding.ask = "number" =>
        /\ {OwnAddress, Gateway} \subseteq adding.skip
        /\ ToSet(adding.assign) \cap adding.skip = {}
        /\ \A a \in ToSet(adding.assign) : a < adding.counter
        /\ IsFiniteSet(ToSet(adding.assign))
        /\ Cardinality(ToSet(adding.assign)) = Len(adding.assign)
        /\ ~vmware => ToSet(adding.assign) \cap others \subseteq newcomers
        /\ vmware => active \subseteq adding.used /\ ToSet(adding.assign) \cap adding.used = {}
        /\ adding.at = "search" => Len(adding.assign) < adding.number
        /\ adding.at \in {"coexist", "add", "wait", "returned"} =>
              Len(adding.assign) = adding.number

Kinds == {"node", "adapter"}
AllAre(kind) == \A i \in 1 .. Len(devices) : devices[i] = kind

(* The nodes have no driver, or all have it; without it they are those of  *)
(* installations that failed, and the one being made.                      *)
Devices ==
    /\ devices \in Seq(Kinds) /\ failures \in Nat
    /\ loopback \in {"out", "create", "driver", "has it"}
    /\ AllAre("node") \/ AllAre("adapter")
    /\ loopback \in {"create", "driver"} => AllAre("node")
    /\ loopback = "has it" => AllAre("adapter")
    /\ loopback # "driver" /\ AllAre("node") => Len(devices) <= failures
    /\ Len(devices) <= failures + 1 /\ Len(devices) <= MaxDevices

AdrInv == AdrTypes /\ CallGoesOn /\ SearchFinds

(* The members of a list that grew at its end. *)
LEMMA MembersGrow ==
    ASSUME NEW S, NEW l \in Seq(S), NEW x \in S
    PROVE  ToSet(Append(l, x)) = ToSet(l) \cup {x} /\ ToSet(l) \subseteq S
<1>1. /\ DOMAIN l = 1 .. Len(l) /\ DOMAIN Append(l, x) = 1 .. Len(l) + 1 /\ Len(l) \in Nat
      /\ \A j \in 1 .. Len(l) : Append(l, x)[j] = l[j] /\ l[j] \in S
      /\ Append(l, x)[Len(l) + 1] = x
  OBVIOUS
<1>2. \A i : i \in 1 .. Len(l) + 1 <=> i \in 1 .. Len(l) \/ i = Len(l) + 1
  BY <1>1
<1>3. ASSUME NEW y PROVE y \in ToSet(Append(l, x)) <=> y \in ToSet(l) \cup {x}
  BY <1>1, <1>2 DEF ToSet
<1>4. ToSet(l) \subseteq S
  BY <1>1 DEF ToSet
<1> QED
  BY <1>3, <1>4

(* A list of one thing. *)
LEMMA AlikeList ==
    ASSUME NEW S, NEW x \in S, NEW n \in Nat
    PROVE  /\ [i \in 1 .. n |-> x] \in Seq(S) /\ Len([i \in 1 .. n |-> x]) = n
           /\ \A i \in 1 .. n : [j \in 1 .. n |-> x][i] = x
OBVIOUS

(* A list with one entry less. *)
LEMMA Removed ==
    ASSUME NEW S, NEW l \in Seq(S), NEW i \in 1 .. Len(l)
    PROVE  /\ RemoveAt(l, i) \in Seq(S) /\ Len(RemoveAt(l, i)) = Len(l) - 1
           /\ \A k \in 1 .. Len(l) - 1 : \E j \in 1 .. Len(l) : RemoveAt(l, i)[k] = l[j]
<1> DEFINE A == SubSeq(l, 1, i - 1)
           B == SubSeq(l, i + 1, Len(l))
<1>0. Len(l) \in Nat /\ i \in Nat
  OBVIOUS
<1>1. /\ A \in Seq(S) /\ Len(A) = i - 1
      /\ \A k \in 1 .. i - 1 : A[k] = l[k]
  BY <1>0
<1>2. /\ B \in Seq(S) /\ Len(B) = Len(l) - i
      /\ \A k \in 1 .. Len(l) - i : B[k] = l[i + k]
  BY <1>0
<1>3. RemoveAt(l, i) = A \o B
  BY DEF RemoveAt
<1> HIDE DEF A, B
<1>4. /\ A \o B \in Seq(S) /\ Len(A \o B) = Len(l) - 1
      /\ \A k \in 1 .. Len(l) - 1 : (A \o B)[k] = IF k <= i - 1 THEN A[k] ELSE B[k - (i - 1)]
  <2>1. /\ A \o B \in Seq(S) /\ Len(A \o B) = Len(A) + Len(B)
        /\ \A k \in 1 .. Len(A) + Len(B) :
              (A \o B)[k] = IF k <= Len(A) THEN A[k] ELSE B[k - Len(A)]
    BY <1>1, <1>2, ConcatProperties
  <2>2. Len(A) + Len(B) = Len(l) - 1
    BY <1>0, <1>1, <1>2
  <2> QED
    BY <1>1, <2>1, <2>2
<1>5. ASSUME NEW k \in 1 .. Len(l) - 1 PROVE \E j \in 1 .. Len(l) : (A \o B)[k] = l[j]
  <2>1. CASE k <= i - 1
    <3>1. (A \o B)[k] = l[k] /\ k \in 1 .. Len(l)
      BY <1>0, <1>1, <1>4, <2>1
    <3> QED
      BY <3>1
  <2>2. CASE ~(k <= i - 1)
    <3>1. k - (i - 1) \in 1 .. Len(l) - i /\ k + 1 \in 1 .. Len(l) /\ i + (k - (i - 1)) = k + 1
      BY <1>0, <2>2
    <3>2. (A \o B)[k] = l[k + 1]
      BY <1>2, <1>4, <2>2, <3>1
    <3> QED
      BY <3>1, <3>2
  <2> QED
    BY <2>1, <2>2
<1> QED
  BY <1>3, <1>4, <1>5

(* A list of nothing has no members. *)
LEMMA NoMembers == ToSet(<<>>) = {} /\ IsFiniteSet({}) /\ Cardinality({}) = 0
  BY FS_EmptySet DEF ToSet

(* What is known of a call. *)
LEMMA CallFields ==
    ASSUME NEW x \in Calls
    PROVE  /\ x.at \in CallAts /\ x.ask \in CallAsks /\ x.number \in Nat
           /\ x.skip \subseteq Addresses /\ x.used \subseteq Addresses \cup Infrastructure
           /\ x.counter \in 1 .. LastAddress + 1 /\ x.counter \in Nat
           /\ x.assign \in Seq(Addresses) /\ Len(x.assign) \in Nat
           /\ ToSet(x.assign) \subseteq Addresses
           /\ x.added \in Nat /\ x.waited \in 0 .. WaitSeconds /\ x.waited \in Nat
           /\ LastAddress \in Nat /\ WaitSeconds \in Nat
<1>0. LastAddress \in Nat /\ WaitSeconds \in Nat
  BY AddressAssumption, Zenon
<1>1. /\ x.at \in CallAts /\ x.ask \in CallAsks /\ x.number \in Nat
      /\ x.skip \subseteq Addresses /\ x.used \subseteq Addresses \cup Infrastructure
      /\ x.counter \in 1 .. LastAddress + 1
      /\ x.assign \in Seq(Addresses)
      /\ x.added \in Nat /\ x.waited \in 0 .. WaitSeconds
  BY DEF Calls
<1>2. Len(x.assign) \in Nat /\ \A i \in DOMAIN x.assign : x.assign[i] \in Addresses
  BY <1>1
<1> QED
  BY <1>0, <1>1, <1>2 DEF ToSet

(* A call begins. *)
LEMMA CallBegins ==
    ASSUME NEW at \in CallAts, NEW ask \in CallAsks, NEW n \in Nat, NEW list \in Seq(Addresses),
           NEW skip \in SUBSET Addresses, NEW used \in SUBSET (Addresses \cup Infrastructure)
    PROVE  [at |-> at, ask |-> ask, number |-> n, skip |-> skip, used |-> used,
            counter |-> 1, assign |-> list, added |-> 0, waited |-> 0] \in Calls
<1>1. LastAddress \in Nat /\ WaitSeconds \in Nat
  BY AddressAssumption, Zenon
<1>2. 1 \in 1 .. LastAddress + 1 /\ 0 \in 0 .. WaitSeconds /\ 0 \in Nat
  BY <1>1
<1> QED
  BY <1>2 DEF Calls

(* A call goes on. *)
LEMMA CallMoves ==
    ASSUME NEW x \in Calls, NEW at \in CallAts, NEW y, y = [x EXCEPT !.at = at]
    PROVE  /\ y \in Calls /\ y.at = at /\ y.ask = x.ask /\ y.number = x.number
           /\ y.skip = x.skip /\ y.used = x.used /\ y.counter = x.counter
           /\ y.assign = x.assign /\ y.added = x.added /\ y.waited = x.waited
  BY DEF Calls

Waited(x, y, w, at) ==
    /\ y \in Calls /\ y.at = at /\ y.ask = x.ask
    /\ y.number = x.number /\ y.skip = x.skip /\ y.used = x.used
    /\ y.counter = x.counter /\ y.assign = x.assign /\ y.added = x.added /\ y.waited = w

(* A second of waiting is over. *)
LEMMA CallWaits ==
    \A x \in Calls, w \in 0 .. WaitSeconds, at \in CallAts :
        Waited(x, [x EXCEPT !.waited = w, !.at = at], w, at)
<1> SUFFICES ASSUME NEW x \in Calls, NEW w \in 0 .. WaitSeconds, NEW at \in CallAts,
                    NEW y, y = [x EXCEPT !.waited = w, !.at = at]
             PROVE  Waited(x, y, w, at)
  OBVIOUS
<1> QED
  BY DEF Calls, Waited

(* One address more was given to netsh. *)
LEMMA CallAdds ==
    ASSUME NEW x \in Calls, NEW m \in Nat, NEW y, y = [x EXCEPT !.added = m]
    PROVE  /\ y \in Calls /\ y.at = x.at /\ y.ask = x.ask /\ y.number = x.number
           /\ y.skip = x.skip /\ y.used = x.used /\ y.counter = x.counter
           /\ y.assign = x.assign /\ y.added = m /\ y.waited = x.waited
  BY DEF Calls

(* An address is passed by. *)
LEMMA CallPasses ==
    ASSUME NEW x \in Calls, NEW k \in 1 .. LastAddress + 1,
           NEW y, y = [x EXCEPT !.counter = k]
    PROVE  /\ y \in Calls /\ y.at = x.at /\ y.ask = x.ask /\ y.number = x.number
           /\ y.skip = x.skip /\ y.used = x.used /\ y.counter = k
           /\ y.assign = x.assign /\ y.added = x.added /\ y.waited = x.waited
  BY DEF Calls

Found(x, y, k, l, at) ==
    /\ y \in Calls /\ y.at = at /\ y.ask = x.ask
    /\ y.number = x.number /\ y.skip = x.skip /\ y.used = x.used
    /\ y.counter = k /\ y.assign = l /\ y.added = x.added /\ y.waited = x.waited

(* An address is found. *)
LEMMA CallFinds ==
    \A x \in Calls, k \in 1 .. LastAddress + 1, l \in Seq(Addresses), at \in CallAts :
        Found(x, [x EXCEPT !.counter = k, !.assign = l, !.at = at], k, l, at)
<1> SUFFICES ASSUME NEW x \in Calls, NEW k \in 1 .. LastAddress + 1, NEW l \in Seq(Addresses),
                    NEW at \in CallAts, NEW y, y = [x EXCEPT !.counter = k, !.assign = l, !.at = at]
             PROVE  Found(x, y, k, l, at)
  OBVIOUS
<1> QED
  BY DEF Calls, Found

(* The bounds, as numbers. *)
LEMMA AddressBounds ==
    /\ LastAddress \in Nat /\ LastAddress >= 1 /\ OwnAddress \in Addresses /\ Gateway \in Addresses
    /\ NumbersOfIps \subseteq Nat /\ WaitSeconds \in Nat /\ WaitSeconds > 0 /\ MaxDevices \in Nat
<1>1. /\ LastAddress \in Nat /\ OwnAddress \in Addresses /\ Gateway \in Addresses
      /\ NumbersOfIps \subseteq Nat /\ WaitSeconds \in Nat /\ WaitSeconds # 0 /\ MaxDevices \in Nat
  BY AddressAssumption, Zenon
<1>2. LastAddress >= 1
  BY <1>1 DEF Addresses
<1> QED
  BY <1>1, <1>2

(* Before the first call. *)
LEMMA NoCallFields ==
    /\ NoCall \in Calls /\ NoCall.at = "none" /\ NoCall.ask = "" /\ NoCall.added = 0
    /\ NoCall.assign = <<>> /\ NoCall.waited = 0 /\ Len(<<>>) = 0
<1>1. 1 \in 1 .. LastAddress + 1 /\ 0 \in 0 .. WaitSeconds /\ 0 \in Nat
  BY AddressBounds
<1>2. <<>> \in Seq(Addresses) /\ {} \in SUBSET Addresses /\ Len(<<>>) = 0
      /\ {} \in SUBSET (Addresses \cup Infrastructure)
  OBVIOUS
<1>3. "none" \in CallAts /\ "" \in CallAsks
  BY DEF CallAts, CallAsks
<1> QED
  BY <1>1, <1>2, <1>3 DEF NoCall, Calls

(* There is no call and no device at first. *)
LEMMA AdrAtFirst == AdrInit => AdrInv /\ Devices
<1> SUFFICES ASSUME AdrInit PROVE AdrInv /\ Devices
  OBVIOUS
<1>1. AdrTypes
  <2>1. statics \subseteq {OwnAddress} /\ OwnAddress \in Addresses
    BY AddressBounds DEF AdrInit
  <2> QED
    BY <2>1, NoCallFields DEF AdrTypes, AdrInit
<1>2. CallGoesOn /\ SearchFinds
  <2>1. /\ adding.at = "none" /\ adding.ask = "" /\ adding.added = 0 /\ adding.waited = 0
        /\ Len(adding.assign) = 0
    BY NoCallFields, Zenon DEF AdrInit
  <2>2. CallGoesOn
    <3>1. adding.at \notin {"search", "coexist", "add"} /\ adding.at # "wait" /\ adding.at # "returned"
      BY <2>1
    <3>2. adding.added <= Len(adding.assign)
      <4>1. adding.added = 0 /\ Len(adding.assign) = 0
        BY <2>1, Zenon
      <4> QED
        BY <4>1
    <3> QED
      BY <3>1, <3>2 DEF CallGoesOn
  <2>3. SearchFinds
    BY <2>1 DEF SearchFinds
  <2> QED
    BY <2>2, <2>3
<1>3. Devices
  <2>1. /\ devices = <<>> /\ Len(devices) = 0 /\ failures = 0 /\ MaxDevices \in Nat
        /\ loopback = "out" /\ devices \in Seq(Kinds)
    BY AddressBounds DEF AdrInit
  <2> QED
    BY <2>1 DEF Devices, AllAre
<1> QED
  BY <1>1, <1>2, <1>3 DEF AdrInv

(* An address that the search tries is behind it afterwards; if it is free *)
(* it is one more.                                                         *)
LEMMA SearchStep ==
    ASSUME AdrInv, generate_unused_ipv4
    PROVE  AdrInv'
<1> DEFINE a == adding.counter
           list == Append(adding.assign, a)
<1>1. /\ UNCHANGED <<vmware, leases, others, newcomers, statics>>
      /\ adding.at = "search" /\ adding \in Calls /\ LastAddress \in Nat /\ a \in Nat
      /\ a >= 1 /\ adding.assign \in Seq(Addresses) /\ Len(adding.assign) \in Nat
      /\ ToSet(adding.assign) \subseteq Addresses /\ adding.number \in Nat
  BY CallFields DEF AdrInv, AdrTypes, generate_unused_ipv4
<1>a. {"coexist", "search", "raised"} \subseteq CallAts
  BY DEF CallAts
<1>u. active' = active
  BY <1>1 DEF active
<1>2. CASE a > LastAddress
  <2>1. adding' = [adding EXCEPT !.at = "raised"]
    BY <1>2 DEF generate_unused_ipv4
  <2>2. /\ adding' \in Calls /\ adding'.at = "raised" /\ adding'.ask = adding.ask
        /\ adding'.skip = adding.skip /\ adding'.used = adding.used
        /\ adding'.counter = a /\ adding'.assign = adding.assign
        /\ adding'.added = adding.added
    BY <1>1, <1>a, <2>1, CallMoves
  <2> QED
    BY <1>1, <1>u, <2>2 DEF AdrInv, AdrTypes, CallGoesOn, SearchFinds
<1>3. CASE a <= LastAddress /\ (in_use(a) \/ a \in adding.skip)
  <2>1. adding' = [adding EXCEPT !.counter = a + 1]
    BY <1>1, <1>3 DEF generate_unused_ipv4
  <2>2. a + 1 \in 1 .. LastAddress + 1
    BY <1>1, <1>3
  <2>3. /\ adding' \in Calls /\ adding'.at = "search" /\ adding'.ask = adding.ask
        /\ adding'.number = adding.number
        /\ adding'.skip = adding.skip /\ adding'.used = adding.used
        /\ adding'.counter = a + 1 /\ adding'.assign = adding.assign
        /\ adding'.added = adding.added /\ adding'.waited = adding.waited
    <3>1. "search" \in CallAts
      BY <1>a
    <3> QED
      BY <1>1, <2>1, <2>2, <3>1, CallPasses
  <2>4. AdrTypes' /\ CallGoesOn'
    BY <1>1, <2>3 DEF AdrInv, AdrTypes, CallGoesOn
  <2>5. \A b \in ToSet(adding.assign) : b < a => b < a + 1
    BY <1>1 DEF Addresses
  <2>6. SearchFinds'
    BY <1>1, <1>u, <2>3, <2>5 DEF AdrInv, SearchFinds
  <2> QED
    BY <2>4, <2>6 DEF AdrInv
<1>4. CASE a <= LastAddress /\ ~in_use(a) /\ a \notin adding.skip
  <2> DEFINE at == IF Len(adding.assign) + 1 = adding.number THEN "coexist" ELSE "search"
  <2>0. a \in Addresses /\ a + 1 \in 1 .. LastAddress + 1 /\ at \in CallAts
    BY <1>1, <1>4, <1>a DEF Addresses
  <2>1. adding' = [adding EXCEPT !.counter = a + 1, !.assign = list, !.at = at]
    BY <1>1, <1>4 DEF generate_unused_ipv4
  <2>2. /\ list \in Seq(Addresses) /\ Len(list) = Len(adding.assign) + 1
        /\ ToSet(list) = ToSet(adding.assign) \cup {a}
    BY <1>1, <2>0, MembersGrow, Grown
  <2> HIDE DEF list
  <2>3. /\ adding' \in Calls /\ adding'.at = at /\ adding'.ask = adding.ask
        /\ adding'.number = adding.number
        /\ adding'.skip = adding.skip /\ adding'.used = adding.used
        /\ adding'.counter = a + 1 /\ adding'.assign = list
        /\ adding'.added = adding.added /\ adding'.waited = adding.waited
    <3> HIDE DEF at
    <3> QED
      <4> DEFINE k == a + 1
      <4>1. k \in 1 .. LastAddress + 1
        BY <2>0
      <4>2. adding' = [adding EXCEPT !.counter = k, !.assign = list, !.at = at]
        BY <2>1, Zenon
      <4> HIDE DEF k
      <4>3. Found(adding, adding', k, list, at)
        BY <1>1, <2>0, <2>2, <4>1, <4>2, CallFinds
      <4> QED
        BY <4>3 DEF Found, k
  <2>5. AdrTypes' /\ CallGoesOn'
    <3>1. adding'.at \in {"search", "coexist"}
      BY <2>3
    <3>2. Len(list) \in Nat /\ adding'.added = 0 /\ adding'.waited = 0
      BY <1>1, <2>2, <2>3 DEF AdrInv, CallGoesOn
    <3> QED
      BY <1>1, <2>3, <3>1, <3>2 DEF AdrInv, AdrTypes, CallGoesOn
  <2>6. SearchFinds'
    <3> SUFFICES ASSUME adding.ask = "number" PROVE SearchFinds'
      BY <2>3 DEF SearchFinds
    <3> DEFINE set == ToSet(adding.assign)
    <3>1. /\ {OwnAddress, Gateway} \subseteq adding.skip /\ set \cap adding.skip = {}
          /\ \A b \in set : b < adding.counter
          /\ IsFiniteSet(set) /\ Cardinality(set) = Len(adding.assign)
          /\ ~vmware => set \cap others \subseteq newcomers
          /\ vmware => active \subseteq adding.used /\ set \cap adding.used = {}
          /\ Len(adding.assign) < adding.number
      BY <1>1 DEF AdrInv, SearchFinds
    <3>2. a \notin set
      BY <1>1, <3>1
    <3>3. IsFiniteSet(set \cup {a}) /\ Cardinality(set \cup {a}) = Len(adding.assign) + 1
      BY <3>1, <3>2, FS_AddElement
    <3>4. \A b \in set \cup {a} : b < a + 1
      BY <1>1, <3>1 DEF Addresses
    <3>5. ToSet(adding'.assign) = set \cup {a} /\ Len(adding'.assign) = Len(adding.assign) + 1
      BY <2>2, <2>3
    <3>7. IF vmware THEN a \notin adding.used ELSE a \notin others
      BY <1>4 DEF in_use
    <3> HIDE DEF set, a
    <3>8. (~vmware => (set \cup {a}) \cap others \subseteq newcomers)
          /\ (vmware => active \subseteq adding.used /\ (set \cup {a}) \cap adding.used = {})
          /\ (set \cup {a}) \cap adding.skip = {}
      BY <1>4, <3>1, <3>7
    <3>9. /\ adding'.at = "search" => Len(adding'.assign) < adding'.number
          /\ adding'.at \in {"coexist", "add", "wait", "returned"} =>
                Len(adding'.assign) = adding'.number
      BY <1>1, <2>3, <3>1, <3>5
    <3> QED
      BY <1>1, <1>u, <2>3, <3>1, <3>3, <3>4, <3>5, <3>8, <3>9 DEF SearchFinds
  <2> QED
    BY <2>5, <2>6 DEF AdrInv
<1> QED
  BY <1>1, <1>2, <1>3, <1>4

(* The other steps of a call: what it found stays.                         *)
LEMMA AdrStep ==
    ASSUME AdrInv, [AddressNext \/ LoopbackDevice]_adr_vars
    PROVE  AdrInv'
<1>0. adding \in Calls /\ leases \in LeaseFiles /\ vmware \in BOOLEAN
  BY DEF AdrInv, AdrTypes
<1>1. ASSUME NEW a \in Addresses, HostJoins(a) PROVE AdrInv'
  <2>1. /\ UNCHANGED <<vmware, leases, statics, adding>>
        /\ others' = others \cup {a} /\ newcomers' = newcomers \cup {a}
    BY <1>1 DEF HostJoins
  <2>2. active' = active
    BY <2>1 DEF active
  <2>3. AdrTypes'
    BY <2>1 DEF AdrInv, AdrTypes
  <2>4. CallGoesOn' /\ SearchFinds'
    BY <2>1, <2>2 DEF AdrInv, CallGoesOn, SearchFinds
  <2> QED
    BY <2>3, <2>4 DEF AdrInv
<1>2. ASSUME NEW ask, ask \in {"number", "list", "both", "no masks"},
             NEW n, n \in NumbersOfIps, add_virtual_ips(ask, n, <<LastAddress>>)
      PROVE  AdrInv'
  <2> DEFINE skip == current_ipv4s \cup {Gateway}
             used == IF vmware THEN active \cup Infrastructure ELSE {}
             list == IF ask = "list" THEN <<LastAddress>> ELSE <<>>
  <2>1. /\ UNCHANGED <<vmware, leases, others, statics>> /\ newcomers' = {}
        /\ adding'.ask = ask /\ adding'.number = n /\ adding'.skip = skip /\ adding'.used = used
        /\ adding'.counter = 1 /\ adding'.assign = list /\ adding'.added = 0
        /\ adding'.waited = 0
        /\ adding'.at = IF ask \in {"both", "no masks"} THEN "raised"
                        ELSE IF ask = "number" /\ n > 0 THEN "search" ELSE "coexist"
        /\ adding' = [at |-> adding'.at, ask |-> ask, number |-> n, skip |-> skip, used |-> used,
                      counter |-> 1, assign |-> list, added |-> 0, waited |-> 0]
    BY <1>2 DEF add_virtual_ips, NoCall
  <2>2. /\ skip \in SUBSET Addresses /\ used \in SUBSET (Addresses \cup Infrastructure)
        /\ LastAddress \in Addresses /\ 1 \in 1 .. LastAddress + 1 /\ n \in Nat
    <3>1. skip \in SUBSET Addresses /\ used \in SUBSET (Addresses \cup Infrastructure)
      BY AddressBounds DEF AdrInv, AdrTypes, current_ipv4s, active
    <3>2. LastAddress \in Nat /\ LastAddress # 0 /\ n \in Nat
      <4>1. n \in NumbersOfIps
        BY <1>2, Zenon
      <4> QED
        BY <4>1, AddressBounds
    <3> QED
      BY <3>1, <3>2 DEF Addresses
  <2>3. list \in Seq(Addresses) /\ Len(list) \in Nat
    <3>1. <<LastAddress>> \in Seq(Addresses)
      BY <2>2
    <3>3. <<>> \in Seq(Addresses)
      OBVIOUS
    <3>2. list \in Seq(Addresses)
      BY <3>1, <3>3
    <3> QED
      BY <3>2
  <2>4. {OwnAddress, Gateway} \subseteq skip /\ (vmware => active \subseteq used)
    BY DEF current_ipv4s
  <2>5. active' = active
    BY <2>1 DEF active
  <2>6. adding'.at \in {"search", "coexist", "raised"}
    BY <2>1
  <2>l. ask = "number" => list = <<>>
    OBVIOUS
  <2> HIDE DEF skip, used, list
  <2>7. AdrTypes'
    <3>a. adding'.at \in CallAts
      BY <2>6 DEF CallAts
    <3>b. ask \in CallAsks
      BY <1>2, Zenon DEF CallAsks
    <3>1. adding' \in Calls
      <4> DEFINE at == adding'.at
      <4>1. adding' = [at |-> at, ask |-> ask, number |-> n, skip |-> skip, used |-> used,
                       counter |-> 1, assign |-> list, added |-> 0, waited |-> 0]
        BY <2>1, Zenon
      <4>2. at \in CallAts
        BY <3>a
      <4> HIDE DEF at
      <4> QED
        BY <2>2, <2>3, <3>b, <4>1, <4>2, CallBegins
    <3> QED
      BY <2>1, <3>1 DEF AdrInv, AdrTypes
  <2>8. CallGoesOn'
    <3>1. adding'.added = 0 /\ adding'.waited = 0 /\ Len(adding'.assign) \in Nat
      BY <2>1, <2>3
    <3> QED
      BY <2>6, <3>1 DEF CallGoesOn
  <2>9. SearchFinds'
    <3> SUFFICES ASSUME ask = "number" PROVE SearchFinds'
      BY <2>1 DEF SearchFinds
    <3>1. ToSet(adding'.assign) = {} /\ Len(adding'.assign) = 0
      BY <2>1, <2>l, NoMembers
    <3>2. adding'.at = (IF n > 0 THEN "search" ELSE "coexist")
      BY <2>1
    <3> QED
      BY <2>1, <2>2, <2>4, <2>5, <3>1, <3>2, NoMembers DEF SearchFinds
  <2> QED
    BY <2>7, <2>8, <2>9 DEF AdrInv
<1>3. CASE coexistence
  <2>1. /\ UNCHANGED <<vmware, leases, others, newcomers, statics>> /\ adding.at = "coexist"
        /\ \/ adding' = [adding EXCEPT !.at = "add"] \/ adding' = [adding EXCEPT !.at = "none"]
    BY <1>3 DEF coexistence
  <2>2. active' = active
    BY <2>1 DEF active
  <2>3. /\ adding' \in Calls /\ adding'.at \in {"add", "none"} /\ adding'.ask = adding.ask
        /\ adding'.number = adding.number /\ adding'.skip = adding.skip
        /\ adding'.used = adding.used /\ adding'.counter = adding.counter
        /\ adding'.assign = adding.assign
        /\ adding'.added = adding.added /\ adding'.waited = adding.waited
    <3>1. "add" \in CallAts /\ "none" \in CallAts
      BY DEF CallAts
    <3> QED
      BY <1>0, <2>1, <3>1, CallMoves
  <2> QED
    BY <2>1, <2>2, <2>3 DEF AdrInv, AdrTypes, CallGoesOn, SearchFinds
<1>4. CASE add_virtual_ip
  <2>1. /\ UNCHANGED <<vmware, leases, others, newcomers>> /\ adding.at = "add"
        /\ \/ /\ adding.added = Len(adding.assign)
              /\ adding' = [adding EXCEPT !.at = "wait"] /\ UNCHANGED statics
           \/ /\ adding.added # Len(adding.assign)
              /\ adding' = [adding EXCEPT !.added = @ + 1]
              /\ statics' \in {statics, statics \cup {adding.assign[adding.added + 1]}}
    BY <1>4 DEF add_virtual_ip
  <2>2. active' = active
    BY <2>1 DEF active
  <2>3. /\ adding' \in Calls /\ adding'.ask = adding.ask
        /\ adding'.number = adding.number /\ adding'.skip = adding.skip
        /\ adding'.used = adding.used /\ adding'.counter = adding.counter
        /\ adding'.assign = adding.assign /\ adding'.waited = adding.waited
        /\ \/ adding'.at = "wait" /\ adding'.added = adding.added /\ UNCHANGED statics
           \/ /\ adding'.at = "add" /\ adding'.added = adding.added + 1
              /\ adding.added # Len(adding.assign)
    <3>1. "wait" \in CallAts /\ "add" \in CallAts
      BY DEF CallAts
    <3>2. adding.added \in Nat /\ adding.added + 1 \in Nat
      BY <1>0, CallFields
    <3> QED
      BY <1>0, <2>1, <3>1, <3>2, CallMoves, CallAdds
  <2>4. /\ Len(adding.assign) \in Nat /\ adding.added \in Nat
        /\ adding.added < Len(adding.assign) =>
              adding.assign[adding.added + 1] \in Addresses
    <3>1. adding.assign \in Seq(Addresses) /\ adding.added \in Nat
      BY <1>0, CallFields
    <3> QED
      BY <3>1
  <2>5. statics' \subseteq Addresses
    BY <2>1, <2>3, <2>4 DEF AdrInv, AdrTypes, CallGoesOn
  <2>6. CallGoesOn'
    BY <2>1, <2>3, <2>4, AddressAssumption DEF AdrInv, CallGoesOn
  <2> QED
    BY <2>1, <2>2, <2>3, <2>5, <2>6 DEF AdrInv, AdrTypes, SearchFinds
<1>5. CASE wait_until_applied
  <2>1. /\ UNCHANGED <<vmware, leases, others, newcomers, statics>> /\ adding.at = "wait"
        /\ \/ /\ statics = ToSet(adding.assign)
              /\ adding' = [adding EXCEPT !.at = "returned"]
           \/ adding' = [adding EXCEPT !.waited = @ + 1,
                           !.at = IF adding.waited + 1 = WaitSeconds THEN "raised" ELSE "wait"]
    BY <1>5 DEF wait_until_applied, applied
  <2>2. active' = active
    BY <2>1 DEF active
  <2>3. adding.waited \in Nat /\ WaitSeconds \in Nat /\ adding.waited < WaitSeconds
    BY <1>0, <2>1, CallFields DEF AdrInv, CallGoesOn
  <2>4. /\ adding' \in Calls /\ adding'.ask = adding.ask
        /\ adding'.number = adding.number /\ adding'.skip = adding.skip
        /\ adding'.used = adding.used /\ adding'.counter = adding.counter
        /\ adding'.assign = adding.assign /\ adding'.added = adding.added
        /\ \/ adding'.at = "returned" /\ statics = ToSet(adding.assign)
           \/ adding'.at = "raised"
           \/ adding'.at = "wait" /\ adding'.waited < WaitSeconds
    <3>1. {"returned", "raised", "wait"} \subseteq CallAts
      BY DEF CallAts
    <3>2. CASE adding' = [adding EXCEPT !.at = "returned"] /\ statics = ToSet(adding.assign)
      BY <1>0, <3>1, <3>2, CallMoves
    <3>3. CASE adding' = [adding EXCEPT !.waited = @ + 1,
                          !.at = IF adding.waited + 1 = WaitSeconds THEN "raised" ELSE "wait"]
      <4> DEFINE w == adding.waited + 1
                 at == IF w = WaitSeconds THEN "raised" ELSE "wait"
      <4>1. w \in 0 .. WaitSeconds /\ at \in CallAts /\ (at = "wait" => w < WaitSeconds)
            /\ at \in {"raised", "wait"}
        BY <2>3, <3>1
      <4>2. adding' = [adding EXCEPT !.waited = w, !.at = at]
        BY <3>3
      <4> HIDE DEF w, at
      <4> QED
        <5>1. Waited(adding, adding', w, at)
          BY <1>0, <4>1, <4>2, CallWaits
        <5> QED
          BY <4>1, <5>1 DEF Waited
    <3> QED
      BY <2>1, <3>2, <3>3
  <2> QED
    BY <2>1, <2>2, <2>4 DEF AdrInv, AdrTypes, CallGoesOn, SearchFinds
<1>6. ASSUME NEW a \in Addresses, remove_virtual_ip(a) PROVE AdrInv'
  <2>1. /\ UNCHANGED <<vmware, leases, others, newcomers>> /\ adding' = NoCall
        /\ statics' = statics \ {a}
    BY <1>6 DEF remove_virtual_ip
  <2>2. adding' \in Calls
    BY <2>1, NoCallFields
  <2>3. AdrTypes'
    BY <2>1, <2>2 DEF AdrInv, AdrTypes
  <2>4. CallGoesOn' /\ SearchFinds'
    <3>1. /\ adding'.at = "none" /\ adding'.ask = "" /\ adding'.added = 0
          /\ adding'.waited = 0 /\ Len(adding'.assign) = 0
      BY <2>1, NoCallFields, Zenon
    <3>2. CallGoesOn'
      <4>1. adding'.at \notin {"search", "coexist", "add"} /\ adding'.at # "wait"
            /\ adding'.at # "returned"
        BY <3>1
      <4>2. adding'.added <= Len(adding'.assign)
        <5>1. adding'.added = 0 /\ Len(adding'.assign) = 0
          BY <3>1, Zenon
        <5> QED
          BY <5>1
      <4> QED
        BY <4>1, <4>2 DEF CallGoesOn
    <3>3. SearchFinds'
      BY <3>1 DEF SearchFinds
    <3> QED
      BY <3>2, <3>3
  <2> QED
    BY <2>3, <2>4 DEF AdrInv
<1>7. CASE set_static_ips \/ set_dynamic_ip
  <2>1. /\ UNCHANGED <<vmware, leases, others, newcomers, adding>> /\ adding.at = "none"
        /\ statics' \subseteq Addresses
    BY <1>7, AddressBounds DEF set_static_ips, set_dynamic_ip
  <2>2. active' = active
    BY <2>1 DEF active
  <2> QED
    BY <2>1, <2>2 DEF AdrInv, AdrTypes, CallGoesOn, SearchFinds
<1>8. CASE UNCHANGED adr_vars \/ LoopbackDevice
  <2>1. UNCHANGED <<vmware, leases, others, newcomers, statics, adding>>
    BY <1>8 DEF adr_vars, net_vars, LoopbackDevice
  <2>2. active' = active
    BY <2>1 DEF active
  <2> QED
    BY <2>1, <2>2 DEF AdrInv, AdrTypes, CallGoesOn, SearchFinds
<1> QED
  BY <1>1, <1>2, <1>3, <1>4, <1>5, <1>6, <1>7, <1>8, SearchStep DEF AddressNext

(* A device more is left only by an installation that failed.              *)
LEMMA DevicesStep ==
    ASSUME Devices, [AddressNext \/ LoopbackDevice]_adr_vars
    PROVE  Devices'
<1>0. devices \in Seq(Kinds) /\ Len(devices) \in Nat /\ failures \in Nat
      /\ DOMAIN devices = 1 .. Len(devices) /\ MaxDevices \in Nat
  <2>1. devices \in Seq(Kinds) /\ failures \in Nat
    BY DEF Devices
  <2>2. Len(devices) \in Nat /\ DOMAIN devices = 1 .. Len(devices)
    BY <2>1
  <2> QED
    BY <2>1, <2>2, AddressBounds
<1>1. CASE look_for_loopback
  <2>1. found <=> \E i \in 1 .. Len(devices) : devices[i] = "adapter"
    BY <1>0 DEF found
  <2> QED
    BY <1>0, <1>1, <2>1 DEF look_for_loopback, Devices, AllAre
<1>2. CASE create_root_enumerated_devnode
  <2>1. /\ loopback = "create" /\ devices' = Append(devices, "node") /\ loopback' = "driver"
        /\ failures' = failures /\ Len(devices) < MaxDevices /\ AllAre("node")
        /\ Len(devices) <= failures
    BY <1>2 DEF create_root_enumerated_devnode, Devices
  <2>2. /\ devices' \in Seq(Kinds) /\ Len(devices') = Len(devices) + 1
        /\ devices'[Len(devices) + 1] = "node"
        /\ \A j \in 1 .. Len(devices) : devices'[j] = devices[j]
    <3>1. "node" \in Kinds
      BY DEF Kinds
    <3> QED
      BY <1>0, <2>1, <3>1, Grown
  <2>3. \A i \in 1 .. Len(devices') : devices'[i] = "node"
    BY <1>0, <2>1, <2>2 DEF AllAre
  <2> QED
    BY <1>0, <2>1, <2>2, <2>3 DEF Devices, AllAre
<1>3. CASE update_driver_for_hwids
  <2>1. /\ devices' = [i \in 1 .. Len(devices) |-> "adapter"] /\ loopback' = "has it"
        /\ failures' = failures
    BY <1>0, <1>3 DEF update_driver_for_hwids
  <2>2. /\ devices' \in Seq(Kinds) /\ Len(devices') = Len(devices)
        /\ \A i \in 1 .. Len(devices) : devices'[i] = "adapter"
    <3>1. "adapter" \in Kinds
      BY DEF Kinds
    <3> QED
      BY <1>0, <2>1, <3>1, AlikeList
  <2>3. AllAre("adapter")' /\ (AllAre("node")' => Len(devices) = 0)
    <3>1. Len(devices) # 0 => 1 \in 1 .. Len(devices)
      BY <1>0
    <3> QED
      BY <2>2, <3>1 DEF AllAre
  <2>4. Len(devices) <= failures + 1 /\ Len(devices) <= MaxDevices
    BY DEF Devices
  <2>5. Len(devices') = 0 => Len(devices') <= failures'
    <3>1. failures' = failures /\ failures \in Nat
      BY <1>0, <2>1, Zenon
    <3> QED
      BY <3>1
  <2>6. loopback' \notin {"create", "driver"} /\ loopback' \in {"out", "create", "driver", "has it"}
    BY <2>1
  <2> QED
    BY <1>0, <2>1, <2>2, <2>3, <2>4, <2>5, <2>6, Zenon DEF Devices
<1>4. CASE driver_fails
  BY <1>0, <1>4 DEF driver_fails, Devices, AllAre
<1>5. CASE remove_microsoft_loopback_device
  <2>1. CASE loopback = "has it" /\ loopback' = "out" /\ UNCHANGED <<devices, failures>>
    <3>1. AllAre("node") => Len(devices) = 0
      <4>1. Len(devices) # 0 => 1 \in 1 .. Len(devices)
        BY <1>0
      <4> QED
        BY <2>1, <4>1 DEF AllAre, Devices
    <3> QED
      BY <1>0, <2>1, <3>1 DEF Devices, AllAre
  <2>2. ASSUME NEW i \in DOMAIN devices, devices' = RemoveAt(devices, i), loopback = "has it",
               loopback' = "out", failures' = failures
        PROVE  Devices'
    <3>1. i \in 1 .. Len(devices)
      BY <1>0
    <3>5. /\ devices' \in Seq(Kinds) /\ Len(devices') = Len(devices) - 1
          /\ \A k \in 1 .. Len(devices) - 1 : \E j \in 1 .. Len(devices) : devices'[k] = devices[j]
      BY <1>0, <2>2, <3>1, Removed
    <3>6. \A k \in 1 .. Len(devices) : devices[k] = "adapter"
      BY <2>2 DEF Devices, AllAre
    <3>7. AllAre("adapter")'
      BY <3>5, <3>6, Zenon DEF AllAre
    <3>8. AllAre("node")' => Len(devices') = 0
      <4>1. Len(devices') # 0 => 1 \in 1 .. Len(devices')
        BY <3>5, <1>0
      <4> QED
        BY <3>7, <4>1 DEF AllAre
    <3>9. Len(devices') <= failures' + 1 /\ Len(devices') <= MaxDevices
          /\ (Len(devices') = 0 => Len(devices') <= failures')
      <4>1. Len(devices) <= failures + 1 /\ Len(devices) <= MaxDevices
        BY DEF Devices
      <4>2. failures' = failures /\ Len(devices') = Len(devices) - 1
        BY <2>2, <3>5, Zenon
      <4>3. Len(devices) \in Nat /\ failures \in Nat /\ MaxDevices \in Nat
        BY <1>0, Zenon
      <4> QED
        BY <4>1, <4>2, <4>3
    <3>10. loopback' \notin {"create", "driver", "has it"}
           /\ loopback' \in {"out", "create", "driver", "has it"}
      BY <2>2
    <3> QED
      BY <1>0, <2>2, <3>5, <3>7, <3>8, <3>9, <3>10, Zenon DEF Devices
  <2> QED
    BY <1>5, <2>1, <2>2 DEF remove_microsoft_loopback_device
<1>6. CASE UNCHANGED dev_vars
  BY <1>6 DEF dev_vars, Devices, AllAre
<1>7. AddressNext => UNCHANGED dev_vars
  BY DEF AddressNext, HostJoins, remove_virtual_ip, add_virtual_ips, generate_unused_ipv4,
     coexistence, add_virtual_ip, wait_until_applied, set_static_ips, set_dynamic_ip
<1> QED
  BY <1>1, <1>2, <1>3, <1>4, <1>5, <1>6, <1>7 DEF LoopbackDevice, adr_vars

(* What follows of the addresses and the devices. *)
LEMMA AddressesFollow == AdrInv /\ Devices => AdrTypeOK /\ AddressesAreOurs
<1> SUFFICES ASSUME AdrInv, Devices PROVE AdrTypeOK /\ AddressesAreOurs
  OBVIOUS
<1>1. AdrTypeOK
  <2>1. /\ adding.at \in CallAts /\ adding.counter \in 1 .. LastAddress + 1
        /\ adding.waited \in 0 .. WaitSeconds
    BY CallFields DEF AdrInv, AdrTypes
  <2> QED
    BY <2>1 DEF AdrInv, AdrTypes, Devices, AdrTypeOK, CallAts
<1>2. OneDevicePerFailure
  <2>1. Len(devices) <= failures + 1 /\ failures \in Nat /\ devices \in Seq(Kinds)
    BY DEF Devices
  <2>2. Len(devices) \in Nat
    BY <2>1
  <2> QED
    BY <2>1, <2>2 DEF OneDevicePerFailure
<1>3. AddressesAreFree
  <2>1. CASE adding.ask = "number"
    <3>1. chosen = ToSet(adding.assign)
      BY <2>1 DEF chosen
    <3>2. ToSet(adding.assign) \subseteq Addresses
      BY CallFields DEF AdrInv, AdrTypes
    <3>3. ASSUME vmware, NEW i \in DOMAIN leases, leases[i][2] = "active", leases[i][1] \in chosen
          PROVE  \E j \in i + 1 .. Len(leases) :
                    leases[j][1] = leases[i][1] /\ leases[j][2] # ""
      <4>1. leases[i] = <<leases[i][1], "active">>
        BY <3>3, AddressAssumption DEF AdrInv, AdrTypes
      <4>2. leases[i][1] \in Addresses /\ leases[i][1] \notin active
        BY <2>1, <3>1, <3>2, <3>3 DEF AdrInv, SearchFinds
      <4> QED
        BY <4>1, <4>2 DEF active
    <3>4. /\ chosen \cap (adding.skip \cup {OwnAddress, Gateway}) = {}
          /\ Cardinality(chosen) = Len(adding.assign)
          /\ ~vmware => chosen \cap others \subseteq newcomers
      BY <2>1, <3>1 DEF AdrInv, SearchFinds
    <3>5. adding.at = "returned" =>
              Cardinality(chosen) = adding.number /\ statics = ToSet(adding.assign)
      BY <2>1, <3>4 DEF AdrInv, SearchFinds, CallGoesOn
    <3> QED
      BY <3>3, <3>4, <3>5 DEF AddressesAreFree
  <2>2. CASE adding.ask # "number"
    BY <2>2 DEF AdrInv, CallGoesOn, AddressesAreFree, chosen
  <2> QED
    BY <2>1, <2>2
<1> QED
  BY <1>1, <1>2, <1>3 DEF AddressesAreOurs

---------------------------------------------------------------------------
(* The configuration and the engines.                                      *)

Fills == {Filled(config) : config \in EngineConfigs}

CfgEnds ==
    /\ cfgPc \in {"manipulations", "check", "engines", "check_engines", "check_admin", "ended"}
    /\ result = <<>> \/ result = << 0 >> \/ result = << 1 >> \/ result = << 2 >>
    /\ cfgPc = "ended" <=> result # <<>>

CfgLists ==
    /\ CfgEnds
    /\ engineDirs \in Seq(EngineConfigs)
    /\ engines_list \in Seq(Fills)
    /\ REFERENCE_MODULE \in BOOLEAN

(* The list is as long as the engines that were read, and has each one as  *)
(* its file says.                                                          *)
EnginesInOrder ==
    /\ Len(engines_list) <= Len(engineDirs)
    /\ \A i \in 1 .. Len(engines_list) : engines_list[i] = Filled(engineDirs[i])
    /\ cfgPc \in {"manipulations", "check"} => engines_list = <<>>

(* The globals are set once, when all engines and the reference module     *)
(* have been read.                                                         *)
GlobalsAtOnce ==
    /\ REFERENCE_MODULE => /\ ENGINES_LIST = engines_list
                           /\ Len(engines_list) = Len(engineDirs)
                           /\ cfgPc \in {"check_engines", "check_admin", "ended"}
    /\ ~REFERENCE_MODULE => /\ ENGINES_LIST = None /\ result # << 0 >>
                            /\ cfgPc \notin {"check_engines", "check_admin"}

(* What the checks that were passed say. *)
ChecksPassed ==
    /\ cfgPc \in {"engines", "check_engines", "check_admin"} \/ result = << 0 >> => SettingsAllowed
    /\ cfgPc = "check_admin" \/ result = << 0 >> => EnginesAllowed(ENGINES_LIST)

CfgInv ==
    /\ CfgLists /\ EnginesInOrder /\ GlobalsAtOnce /\ ChecksPassed
    /\ assigned # <<>> => result = << 0 >>
    /\ ListedNamesReachEngines

(* Nothing has been read at first. *)
LEMMA CfgAtFirst == CfgInit => CfgInv
<1> SUFFICES ASSUME CfgInit PROVE CfgInv
  OBVIOUS
<1> USE DEF CfgInit, None
<1>1. CfgLists
  <2>1. CfgEnds
    BY DEF CfgEnds
  <2>2. engineDirs \in Seq(EngineConfigs)
    OBVIOUS
  <2>3. engines_list \in Seq(Fills)
    OBVIOUS
  <2> QED
    BY <2>1, <2>2, <2>3 DEF CfgLists
<1>3. EnginesInOrder /\ GlobalsAtOnce
  BY DEF EnginesInOrder, GlobalsAtOnce
<1>2. ChecksPassed /\ ListedNamesReachEngines
  BY DEF ChecksPassed, ListedNamesReachEngines
<1> QED
  BY <1>1, <1>2, <1>3 DEF CfgInv

(* A step goes on without a result, or ends with one. *)
LEMMA Ended ==
    ASSUME CfgEnds, cfgPc # "ended",
           \/ result' = result /\ cfgPc' \in {"check", "engines", "check_engines", "check_admin"}
           \/ cfgPc' = "ended" /\ (result' = << 0 >> \/ result' = << 1 >> \/ result' = << 2 >>)
    PROVE  CfgEnds'
<1>1. CASE result' = result /\ cfgPc' \in {"check", "engines", "check_engines", "check_admin"}
  BY <1>1 DEF CfgEnds
<1>2. CASE cfgPc' = "ended" /\ (result' = << 0 >> \/ result' = << 1 >> \/ result' = << 2 >>)
  BY <1>2 DEF CfgEnds
<1> QED
  BY <1>1, <1>2

(* The steps keep the lists. *)
LEMMA CfgListsStep ==
    ASSUME CfgLists, [CfgNext]_cfg_vars, EnginesInOrder
    PROVE  CfgLists' /\ EnginesInOrder'
<1> USE DEF CfgLists, CfgEnds, EnginesInOrder, None, Raised, Ends, CfgGoesTo
<1>1. CASE manipulations_after_import
  <2>1. UNCHANGED <<engineDirs, engines_list, REFERENCE_MODULE, result>> /\ cfgPc' = "check"
        /\ cfgPc = "manipulations"
    BY <1>1 DEF manipulations_after_import
  <2>2. CfgEnds'
    BY <2>1
  <2> QED
    BY <2>1, <2>2
<1>6. CASE import_reference
  BY <1>6 DEF import_reference
<1>7. CASE check_engines_configs
  <2>1. /\ UNCHANGED <<engineDirs, engines_list, REFERENCE_MODULE>> /\ cfgPc = "check_engines"
        /\ \/ cfgPc' = "check_admin" /\ result' = result
           \/ cfgPc' = "ended" /\ result' = << 1 >>
    BY <1>7 DEF check_engines_configs
  <2>2. CfgEnds'
    <3> HIDE DEF CfgEnds, EnginesInOrder, None, Raised
    <3> QED
      BY <2>1, Ended
  <2> QED
    BY <2>1, <2>2
<1>8. CASE check_admin_rights_for_process_name
  <2>1. /\ UNCHANGED <<engineDirs, engines_list, REFERENCE_MODULE>> /\ cfgPc' = "ended"
        /\ result' = << 0 >> \/ result' = << 1 >>
    BY <1>8 DEF check_admin_rights_for_process_name
  <2>2. CfgEnds'
    BY <2>1
  <2> QED
    BY <2>1, <2>2
<1>2. ASSUME NEW n \in 0 .. MaxEngines, NEW dirs \in [1 .. n -> EngineConfigs], check_config(dirs)
      PROVE  CfgLists' /\ EnginesInOrder'
  <2>1. dirs \in Seq(EngineConfigs) /\ Len(dirs) \in Nat
    BY CfgAssumption
  <2>2. engineDirs' = dirs /\ engines_list' = <<>> /\ engines_list = <<>> /\ REFERENCE_MODULE' = REFERENCE_MODULE
    BY <1>2 DEF check_config
  <2>3. CfgEnds'
    BY <1>2 DEF check_config
  <2> QED
    BY <2>1, <2>2, <2>3
<1>3. CASE import_next_engine
  <2> DEFINE config == engineDirs[Len(engines_list) + 1]
  <2>1. CASE engines_list' = engines_list
    <3>1. /\ UNCHANGED <<engineDirs, REFERENCE_MODULE>> /\ cfgPc = "engines"
          /\ \/ cfgPc' = "ended" /\ result' \in {<< 1 >>, << 2 >>}
             \/ UNCHANGED <<cfgPc, result>>
      BY <1>3, <2>1 DEF import_next_engine
    <3>2. CfgEnds'
      <4> HIDE DEF CfgLists, EnginesInOrder, None, Raised
      <4>1. CfgEnds
        BY DEF CfgLists
      <4> HIDE DEF CfgEnds
      <4>2. CASE UNCHANGED <<cfgPc, result>>
        BY <4>1, <4>2 DEF CfgEnds
      <4>3. CASE cfgPc' = "ended" /\ result' \in {<< 1 >>, << 2 >>}
        BY <4>3 DEF CfgEnds
      <4> QED
        BY <3>1, <4>2, <4>3
    <3> QED
      BY <2>1, <3>1, <3>2
  <2>2. CASE engines_list' # engines_list
    <3>1. engines_list' = Append(engines_list, Filled(config)) /\ UNCHANGED <<cfgPc, result>>
          /\ Len(engines_list) < Len(engineDirs) /\ engineDirs' = engineDirs /\ cfgPc = "engines"
          /\ REFERENCE_MODULE' = REFERENCE_MODULE
      BY <1>3, <2>2 DEF import_next_engine
    <3>2. Len(engines_list) \in Nat /\ Len(engineDirs) \in Nat /\ config \in EngineConfigs
      BY <3>1
    <3>3. Filled(config) \in Fills
      BY <3>2 DEF Fills
    <3> DEFINE one == Filled(config)
    <3> HIDE DEF one
    <3>4. /\ engines_list' \in Seq(Fills) /\ Len(engines_list') = Len(engines_list) + 1
          /\ \A i \in 1 .. Len(engines_list) : engines_list'[i] = engines_list[i]
          /\ engines_list'[Len(engines_list) + 1] = one
      <4>1. engines_list' = Append(engines_list, one) /\ one \in Fills
        BY <3>1, <3>3 DEF one
      <4> QED
        BY <4>1, Grown
    <3>5. \A i \in 1 .. Len(engines_list') : engines_list'[i] = Filled(engineDirs'[i])
      BY <3>1, <3>2, <3>4 DEF one
    <3> QED
      BY <3>1, <3>2, <3>4, <3>5
  <2> QED
    BY <2>1, <2>2
<1>4. ASSUME NEW name \in CfgNames, assign_class_by_domain(name) PROVE CfgLists' /\ EnginesInOrder'
  BY <1>4 DEF assign_class_by_domain
<1>5. CASE UNCHANGED cfg_vars
  BY <1>5 DEF cfg_vars
<1> QED
  BY <1>1, <1>2, <1>3, <1>4, <1>5, <1>6, <1>7, <1>8 DEF CfgNext

(* The globals and the checks, in the order of load_config. *)
LEMMA CfgOrderStep ==
    ASSUME CfgLists, GlobalsAtOnce, ChecksPassed, [CfgNext]_cfg_vars
    PROVE  GlobalsAtOnce' /\ ChecksPassed'
<1> USE DEF CfgLists, CfgEnds, GlobalsAtOnce, ChecksPassed, None, Raised, Ends, CfgGoesTo
<1>1. CASE manipulations_after_import
  BY <1>1 DEF manipulations_after_import
<1>2. ASSUME NEW dirs, check_config(dirs)
      PROVE  GlobalsAtOnce' /\ ChecksPassed'
  <2>1. /\ UNCHANGED <<main, gateway, engines_list, ENGINES_LIST, REFERENCE_MODULE>>
        /\ cfgPc = "check" /\ ~REFERENCE_MODULE /\ result # << 0 >>
        /\ \/ SettingsAllowed /\ cfgPc' = "engines" /\ result' = result
           \/ cfgPc' = "ended" /\ result' = << 1 >>
    BY <1>2 DEF check_config
  <2>2. result' # << 0 >>
    BY <2>1
  <2> QED
    BY <2>1, <2>2 DEF SettingsAllowed
<1>3. CASE import_next_engine
  <2>1. /\ UNCHANGED <<main, gateway, ENGINES_LIST, REFERENCE_MODULE>>
        /\ cfgPc = "engines" /\ ~REFERENCE_MODULE /\ result # << 0 >> /\ SettingsAllowed
    BY <1>3 DEF import_next_engine
  <2>2. \/ cfgPc' = "engines" /\ result' = result
        \/ cfgPc' = "ended" /\ (result' = << 1 >> \/ result' = << 2 >>)
    BY <1>3, <2>1 DEF import_next_engine
  <2>3. result' # << 0 >>
    BY <2>1, <2>2
  <2> QED
    BY <2>1, <2>2, <2>3 DEF SettingsAllowed
<1>4. CASE import_reference
  BY <1>4 DEF import_reference, SettingsAllowed
<1>5. CASE check_engines_configs
  BY <1>5 DEF check_engines_configs, SettingsAllowed, EnginesAllowed
<1>6. CASE check_admin_rights_for_process_name
  BY <1>6 DEF check_admin_rights_for_process_name, SettingsAllowed, EnginesAllowed
<1>7. ASSUME NEW name \in CfgNames, assign_class_by_domain(name)
      PROVE  GlobalsAtOnce' /\ ChecksPassed'
  <2>1. UNCHANGED <<main, gateway, engineDirs, engines_list, ENGINES_LIST, REFERENCE_MODULE,
                    cfgPc, result>>
    BY <1>7 DEF assign_class_by_domain
  <2> QED
    BY <2>1 DEF SettingsAllowed, EnginesAllowed
<1>8. CASE UNCHANGED cfg_vars
  BY <1>8 DEF cfg_vars, SettingsAllowed, EnginesAllowed
<1> QED
  BY <1>1, <1>2, <1>3, <1>4, <1>5, <1>6, <1>7, <1>8 DEF CfgNext

(* What the search looks at is what the engine's file says. *)
LEMMA FilledMatches ==
    ASSUME NEW config, NEW n
    PROVE  /\ MatchesPort(Filled(config), n) <=> MatchesPort(config, n)
           /\ Matches(Filled(config), n) <=>
                 \E k \in 1 .. Len(config.domains) : <<Normal[config.domains[k].name], n>> \in Within
<1>1. /\ Filled(config).on_port_connect = config.on_port_connect
      /\ Filled(config).targets =
            {Target(config.domains[i].name) : i \in 1 .. Len(config.domains)}
  BY DEF Filled
<1>2. MatchesPort(Filled(config), n) <=> MatchesPort(config, n)
  BY <1>1, Zenon DEF MatchesPort
<1>3. Matches(Filled(config), n) <=>
          \E k \in 1 .. Len(config.domains) : <<Normal[config.domains[k].name], n>> \in Within
  BY <1>1 DEF Matches, Target
<1> QED
  BY <1>2, <1>3

(* A name that is asked for: the first engine that stops the search is one *)
(* of those that were read, and a domain is within itself.                 *)
LEMMA NamesReachEngines ==
    ASSUME CfgLists, EnginesInOrder, GlobalsAtOnce,
           NEW name \in CfgNames, assign_class_by_domain(name)
    PROVE  ListedNamesReachEngines'
<1> DEFINE at == {i \in 1 .. Len(ENGINES_LIST) : Stops(ENGINES_LIST[i], Normal[name])}
           first == CHOOSE i \in at : \A k \in at : i <= k
           engine == ENGINES_LIST[first]
<1>1. /\ result = << 0 >> /\ asked' = <<name>>
      /\ assigned' = IF at = {} THEN <<Reference>>
                     ELSE IF ~Matches(engine, Normal[name]) /\ Unreadable(engine)
                     THEN <<>> ELSE <<first>>
      /\ engineDirs' = engineDirs
  BY DEF assign_class_by_domain
<1>2. REFERENCE_MODULE
  BY <1>1 DEF GlobalsAtOnce, CfgLists
<1>3. /\ ENGINES_LIST = engines_list /\ Len(ENGINES_LIST) = Len(engineDirs)
      /\ Len(engineDirs) \in Nat
      /\ \A i \in 1 .. Len(engineDirs) : ENGINES_LIST[i] = Filled(engineDirs[i])
  BY <1>2 DEF GlobalsAtOnce, EnginesInOrder, CfgLists
<1>4. at # {} => first \in at /\ first \in 1 .. Len(engineDirs)
  <2>1. at \subseteq Nat
    BY <1>3
  <2>2. at # {} => \E i \in at : \A k \in at : i <= k
    <3> HIDE DEF at
    <3> QED
      BY <2>1, Least
  <2>3. at # {} => first \in at
    <3> HIDE DEF at
    <3> QED
      BY <2>2
  <2> QED
    BY <1>3, <2>3
<1>5. ASSUME NEW i \in 1 .. Len(engineDirs), NEW k \in 1 .. Len(engineDirs[i].domains),
             Normal[engineDirs[i].domains[k].name] = Normal[name]
      PROVE  at # {}
  <2>1. Normal[name] \in Filled(engineDirs[i]).targets
    BY <1>5 DEF Filled, Target
  <2>2. Stops(ENGINES_LIST[i], Normal[name])
    BY <1>3, <2>1, CfgAssumption DEF Stops, Matches
  <2> QED
    BY <1>3, <2>2
<1>6. ASSUME at # {}, assigned' # <<>>
      PROVE  /\ assigned' = <<first>>
             /\ \/ \E k \in 1 .. Len(engineDirs[first].domains) :
                      <<Normal[engineDirs[first].domains[k].name], Normal[name]>> \in Within
                \/ MatchesPort(engineDirs[first], Normal[name])
  <2>1. /\ assigned' = <<first>> /\ ~(~Matches(engine, Normal[name]) /\ Unreadable(engine))
        /\ engine = Filled(engineDirs[first])
    BY <1>1, <1>3, <1>4, <1>6
  <2>2. Stops(engine, Normal[name])
    BY <1>4, <1>6
  <2>3. Matches(engine, Normal[name]) \/ MatchesPort(engine, Normal[name])
    BY <2>1, <2>2 DEF Stops
  <2> HIDE DEF at, first, engine
  <2> QED
    BY <2>1, <2>3, FilledMatches
<1> HIDE DEF at, first, engine
<1>7. asked'[1] = name /\ <<Reference>>[1] = Reference
  BY <1>1
<1>8. CASE at = {}
  <2>1. assigned' = <<Reference>>
    BY <1>1, <1>8
  <2> QED
    BY <1>1, <1>5, <1>7, <1>8, <2>1 DEF ListedNamesReachEngines
<1>9. CASE at # {} /\ assigned' # <<>>
  <2>1. assigned' = <<first>> /\ assigned'[1] = first
    BY <1>6, <1>9
  <2>2. assigned' # <<Reference>>
    BY <1>3, <1>4, <1>9, <2>1 DEF Reference
  <2>3. \/ \E k \in 1 .. Len(engineDirs'[assigned'[1]].domains) :
             <<Normal[engineDirs'[assigned'[1]].domains[k].name], Normal[asked'[1]]>> \in Within
        \/ MatchesPort(engineDirs'[assigned'[1]], Normal[asked'[1]])
    BY <1>1, <1>6, <1>7, <1>9, <2>1
  <2> QED
    BY <2>2, <2>3, Zenon DEF ListedNamesReachEngines
<1>10. CASE assigned' = <<>>
  BY <1>10 DEF ListedNamesReachEngines
<1> QED
  BY <1>8, <1>9, <1>10

(* The inductive invariant of the configuration, and what follows. *)
LEMMA CfgStep == CfgInv /\ [CfgNext]_cfg_vars => CfgInv'
<1> SUFFICES ASSUME CfgInv, [CfgNext]_cfg_vars PROVE CfgInv'
  OBVIOUS
<1>1. CfgLists' /\ EnginesInOrder' /\ GlobalsAtOnce' /\ ChecksPassed'
  BY CfgListsStep, CfgOrderStep DEF CfgInv
<1>2. CASE \E name \in CfgNames : assign_class_by_domain(name)
  <2>1. result' = result /\ result = << 0 >>
    BY <1>2 DEF assign_class_by_domain
  <2> QED
    BY <1>1, <1>2, <2>1, NamesReachEngines DEF CfgInv
<1>3. CASE ~\E name \in CfgNames : assign_class_by_domain(name)
  <2>1. UNCHANGED <<asked, assigned>>
    BY <1>3 DEF CfgNext, manipulations_after_import, check_config, import_next_engine,
       import_reference, check_engines_configs, check_admin_rights_for_process_name, cfg_vars
  <2>2. assigned # <<>> => result' = result /\ engineDirs' = engineDirs
    <3>1. assigned # <<>> => cfgPc = "ended"
      <4>1. CfgEnds /\ (assigned # <<>> => result = << 0 >>)
        BY DEF CfgInv, CfgLists
      <4>2. result = << 0 >> => result # <<>>
        OBVIOUS
      <4> QED
        BY <4>1, <4>2 DEF CfgEnds
    <3> QED
      BY <1>3, <3>1 DEF CfgNext, manipulations_after_import, check_config, import_next_engine,
         import_reference, check_engines_configs, check_admin_rights_for_process_name, cfg_vars
  <2>3. ListedNamesReachEngines'
    BY <2>1, <2>2 DEF CfgInv, ListedNamesReachEngines, MatchesPort
  <2> QED
    BY <1>1, <2>1, <2>2, <2>3 DEF CfgInv
<1> QED
  BY <1>2, <1>3

(* What load_config can return. *)
LEMMA Results ==
    \A x : x \in {None} \cup {<<r>> : r \in {0, 1, Raised}}
              <=> x = None \/ x = << 0 >> \/ x = << 1 >> \/ x = << 2 >>
<1>1. \A x : x \in {<<r>> : r \in {0, 1, 2}} <=> x = << 0 >> \/ x = << 1 >> \/ x = << 2 >>
  OBVIOUS
<1> QED
  BY <1>1 DEF None, Raised

(* The settings and engines are those of the files. *)
LEMMA EnginesFollow == CfgInv => CfgTypeOK /\ EnginesAsConfigured
<1> SUFFICES ASSUME CfgInv PROVE CfgTypeOK /\ EnginesAsConfigured
  OBVIOUS
<1>1. StartsWithAllEngines
  BY DEF CfgInv, CfgLists, CfgEnds, GlobalsAtOnce, ChecksPassed, SettingsAllowed, EnginesAllowed,
     StartsWithAllEngines, None
<1> QED
  BY <1>1, Results DEF CfgInv, CfgLists, CfgEnds, CfgTypeOK, None, EnginesAsConfigured

---------------------------------------------------------------------------
(* The frames of a WebSocket.                                              *)

FrameKinds == {"message", "first", "rest", "last", "control"}
Frames == [id : Nat, kind : FrameKinds, deflated : BOOLEAN, ctx : Seq(Nat)]

\* The context behind a frame.
Behind(f) == IF f.deflated THEN Append(f.ctx, f.id) ELSE f.ctx

WsTypes ==
    /\ handshake \in {"none", "accepted", "raised"}
    /\ sent \in [Directions -> Nat] /\ sender \in [Directions -> Seq(Nat)]
    /\ wire \in [Directions -> Seq(Frames)] /\ cut \in [Directions -> BOOLEAN]
    /\ contexts \in [Directions -> Seq(0 .. MaxFrames)]
    /\ one_by_one \in [Directions -> BOOLEAN]
    /\ parsed \in [Directions -> Seq(Nat \X Nat)]

(* The frames of a wire are the last of those sent, and each one was       *)
(* compressed with what the one before left behind.                        *)
WireIs(l, n, last) ==
    /\ Len(l) <= n
    /\ \A k \in 1 .. Len(l) : l[k].id = n - Len(l) + k
    /\ \A k \in 1 .. Len(l) : l[k].kind \in {"rest", "last"} \/ is_frame_deflated(l[k]) = l[k].deflated
    /\ \A k \in 1 .. Len(l) - 1 : l[k + 1].ctx = Behind(l[k])
    /\ Len(l) > 0 => last = Behind(l[Len(l)])

(* What was parsed belongs to the frames that were delivered, in order.    *)
ReadIs(p, n) ==
    /\ \A i \in 1 .. Len(p) : p[i][1] <= n /\ p[i][2] \in {p[i][1], 0}
    /\ \A i, j \in 1 .. Len(p) : i < j /\ p[j][1] # 0 => p[i][1] < p[j][1]

Pairs(n) == [i \in 1 .. n |-> <<i, i>>]

(* One receive for one message: the contexts of both ends go together.     *)
Alike(d) ==
    /\ ~cut[d] /\ parsed[d] = Pairs(delivered(d))
    /\ contexts[d] = IF Len(wire[d]) = 0 THEN sender[d] ELSE wire[d][1].ctx

WsDir(d) ==
    /\ sent[d] <= MaxFrames /\ sender[d] \in Seq(1 .. sent[d])
    /\ cut[d] => Len(wire[d]) > 0
    /\ WireIs(wire[d], sent[d], sender[d])
    /\ ReadIs(parsed[d], delivered(d))
    /\ one_by_one[d] => Alike(d)

WsInv == WsTypes /\ \A d \in Directions : WsDir(d)

(* A list without its first entries. *)
LEMMA Dropped ==
    ASSUME NEW S, NEW l \in Seq(S), NEW n \in 1 .. Len(l)
    PROVE  /\ SubSeq(l, n + 1, Len(l)) \in Seq(S) /\ Len(SubSeq(l, n + 1, Len(l))) = Len(l) - n
           /\ \A k \in 1 .. Len(l) - n : SubSeq(l, n + 1, Len(l))[k] = l[n + k]
<1>1. Len(l) \in Nat /\ n \in Nat /\ n <= Len(l) /\ n >= 1
  OBVIOUS
<1> QED
  BY <1>1

(* What is left of a wire when m frames are received. *)
GoesOn(l, n, last, m, r) ==
    /\ WireIs(r, n, last) /\ Len(r) = Len(l) - m /\ r \in Seq(Frames)
    /\ m = 1 => (IF Len(r) = 0 THEN last ELSE r[1].ctx) = Behind(l[1])

(* A wire without its first frames is the wire of those behind them. *)
LEMMA WireGoesOn ==
    ASSUME NEW l \in Seq(Frames), NEW n \in Nat, NEW last, WireIs(l, n, last),
           NEW m \in 1 .. Len(l), NEW r, r = SubSeq(l, m + 1, Len(l))
    PROVE  GoesOn(l, n, last, m, r)
<1>1. Len(l) \in Nat /\ m \in Nat /\ m <= Len(l) /\ m >= 1
  OBVIOUS
<1>2. /\ r \in Seq(Frames) /\ Len(r) = Len(l) - m
      /\ \A k \in 1 .. Len(l) - m : r[k] = l[m + k]
  BY Dropped
<1>3. \A k \in 1 .. Len(r) : m + k \in 1 .. Len(l) /\ r[k] = l[m + k]
  BY <1>1, <1>2
<1>4. Len(r) <= n
  BY <1>1, <1>2 DEF WireIs
<1>5. \A k \in 1 .. Len(r) : r[k].id = n - Len(r) + k
  <2> TAKE k \in 1 .. Len(r)
  <2>1. l[m + k].id = n - Len(l) + (m + k)
    BY <1>3 DEF WireIs
  <2> QED
    BY <1>1, <1>2, <1>3, <2>1
<1>6. \A k \in 1 .. Len(r) : r[k].kind \in {"rest", "last"} \/ is_frame_deflated(r[k]) = r[k].deflated
  BY <1>3, Zenon DEF WireIs
<1>7. \A k \in 1 .. Len(r) - 1 : r[k + 1].ctx = Behind(r[k])
  <2> TAKE k \in 1 .. Len(r) - 1
  <2>1. k \in 1 .. Len(r) /\ k + 1 \in 1 .. Len(r) /\ m + k \in 1 .. Len(l) - 1
        /\ m + (k + 1) = (m + k) + 1
    <3>1. Len(r) = Len(l) - m
      BY <1>2
    <3>2. k \in Nat /\ k >= 1 /\ k <= Len(l) - m - 1
      BY <1>1, <3>1
    <3> QED
      BY <1>1, <3>1, <3>2
  <2>2. l[(m + k) + 1].ctx = Behind(l[m + k])
    BY <2>1 DEF WireIs
  <2> QED
    BY <1>3, <2>1, <2>2
<1>8. Len(r) > 0 => last = Behind(r[Len(r)])
  <2> SUFFICES ASSUME Len(r) > 0 PROVE last = Behind(r[Len(r)])
    OBVIOUS
  <2>1. Len(r) \in 1 .. Len(r) /\ m + Len(r) = Len(l) /\ Len(l) > 0
    BY <1>1, <1>2
  <2>2. last = Behind(l[Len(l)])
    BY <2>1 DEF WireIs
  <2> QED
    BY <1>3, <2>1, <2>2
<1>9. m = 1 => (IF Len(r) = 0 THEN last ELSE r[1].ctx) = Behind(l[1])
  <2> SUFFICES ASSUME m = 1 PROVE (IF Len(r) = 0 THEN last ELSE r[1].ctx) = Behind(l[1])
    OBVIOUS
  <2>1. CASE Len(r) = 0
    <3>1. Len(l) = 1
      BY <1>1, <1>2, <2>1
    <3> QED
      BY <2>1, <3>1 DEF WireIs
  <2>2. CASE Len(r) # 0
    <3>1. 1 \in 1 .. Len(l) - 1 /\ 1 \in 1 .. Len(r) /\ r[1] = l[1 + 1]
      BY <1>1, <1>2, <1>3, <2>2
    <3>2. l[1 + 1].ctx = Behind(l[1])
      BY <3>1 DEF WireIs
    <3> QED
      BY <2>2, <3>1, <3>2
  <2> QED
    BY <2>1, <2>2
<1> QED
  BY <1>2, <1>4, <1>5, <1>6, <1>7, <1>8, <1>9 DEF WireIs, GoesOn

(* A frame more on the wire. *)
LEMMA WireGrows ==
    ASSUME NEW l \in Seq(Frames), NEW n \in Nat, NEW last \in Seq(Nat), WireIs(l, n, last),
           NEW f \in Frames, f.id = n + 1, f.ctx = last,
           f.kind \in {"rest", "last"} \/ is_frame_deflated(f) = f.deflated
    PROVE  WireIs(Append(l, f), n + 1, Behind(f))
<1> DEFINE r == Append(l, f)
<1>1. /\ Len(l) \in Nat /\ Len(r) = Len(l) + 1 /\ r[Len(l) + 1] = f
      /\ \A k \in 1 .. Len(l) : r[k] = l[k]
  BY Grown
<1> HIDE DEF r
<1>2. \A k \in 1 .. Len(r) : k \in 1 .. Len(l) \/ k = Len(l) + 1
  BY <1>1
<1>3. Len(l) <= n
  BY DEF WireIs
<1>4. Len(r) <= n + 1
  BY <1>1, <1>3
<1>5. \A k \in 1 .. Len(r) : r[k].id = (n + 1) - Len(r) + k
  <2> TAKE k \in 1 .. Len(r)
  <2>1. CASE k \in 1 .. Len(l)
    <3>1. l[k].id = n - Len(l) + k
      BY <2>1 DEF WireIs
    <3> QED
      BY <1>1, <2>1, <3>1
  <2>2. CASE k = Len(l) + 1
    BY <1>1, <2>2
  <2> QED
    BY <1>2, <2>1, <2>2
<1>6. \A k \in 1 .. Len(r) : r[k].kind \in {"rest", "last"} \/ is_frame_deflated(r[k]) = r[k].deflated
  BY <1>1, <1>2, Zenon DEF WireIs
<1>7. \A k \in 1 .. Len(r) - 1 : r[k + 1].ctx = Behind(r[k])
  <2> TAKE k \in 1 .. Len(r) - 1
  <2>1. k \in 1 .. Len(l) /\ r[k] = l[k]
    BY <1>1
  <2>2. CASE k = Len(l)
    <3>1. last = Behind(l[k]) /\ r[k + 1] = f
      BY <1>1, <2>1, <2>2 DEF WireIs
    <3> QED
      BY <2>1, <3>1
  <2>3. CASE k # Len(l)
    <3>1. k \in 1 .. Len(l) - 1 /\ k + 1 \in 1 .. Len(l)
      BY <1>1, <2>1, <2>3
    <3>2. l[k + 1].ctx = Behind(l[k]) /\ r[k + 1] = l[k + 1]
      BY <1>1, <3>1 DEF WireIs
    <3> QED
      BY <2>1, <3>2
  <2> QED
    BY <2>2, <2>3
<1>8. r[Len(r)] = f
  BY <1>1
<1> QED
  BY <1>4, <1>5, <1>6, <1>7, <1>8 DEF WireIs, r

(* What is read next. *)
LEMMA ReadsOn ==
    ASSUME NEW p \in Seq(Nat \X Nat), NEW n \in Nat, NEW m \in Nat, n <= m, ReadIs(p, n),
           NEW id \in Nat, id = 0 \/ (n < id /\ id <= m), NEW v, v \in {id, 0}
    PROVE  /\ p \o << <<id, v>> >> \in Seq(Nat \X Nat) /\ ReadIs(p \o << <<id, v>> >>, m)
           /\ ReadIs(p, m)
<1> DEFINE q == p \o << <<id, v>> >>
<1>0. v \in Nat
  OBVIOUS
<1>1. /\ q \in Seq(Nat \X Nat) /\ Len(p) \in Nat /\ Len(q) = Len(p) + 1
      /\ q[Len(p) + 1] = <<id, v>> /\ \A k \in 1 .. Len(p) : q[k] = p[k]
  <2>1. << <<id, v>> >> \in Seq(Nat \X Nat) /\ Len(<< <<id, v>> >>) = 1
        /\ << <<id, v>> >>[1] = <<id, v>>
    BY <1>0
  <2> DEFINE one == << <<id, v>> >>
  <2>2. one \in Seq(Nat \X Nat) /\ Len(one) = 1 /\ one[1] = <<id, v>> /\ q = p \o one
    BY <2>1
  <2> HIDE DEF one, q
  <2>3. Len(p) \in Nat
    OBVIOUS
  <2>4. /\ q \in Seq(Nat \X Nat) /\ Len(q) = Len(p) + Len(one)
        /\ \A k \in 1 .. Len(p) + Len(one) : q[k] = IF k <= Len(p) THEN p[k] ELSE one[k - Len(p)]
    BY <2>2, ConcatProperties
  <2> QED
    BY <2>2, <2>3, <2>4
<1> HIDE DEF q
<1>n. Len(p) \in Nat /\ Len(q) = Len(p) + 1
  BY <1>1
<1>t. q[Len(p) + 1][1] = id /\ q[Len(p) + 1][2] = v
  BY <1>1
<1>2. \A k \in 1 .. Len(q) : k \in 1 .. Len(p) \/ k = Len(p) + 1
  BY <1>n
<1>3. \A k \in 1 .. Len(p) : p[k] \in Nat \X Nat
  OBVIOUS
<1>4. \A i \in 1 .. Len(p) : p[i][1] \in Nat /\ p[i][1] <= n /\ p[i][2] \in {p[i][1], 0}
  BY <1>3 DEF ReadIs
<1>5. \A i \in 1 .. Len(q) : q[i][1] <= m /\ q[i][2] \in {q[i][1], 0}
  <2> TAKE i \in 1 .. Len(q)
  <2>1. CASE i \in 1 .. Len(p)
    <3>1. q[i] = p[i]
      BY <1>1, <2>1
    <3>2. p[i][1] \in Nat /\ p[i][1] <= n /\ p[i][2] \in {p[i][1], 0}
      BY <1>4, <2>1, Zenon
    <3>3. p[i][1] <= m
      BY <3>2
    <3> QED
      BY <3>1, <3>2, <3>3, Zenon
  <2>2. CASE i = Len(p) + 1
    <3>1. q[i][1] = id /\ q[i][2] = v
      BY <1>t, <2>2, Zenon
    <3>2. id <= m
      OBVIOUS
    <3>3. v = id \/ v = 0
      OBVIOUS
    <3>4. q[i][1] <= m
      BY <3>1, <3>2, Zenon
    <3>5. q[i][2] = q[i][1] \/ q[i][2] = 0
      BY <3>1, <3>3, Zenon
    <3> QED
      BY <3>4, <3>5, Zenon
  <2> QED
    BY <1>2, <2>1, <2>2
<1>6. \A i, j \in 1 .. Len(q) : i < j /\ q[j][1] # 0 => q[i][1] < q[j][1]
  <2> SUFFICES ASSUME NEW i \in 1 .. Len(q), NEW j \in 1 .. Len(q), i < j, q[j][1] # 0
               PROVE  q[i][1] < q[j][1]
    OBVIOUS
  <2>1. i \in 1 .. Len(p) /\ q[i] = p[i]
    <3>1. i \in 1 .. Len(p)
      BY <1>n
    <3> QED
      BY <1>1, <3>1
  <2>2. CASE j \in 1 .. Len(p)
    <3>1. q[j] = p[j]
      BY <1>1, <2>2
    <3> QED
      BY <2>1, <2>2, <3>1 DEF ReadIs
  <2>3. CASE j = Len(p) + 1
    <3>1. q[j][1] = id /\ id # 0 /\ n < id
      BY <1>t, <2>3
    <3>2. p[i][1] \in Nat /\ p[i][1] <= n
      BY <1>4, <2>1
    <3> QED
      BY <2>1, <3>1, <3>2
  <2> QED
    BY <1>2, <2>2, <2>3
<1>7. ReadIs(p, m)
  <2>1. \A i \in 1 .. Len(p) : p[i][1] <= m
    BY <1>4
  <2> QED
    BY <2>1 DEF ReadIs
<1> QED
  BY <1>1, <1>5, <1>6, <1>7 DEF ReadIs, q

(* The pairs of one number more. *)
LEMMA PairsGrow ==
    ASSUME NEW n \in Nat
    PROVE  Pairs(n) \o << <<n + 1, n + 1>> >> = Pairs(n + 1)
<1> DEFINE p == Pairs(n)
           one == << <<n + 1, n + 1>> >>
<1>1. /\ p \in Seq(Nat \X Nat) /\ Len(p) = n /\ \A i \in 1 .. n : p[i] = <<i, i>>
  BY DEF Pairs
<1>2. one \in Seq(Nat \X Nat) /\ Len(one) = 1 /\ one[1] = <<n + 1, n + 1>>
  OBVIOUS
<1>3. /\ Pairs(n + 1) \in Seq(Nat \X Nat) /\ Len(Pairs(n + 1)) = n + 1
      /\ \A i \in 1 .. n + 1 : Pairs(n + 1)[i] = <<i, i>>
  BY DEF Pairs
<1> HIDE DEF p, one
<1>4. /\ p \o one \in Seq(Nat \X Nat) /\ Len(p \o one) = n + 1
      /\ \A k \in 1 .. n + 1 : (p \o one)[k] = IF k <= n THEN p[k] ELSE one[k - n]
  <2>1. /\ p \o one \in Seq(Nat \X Nat) /\ Len(p \o one) = Len(p) + Len(one)
        /\ \A k \in 1 .. Len(p) + Len(one) :
              (p \o one)[k] = IF k <= Len(p) THEN p[k] ELSE one[k - Len(p)]
    BY <1>1, <1>2, ConcatProperties
  <2>2. Len(p) = n /\ Len(one) = 1
    BY <1>1, <1>2
  <2> QED
    BY <2>1, <2>2
<1>5. \A k \in 1 .. n + 1 : (p \o one)[k] = <<k, k>>
  <2> TAKE k \in 1 .. n + 1
  <2>1. CASE k <= n
    BY <1>1, <1>4, <2>1
  <2>2. CASE ~(k <= n)
    <3>1. k = n + 1 /\ k - n = 1
      BY <2>2
    <3> QED
      BY <1>2, <1>4, <2>2, <3>1
  <2> QED
    BY <2>1, <2>2
<1>6. p \o one = Pairs(n + 1)
  BY <1>3, <1>4, <1>5, SeqEqual
<1> QED
  BY <1>6 DEF p, one

(* A list over a larger set. *)
LEMMA WiderList == ASSUME NEW S, NEW T, S \subseteq T, NEW l \in Seq(S) PROVE l \in Seq(T)
<1>1. Len(l) \in Nat /\ l \in [1 .. Len(l) -> S]
  OBVIOUS
<1>2. l \in [1 .. Len(l) -> T]
  BY <1>1
<1> QED
  BY <1>1, <1>2, SeqDef

(* Nothing has been sent at first. *)
LEMMA WsAtFirst == WsInit => WsInv
<1> SUFFICES ASSUME WsInit PROVE WsInv
  OBVIOUS
<1>1. WsTypes
  <2>1. <<>> \in Seq(Nat) /\ <<>> \in Seq(Frames) /\ <<>> \in Seq(0 .. MaxFrames)
        /\ <<>> \in Seq(Nat \X Nat) /\ 0 \in Nat
    OBVIOUS
  <2> QED
    BY <2>1 DEF WsInit, WsTypes
<1>2. ASSUME NEW d \in Directions PROVE WsDir(d)
  <2>1. /\ sent[d] = 0 /\ sender[d] = <<>> /\ wire[d] = <<>> /\ cut[d] = FALSE
        /\ contexts[d] = <<>> /\ parsed[d] = <<>> /\ MaxFrames \in Nat
    BY FramesAssumption DEF WsInit
  <2>2. <<>> \in Seq(1 .. 0) /\ Len(<<>>) = 0 /\ delivered(d) = 0
    <3>1. <<>> \in Seq(1 .. 0) /\ Len(<<>>) = 0
      OBVIOUS
    <3>2. sent[d] = 0 /\ Len(wire[d]) = 0
      BY <2>1, <3>1, Zenon
    <3> QED
      BY <3>1, <3>2 DEF delivered
  <2>3. Pairs(0) = <<>>
    BY DEF Pairs
  <2>4. WireIs(<<>>, 0, <<>>) /\ ReadIs(<<>>, 0)
    BY <2>2 DEF WireIs, ReadIs
  <2>5. Alike(d)
    BY <2>1, <2>2, <2>3 DEF Alike
  <2>6. sent[d] <= MaxFrames
    BY <2>1
  <2> QED
    BY <2>1, <2>2, <2>4, <2>5, <2>6 DEF WsDir
<1> QED
  BY <1>1, <1>2 DEF WsInv

(* A step in one direction leaves the other one alone. *)
LEMMA OtherDirection ==
    ASSUME WsInv, NEW e \in Directions, sent'[e] = sent[e], sender'[e] = sender[e],
           wire'[e] = wire[e], cut'[e] = cut[e], parsed'[e] = parsed[e],
           one_by_one'[e] => one_by_one[e] /\ contexts'[e] = contexts[e]
    PROVE  WsDir(e)'
  BY DEF WsInv, WsDir, Alike, delivered

(* A peer sends a frame. *)
LEMMA SendStep ==
    ASSUME WsInv, NEW d \in Directions, NEW k \in FrameKinds, NEW z \in BOOLEAN,
           PeerSends(d, k, z)
    PROVE  WsInv'
<1> DEFINE f == [id |-> sent[d] + 1, kind |-> k, deflated |-> z, ctx |-> sender[d]]
<1>t. /\ sent \in [Directions -> Nat] /\ sender \in [Directions -> Seq(Nat)]
      /\ wire \in [Directions -> Seq(Frames)] /\ cut \in [Directions -> BOOLEAN]
      /\ sent[d] \in Nat /\ sender[d] \in Seq(Nat) /\ wire[d] \in Seq(Frames)
      /\ Len(wire[d]) \in Nat
  BY DEF WsInv, WsTypes
<1>1. /\ sent[d] < MaxFrames /\ sent' = [sent EXCEPT ![d] = @ + 1]
      /\ wire' = [wire EXCEPT ![d] = Append(@, f)]
      /\ sender' = IF z THEN [sender EXCEPT ![d] = Append(@, sent[d] + 1)] ELSE sender
      /\ UNCHANGED <<handshake, cut, contexts, one_by_one, parsed>>
  BY <1>t DEF PeerSends
<1>2. /\ f \in Frames /\ f.id = sent[d] + 1 /\ f.ctx = sender[d] /\ f.deflated = z /\ f.kind = k
  BY <1>t DEF Frames
<1>3. f.kind \in {"rest", "last"} \/ is_frame_deflated(f) = f.deflated
  <2>1. is_frame_deflated(f) <=> z /\ k \notin {"rest", "last"}
    BY <1>2, Zenon DEF is_frame_deflated
  <2> QED
    BY <1>2, <2>1 DEF is_frame_deflated
<1> HIDE DEF f
<1>4. /\ sent'[d] = sent[d] + 1 /\ wire'[d] = Append(wire[d], f)
      /\ sender'[d] = Behind(f)
      /\ \A e \in Directions : e # d =>
            sent'[e] = sent[e] /\ wire'[e] = wire[e] /\ sender'[e] = sender[e]
  BY <1>t, <1>1, <1>2 DEF Behind
<1>5. /\ Append(wire[d], f) \in Seq(Frames) /\ Len(Append(wire[d], f)) = Len(wire[d]) + 1
      /\ Append(wire[d], f)[Len(wire[d]) + 1] = f
      /\ \A j \in 1 .. Len(wire[d]) : Append(wire[d], f)[j] = wire[d][j]
  BY <1>t, <1>2, Grown
<1>6. sender'[d] \in Seq(1 .. sent[d] + 1) /\ sender'[d] \in Seq(Nat)
  <2>0. sender[d] \in Seq(1 .. sent[d])
    BY DEF WsInv, WsDir
  <2>1. sender[d] \in Seq(1 .. sent[d] + 1) /\ sent[d] + 1 \in 1 .. sent[d] + 1
    <3>1. 1 .. sent[d] \subseteq 1 .. sent[d] + 1 /\ sent[d] + 1 \in 1 .. sent[d] + 1
      BY <1>t
    <3> QED
      BY <2>0, <3>1, WiderList
  <2>2. Append(sender[d], sent[d] + 1) \in Seq(1 .. sent[d] + 1)
        /\ Append(sender[d], sent[d] + 1) \in Seq(Nat)
    <3>1. sent[d] + 1 \in Nat
      BY <1>t
    <3> QED
      BY <1>t, <2>1, <3>1, Grown
  <2> QED
    BY <1>2, <1>4, <1>t, <2>1, <2>2 DEF Behind
<1>7. WsTypes'
  <2>1. sent' \in [Directions -> Nat]
    BY <1>t, <1>1
  <2>2. sender' \in [Directions -> Seq(Nat)]
    BY <1>t, <1>1, <1>6
  <2>3. wire' \in [Directions -> Seq(Frames)]
    BY <1>t, <1>1, <1>5
  <2> QED
    BY <1>1, <2>1, <2>2, <2>3 DEF WsInv, WsTypes
<1>8. WsDir(d)'
  <2>0. WsDir(d)
    BY DEF WsInv
  <2>1. WireIs(wire'[d], sent'[d], sender'[d])
    BY <1>t, <1>2, <1>3, <1>4, <2>0, WireGrows DEF WsDir
  <2>2. delivered(d)' = delivered(d) /\ Len(wire'[d]) > 0 /\ sent'[d] <= MaxFrames
    <3>1. Len(wire'[d]) = Len(wire[d]) + 1
      BY <1>4, <1>5
    <3>2. sent[d] < MaxFrames /\ MaxFrames \in Nat
      BY <1>1, FramesAssumption
    <3> QED
      BY <1>t, <1>4, <3>1, <3>2 DEF delivered
  <2>3. one_by_one'[d] => Alike(d)'
    <3> SUFFICES ASSUME one_by_one'[d] PROVE Alike(d)'
      OBVIOUS
    <3>1. Alike(d)
      BY <1>1, <2>0 DEF WsDir
    <3>2. contexts[d] = wire'[d][1].ctx
      <4>1. CASE Len(wire[d]) = 0
        <5>1. wire'[d][1] = f
          BY <1>4, <1>5, <4>1
        <5> QED
          BY <1>2, <3>1, <4>1, <5>1 DEF Alike
      <4>2. CASE Len(wire[d]) # 0
        <5>1. wire'[d][1] = wire[d][1]
          <6>1. 1 \in 1 .. Len(wire[d])
            BY <1>t, <4>2
          <6> QED
            BY <1>4, <1>5, <6>1
        <5> QED
          BY <3>1, <4>2, <5>1 DEF Alike
      <4> QED
        BY <4>1, <4>2
    <3>3. Len(wire'[d]) # 0
      BY <2>2
    <3> QED
      BY <1>1, <2>2, <3>1, <3>2, <3>3 DEF Alike
  <2>4. ReadIs(parsed'[d], delivered(d)')
    BY <1>1, <2>0, <2>2 DEF WsDir
  <2> QED
    BY <1>4, <1>6, <2>1, <2>2, <2>3, <2>4 DEF WsDir
<1>9. ASSUME NEW e \in Directions, e # d PROVE WsDir(e)'
  BY <1>1, <1>4, <1>9, OtherDirection
<1> QED
  BY <1>7, <1>8, <1>9 DEF WsInv

(* n frames of a direction are received. *)
Receives(d, n) ==
    /\ n \in Nat /\ n >= 1 /\ n <= Len(wire[d])
    /\ wire' = [wire EXCEPT ![d] = SubSeq(@, n + 1, Len(@))]
    /\ UNCHANGED <<handshake, sent, sender>>

(* A receive leaves the frames behind it on the wire.                      *)
LEMMA ReceiveStep ==
    ASSUME WsInv, NEW d \in Directions, NEW n, Receives(d, n)
    PROVE  /\ WireIs(wire'[d], sent[d], sender[d]) /\ wire' \in [Directions -> Seq(Frames)]
           /\ Len(wire'[d]) = Len(wire[d]) - n /\ delivered(d)' = delivered(d) + n
           /\ delivered(d) \in Nat /\ wire[d][1].id = delivered(d) + 1 /\ wire[d][1] \in Frames
           /\ wire[d][1].kind \in {"rest", "last"}
              \/ is_frame_deflated(wire[d][1]) = wire[d][1].deflated
           /\ n = 1 => (IF Len(wire'[d]) = 0 THEN sender[d] ELSE wire'[d][1].ctx) = Behind(wire[d][1])
           /\ \A e \in Directions : e # d => wire'[e] = wire[e]
           /\ delivered(d) + 1 <= sent[d] /\ sent[d] <= MaxFrames /\ sent[d] \in Nat
<1>t. /\ wire \in [Directions -> Seq(Frames)] /\ sent[d] \in Nat /\ wire[d] \in Seq(Frames)
      /\ Len(wire[d]) \in Nat /\ WireIs(wire[d], sent[d], sender[d]) /\ sent[d] <= MaxFrames
  BY DEF WsInv, WsTypes, WsDir
<1>1. n \in 1 .. Len(wire[d]) /\ n \in Nat /\ n >= 1 /\ sent' = sent /\ n <= Len(wire[d])
  BY <1>t DEF Receives
<1>2. wire'[d] = SubSeq(wire[d], n + 1, Len(wire[d]))
      /\ \A e \in Directions : e # d => wire'[e] = wire[e]
  BY <1>t DEF Receives
<1>3. /\ WireIs(wire'[d], sent[d], sender[d]) /\ Len(wire'[d]) = Len(wire[d]) - n
      /\ wire'[d] \in Seq(Frames)
      /\ n = 1 => (IF Len(wire'[d]) = 0 THEN sender[d] ELSE wire'[d][1].ctx) = Behind(wire[d][1])
  <2>1. wire'[d] = SubSeq(wire[d], n + 1, Len(wire[d])) /\ n \in 1 .. Len(wire[d])
    BY <1>1, <1>2
  <2>2. GoesOn(wire[d], sent[d], sender[d], n, wire'[d])
    BY <1>t, <2>1, WireGoesOn
  <2> QED
    BY <2>2 DEF GoesOn
<1>4. wire' \in [Directions -> Seq(Frames)]
  BY <1>t, <1>2, <1>3 DEF Receives
<1>5. 1 \in 1 .. Len(wire[d])
  BY <1>t, <1>1
<1>6. /\ wire[d][1].id = sent[d] - Len(wire[d]) + 1 /\ Len(wire[d]) <= sent[d]
      /\ wire[d][1].kind \in {"rest", "last"} \/ is_frame_deflated(wire[d][1]) = wire[d][1].deflated
  BY <1>t, <1>5 DEF WireIs
<1>7. wire[d][1] \in Frames
  BY <1>t, <1>5
<1>8. delivered(d)' = delivered(d) + n /\ delivered(d) \in Nat
      /\ wire[d][1].id = delivered(d) + 1 /\ delivered(d) + 1 <= sent[d]
  <2>1. delivered(d)' = sent[d] - (Len(wire[d]) - n)
    BY <1>1, <1>3 DEF delivered
  <2>2. delivered(d) = sent[d] - Len(wire[d]) /\ Len(wire[d]) \in Nat /\ sent[d] \in Nat
        /\ n \in Nat /\ Len(wire[d]) <= sent[d] /\ n >= 1 /\ n <= Len(wire[d])
        /\ wire[d][1].id = sent[d] - Len(wire[d]) + 1
    BY <1>t, <1>1, <1>6, Zenon DEF delivered
  <2> HIDE DEF delivered
  <2>3. delivered(d)' = delivered(d) + n /\ delivered(d) \in Nat /\ delivered(d) + 1 <= sent[d]
    BY <2>1, <2>2
  <2>4. wire[d][1].id = delivered(d) + 1
    BY <2>2
  <2> QED
    BY <2>3, <2>4
<1> QED
  BY <1>t, <1>1, <1>2, <1>3, <1>4, <1>6, <1>7, <1>8

(* A list grown by one is the list with a list of one behind it. *)
LEMMA AppendedOne ==
    ASSUME NEW S, NEW l \in Seq(S), NEW x \in S
    PROVE  Append(l, x) = l \o <<x>>
<1>1. /\ Append(l, x) \in Seq(S) /\ Len(l) \in Nat /\ Len(Append(l, x)) = Len(l) + 1
      /\ Append(l, x)[Len(l) + 1] = x /\ \A j \in 1 .. Len(l) : Append(l, x)[j] = l[j]
  BY Grown
<1> DEFINE one == <<x>>
<1>2. one \in Seq(S) /\ Len(one) = 1 /\ one[1] = x
  OBVIOUS
<1> HIDE DEF one
<1>3. /\ l \o one \in Seq(S) /\ Len(l \o one) = Len(l) + Len(one)
      /\ \A k \in 1 .. Len(l) + Len(one) :
            (l \o one)[k] = IF k <= Len(l) THEN l[k] ELSE one[k - Len(l)]
  BY <1>2, ConcatProperties
<1>4. \A k \in 1 .. Len(l) + 1 : Append(l, x)[k] = (l \o one)[k]
  <2> TAKE k \in 1 .. Len(l) + 1
  <2>1. CASE k \in 1 .. Len(l)
    BY <1>1, <1>2, <1>3, <2>1
  <2>2. CASE k = Len(l) + 1
    BY <1>1, <1>2, <1>3, <2>2
  <2>3. k \in 1 .. Len(l) \/ k = Len(l) + 1
    BY <1>1
  <2> QED
    BY <2>1, <2>2, <2>3, Zenon
<1>5. Append(l, x) = l \o one
  BY <1>1, <1>2, <1>3, <1>4, SeqEqual
<1> QED
  BY <1>5 DEF one

(* What a frame is read as: nothing, or one pair that says which it was. *)
LEMMA ReadAs ==
    ASSUME NEW d \in Directions, NEW f \in Frames
    PROVE  \/ f.kind \in {"rest", "last"} /\ read_as(d, f) = <<>>
           \/ f.kind \notin {"rest", "last"}
              /\ \E v \in {f.id, 0} :
                    /\ read_as(d, f) = << <<f.id, v>> >>
                    /\ f.ctx = contexts[d] => v = f.id
<1>1. CASE f.kind \in {"rest", "last"}
  BY <1>1 DEF read_as
<1>2. CASE f.kind \notin {"rest", "last"} /\ is_frame_deflated(f) /\ f.ctx # contexts[d]
  BY <1>2, Zenon DEF read_as, context_of, Garbage
<1>3. CASE f.kind \notin {"rest", "last"} /\ ~(is_frame_deflated(f) /\ f.ctx # contexts[d])
  <2>1. read_as(d, f) = << <<f.id, f.id>> >>
    BY <1>3, Zenon DEF read_as, context_of
  <2> QED
    BY <1>3, <2>1
<1> QED
  BY <1>1, <1>2, <1>3

(* A receive is parsed. *)
LEMMA ParseStep ==
    ASSUME WsInv, NEW d \in Directions, NEW n \in 1 .. 2, parses(d, n)
    PROVE  WsInv'
<1> DEFINE f == wire[d][1]
<1>t. /\ wire \in [Directions -> Seq(Frames)] /\ wire[d] \in Seq(Frames) /\ Len(wire[d]) \in Nat
      /\ contexts \in [Directions -> Seq(0 .. MaxFrames)] /\ contexts[d] \in Seq(0 .. MaxFrames)
      /\ parsed \in [Directions -> Seq(Nat \X Nat)] /\ parsed[d] \in Seq(Nat \X Nat)
      /\ one_by_one \in [Directions -> BOOLEAN] /\ cut \in [Directions -> BOOLEAN]
      /\ WsDir(d)
  BY DEF WsInv, WsTypes
<1>0. n \in Nat /\ n >= 1 /\ n <= Len(wire[d]) /\ ~cut[d]
  BY DEF parses
<1>h. Head(wire[d]) = f
  BY <1>t, <1>0
<1>1. /\ parsed' = [parsed EXCEPT ![d] = @ \o read_as(d, f)]
      /\ contexts' = IF is_frame_deflated(f)
                     THEN [contexts EXCEPT ![d] = Append(@, f.id)] ELSE contexts
      /\ one_by_one' = [one_by_one EXCEPT ![d] =
                          @ /\ n = 1 /\ f.kind \in {"message", "control"}]
      /\ UNCHANGED <<handshake, sent, fragmented, sender, cut>>
  BY <1>h, Zenon DEF parses, context_of
<1>2. Receives(d, n)
  BY <1>0, <1>1 DEF parses, Receives
<1>3. /\ WireIs(wire'[d], sent[d], sender[d]) /\ wire' \in [Directions -> Seq(Frames)]
      /\ delivered(d)' = delivered(d) + n
      /\ delivered(d) \in Nat /\ f.id = delivered(d) + 1 /\ f \in Frames
      /\ f.kind \in {"rest", "last"} \/ is_frame_deflated(f) = f.deflated
      /\ n = 1 => (IF Len(wire'[d]) = 0 THEN sender[d] ELSE wire'[d][1].ctx) = Behind(f)
      /\ \A e \in Directions : e # d => wire'[e] = wire[e]
      /\ delivered(d) + 1 <= sent[d] /\ sent[d] <= MaxFrames /\ sent[d] \in Nat
  BY <1>2, ReceiveStep
<1> HIDE DEF f
<1>4. /\ parsed'[d] = parsed[d] \o read_as(d, f)
      /\ contexts'[d] = IF is_frame_deflated(f) THEN Append(contexts[d], f.id) ELSE contexts[d]
      /\ one_by_one'[d] = (one_by_one[d] /\ n = 1 /\ f.kind \in {"message", "control"})
      /\ \A e \in Directions : e # d =>
            parsed'[e] = parsed[e] /\ contexts'[e] = contexts[e] /\ one_by_one'[e] = one_by_one[e]
  BY <1>t, <1>1
<1>5. f.id \in Nat /\ f.id \in 0 .. MaxFrames
  <2>1. f.id \in Nat
    BY <1>3 DEF Frames
  <2> HIDE DEF delivered
  <2>2. f.id <= MaxFrames
    <3>1. /\ f.id = delivered(d) + 1 /\ delivered(d) \in Nat /\ delivered(d) + 1 <= sent[d]
          /\ sent[d] <= MaxFrames /\ sent[d] \in Nat /\ MaxFrames \in Nat
      BY <1>3, FramesAssumption, Zenon
    <3> QED
      BY <3>1
  <2> QED
    BY <2>1, <2>2, FramesAssumption
<1>6. parsed'[d] \in Seq(Nat \X Nat) /\ ReadIs(parsed'[d], delivered(d) + n)
  <2>0. ReadIs(parsed[d], delivered(d)) /\ delivered(d) + n \in Nat
        /\ delivered(d) <= delivered(d) + n /\ delivered(d) < f.id /\ f.id <= delivered(d) + n
        /\ delivered(d) \in Nat
    <3>1. delivered(d) \in Nat /\ f.id = delivered(d) + 1 /\ n \in Nat /\ n >= 1
      BY <1>0, <1>3, Zenon
    <3>2. ReadIs(parsed[d], delivered(d))
      BY <1>t DEF WsDir
    <3> HIDE DEF delivered
    <3> QED
      BY <3>1, <3>2
  <2> HIDE DEF delivered
  <2>1. CASE read_as(d, f) = <<>>
    <3>1. parsed'[d] = parsed[d]
      BY <1>t, <1>4, <2>1
    <3> QED
      BY <1>t, <1>5, <2>0, <3>1, ReadsOn
  <2>2. CASE \E v \in {f.id, 0} : read_as(d, f) = << <<f.id, v>> >>
    <3>1. PICK v \in {f.id, 0} : read_as(d, f) = << <<f.id, v>> >>
      BY <2>2
    <3>2. parsed'[d] = parsed[d] \o << <<f.id, v>> >>
      BY <1>4, <3>1
    <3> QED
      BY <1>t, <1>5, <2>0, <3>2, ReadsOn
  <2> QED
    BY <1>3, <2>1, <2>2, ReadAs
<1>7. contexts'[d] \in Seq(0 .. MaxFrames)
  <2>1. Append(contexts[d], f.id) \in Seq(0 .. MaxFrames)
    BY <1>t, <1>5, Grown
  <2> QED
    BY <1>t, <1>4, <2>1
<1>8. WsTypes'
  <2>1. parsed' \in [Directions -> Seq(Nat \X Nat)]
    BY <1>t, <1>1, <1>4, <1>6
  <2>2. contexts' \in [Directions -> Seq(0 .. MaxFrames)]
    BY <1>t, <1>1, <1>4, <1>7
  <2>3. one_by_one' \in [Directions -> BOOLEAN]
    BY <1>t, <1>1
  <2> QED
    BY <1>1, <1>3, <2>1, <2>2, <2>3 DEF WsInv, WsTypes
<1>9. one_by_one'[d] => Alike(d)'
  <2> SUFFICES ASSUME one_by_one'[d] PROVE Alike(d)'
    OBVIOUS
  <2>1. one_by_one[d] /\ n = 1 /\ f.kind \notin {"rest", "last"}
    BY <1>4
  <2>2. Alike(d)
    BY <1>t, <2>1 DEF WsDir
  <2>3. f.ctx = contexts[d]
    BY <1>t, <1>0, <2>2 DEF Alike, f
  <2>4. read_as(d, f) = << <<f.id, f.id>> >>
    BY <1>3, <2>1, <2>3, ReadAs
  <2>5. parsed'[d] = Pairs(delivered(d)')
    <3>1. parsed'[d] = Pairs(delivered(d)) \o << <<delivered(d) + 1, delivered(d) + 1>> >>
      BY <1>3, <1>4, <2>2, <2>4 DEF Alike
    <3> QED
      BY <1>3, <2>1, <3>1, PairsGrow
  <2>6. contexts'[d] = Behind(f)
    BY <1>3, <1>4, <2>1, <2>3 DEF Behind
  <2>7. contexts'[d] = IF Len(wire'[d]) = 0 THEN sender'[d] ELSE wire'[d][1].ctx
    BY <1>1, <1>3, <2>1, <2>6
  <2> QED
    BY <1>0, <1>1, <2>5, <2>7 DEF Alike
<1>10. WsDir(d)'
  BY <1>t, <1>0, <1>1, <1>3, <1>6, <1>9 DEF WsDir
<1>11. ASSUME NEW e \in Directions, e # d PROVE WsDir(e)'
  BY <1>1, <1>3, <1>4, <1>11, OtherDirection
<1> QED
  BY <1>8, <1>10, <1>11 DEF WsInv

(* A receive that begins in the middle of a frame. *)
LEMMA MiddleStep ==
    ASSUME WsInv, NEW d \in Directions, NEW n \in 1 .. 2, n >= 1, parses_the_middle(d, n)
    PROVE  WsInv'
<1>t. /\ wire \in [Directions -> Seq(Frames)] /\ wire[d] \in Seq(Frames) /\ Len(wire[d]) \in Nat
      /\ contexts \in [Directions -> Seq(0 .. MaxFrames)]
      /\ parsed \in [Directions -> Seq(Nat \X Nat)] /\ parsed[d] \in Seq(Nat \X Nat)
      /\ one_by_one \in [Directions -> BOOLEAN] /\ cut \in [Directions -> BOOLEAN]
      /\ WsDir(d)
  BY DEF WsInv, WsTypes
<1>0. n \in Nat /\ n >= 1 /\ n <= Len(wire[d])
  BY DEF parses_the_middle
<1>1. /\ cut' = [cut EXCEPT ![d] = FALSE] /\ one_by_one' = [e \in Directions |-> FALSE]
      /\ UNCHANGED <<handshake, sent, fragmented, sender>>
      /\ parsed' = parsed \/ parsed' = [parsed EXCEPT ![d] = Append(@, <<0, 0>>)]
      /\ contexts' = contexts
         \/ \E e \in Directions : contexts' = [contexts EXCEPT ![e] = Append(@, 0)]
  BY DEF parses_the_middle, Garbage
<1>2. Receives(d, n)
  BY <1>0 DEF parses_the_middle, Receives
<1>3. /\ WireIs(wire'[d], sent[d], sender[d]) /\ wire' \in [Directions -> Seq(Frames)]
      /\ delivered(d)' = delivered(d) + n /\ delivered(d) \in Nat
      /\ \A e \in Directions : e # d => wire'[e] = wire[e]
  BY <1>2, ReceiveStep
<1>4. /\ parsed'[d] = parsed[d] \/ parsed'[d] = Append(parsed[d], <<0, 0>>)
      /\ ~cut'[d] /\ \A e \in Directions : ~one_by_one'[e]
      /\ \A e \in Directions : e # d => parsed'[e] = parsed[e] /\ cut'[e] = cut[e]
  BY <1>t, <1>1
<1>5. parsed'[d] \in Seq(Nat \X Nat) /\ ReadIs(parsed'[d], delivered(d) + n)
  <2>0. ReadIs(parsed[d], delivered(d)) /\ delivered(d) \in Nat
        /\ delivered(d) + n \in Nat /\ delivered(d) <= delivered(d) + n
    <3>1. ReadIs(parsed[d], delivered(d)) /\ delivered(d) \in Nat
      BY <1>t, <1>3 DEF WsDir
    <3> HIDE DEF delivered
    <3> QED
      BY <1>0, <3>1
  <2> HIDE DEF delivered
  <2>1. /\ parsed[d] \o << <<0, 0>> >> \in Seq(Nat \X Nat)
        /\ ReadIs(parsed[d] \o << <<0, 0>> >>, delivered(d) + n)
        /\ ReadIs(parsed[d], delivered(d) + n)
    BY <1>t, <2>0, ReadsOn
  <2>2. <<0, 0>> \in Nat \X Nat
    OBVIOUS
  <2>3. Append(parsed[d], <<0, 0>>) = parsed[d] \o << <<0, 0>> >>
    BY <1>t, <2>2, AppendedOne
  <2> QED
    BY <1>t, <1>4, <2>1, <2>3
<1>6. WsTypes'
  <2>1. parsed' \in [Directions -> Seq(Nat \X Nat)]
    BY <1>t, <1>1, <1>4, <1>5
  <2>2. contexts' \in [Directions -> Seq(0 .. MaxFrames)]
    <3>1. 0 \in 0 .. MaxFrames
      BY FramesAssumption
    <3>2. \A e \in Directions : Append(contexts[e], 0) \in Seq(0 .. MaxFrames)
      BY <1>t, <3>1, Grown
    <3> QED
      BY <1>t, <1>1, <3>2
  <2>3. one_by_one' \in [Directions -> BOOLEAN] /\ cut' \in [Directions -> BOOLEAN]
    BY <1>t, <1>1
  <2> QED
    BY <1>1, <1>3, <2>1, <2>2, <2>3 DEF WsInv, WsTypes
<1>7. WsDir(d)'
  BY <1>t, <1>1, <1>3, <1>4, <1>5 DEF WsDir
<1>8. ASSUME NEW e \in Directions, e # d PROVE WsDir(e)'
  BY <1>1, <1>3, <1>4, <1>8, OtherDirection
<1> QED
  BY <1>6, <1>7, <1>8 DEF WsInv

(* A receive ends within a frame: the caller gets None, and only what the  *)
(* connection knows of the wire is changed.                                *)
LEMMA RaiseStep ==
    ASSUME WsInv, NEW d \in Directions, parse_raises(d)
    PROVE  WsInv'
<1>t. /\ wire \in [Directions -> Seq(Frames)] /\ wire[d] \in Seq(Frames)
      /\ one_by_one \in [Directions -> BOOLEAN] /\ cut \in [Directions -> BOOLEAN]
      /\ WsDir(d)
  BY DEF WsInv, WsTypes
<1>1. /\ Len(wire[d]) > 0
      /\ cut' = [cut EXCEPT ![d] = TRUE] /\ one_by_one' = [one_by_one EXCEPT ![d] = FALSE]
      /\ UNCHANGED <<handshake, sent, fragmented, sender, wire, contexts, parsed>>
  BY <1>t DEF parse_raises
<1>2. WsTypes'
  BY <1>t, <1>1 DEF WsInv, WsTypes
<1>3. WsDir(d)'
  BY <1>t, <1>1 DEF WsDir, delivered
<1>4. ASSUME NEW e \in Directions, e # d PROVE WsDir(e)'
  BY <1>t, <1>1, <1>4, OtherDirection
<1> QED
  BY <1>2, <1>3, <1>4 DEF WsInv

(* Each step of the frames keeps their invariant. *)
LEMMA WsStep == WsInv /\ [WsNext]_ws_vars => WsInv'
<1> SUFFICES ASSUME WsInv, [WsNext]_ws_vars PROVE WsInv'
  OBVIOUS
<1>1. ASSUME NEW whole \in BOOLEAN, create_byte_http_response(whole) PROVE WsInv'
  <2>1. handshake' \in {"none", "accepted", "raised"}
        /\ UNCHANGED <<sent, fragmented, sender, wire, cut, contexts, one_by_one, parsed>>
    BY <1>1 DEF create_byte_http_response
  <2>2. WsTypes'
    BY <2>1 DEF WsInv, WsTypes
  <2>3. ASSUME NEW e \in Directions PROVE WsDir(e)'
    BY <2>1, OtherDirection
  <2> QED
    BY <2>2, <2>3 DEF WsInv
<1>2. ASSUME NEW d \in Directions, NEW k \in FrameKinds, NEW z \in BOOLEAN, PeerSends(d, k, z)
      PROVE  WsInv'
  BY <1>2, SendStep
<1>3. ASSUME NEW d \in Directions, NEW n \in 1 .. 2, parses(d, n) PROVE WsInv'
  BY <1>3, ParseStep
<1>4. ASSUME NEW d \in Directions, NEW n \in 1 .. 2, parses_the_middle(d, n) PROVE WsInv'
  <2>1. n >= 1
    OBVIOUS
  <2> QED
    BY <1>4, <2>1, MiddleStep
<1>5. ASSUME NEW d \in Directions, parse_raises(d) PROVE WsInv'
  BY <1>5, RaiseStep
<1>6. CASE UNCHANGED ws_vars
  <2>1. /\ UNCHANGED <<handshake, sent, fragmented, sender, wire, cut>>
        /\ UNCHANGED <<contexts, one_by_one, parsed>>
    BY <1>6 DEF ws_vars
  <2>2. WsTypes'
    BY <2>1 DEF WsInv, WsTypes
  <2>3. ASSUME NEW e \in Directions PROVE WsDir(e)'
    BY <2>1, OtherDirection
  <2> QED
    BY <2>2, <2>3 DEF WsInv
<1> QED
  BY <1>1, <1>2, <1>3, <1>4, <1>5, <1>6 DEF WsNext, FrameKinds

(* What the invariant says of a direction. *)
LEMMA FramesFollow == WsInv => WsTypeOK /\ FramesAsSent
<1> SUFFICES ASSUME WsInv PROVE WsTypeOK /\ FramesAsSent
  OBVIOUS
<1>t. ASSUME NEW d \in Directions
      PROVE  /\ WsDir(d) /\ sent[d] \in Nat /\ contexts[d] \in Seq(0 .. MaxFrames)
             /\ wire[d] \in Seq(Frames) /\ Len(wire[d]) \in Nat
             /\ parsed[d] \in Seq(Nat \X Nat) /\ DOMAIN parsed[d] = 1 .. Len(parsed[d])
  BY DEF WsInv, WsTypes
<1>1. ASSUME NEW d \in Directions
      PROVE  /\ sent[d] \in 0 .. MaxFrames /\ sender[d] \in Seq(1 .. sent[d])
             /\ contexts[d] \in Seq(0 .. MaxFrames)
             /\ Len(wire[d]) <= sent[d] /\ (cut[d] => wire[d] # <<>>)
  <2>1. sent[d] \in 0 .. MaxFrames
    BY <1>t, FramesAssumption DEF WsDir
  <2>2. cut[d] => wire[d] # <<>>
    BY <1>t DEF WsDir
  <2> QED
    BY <1>t, <2>1, <2>2 DEF WsDir, WireIs
<1>2. WsTypeOK
  BY <1>1 DEF WsTypeOK, WsInv, WsTypes
<1>3. ASSUME NEW d \in Directions
      PROVE  /\ one_by_one[d] => parsed[d] = [i \in 1 .. delivered(d) |-> <<i, i>>]
             /\ \A i \in DOMAIN parsed[d] : parsed[d][i][2] \in {parsed[d][i][1], Garbage}
             /\ \A i, j \in DOMAIN parsed[d] :
                  i < j /\ parsed[d][j][1] # Garbage => parsed[d][i][1] < parsed[d][j][1]
  BY <1>t DEF WsDir, Alike, Pairs, ReadIs, Garbage
<1> QED
  BY <1>2, <1>3 DEF FramesAsSent

---------------------------------------------------------------------------
(* The components together.                                                *)

(* Each component is at its start at first. *)
LEMMA PartsAtFirst ==
    MCInit => /\ part \in Parts /\ DnsInit /\ AccInit /\ AdrInit /\ CfgInit /\ WsInit
  BY DEF MCInit

(* A step of the whole, as each component sees it. *)
LEMMA PartsStep ==
    [MCNext]_mc_vars =>
        /\ part' = part /\ [DnsNext]_dnsVars /\ [AccNext]_accVars
        /\ [AddressNext \/ LoopbackDevice]_adr_vars /\ [CfgNext]_cfg_vars /\ [WsNext]_ws_vars
<1>1. CASE MCNext
  BY <1>1 DEF MCNext
<1>2. CASE UNCHANGED mc_vars
  BY <1>2 DEF mc_vars
<1> QED
  BY <1>1, <1>2

(* No component leaves its types, whichever one runs: positions, caches,   *)
(* lists of addresses and frames stay what the code makes of them.         *)
THEOREM TypeCorrect == MCSpec => []NetTypeOK
<1> DEFINE IInv == /\ part \in Parts /\ DnsInv /\ AccTypes /\ AdrInv /\ Devices
                   /\ CfgInv /\ WsInv
<1>1. MCInit => IInv
  BY PartsAtFirst, DnsAtFirst, AccTypesAtFirst, AdrAtFirst, CfgAtFirst, WsAtFirst
<1>2. IInv /\ [MCNext]_mc_vars => IInv'
  <2> SUFFICES ASSUME IInv, [MCNext]_mc_vars PROVE IInv'
    OBVIOUS
  <2>1. AdrInv' /\ Devices'
    BY PartsStep, AdrStep, DevicesStep
  <2> QED
    BY <2>1, PartsStep, DnsStep, AccTypesStep, CfgStep, WsStep
<1>3. IInv => NetTypeOK
  BY DnsAnswersFollow, AddressesFollow, EnginesFollow, FramesFollow DEF NetTypeOK, AccTypes
<1> QED
  BY <1>1, <1>2, <1>3, PTL DEF MCSpec

(* The DNS server answers the question it was asked, from its cache or     *)
(* not; a name of an engine is not asked of the live service, and one that *)
(* is marked to be forwarded has a target, although the two tests compare  *)
(* names differently (dns_server.py).                                      *)
THEOREM TheDnsServerIsRight == MCSpec => []DnsAnswersAreRight
<1>1. MCInit => DnsInv
  BY PartsAtFirst, DnsAtFirst
<1>2. DnsInv /\ [MCNext]_mc_vars => DnsInv'
  BY PartsStep, DnsStep
<1>3. DnsInv => DnsAnswersAreRight
  BY DnsAnswersFollow
<1> QED
  BY <1>1, <1>2, <1>3, PTL DEF MCSpec

(* Clients that speak TLS are served over it, with a certificate that the  *)
(* CA in the file signed, if there is one listening process: several that  *)
(* find no CA each make one (creator.py, socket_wrapper.py).        *)
THEOREM ClientsAreServedAsAsked ==
    ASSUME NEW p, Listeners = {p}
    PROVE  MCSpec => []ServedAsAsked
<1> DEFINE IInv == AccTypes /\ ServedOverTls /\ OneCa
<1>0. CaIsMadeOnce
  BY DEF CaIsMadeOnce
<1>1. MCInit => IInv
  <2> SUFFICES ASSUME MCInit PROVE IInv
    OBVIOUS
  <2>1. AccInit
    BY PartsAtFirst
  <2>2. ServedOverTls
    BY <2>1 DEF AccInit, ServedOverTls
  <2> QED
    BY <1>0, <2>1, <2>2, AccTypesAtFirst, OneCaAtFirst
<1>2. IInv /\ [MCNext]_mc_vars => IInv'
  BY PartsStep, AccTypesStep, TlsStep, OneCaStep
<1>3. IInv => ServedAsAsked
  BY ServedFollows DEF ServedAsAsked
<1> QED
  BY <1>1, <1>2, <1>3, PTL DEF MCSpec

(* The addresses a search finds belong to nobody else when they are found  *)
(* and are as many as were asked for, and of the loopback devices there is *)
(* at most one for each installation that failed and one more              *)
(* (networks.py).                                                          *)
THEOREM FoundAddressesAreOurs == MCSpec => []AddressesAreOurs
<1> DEFINE IInv == AdrInv /\ Devices
<1>1. MCInit => IInv
  BY PartsAtFirst, AdrAtFirst
<1>2. IInv /\ [MCNext]_mc_vars => IInv'
  BY PartsStep, AdrStep, DevicesStep
<1>3. IInv => AddressesAreOurs
  BY AddressesFollow
<1> QED
  BY <1>1, <1>2, <1>3, PTL DEF MCSpec

(* The server starts with all directories of engines or with none, and     *)
(* with settings it can keep; a name that an engine lists reaches an       *)
(* engine, and one that none resembles reaches none (config_static.py,     *)
(* import_config.py, initialize_engines.py).                               *)
THEOREM AcceptedEnginesAreAsConfigured == MCSpec => []EnginesAsConfigured
<1>1. MCInit => CfgInv
  BY PartsAtFirst, CfgAtFirst
<1>2. CfgInv /\ [MCNext]_mc_vars => CfgInv'
  BY PartsStep, CfgStep
<1>3. CfgInv => EnginesAsConfigured
  BY EnginesFollow
<1> QED
  BY <1>1, <1>2, <1>3, PTL DEF MCSpec

(* While each receive of a direction is one frame of one message, the      *)
(* frames are parsed as they were sent, whatever the other direction and   *)
(* its thread do to the shared parser; and no receive ever makes one frame *)
(* look like another (websocket_parse.py).                          *)
THEOREM FramesAreParsedAsSent == MCSpec => []FramesAsSent
<1>1. MCInit => WsInv
  BY PartsAtFirst, WsAtFirst
<1>2. WsInv /\ [MCNext]_mc_vars => WsInv'
  BY PartsStep, WsStep
<1>3. WsInv => FramesAsSent
  BY FramesFollow
<1> QED
  BY <1>1, <1>2, <1>3, PTL DEF MCSpec
=====================
