--------------------------- MODULE SSHBrokerProofs ---------------------------
(***************************************************************************)
(* Proofs about SSHBroker, for any callers, processes, computers, size of  *)
(* the pool and troubles: a computer's connection has one user and one     *)
(* closer, _pending holds no caller that has returned, and a caller gets   *)
(* an answer of its own or an excuse (the safety part of LookupService).   *)
(***************************************************************************)
EXTENDS SSHBroker, SequenceTheorems, TLAPS

(* What the broker finds out about a caller. *)
FoundOf(c) == {[kind |-> k, of |-> c] : k \in {"command_line", "error"}}

(* A request is in one place: with its caller, in a queue, with the pool,  *)
(* or with its handler.                                                    *)
NotYetAsked == \A c \in Callers : cpc[c] \in {"idle", "put"} => hpc[c] = "none"
RequestsOnce ==
    \A w \in Workers : \A i \in DOMAIN requestQueue[w] :
       /\ WorkerOf[requestQueue[w][i]] = w
       /\ hpc[requestQueue[w][i]] = "none"
       /\ cpc[requestQueue[w][i]] \notin {"idle", "put"}
       /\ \A j \in DOMAIN requestQueue[w] :
            requestQueue[w][j] = requestQueue[w][i] => j = i
TasksOnce ==
    \A i \in DOMAIN tasks :
       /\ hpc[tasks[i]] = "queued"
       /\ \A j \in DOMAIN tasks : tasks[j] = tasks[i] => j = i

(* Who is inside "with host_lock" holds the lock. *)
Held == \A c \in Callers : hpc[c] \in LockedPcs => hostLock[host[c]] = c

(* An SSHRemote object stays with the computer it was made for. *)
AtHome ==
    /\ \A h \in Hosts : clients[h] # NoOne => host[clients[h]] = h
    /\ \A c \in Callers : client[c] # NoOne => host[client[c]] = host[c]
    /\ \A c \in Callers : popped[c] # NoOne =>
          hpc[c] = "closing" /\ host[popped[c]] = host[c]

(* While the broker serves, a handler uses the object of its computer, and *)
(* what is connected is that object or about to be closed.                 *)
UsesTheHosts ==
    \A c \in Callers : hpc[c] \in UsingPcs \cup {"failed"} =>
       /\ client[c] # NoOne
       /\ bpc = "serving" => clients[host[c]] = client[c]
NoneWhileClosing ==
    bpc = "serving" => \A c \in Callers : hpc[c] = "closing" => clients[host[c]] = NoOne
ConnectedIsKnown ==
    bpc = "serving" => \A x \in connected :
       \/ clients[host[x]] = x
       \/ \E c \in Callers : hpc[c] = "closing" /\ popped[c] = x

(* A slot is in _pending, or in the hand of the reader, or filled, but     *)
(* never twice, and only while its caller is in lookup() or has left it.   *)
PendingAsk ==
    \A w \in Workers : \A c \in pending[w] :
       WorkerOf[c] = w /\ cpc[c] \in {"put", "get", "give_up"}
SlotsAreTaken ==
    \A c \in Callers : slot[c] # NoResult => c \notin pending[WorkerOf[c]] /\ cpc[c] # "idle"
HeldByReader ==
    \A w \in Workers : rpc[w] = "put" => \A c \in item[w].to :
       WorkerOf[c] = w /\ c \notin pending[w] /\ cpc[c] # "idle"

(* An id names one caller of a process, and what goes to it is about it.   *)
IdsAreOwn ==
    \A c, d \in Callers :
       cpc[c] # "idle" =>
          /\ id[c] < nextId[WorkerOf[c]]
          /\ cpc[d] # "idle" /\ WorkerOf[c] = WorkerOf[d] /\ id[c] = id[d] => c = d
AnswerTo(w, m) ==
    \E c \in Callers : /\ WorkerOf[c] = w /\ cpc[c] # "idle" /\ id[c] = m.id
                       /\ m.result \in FoundOf(c)
AnswersAreOwn ==
    /\ \A c \in Callers : hpc[c] \in {"failed", "closing", "respond"} => found[c] \in FoundOf(c)
    /\ \A w \in Workers : \A i \in DOMAIN responseQueue[w] : AnswerTo(w, responseQueue[w][i])
    /\ \A w \in Workers : rpc[w] = "pop" => AnswerTo(w, item[w])
    /\ \A w \in Workers : rpc[w] = "put" => \A c \in item[w].to : item[w].result \in FoundOf(c)
    /\ \A c \in Callers : slot[c] # NoResult => slot[c] \in FoundOf(c)
    /\ \A c \in Callers : cpc[c] = "give_up" => result[c] \in Service!Excuses

RequestsInv == NotYetAsked /\ RequestsOnce /\ TasksOnce
HostsInv == Held /\ AtHome /\ UsesTheHosts /\ NoneWhileClosing /\ ConnectedIsKnown
SlotsInv == PendingAsk /\ SlotsAreTaken /\ HeldByReader /\ NoPendingLeak
AnswersInv == IdsAreOwn /\ AnswersAreOwn
IInv == TypeOK /\ RequestsInv /\ HostsInv /\ SlotsInv /\ AnswersInv

-----------------------------------------------------------------------------
(* The two sides of a request: the processes that ask, and the broker.     *)
CallerStep ==
    \/ \E c \in Callers : lookup(c) \/ Wait(c)
    \/ \E w \in Workers : Reader(w)
BrokerStep == (\E c \in Callers : Handler(c)) \/ Dispatcher \/ Environment

(* Every step is of one side, or changes nothing.                          *)
LEMMA TwoSides == [Next]_vars => CallerStep \/ BrokerStep \/ UNCHANGED vars
BY DEF Next, CallerStep, BrokerStep, Terminating

(* Those that ask share nothing with the broker but the queues.            *)
LEMMA CallerFrame == CallerStep => UNCHANGED <<host, brokerVars, handlerVars, sshVars>>
BY DEF CallerStep, Wait, Reader, lookup, request_put, request_put_raises, slot_get,
    slot_timeout, give_up, reader_get, reader_pop, reader_put

(* Nor does the broker with them.                                          *)
LEMMA BrokerFrame == BrokerStep => UNCHANGED <<host, callerVars, clientVars>>
BY DEF BrokerStep, Handler, Dispatcher, Environment, take, host_lock, get_or_create_client,
    create_raises, connect, run_lookup, query_stalls, run_lookup_raises, forget_client_pop,
    forget_client_close, respond, serve_forever, shutdown, shutdown_pop, shutdown_close,
    shutdown_returns, terminate, connection_lost

(* An empty slot, and a reader that holds nothing, have their types.       *)
LEMMA NothingIsTyped == NoResult \in Results /\ NoItem \in Items
<1>1. NoResult \in Results
    BY DEF NoResult, Results
<1> QED BY <1>1 DEF NoItem, Items

(* IInv holds at the start.                                                *)
LEMMA InitInv == Init => IInv
<1> SUFFICES ASSUME Init PROVE IInv
    OBVIOUS
<1>r. NoResult \in Results /\ NoItem \in Items
    BY NothingIsTyped
<1> USE DEF Init
<1>1. TypeOK
  <2>1. /\ slot \in [Callers -> Results] /\ result \in [Callers -> Results]
        /\ found \in [Callers -> Results] /\ item \in [Workers -> Items]
    BY <1>r
  <2>2. /\ requestQueue \in [Workers -> Seq(Callers)]
        /\ responseQueue \in [Workers -> Seq(Items)] /\ tasks \in Seq(Callers)
    OBVIOUS
  <2>3. /\ cpc \in [Callers -> CallerPcs] /\ hpc \in [Callers -> HandlerPcs]
        /\ rpc \in [Workers -> {"get", "pop", "put"}]
    BY DEF CallerPcs, HandlerPcs
  <2>4. /\ nextId \in [Workers -> Nat] /\ id \in [Callers -> Nat]
        /\ pending \in [Workers -> SUBSET Callers]
    OBVIOUS
  <2> QED BY <2>1, <2>2, <2>3, <2>4 DEF TypeOK
<1>2. RequestsInv /\ HostsInv
    BY DEF RequestsInv, NotYetAsked, RequestsOnce, TasksOnce, HostsInv, Held, AtHome,
        UsesTheHosts, NoneWhileClosing, ConnectedIsKnown, LockedPcs, UsingPcs, Closers
<1>3. SlotsInv /\ AnswersInv
    BY DEF SlotsInv, PendingAsk, SlotsAreTaken, HeldByReader, NoPendingLeak, AnswersInv,
        IdsAreOwn, AnswersAreOwn
<1> QED BY <1>1, <1>2, <1>3 DEF IInv

-----------------------------------------------------------------------------
(* A queue without its head, and with one more.                            *)
LEMMA QueueTypes ==
    ASSUME NEW S, NEW q \in Seq(S)
    PROVE  /\ \A x \in S : Append(q, x) \in Seq(S)
           /\ q # <<>> => Head(q) \in S /\ Tail(q) \in Seq(S)
OBVIOUS

(* The processes that ask keep the types.                                  *)
LEMMA TypeCaller == TypeOK /\ CallerStep => TypeOK'
<1> SUFFICES ASSUME TypeOK, CallerStep PROVE TypeOK'
    OBVIOUS
<1> USE DEF TypeOK, clientVars, callerVars, queueVars
<1>f. UNCHANGED <<host, brokerVars, handlerVars, sshVars>>
    BY CallerFrame
<1>u. /\ host' = host /\ bpc' = bpc /\ closing' = closing /\ tasks' = tasks /\ hpc' = hpc
      /\ hostLock' = hostLock /\ client' = client /\ found' = found /\ clients' = clients
      /\ popped' = popped /\ connected' = connected
    BY <1>f DEF brokerVars, handlerVars, sshVars
<1>1. ASSUME NEW c \in Callers, lookup(c) PROVE TypeOK'
  <2> DEFINE w == WorkerOf[c]
  <2>1. w \in Workers /\ nextId[w] \in Nat /\ nextId[w] + 1 \in Nat
    BY WorkersAssumption
  <2>2. /\ id' = [id EXCEPT ![c] = nextId[w]] /\ nextId' = [nextId EXCEPT ![w] = nextId[w] + 1]
        /\ pending' = [pending EXCEPT ![w] = pending[w] \cup {c}]
        /\ cpc' = [cpc EXCEPT ![c] = "put"]
        /\ UNCHANGED <<result, slot, rpc, item, requestQueue, responseQueue>>
    BY <1>1 DEF lookup
  <2> HIDE DEF w
  <2>3. /\ id' \in [Callers -> Nat] /\ nextId' \in [Workers -> Nat]
        /\ pending' \in [Workers -> SUBSET Callers] /\ cpc' \in [Callers -> CallerPcs]
    BY <2>1, <2>2 DEF CallerPcs
  <2> QED BY <2>2, <2>3, <1>u
<1>2. ASSUME NEW c \in Callers, request_put(c) PROVE TypeOK'
  <2> DEFINE w == WorkerOf[c]
  <2>1. w \in Workers /\ Append(requestQueue[w], c) \in Seq(Callers)
    BY WorkersAssumption, QueueTypes
  <2>2. /\ requestQueue' = [requestQueue EXCEPT ![w] = Append(requestQueue[w], c)]
        /\ cpc' = [cpc EXCEPT ![c] = "get"]
        /\ UNCHANGED <<id, nextId, pending, result, slot, rpc, item, responseQueue>>
    BY <1>2 DEF request_put
  <2> HIDE DEF w
  <2>3. requestQueue' \in [Workers -> Seq(Callers)] /\ cpc' \in [Callers -> CallerPcs]
    BY <2>1, <2>2 DEF CallerPcs
  <2> QED BY <2>2, <2>3, <1>u
<1>3. ASSUME NEW c \in Callers, request_put_raises(c) \/ slot_timeout(c) PROVE TypeOK'
  <2>1. \A k \in {"client_error", "timeout"} : [kind |-> k, of |-> NoOne] \in Results
    BY DEF Results
  <2>2. /\ \E r \in Results : result' = [result EXCEPT ![c] = r]
        /\ cpc' = [cpc EXCEPT ![c] = "give_up"]
        /\ UNCHANGED <<id, nextId, pending, slot, rpc, item, requestQueue, responseQueue>>
    BY <1>3, <2>1 DEF request_put_raises, slot_timeout
  <2> QED BY <2>2, <1>u DEF CallerPcs
<1>4. ASSUME NEW c \in Callers, slot_get(c) PROVE TypeOK'
    BY <1>4, <1>u DEF slot_get, CallerPcs, Results, NoResult
<1>5. ASSUME NEW c \in Callers, give_up(c) PROVE TypeOK'
    BY <1>5, <1>u, WorkersAssumption DEF give_up, CallerPcs
<1>6. ASSUME NEW w \in Workers, reader_get(w) PROVE TypeOK'
    BY <1>6, <1>u, QueueTypes DEF reader_get
<1>7. ASSUME NEW w \in Workers, reader_pop(w) PROVE TypeOK'
  <2>1. Owners(w) \in SUBSET Callers
    BY DEF Owners
  <2>2. [item[w] EXCEPT !.to = Owners(w)] \in Items
    <3>1. item[w] \in Items
      OBVIOUS
    <3> QED BY ONLY <2>1, <3>1 DEF Items
  <2>3. item' = [item EXCEPT ![w] = [item[w] EXCEPT !.to = Owners(w)]]
    BY <1>7 DEF reader_pop
  <2>4. item' \in [Workers -> Items]
    BY <2>2, <2>3
  <2> QED BY <1>7, <1>u, <2>1, <2>4 DEF reader_pop
<1>8. ASSUME NEW w \in Workers, reader_put(w) PROVE TypeOK'
  <2>1. item[w].result \in Results
    BY DEF Items
  <2>2. NoItem \in Items
    BY DEF Items, NoItem, Results, NoResult, NoOne
  <2> QED BY <1>8, <1>u, <2>1, <2>2 DEF reader_put
<1> QED BY <1>1, <1>2, <1>3, <1>4, <1>5, <1>6, <1>7, <1>8 DEF CallerStep, Wait, Reader

(* The broker keeps the types: what connects is an object of a handler.    *)
LEMMA TypeBroker == TypeOK /\ UsesTheHosts /\ BrokerStep => TypeOK'
<1> SUFFICES ASSUME TypeOK, UsesTheHosts, BrokerStep PROVE TypeOK'
    OBVIOUS
<1> USE DEF TypeOK, brokerVars, handlerVars, sshVars, queueVars
<1>f. UNCHANGED <<host, callerVars, clientVars>>
    BY BrokerFrame
<1>u. /\ host' = host /\ cpc' = cpc /\ nextId' = nextId /\ id' = id /\ pending' = pending
      /\ slot' = slot /\ result' = result /\ rpc' = rpc /\ item' = item
    BY <1>f DEF callerVars, clientVars
<1>e. \A c \in Callers : Error(c) \in Results
    BY DEF Error, Results
<1>n. NoResult \in Results
    BY NothingIsTyped
<1>1. ASSUME NEW c \in Callers, take(c) PROVE TypeOK'
    BY <1>1, <1>u, QueueTypes DEF take, HandlerPcs
<1>2. ASSUME NEW c \in Callers, host_lock(c) PROVE TypeOK'
    BY <1>2, <1>u DEF host_lock, HandlerPcs
<1>3. ASSUME NEW c \in Callers, get_or_create_client(c) PROVE TypeOK'
    BY <1>3, <1>u DEF get_or_create_client, HandlerPcs
<1>4. ASSUME NEW c \in Callers, create_raises(c) PROVE TypeOK'
    BY <1>4, <1>u, <1>e DEF create_raises, Release, HandlerPcs
<1>5. ASSUME NEW c \in Callers, query_stalls(c) PROVE TypeOK'
    BY <1>5, <1>u DEF query_stalls, HandlerPcs
<1>6. ASSUME NEW c \in Callers, run_lookup(c) PROVE TypeOK'
  <2>1. \E r \in Results : found' = [found EXCEPT ![c] = r]
    BY <1>6, <1>e DEF run_lookup, Results
  <2>2. found' \in [Callers -> Results]
    BY <2>1
  <2> QED BY <1>6, <1>u, <2>2 DEF run_lookup, Release, HandlerPcs
<1>7. ASSUME NEW c \in Callers, run_lookup_raises(c) PROVE TypeOK'
    BY <1>7, <1>u, <1>e DEF run_lookup_raises, HandlerPcs
<1>8. ASSUME NEW c \in Callers, forget_client_pop(c) PROVE TypeOK'
    BY <1>8, <1>u DEF forget_client_pop, HandlerPcs
<1>9. ASSUME NEW c \in Callers, forget_client_close(c) PROVE TypeOK'
    BY <1>9, <1>u DEF forget_client_close, Release, HandlerPcs
<1>10. ASSUME NEW c \in Callers, respond(c) PROVE TypeOK'
  <2> DEFINE m == [id |-> id[c], result |-> found[c], to |-> {}]
  <2>1. m \in Items
    BY DEF Items
  <2>2. \A w \in Workers : Append(responseQueue[w], m) \in Seq(Items)
    BY <2>1, QueueTypes
  <2> HIDE DEF m
  <2>3. \/ responseQueue' = responseQueue
        \/ responseQueue' = [w \in Workers |-> IF w \in Destinations(c)
                                                 THEN Append(responseQueue[w], m)
                                                 ELSE responseQueue[w]]
    BY <1>10 DEF respond, m
  <2>4. responseQueue' \in [Workers -> Seq(Items)]
    BY <2>2, <2>3
  <2> QED BY <1>10, <1>u, <1>n, <2>4 DEF respond, HandlerPcs
<1>11. ASSUME NEW w \in Workers, serve_forever(w) PROVE TypeOK'
  <2>1. Head(requestQueue[w]) \in Callers /\ Tail(requestQueue[w]) \in Seq(Callers)
    BY <1>11, QueueTypes DEF serve_forever
  <2>2. Append(tasks, Head(requestQueue[w])) \in Seq(Callers)
    BY <2>1, QueueTypes
  <2> QED BY <1>11, <1>u, <2>1, <2>2 DEF serve_forever, HandlerPcs
<1>12. ASSUME shutdown \/ shutdown_returns PROVE TypeOK'
    BY <1>12, <1>u DEF shutdown, shutdown_returns
<1>13. ASSUME NEW h \in Hosts, shutdown_pop(h) PROVE TypeOK'
    BY <1>13, <1>u DEF shutdown_pop, Closers
<1>14. ASSUME shutdown_close PROVE TypeOK'
    BY <1>14, <1>u DEF shutdown_close
<1>15. ASSUME NEW x \in connected, connection_lost(x) PROVE TypeOK'
    BY <1>15, <1>u DEF connection_lost
<1>16. ASSUME terminate PROVE TypeOK'
  <2>1. PICK kept \in [Workers -> 0..Cardinality(Callers)] :
           /\ \A w \in Workers : kept[w] <= Len(responseQueue[w])
           /\ responseQueue' = [w \in Workers |-> SubSeq(responseQueue[w], 1, kept[w])]
    BY <1>16 DEF terminate
  <2>2. \A w \in Workers : SubSeq(responseQueue[w], 1, kept[w]) \in Seq(Items)
    <3> TAKE w \in Workers
    <3>1. kept[w] \in 0 .. Cardinality(Callers) /\ kept[w] <= Len(responseQueue[w])
      BY <2>1
    <3>2. kept[w] \in Int /\ responseQueue[w] \in Seq(Items)
      BY <3>1
    <3> QED BY <3>1, <3>2, SubSeqProperties
  <2>3. responseQueue' \in [Workers -> Seq(Items)]
    BY <2>1, <2>2
  <2>4. hpc' \in [Callers -> HandlerPcs] /\ found' \in [Callers -> Results]
    BY <1>16, <1>n DEF terminate, HandlerPcs
  <2>5. /\ requestQueue' = requestQueue /\ closing' = {} /\ tasks' = <<>> /\ bpc' = "killed"
        /\ hostLock' = [h \in Hosts |-> NoOne] /\ client' = [c \in Callers |-> NoOne]
        /\ clients' = [h \in Hosts |-> NoOne] /\ popped' = [c \in Closers |-> NoOne]
        /\ connected' = {}
    BY <1>16 DEF terminate
  <2>6. /\ hostLock' \in [Hosts -> Callers \cup {NoOne}]
        /\ clients' \in [Hosts -> Callers \cup {NoOne}]
        /\ client' \in [Callers -> Callers \cup {NoOne}]
        /\ popped' \in [Closers -> Callers \cup {NoOne}]
        /\ tasks' \in Seq(Callers)
    BY <2>5
  <2>7. /\ host' \in [Callers -> Hosts] /\ cpc' \in [Callers -> CallerPcs]
        /\ nextId' \in [Workers -> Nat] /\ id' \in [Callers -> Nat]
        /\ pending' \in [Workers -> SUBSET Callers] /\ slot' \in [Callers -> Results]
        /\ result' \in [Callers -> Results] /\ requestQueue' \in [Workers -> Seq(Callers)]
        /\ rpc' \in [Workers -> {"get", "pop", "put"}] /\ item' \in [Workers -> Items]
    BY <1>u, <2>5
  <2>8. bpc' \in {"serving", "forgetting", "stopped", "killed"} /\ closing' \subseteq Hosts
        /\ connected' \subseteq Callers
    BY <2>5
  <2> QED BY ONLY <2>3, <2>4, <2>6, <2>7, <2>8 DEF TypeOK
<1> HIDE DEF TypeOK, brokerVars, handlerVars, sshVars, queueVars
<1>h. ASSUME NEW c \in Callers, Handler(c) PROVE TypeOK'
  <2>1. CASE take(c) \/ host_lock(c) \/ get_or_create_client(c) \/ create_raises(c)
    BY <2>1, <1>1, <1>2, <1>3, <1>4
  <2>2. CASE run_lookup(c) \/ query_stalls(c) \/ run_lookup_raises(c)
    BY <2>2, <1>5, <1>6, <1>7
  <2>3. CASE forget_client_pop(c) \/ forget_client_close(c) \/ respond(c)
    BY <2>3, <1>8, <1>9, <1>10
  <2>4. CASE connect(c)
    <3>1. client[c] \in Callers /\ hpc' = [hpc EXCEPT ![c] = "querying"]
          /\ connected' \subseteq connected \cup {client[c]}
          /\ UNCHANGED <<hostLock, client, found, clients, popped, tasks, requestQueue,
                         responseQueue, bpc, closing>>
      BY <2>4 DEF connect, TypeOK, UsesTheHosts, UsingPcs, brokerVars, queueVars
    <3> QED BY <3>1, <1>u DEF TypeOK, HandlerPcs
  <2> QED BY <1>h, <2>1, <2>2, <2>3, <2>4 DEF Handler
<1>d. CASE Dispatcher
    BY <1>d, <1>11, <1>12, <1>13, <1>14 DEF Dispatcher
<1>e2. CASE Environment
    BY <1>e2, <1>12, <1>15, <1>16 DEF Environment
<1> QED BY <1>h, <1>d, <1>e2 DEF BrokerStep

(* Every variable keeps its type.                                          *)
LEMMA TypeStep == TypeOK /\ UsesTheHosts /\ [Next]_vars => TypeOK'
<1>1. TypeOK /\ UNCHANGED vars => TypeOK'
    BY DEF TypeOK, vars, callerVars, clientVars, queueVars, brokerVars, handlerVars, sshVars
<1> QED BY <1>1, TwoSides, TypeCaller, TypeBroker

-----------------------------------------------------------------------------
(* A handler's step moves its request on, and leaves those that wait.      *)
HandlerMoves(c) ==
    /\ hpc[c] \notin {"none", "queued"}
    /\ \E x \in HandlerPcs \ {"none", "queued"} : hpc' = [hpc EXCEPT ![c] = x]
    /\ UNCHANGED <<tasks, requestQueue>>

(* Every step of a handler that has its thread is such a step.             *)
LEMMA HandlersMove ==
    ASSUME TypeOK, NEW c \in Callers, Handler(c)
    PROVE  take(c) \/ HandlerMoves(c)
<1>1. ASSUME host_lock(c) \/ get_or_create_client(c) \/ create_raises(c) \/ connect(c)
             \/ run_lookup(c)
      PROVE  HandlerMoves(c)
    BY <1>1 DEF host_lock, get_or_create_client, create_raises, connect, run_lookup,
        HandlerMoves, HandlerPcs, brokerVars, queueVars
<1>2. ASSUME query_stalls(c) \/ run_lookup_raises(c) \/ forget_client_pop(c)
             \/ forget_client_close(c) \/ respond(c)
      PROVE  HandlerMoves(c)
    BY <1>2 DEF query_stalls, run_lookup_raises, Raises, forget_client_pop,
        forget_client_close, respond, HandlerMoves, HandlerPcs, brokerVars, queueVars
<1> QED BY <1>1, <1>2 DEF Handler

(* A step of anyone keeps a request in one place.                          *)
LEMMA RequestsStep == TypeOK /\ RequestsInv /\ [Next]_vars => RequestsInv'
<1> SUFFICES ASSUME TypeOK, RequestsInv, [Next]_vars PROVE RequestsInv'
    OBVIOUS
<1> USE DEF RequestsInv, NotYetAsked, RequestsOnce, TasksOnce
<1>t. /\ cpc \in [Callers -> CallerPcs] /\ hpc \in [Callers -> HandlerPcs]
      /\ requestQueue \in [Workers -> Seq(Callers)] /\ tasks \in Seq(Callers)
    BY DEF TypeOK
<1>u. ASSUME UNCHANGED <<cpc, hpc, requestQueue, tasks>> PROVE RequestsInv'
    BY <1>u
<1>m. ASSUME NEW c \in Callers, HandlerMoves(c), cpc' = cpc PROVE RequestsInv'
    BY <1>m, <1>t DEF HandlerMoves
<1>1. CASE CallerStep
  <2>h. hpc' = hpc /\ tasks' = tasks
    BY <1>1, CallerFrame DEF handlerVars, brokerVars
  <2>1. ASSUME NEW c \in Callers, lookup(c) PROVE RequestsInv'
    BY <2>1, <2>h, <1>t DEF lookup, queueVars
  <2>2. ASSUME NEW c \in Callers, request_put(c) PROVE RequestsInv'
    <3> DEFINE w == WorkerOf[c]
    <3>1. w \in Workers /\ requestQueue[w] \in Seq(Callers)
      BY WorkersAssumption, <1>t
    <3>2. /\ requestQueue' = [requestQueue EXCEPT ![w] = Append(requestQueue[w], c)]
          /\ cpc' = [cpc EXCEPT ![c] = "get"] /\ cpc[c] = "put" /\ hpc[c] = "none"
      BY <2>2 DEF request_put
    <3>3. \A i \in DOMAIN requestQueue[w] : requestQueue[w][i] # c
      BY <3>1, <3>2
    <3>4. ASSUME NEW v \in Workers, v # w PROVE requestQueue'[v] = requestQueue[v]
      BY <3>2, <3>4, <1>t
    <3>5. /\ requestQueue'[w] = Append(requestQueue[w], c)
          /\ Len(requestQueue'[w]) = Len(requestQueue[w]) + 1
          /\ DOMAIN requestQueue'[w] = 1 .. Len(requestQueue[w]) + 1
          /\ DOMAIN requestQueue[w] = 1 .. Len(requestQueue[w])
          /\ requestQueue'[w][Len(requestQueue[w]) + 1] = c
          /\ \A i \in 1 .. Len(requestQueue[w]) : requestQueue'[w][i] = requestQueue[w][i]
      BY <3>1, <3>2, <1>t
    <3>6. WorkerOf[c] = w
      OBVIOUS
    <3>c. \A d \in Callers : cpc'[d] = IF d = c THEN "get" ELSE cpc[d]
      BY <3>2, <1>t
    <3> HIDE DEF w
    <3>7. NotYetAsked' /\ TasksOnce'
      BY <3>c, <3>2, <2>h
    <3>8. ASSUME NEW v \in Workers PROVE
             \A i \in DOMAIN requestQueue'[v] :
               /\ WorkerOf[requestQueue'[v][i]] = v
               /\ hpc[requestQueue'[v][i]] = "none"
               /\ cpc'[requestQueue'[v][i]] \notin {"idle", "put"}
               /\ \A j \in DOMAIN requestQueue'[v] :
                    requestQueue'[v][j] = requestQueue'[v][i] => j = i
      <4>0. \A i \in DOMAIN requestQueue[v] : requestQueue[v][i] \in Callers
        BY <1>t
      <4>1. CASE v = w
        <5> DEFINE q == requestQueue[w]
                   n == Len(requestQueue[w])
        <5>1. \A i \in 1 .. n : /\ WorkerOf[q[i]] = w /\ hpc[q[i]] = "none" /\ q[i] \in Callers
                                /\ cpc[q[i]] \notin {"idle", "put"} /\ q[i] # c
                                /\ \A j \in 1 .. n : q[j] = q[i] => j = i
          <6>1. \A i \in DOMAIN requestQueue[w] :
                   /\ WorkerOf[requestQueue[w][i]] = w /\ hpc[requestQueue[w][i]] = "none"
                   /\ cpc[requestQueue[w][i]] \notin {"idle", "put"}
                   /\ \A j \in DOMAIN requestQueue[w] :
                        requestQueue[w][j] = requestQueue[w][i] => j = i
            BY <3>1
          <6>2. \A i \in DOMAIN requestQueue[w] : requestQueue[w][i] \in Callers
            BY <3>1
          <6> QED BY ONLY <6>1, <6>2, <3>3, <3>5
        <5>2. n \in Nat
          BY <3>1
        <5>3. /\ DOMAIN requestQueue'[w] = 1 .. n + 1 /\ requestQueue'[w][n + 1] = c
              /\ \A i \in 1 .. n : requestQueue'[w][i] = q[i]
          BY <3>5
        <5> HIDE DEF q, n
        <5>4. \A i \in 1 .. n + 1 : i \in 1 .. n \/ i = n + 1
          BY <5>2
        <5>5. ASSUME NEW i \in 1 .. n + 1
              PROVE  /\ WorkerOf[requestQueue'[w][i]] = w
                     /\ hpc[requestQueue'[w][i]] = "none"
                     /\ cpc'[requestQueue'[w][i]] \notin {"idle", "put"}
          <6>1. CASE i = n + 1
            BY ONLY <6>1, <5>3, <3>2, <3>6, <3>c
          <6>2. CASE i \in 1 .. n
            BY ONLY <6>2, <5>1, <5>3, <3>c
          <6> QED BY <6>1, <6>2, <5>4
        <5>6. ASSUME NEW i \in 1 .. n + 1, NEW j \in 1 .. n + 1,
                     requestQueue'[w][j] = requestQueue'[w][i]
              PROVE  j = i
          BY ONLY <5>6, <5>1, <5>3, <5>4
        <5> QED BY ONLY <4>1, <5>3, <5>5, <5>6
      <4>2. CASE v # w
        BY <4>0, <4>2, <3>4, <3>c
      <4> QED BY <4>1, <4>2
    <3> QED BY <3>7, <3>8, <2>h
  <2>3. ASSUME NEW c \in Callers,
               request_put_raises(c) \/ slot_get(c) \/ slot_timeout(c) \/ give_up(c)
        PROVE  RequestsInv'
    BY <2>3, <2>h, <1>t DEF request_put_raises, slot_get, slot_timeout, give_up, queueVars
  <2>4. ASSUME NEW w \in Workers, Reader(w) PROVE RequestsInv'
    BY <2>4, <2>h, <1>u DEF Reader, reader_get, reader_pop, reader_put, callerVars, queueVars
  <2> QED BY <1>1, <2>1, <2>2, <2>3, <2>4 DEF CallerStep, Wait
<1>2. CASE BrokerStep
  <2>c. cpc' = cpc
    BY <1>2, BrokerFrame DEF callerVars
  <2>1. ASSUME NEW c \in Callers, take(c) PROVE RequestsInv'
    <3>1. /\ c = tasks[1] /\ tasks' = Tail(tasks) /\ hpc' = [hpc EXCEPT ![c] = "waiting"]
          /\ requestQueue' = requestQueue /\ tasks # <<>> /\ hpc[c] = "queued"
      BY <2>1, <1>t DEF take, queueVars
    <3>2. /\ DOMAIN tasks = 1 .. Len(tasks) /\ DOMAIN tasks' = 1 .. Len(tasks) - 1
          /\ \A i \in DOMAIN tasks' : i + 1 \in DOMAIN tasks /\ tasks'[i] = tasks[i + 1]
      BY <3>1, <1>t
    <3>3. \A i \in DOMAIN tasks' : tasks'[i] # c /\ tasks'[i] \in Callers
      BY <3>1, <3>2, <1>t
    <3>4. \A d \in Callers : hpc'[d] = IF d = c THEN "waiting" ELSE hpc[d]
      BY <3>1, <1>t
    <3>5. TasksOnce'
      BY <3>2, <3>3, <3>4
    <3>6. NotYetAsked' /\ RequestsOnce'
      BY <3>1, <3>4, <2>c, <1>t
    <3> QED BY <3>5, <3>6
  <2>2. ASSUME NEW w \in Workers, serve_forever(w) PROVE RequestsInv'
    <3> DEFINE q == requestQueue[w]
               c == requestQueue[w][1]
    <3>1. /\ q # <<>> /\ requestQueue' = [requestQueue EXCEPT ![w] = Tail(q)]
          /\ tasks' = Append(tasks, c) /\ hpc' = [hpc EXCEPT ![c] = "queued"]
          /\ q \in Seq(Callers) /\ c \in Callers /\ 1 \in DOMAIN q
      BY <2>2, <1>t DEF serve_forever
    <3>2. WorkerOf[c] = w /\ hpc[c] = "none" /\ cpc[c] \notin {"idle", "put"}
      BY <3>1
    <3>3. \A d \in Callers : hpc'[d] = IF d = c THEN "queued" ELSE hpc[d]
      BY <3>1, <1>t
    <3>4. /\ requestQueue'[w] = Tail(q)
          /\ \A v \in Workers : v # w => requestQueue'[v] = requestQueue[v]
          /\ DOMAIN q = 1 .. Len(q) /\ DOMAIN Tail(q) = 1 .. Len(q) - 1
          /\ \A i \in DOMAIN Tail(q) : i + 1 \in DOMAIN q /\ Tail(q)[i] = q[i + 1]
      BY <3>1, <1>t
    <3>5. \A i \in DOMAIN Tail(q) : Tail(q)[i] # c /\ Tail(q)[i] \in Callers
      BY <3>1, <3>4
    <3>6. /\ DOMAIN tasks = 1 .. Len(tasks) /\ DOMAIN tasks' = 1 .. Len(tasks) + 1
          /\ tasks'[Len(tasks) + 1] = c
          /\ \A i \in 1 .. Len(tasks) :
                tasks'[i] = tasks[i] /\ tasks[i] # c /\ tasks[i] \in Callers
      BY <3>1, <3>2, <1>t
    <3> HIDE DEF q, c
    <3>7. TasksOnce'
      BY <3>3, <3>6, <3>1
    <3>8. NotYetAsked'
      BY <3>2, <3>3, <2>c
    <3>9. ASSUME NEW v \in Workers PROVE
             \A i \in DOMAIN requestQueue'[v] :
               /\ WorkerOf[requestQueue'[v][i]] = v
               /\ hpc'[requestQueue'[v][i]] = "none"
               /\ cpc[requestQueue'[v][i]] \notin {"idle", "put"}
               /\ \A j \in DOMAIN requestQueue'[v] :
                    requestQueue'[v][j] = requestQueue'[v][i] => j = i
      <4>1. CASE v = w
        <5>1. \A i \in DOMAIN q : WorkerOf[q[i]] = w /\ hpc[q[i]] = "none"
                 /\ cpc[q[i]] \notin {"idle", "put"}
                 /\ \A j \in DOMAIN q : q[j] = q[i] => j = i
          BY DEF q
        <5>2. \A i, j \in DOMAIN Tail(q) : Tail(q)[j] = Tail(q)[i] => j = i
          BY <5>1, <3>4
        <5> QED BY <4>1, <5>1, <5>2, <3>3, <3>4, <3>5
      <4>2. CASE v # w
        <5>1. \A i \in DOMAIN requestQueue[v] :
                 requestQueue[v][i] \in Callers /\ requestQueue[v][i] # c
          BY <4>2, <3>2, <1>t
        <5> QED BY <4>2, <5>1, <3>3, <3>4
      <4> QED BY <4>1, <4>2
    <3> QED BY <3>7, <3>8, <3>9, <2>c
  <2>3. ASSUME shutdown \/ shutdown_returns \/ shutdown_close PROVE RequestsInv'
    BY <2>3, <2>c, <1>u DEF shutdown, shutdown_returns, shutdown_close, handlerVars,
        queueVars, brokerVars
  <2>4. ASSUME NEW h \in Hosts, shutdown_pop(h) PROVE RequestsInv'
    BY <2>4, <2>c, <1>u DEF shutdown_pop, handlerVars, queueVars
  <2>5. ASSUME NEW x \in connected, connection_lost(x) PROVE RequestsInv'
    BY <2>5, <2>c, <1>u DEF connection_lost, handlerVars, queueVars, brokerVars
  <2>6. ASSUME terminate PROVE RequestsInv'
    <3>1. /\ requestQueue' = requestQueue /\ tasks' = <<>>
          /\ \A c \in Callers : hpc[c] = "none" => hpc'[c] = "none"
      BY <2>6 DEF terminate
    <3> QED BY <3>1, <2>c, <1>t
  <2> QED BY <1>2, <2>1, <2>2, <2>3, <2>4, <2>5, <2>6, <2>c, <1>m, HandlersMove
        DEF BrokerStep, Dispatcher, Environment
<1>3. CASE UNCHANGED vars
    BY <1>3, <1>u DEF vars, callerVars, queueVars, brokerVars, handlerVars
<1> QED BY <1>1, <1>2, <1>3, TwoSides

-----------------------------------------------------------------------------
(* What HostsInv speaks about.                                             *)
hostsVars == <<host, bpc, hpc, hostLock, clients, client, popped, connected>>

(* Steps that change none of it, and those of requests that are not with a *)
(* handler inside its lock.                                                *)
LEMMA HostsFrame ==
    ASSUME HostsInv, UNCHANGED hostsVars
    PROVE  HostsInv'
BY DEF HostsInv, hostsVars, Held, AtHome, UsesTheHosts, NoneWhileClosing, ConnectedIsKnown

(* ... or whose request is outside of the lock before and after.           *)
LEMMA HostsOutside ==
    ASSUME TypeOK, HostsInv, NEW c \in Callers, hpc[c] \notin LockedPcs,
           NEW x \in HandlerPcs \ LockedPcs, hpc' = [hpc EXCEPT ![c] = x],
           UNCHANGED <<host, bpc, hostLock, clients, client, popped, connected>>
    PROVE  HostsInv'
<1>1. \A d \in Callers : hpc'[d] = IF d = c THEN x ELSE hpc[d]
    BY DEF TypeOK
<1>2. x \notin LockedPcs /\ x \notin UsingPcs /\ x # "failed" /\ x # "closing"
    BY DEF LockedPcs
<1>3. hpc[c] \notin UsingPcs /\ hpc[c] # "failed" /\ hpc[c] # "closing"
    BY DEF LockedPcs
<1>4. Held' /\ AtHome'
    BY <1>1, <1>2, <1>3 DEF HostsInv, Held, AtHome
<1>5. UsesTheHosts' /\ NoneWhileClosing' /\ ConnectedIsKnown'
    BY <1>1, <1>2, <1>3 DEF HostsInv, UsesTheHosts, NoneWhileClosing, ConnectedIsKnown
<1> QED BY <1>4, <1>5 DEF HostsInv

(* One handler at a time is inside a host's lock.                          *)
LEMMA OneInside ==
    ASSUME Held, NEW c \in Callers, NEW d \in Callers, host[c] = host[d],
           hpc[c] \in LockedPcs, hpc[d] \in LockedPcs
    PROVE  c = d
BY DEF Held

(* A handler's step keeps HostsInv.                                        *)
LEMMA HostsHandler ==
    ASSUME TypeOK, RequestsInv, HostsInv, NEW c \in Callers, Handler(c)
    PROVE  HostsInv'
<1> USE DEF brokerVars, handlerVars, sshVars, queueVars
<1>t. /\ host \in [Callers -> Hosts] /\ hpc \in [Callers -> HandlerPcs]
      /\ hostLock \in [Hosts -> Callers \cup {NoOne}]
      /\ clients \in [Hosts -> Callers \cup {NoOne}]
      /\ client \in [Callers -> Callers \cup {NoOne}]
      /\ popped \in [Closers -> Callers \cup {NoOne}] /\ connected \subseteq Callers
      /\ \A d \in Callers : d # NoOne /\ d # "dispatcher" /\ d \in Closers
    BY CallersAssumption DEF TypeOK, Closers
<1>i. Held /\ AtHome /\ UsesTheHosts /\ NoneWhileClosing /\ ConnectedIsKnown
    BY DEF HostsInv
<1>h. host' = host /\ bpc' = bpc
  <2>1. Handler(c) => BrokerStep
    BY DEF BrokerStep
  <2>2. host' = host
    BY <2>1, BrokerFrame
  <2>3. bpc' = bpc
    BY DEF Handler, take, host_lock, get_or_create_client, create_raises, connect, run_lookup,
        query_stalls, run_lookup_raises, forget_client_pop, forget_client_close, respond
  <2> QED BY <2>2, <2>3
<1>o. ASSUME hpc[c] \in LockedPcs, NEW d \in Callers, d # c, hpc[d] \in LockedPcs
      PROVE  host[d] # host[c]
    BY <1>o, <1>i, OneInside
<1>p. UsingPcs \subseteq LockedPcs /\ "failed" \in LockedPcs /\ "closing" \in LockedPcs
      /\ "create" \in LockedPcs /\ "respond" \notin LockedPcs /\ "waiting" \notin LockedPcs
      /\ "queued" \notin LockedPcs
    BY DEF LockedPcs, UsingPcs
<1>q. "failed" \notin UsingPcs /\ "closing" \notin UsingPcs /\ "create" \notin UsingPcs
      /\ {"connect", "querying", "stalled"} = UsingPcs
    BY DEF UsingPcs
<1>1. CASE take(c)
  <2>1. hpc[c] = "queued"
    BY <1>1 DEF take, RequestsInv, TasksOnce, TypeOK
  <2> QED BY <1>1, <1>h, <2>1, <1>p, HostsOutside DEF take, HandlerPcs
<1>2. CASE host_lock(c)
  <2>1. /\ hpc' = [hpc EXCEPT ![c] = "create"] /\ hostLock' = [hostLock EXCEPT ![host[c]] = c]
        /\ hostLock[host[c]] = NoOne /\ hpc[c] = "waiting"
        /\ UNCHANGED <<clients, client, popped, connected>>
    BY <1>2 DEF host_lock
  <2>2. \A d \in Callers : hpc'[d] = IF d = c THEN "create" ELSE hpc[d]
    BY <2>1, <1>t
  <2>3. Held'
    BY <2>1, <2>2, <1>h, <1>t, <1>i DEF Held
  <2>4. AtHome' /\ UsesTheHosts' /\ NoneWhileClosing' /\ ConnectedIsKnown'
    BY <2>1, <2>2, <1>h, <1>i, <1>q DEF AtHome, UsesTheHosts, NoneWhileClosing, ConnectedIsKnown
  <2> QED BY <2>3, <2>4 DEF HostsInv
<1>3. CASE get_or_create_client(c)
  <2> DEFINE x == IF clients[host[c]] = NoOne THEN c ELSE clients[host[c]]
  <2>1. /\ hpc[c] = "create" /\ hpc' = [hpc EXCEPT ![c] = "connect"]
        /\ clients' = [clients EXCEPT ![host[c]] = x]
        /\ client' = [client EXCEPT ![c] = clients'[host[c]]]
        /\ UNCHANGED <<hostLock, popped, connected>>
    BY <1>3 DEF get_or_create_client
  <2>x. x \in Callers /\ host[x] = host[c] /\ (clients[host[c]] # NoOne => x = clients[host[c]])
    BY <1>t, <1>i DEF AtHome
  <2> HIDE DEF x
  <2>2. /\ \A d \in Callers : hpc'[d] = IF d = c THEN "connect" ELSE hpc[d]
        /\ \A d \in Callers : client'[d] = IF d = c THEN x ELSE client[d]
        /\ \A h \in Hosts : clients'[h] = IF h = host[c] THEN x ELSE clients[h]
        /\ x # NoOne /\ host[c] \in Hosts
    BY <2>1, <2>x, <1>t
  <2>3. Held' /\ AtHome'
    BY <2>1, <2>2, <2>x, <1>h, <1>t, <1>i, <1>p DEF Held, AtHome
  <2>4. \A d \in Callers : d # c /\ hpc[d] \in LockedPcs => host[d] # host[c]
    BY <2>1, <1>o, <1>p
  <2>5. UsesTheHosts' /\ NoneWhileClosing'
    BY <2>1, <2>2, <2>4, <1>h, <1>t, <1>i, <1>p, <1>q DEF UsesTheHosts, NoneWhileClosing
  <2>6. ConnectedIsKnown'
    BY <2>1, <2>2, <2>x, <1>h, <1>t, <1>i DEF ConnectedIsKnown
  <2> QED BY <2>3, <2>5, <2>6 DEF HostsInv
<1>4. CASE create_raises(c)
  <2>1. /\ hpc[c] = "create" /\ hpc' = [hpc EXCEPT ![c] = "respond"]
        /\ hostLock' = [hostLock EXCEPT ![host[c]] = NoOne]
        /\ UNCHANGED <<client, clients, popped, connected>>
    BY <1>4 DEF create_raises, Release
  <2>2. \A d \in Callers : hpc'[d] = IF d = c THEN "respond" ELSE hpc[d]
    BY <2>1, <1>t
  <2>4. \A d \in Callers : d # c /\ hpc[d] \in LockedPcs => host[d] # host[c]
    BY <2>1, <1>o, <1>p
  <2>3. Held'
    BY <2>1, <2>2, <2>4, <1>h, <1>t, <1>i, <1>p DEF Held
  <2>5. AtHome' /\ UsesTheHosts' /\ NoneWhileClosing' /\ ConnectedIsKnown'
    BY <2>1, <2>2, <1>h, <1>i, <1>p, <1>q
       DEF AtHome, UsesTheHosts, NoneWhileClosing, ConnectedIsKnown
  <2> QED BY <2>3, <2>5 DEF HostsInv
<1>5. CASE connect(c)
  <2>1. /\ hpc[c] = "connect" /\ hpc' = [hpc EXCEPT ![c] = "querying"]
        /\ connected' \subseteq connected \cup {client[c]}
        /\ UNCHANGED <<hostLock, client, clients, popped>>
    BY <1>5 DEF connect
  <2>2. \A d \in Callers : hpc'[d] = IF d = c THEN "querying" ELSE hpc[d]
    BY <2>1, <1>t
  <2>3. Held' /\ AtHome' /\ UsesTheHosts' /\ NoneWhileClosing'
    BY <2>1, <2>2, <1>h, <1>t, <1>i, <1>p, <1>q
       DEF Held, AtHome, UsesTheHosts, NoneWhileClosing
  <2>4. client[c] # NoOne /\ host[client[c]] = host[c]
        /\ (bpc = "serving" => clients[host[c]] = client[c])
    BY <2>1, <1>i, <1>q DEF UsesTheHosts, AtHome
  <2>5. ConnectedIsKnown'
    BY <2>1, <2>2, <2>4, <1>h, <1>i DEF ConnectedIsKnown
  <2> QED BY <2>3, <2>5 DEF HostsInv
<1>6. CASE run_lookup(c)
  <2>1. /\ hpc[c] \in UsingPcs /\ hpc' = [hpc EXCEPT ![c] = "respond"]
        /\ hostLock' = [hostLock EXCEPT ![host[c]] = NoOne]
        /\ client' = [client EXCEPT ![c] = NoOne]
        /\ UNCHANGED <<clients, popped, connected>>
    BY <1>6, <1>q DEF run_lookup, Release
  <2>2. /\ \A d \in Callers : hpc'[d] = IF d = c THEN "respond" ELSE hpc[d]
        /\ \A d \in Callers : client'[d] = IF d = c THEN NoOne ELSE client[d]
    BY <2>1, <1>t
  <2>4. \A d \in Callers : d # c /\ hpc[d] \in LockedPcs => host[d] # host[c]
    BY <2>1, <1>o, <1>p
  <2>3. Held'
    BY <2>1, <2>2, <2>4, <1>h, <1>t, <1>i, <1>p DEF Held
  <2>5. AtHome' /\ UsesTheHosts' /\ NoneWhileClosing' /\ ConnectedIsKnown'
    BY <2>1, <2>2, <1>h, <1>i, <1>p, <1>q
       DEF AtHome, UsesTheHosts, NoneWhileClosing, ConnectedIsKnown
  <2> QED BY <2>3, <2>5 DEF HostsInv
<1>7. CASE query_stalls(c) \/ run_lookup_raises(c)
  <2>1. /\ hpc[c] \in UsingPcs
        /\ \E x \in UsingPcs \cup {"failed"} : hpc' = [hpc EXCEPT ![c] = x]
        /\ UNCHANGED <<hostLock, client, clients, popped, connected>>
    BY <1>7, <1>q DEF query_stalls, run_lookup_raises, Raises
  <2>2. PICK x \in UsingPcs \cup {"failed"} :
           \A d \in Callers : hpc'[d] = IF d = c THEN x ELSE hpc[d]
    BY <2>1, <1>t
  <2>3. x # "closing" /\ hpc[c] # "closing"
    BY <2>1, <1>q
  <2> QED BY <2>1, <2>2, <2>3, <1>h, <1>i, <1>p
       DEF HostsInv, Held, AtHome, UsesTheHosts, NoneWhileClosing, ConnectedIsKnown
<1>8. CASE forget_client_pop(c)
  <2>1. /\ hpc[c] = "failed" /\ hpc' = [hpc EXCEPT ![c] = "closing"]
        /\ popped' = [popped EXCEPT ![c] = clients[host[c]]]
        /\ clients' = [clients EXCEPT ![host[c]] = NoOne]
        /\ UNCHANGED <<hostLock, client, connected>>
    BY <1>8 DEF forget_client_pop
  <2>2. /\ \A d \in Callers : hpc'[d] = IF d = c THEN "closing" ELSE hpc[d]
        /\ \A d \in Callers : popped'[d] = IF d = c THEN clients[host[c]] ELSE popped[d]
        /\ \A h \in Hosts : clients'[h] = IF h = host[c] THEN NoOne ELSE clients[h]
        /\ host[c] \in Hosts
    BY <2>1, <1>t
  <2>4. \A d \in Callers : d # c /\ hpc[d] \in LockedPcs => host[d] # host[c]
    BY <2>1, <1>o, <1>p
  <2>3. Held' /\ AtHome'
    BY <2>1, <2>2, <1>h, <1>t, <1>i, <1>p DEF Held, AtHome
  <2>5. UsesTheHosts' /\ NoneWhileClosing'
    BY <2>1, <2>2, <2>4, <1>h, <1>t, <1>i, <1>p, <1>q DEF UsesTheHosts, NoneWhileClosing
  <2>6. ConnectedIsKnown'
    BY <2>1, <2>2, <1>h, <1>t, <1>i DEF ConnectedIsKnown
  <2> QED BY <2>3, <2>5, <2>6 DEF HostsInv
<1>9. CASE forget_client_close(c)
  <2>1. /\ hpc[c] = "closing" /\ hpc' = [hpc EXCEPT ![c] = "respond"]
        /\ hostLock' = [hostLock EXCEPT ![host[c]] = NoOne]
        /\ client' = [client EXCEPT ![c] = NoOne]
        /\ popped' = [popped EXCEPT ![c] = NoOne]
        /\ connected' = connected \ {popped[c]} /\ clients' = clients
    BY <1>9 DEF forget_client_close, Release
  <2>2. /\ \A d \in Callers : hpc'[d] = IF d = c THEN "respond" ELSE hpc[d]
        /\ \A d \in Callers : client'[d] = IF d = c THEN NoOne ELSE client[d]
        /\ \A d \in Callers : popped'[d] = IF d = c THEN NoOne ELSE popped[d]
    BY <2>1, <1>t
  <2>4. \A d \in Callers : d # c /\ hpc[d] \in LockedPcs => host[d] # host[c]
    BY <2>1, <1>o, <1>p
  <2>3. Held' /\ AtHome'
    BY <2>1, <2>2, <2>4, <1>h, <1>t, <1>i, <1>p DEF Held, AtHome
  <2>5. UsesTheHosts' /\ NoneWhileClosing' /\ ConnectedIsKnown'
    BY <2>1, <2>2, <1>h, <1>i, <1>p, <1>q
       DEF UsesTheHosts, NoneWhileClosing, ConnectedIsKnown
  <2> QED BY <2>3, <2>5 DEF HostsInv
<1>10. CASE respond(c)
  <2>1. /\ hpc[c] = "respond" /\ hpc' = [hpc EXCEPT ![c] = "done"]
        /\ UNCHANGED <<hostLock, clients, client, popped, connected>>
    BY <1>10 DEF respond
  <2>2. "done" \in HandlerPcs \ LockedPcs
    BY DEF HandlerPcs, LockedPcs, UsingPcs
  <2> QED BY <2>1, <2>2, <1>h, <1>p, HostsOutside
<1> QED BY <1>1, <1>2, <1>3, <1>4, <1>5, <1>6, <1>7, <1>8, <1>9, <1>10 DEF Handler

(* A step of anyone keeps HostsInv.                                        *)
LEMMA HostsStep == TypeOK /\ RequestsInv /\ HostsInv /\ [Next]_vars => HostsInv'
<1> SUFFICES ASSUME TypeOK, RequestsInv, HostsInv, [Next]_vars PROVE HostsInv'
    OBVIOUS
<1>i. Held /\ AtHome /\ UsesTheHosts /\ NoneWhileClosing /\ ConnectedIsKnown
    BY DEF HostsInv
<1>1. CASE CallerStep
    BY <1>1, CallerFrame, HostsFrame DEF hostsVars, brokerVars, handlerVars, sshVars
<1>2. CASE UNCHANGED vars
    BY <1>2, HostsFrame DEF hostsVars, vars, brokerVars, handlerVars, sshVars
<1>3. ASSUME NEW c \in Callers, Handler(c) PROVE HostsInv'
    BY <1>3, HostsHandler
<1>4. CASE Dispatcher \/ Environment
  <2>h. host' = host
    BY <1>4, BrokerFrame DEF BrokerStep
  <2>1. ASSUME NEW w \in Workers, serve_forever(w) PROVE HostsInv'
    <3> DEFINE c == Head(requestQueue[w])
    <3>1. /\ c \in Callers /\ hpc[c] = "none" /\ hpc' = [hpc EXCEPT ![c] = "queued"]
          /\ UNCHANGED <<bpc, hostLock, clients, client, popped, connected>>
      BY <2>1 DEF serve_forever, sshVars, RequestsInv, RequestsOnce, TypeOK
    <3>2. "queued" \in HandlerPcs \ LockedPcs /\ "none" \notin LockedPcs
      BY DEF HandlerPcs, LockedPcs, UsingPcs
    <3> HIDE DEF c
    <3> QED BY <3>1, <3>2, <2>h, HostsOutside
  <2>2. ASSUME shutdown \/ shutdown_returns PROVE HostsInv'
    <3>1. /\ bpc' # "serving" /\ UNCHANGED <<hpc, hostLock, clients, client, popped, connected>>
      BY <2>2 DEF shutdown, shutdown_returns, handlerVars, sshVars
    <3> QED BY <3>1, <2>h, <1>i
         DEF HostsInv, Held, AtHome, UsesTheHosts, NoneWhileClosing, ConnectedIsKnown
  <2>3. ASSUME NEW h \in Hosts, shutdown_pop(h) PROVE HostsInv'
    <3>1. /\ bpc' # "serving" /\ clients' = [clients EXCEPT ![h] = NoOne]
          /\ UNCHANGED <<hpc, hostLock, client, connected>>
          /\ \A c \in Callers : popped'[c] = popped[c]
          /\ clients \in [Hosts -> Callers \cup {NoOne}]
      BY <2>3, CallersAssumption DEF shutdown_pop, handlerVars, TypeOK, Closers
    <3> QED BY <3>1, <2>h, <1>i
         DEF HostsInv, Held, AtHome, UsesTheHosts, NoneWhileClosing, ConnectedIsKnown
  <2>4. ASSUME shutdown_close PROVE HostsInv'
    <3>1. /\ bpc' # "serving" /\ UNCHANGED <<hpc, hostLock, client, clients>>
          /\ \A c \in Callers : popped'[c] = popped[c]
      BY <2>4, CallersAssumption DEF shutdown_close, handlerVars, brokerVars, TypeOK, Closers
    <3> QED BY <3>1, <2>h, <1>i
         DEF HostsInv, Held, AtHome, UsesTheHosts, NoneWhileClosing, ConnectedIsKnown
  <2>5. ASSUME NEW x \in connected, connection_lost(x) PROVE HostsInv'
    <3>1. /\ connected' \subseteq connected
          /\ UNCHANGED <<bpc, hpc, hostLock, client, clients, popped>>
      BY <2>5 DEF connection_lost, handlerVars, brokerVars
    <3> QED BY <3>1, <2>h, <1>i
         DEF HostsInv, Held, AtHome, UsesTheHosts, NoneWhileClosing, ConnectedIsKnown
  <2>6. ASSUME terminate PROVE HostsInv'
    <3>1. /\ bpc' # "serving" /\ \A c \in Callers : hpc'[c] \in {"none", "done"}
          /\ \A h \in Hosts : clients'[h] = NoOne
          /\ \A c \in Callers : client'[c] = NoOne /\ popped'[c] = NoOne
      BY <2>6 DEF terminate, Closers
    <3>2. {"none", "done"} \cap (LockedPcs \cup UsingPcs \cup {"failed"}) = {}
      BY DEF LockedPcs, UsingPcs
    <3> QED BY <3>1, <3>2, <2>h
         DEF HostsInv, Held, AtHome, UsesTheHosts, NoneWhileClosing, ConnectedIsKnown
  <2>d. CASE Dispatcher
    BY <2>d, <2>1, <2>2, <2>3, <2>4 DEF Dispatcher
  <2>e. CASE Environment
    BY <2>e, <2>2, <2>5, <2>6 DEF Environment
  <2> QED BY <1>4, <2>d, <2>e
<1> QED BY <1>1, <1>2, <1>3, <1>4, TwoSides DEF BrokerStep

-----------------------------------------------------------------------------
(* A step of anyone keeps a slot in one place, and _pending free of those  *)
(* that have returned.                                                     *)
LEMMA SlotsStep == TypeOK /\ SlotsInv /\ [Next]_vars => SlotsInv'
<1> SUFFICES ASSUME TypeOK, SlotsInv, [Next]_vars PROVE SlotsInv'
    OBVIOUS
<1> USE DEF SlotsInv, PendingAsk, SlotsAreTaken, HeldByReader, NoPendingLeak
<1>t. /\ cpc \in [Callers -> CallerPcs] /\ pending \in [Workers -> SUBSET Callers]
      /\ slot \in [Callers -> Results] /\ rpc \in [Workers -> {"get", "pop", "put"}]
      /\ item \in [Workers -> Items] /\ \A c \in Callers : WorkerOf[c] \in Workers
      /\ \A w \in Workers : item[w].to \subseteq Callers
    BY WorkersAssumption DEF TypeOK, Items
<1>u. ASSUME UNCHANGED <<cpc, pending, slot, rpc, item>> PROVE SlotsInv'
    BY <1>u
<1>1. CASE UNCHANGED vars \/ BrokerStep
    BY <1>1, <1>u, BrokerFrame DEF vars, callerVars, clientVars
<1>2. ASSUME NEW c \in Callers, lookup(c) PROVE SlotsInv'
  <2> DEFINE w == WorkerOf[c]
  <2>1. /\ cpc[c] = "idle" /\ cpc' = [cpc EXCEPT ![c] = "put"]
        /\ pending' = [pending EXCEPT ![w] = pending[w] \cup {c}]
        /\ UNCHANGED <<slot, rpc, item>>
    BY <1>2 DEF lookup
  <2>2. /\ \A d \in Callers : cpc'[d] = IF d = c THEN "put" ELSE cpc[d]
        /\ \A v \in Workers : pending'[v] = IF v = w THEN pending[w] \cup {c} ELSE pending[v]
    BY <2>1, <1>t
  <2>3. slot[c] = NoResult
    BY <2>1
  <2> QED BY <2>1, <2>2, <2>3, <1>t
<1>3. ASSUME NEW c \in Callers, request_put(c) \/ request_put_raises(c) \/ slot_timeout(c)
      PROVE  SlotsInv'
  <2>1. /\ cpc[c] \in {"put", "get"}
        /\ \E x \in {"get", "give_up"} : cpc' = [cpc EXCEPT ![c] = x]
        /\ UNCHANGED <<pending, slot, rpc, item>>
    BY <1>3 DEF request_put, request_put_raises, slot_timeout, clientVars
  <2>2. PICK x \in {"get", "give_up"} : \A d \in Callers : cpc'[d] = IF d = c THEN x ELSE cpc[d]
    BY <2>1, <1>t
  <2> QED BY <2>1, <2>2, <1>t
<1>4. ASSUME NEW c \in Callers, slot_get(c) PROVE SlotsInv'
  <2>1. /\ cpc[c] = "get" /\ cpc' = [cpc EXCEPT ![c] = "returned"] /\ slot[c] # NoResult
        /\ slot' = [slot EXCEPT ![c] = NoResult] /\ UNCHANGED <<pending, rpc, item>>
    BY <1>4 DEF slot_get
  <2>2. /\ \A d \in Callers : cpc'[d] = IF d = c THEN "returned" ELSE cpc[d]
        /\ \A d \in Callers : slot'[d] = IF d = c THEN NoResult ELSE slot[d]
    BY <2>1, <1>t
  <2>3. \A w \in Workers : c \notin pending[w]
    BY <2>1
  <2> QED BY <2>1, <2>2, <2>3, <1>t
<1>5. ASSUME NEW c \in Callers, give_up(c) PROVE SlotsInv'
  <2> DEFINE w == WorkerOf[c]
  <2>1. /\ cpc[c] = "give_up" /\ cpc' = [cpc EXCEPT ![c] = "returned"]
        /\ pending' = [pending EXCEPT ![w] = pending[w] \ {c}] /\ UNCHANGED <<slot, rpc, item>>
    BY <1>5 DEF give_up
  <2>2. /\ \A d \in Callers : cpc'[d] = IF d = c THEN "returned" ELSE cpc[d]
        /\ \A v \in Workers : pending'[v] = IF v = w THEN pending[w] \ {c} ELSE pending[v]
    BY <2>1, <1>t
  <2> QED BY <2>1, <2>2, <1>t
<1>6. ASSUME NEW w \in Workers, reader_get(w) PROVE SlotsInv'
    BY <1>6, <1>t DEF reader_get, callerVars
<1>7. ASSUME NEW w \in Workers, reader_pop(w) PROVE SlotsInv'
  <2>1. /\ item' = [item EXCEPT ![w].to = Owners(w)]
        /\ pending' = [pending EXCEPT ![w] = pending[w] \ Owners(w)]
        /\ rpc' = [rpc EXCEPT ![w] = IF Owners(w) = {} THEN "get" ELSE "put"]
        /\ UNCHANGED <<cpc, slot>>
    BY <1>7 DEF reader_pop, callerVars
  <2>2. item'[w].to = Owners(w) /\ \A v \in Workers : v # w => item'[v] = item[v]
    BY <2>1, <1>t DEF Items
  <2>3. /\ \A v \in Workers : v # w => rpc'[v] = rpc[v]
        /\ \A v \in Workers : pending'[v] = IF v = w THEN pending[w] \ Owners(w) ELSE pending[v]
    BY <2>1, <1>t
  <2>4. Owners(w) \subseteq pending[w]
    BY DEF Owners
  <2> QED BY <2>1, <2>2, <2>3, <2>4, <1>t
<1>8. ASSUME NEW w \in Workers, reader_put(w) PROVE SlotsInv'
  <2>1. /\ rpc[w] = "put" /\ UNCHANGED <<cpc, pending>> /\ rpc' = [rpc EXCEPT ![w] = "get"]
        /\ \A c \in Callers : slot'[c] = IF c \in item[w].to THEN item[w].result ELSE slot[c]
        /\ \A v \in Workers : v # w => item'[v] = item[v]
    BY <1>8, <1>t DEF reader_put, callerVars
  <2>2. rpc'[w] = "get" /\ \A v \in Workers : v # w => rpc'[v] = rpc[v]
    BY <2>1, <1>t
  <2> QED BY <2>1, <2>2, <1>t
<1> QED BY <1>1, <1>2, <1>3, <1>4, <1>5, <1>6, <1>7, <1>8, TwoSides DEF CallerStep, Wait, Reader

-----------------------------------------------------------------------------
(* The id of a caller that has one stays, and so do the answers to it.     *)
LEMMA AnswerStays ==
    ASSUME NEW w \in Workers, NEW m, AnswerTo(w, m),
           \A c \in Callers : cpc[c] # "idle" => cpc'[c] # "idle" /\ id'[c] = id[c]
    PROVE  \E c \in Callers : /\ WorkerOf[c] = w /\ cpc'[c] # "idle" /\ id'[c] = m.id
                              /\ m.result \in FoundOf(c)
BY DEF AnswerTo

(* The parts of AnswersAreOwn, by who holds the answers: the handlers, a   *)
(* response queue, and a worker with its callers.                          *)
HandlersFind ==
    \A c \in Callers : hpc[c] \in {"failed", "closing", "respond"} => found[c] \in FoundOf(c)
QueuesAnswer ==
    \A w \in Workers : \A i \in DOMAIN responseQueue[w] : AnswerTo(w, responseQueue[w][i])
ReadersAnswer ==
    /\ \A w \in Workers : rpc[w] = "pop" => AnswerTo(w, item[w])
    /\ \A w \in Workers : rpc[w] = "put" => \A c \in item[w].to : item[w].result \in FoundOf(c)
CallersGet ==
    /\ \A c \in Callers : slot[c] # NoResult => slot[c] \in FoundOf(c)
    /\ \A c \in Callers : cpc[c] = "give_up" => result[c] \in Service!Excuses

(* They are all of it.                                                     *)
LEMMA AnswerParts ==
    AnswersAreOwn <=> HandlersFind /\ QueuesAnswer /\ ReadersAnswer /\ CallersGet
BY DEF AnswersAreOwn, HandlersFind, QueuesAnswer, ReadersAnswer, CallersGet

(* The broker keeps answers with those they are about.                     *)
LEMMA AnswersBroker ==
    ASSUME TypeOK, RequestsInv, AnswersInv, BrokerStep
    PROVE  AnswersInv'
<1>p. IdsAreOwn /\ HandlersFind /\ QueuesAnswer /\ ReadersAnswer /\ CallersGet
    BY AnswerParts DEF AnswersInv
<1>t. /\ hpc \in [Callers -> HandlerPcs] /\ found \in [Callers -> Results]
      /\ responseQueue \in [Workers -> Seq(Items)]
      /\ \A c \in Callers : WorkerOf[c] \in Workers
    BY WorkersAssumption DEF TypeOK
<1>u. /\ cpc' = cpc /\ nextId' = nextId /\ id' = id /\ pending' = pending /\ slot' = slot
      /\ result' = result /\ rpc' = rpc /\ item' = item
    BY BrokerFrame DEF callerVars, clientVars
<1>i. IdsAreOwn' /\ ReadersAnswer' /\ CallersGet'
    BY <1>p, <1>u DEF IdsAreOwn, ReadersAnswer, CallersGet, AnswerTo
<1>s. ASSUME HandlersFind', QueuesAnswer' PROVE AnswersInv'
    BY <1>i, <1>s DEF AnswersInv, AnswersAreOwn, HandlersFind, QueuesAnswer, ReadersAnswer,
        CallersGet
<1>q. ASSUME responseQueue' = responseQueue PROVE QueuesAnswer'
    BY <1>q, <1>p, <1>u DEF QueuesAnswer, AnswerTo
(* A handler whose request stays, or becomes, outside of those three, or   *)
(* that finds something about its own caller.                              *)
<1>m. ASSUME NEW c \in Callers, NEW x \in HandlerPcs, hpc' = [hpc EXCEPT ![c] = x],
             \/ x \notin {"failed", "closing", "respond"} /\ UNCHANGED found
             \/ hpc[c] \in {"failed", "closing"} /\ UNCHANGED found
             \/ \E r \in FoundOf(c) : found' = [found EXCEPT ![c] = r]
      PROVE  HandlersFind'
    BY <1>m, <1>p, <1>t DEF HandlersFind
<1>1. ASSUME NEW c \in Callers,
             take(c) \/ host_lock(c) \/ get_or_create_client(c) \/ connect(c) \/ query_stalls(c)
      PROVE  AnswersInv'
  <2>1. /\ \E x \in HandlerPcs \ {"failed", "closing", "respond"} : hpc' = [hpc EXCEPT ![c] = x]
        /\ found' = found /\ responseQueue' = responseQueue
    BY <1>1 DEF take, host_lock, get_or_create_client, connect, query_stalls, HandlerPcs, queueVars
  <2> QED BY <2>1, <1>m, <1>q, <1>s
<1>2. ASSUME NEW c \in Callers,
             create_raises(c) \/ run_lookup(c) \/ run_lookup_raises(c)
      PROVE  AnswersInv'
  <2>1. /\ \E x \in HandlerPcs : hpc' = [hpc EXCEPT ![c] = x]
        /\ \E r \in FoundOf(c) : found' = [found EXCEPT ![c] = r]
        /\ responseQueue' = responseQueue
    BY <1>2 DEF create_raises, run_lookup, run_lookup_raises, HandlerPcs, queueVars, Error,
        FoundOf
  <2> QED BY <2>1, <1>m, <1>q, <1>s
<1>3. ASSUME NEW c \in Callers, forget_client_pop(c) \/ forget_client_close(c) PROVE AnswersInv'
  <2>1. /\ hpc[c] \in {"failed", "closing"} /\ \E x \in HandlerPcs : hpc' = [hpc EXCEPT ![c] = x]
        /\ found' = found /\ responseQueue' = responseQueue
    BY <1>3 DEF forget_client_pop, forget_client_close, HandlerPcs, queueVars
  <2> QED BY <2>1, <1>m, <1>q, <1>s
<1>4. ASSUME NEW c \in Callers, respond(c) PROVE AnswersInv'
  <2> DEFINE m == [id |-> id[c], result |-> found[c], to |-> {}]
  <2>1. hpc[c] = "respond" /\ hpc' = [hpc EXCEPT ![c] = "done"]
        /\ found' = [found EXCEPT ![c] = NoResult]
    BY <1>4 DEF respond
  <2>2. HandlersFind'
    BY <2>1, <1>p, <1>t DEF HandlersFind
  <2>3. cpc[c] # "idle"
    BY <2>1 DEF RequestsInv, NotYetAsked
  <2>4. AnswerTo(WorkerOf[c], m)
    BY <2>1, <2>3, <1>p DEF AnswerTo, HandlersFind
  <2>5. responseQueue' # responseQueue =>
           \A w \in Workers : responseQueue'[w] = IF w = WorkerOf[c]
                                 THEN Append(responseQueue[w], m) ELSE responseQueue[w]
    BY <1>4 DEF respond, Destinations
  <2> HIDE DEF m
  <2>6. ASSUME responseQueue' # responseQueue, NEW w \in Workers,
               NEW i \in DOMAIN responseQueue'[w]
        PROVE  AnswerTo(w, responseQueue'[w][i])
    <3>1. CASE w # WorkerOf[c]
      BY <3>1, <2>5, <2>6, <1>p DEF QueuesAnswer
    <3>2. CASE w = WorkerOf[c]
      <4> DEFINE q == responseQueue[w]
      <4>1. responseQueue'[w] = Append(q, m) /\ q \in Seq(Items)
        BY <3>2, <2>5, <2>6, <1>t
      <4>2. \A k \in DOMAIN q : AnswerTo(w, q[k])
        BY <1>p DEF QueuesAnswer
      <4> HIDE DEF q
      <4>3. CASE i \in DOMAIN q
        <5>1. responseQueue'[w][i] = q[i]
          BY <4>1, <4>3
        <5> QED BY <5>1, <4>2, <4>3
      <4>4. CASE i \notin DOMAIN q
        <5>1. responseQueue'[w][i] = m
          BY <4>1, <4>4
        <5> QED BY <5>1, <2>4, <3>2
      <4> QED BY <4>3, <4>4
    <3> QED BY <3>1, <3>2
  <2>7. QueuesAnswer'
    BY <2>6, <1>q, <1>u DEF QueuesAnswer, AnswerTo
  <2> QED BY <2>2, <2>7, <1>s
<1>5. ASSUME NEW w \in Workers, serve_forever(w) PROVE AnswersInv'
  <2>1. Head(requestQueue[w]) \in Callers
    BY <1>5, QueueTypes DEF serve_forever, TypeOK
  <2>2. /\ hpc' = [hpc EXCEPT ![Head(requestQueue[w])] = "queued"] /\ found' = found
        /\ responseQueue' = responseQueue
    BY <1>5 DEF serve_forever
  <2> QED BY <2>1, <2>2, <1>m, <1>q, <1>s DEF HandlerPcs
<1>6. ASSUME UNCHANGED <<hpc, found, responseQueue>> PROVE AnswersInv'
    BY <1>6, <1>p, <1>q, <1>s DEF HandlersFind
<1>7. CASE shutdown \/ shutdown_returns \/ shutdown_close
    BY <1>7, <1>6 DEF shutdown, shutdown_returns, shutdown_close, queueVars, handlerVars
<1>8. ASSUME NEW h \in Hosts, shutdown_pop(h) PROVE AnswersInv'
    BY <1>8, <1>6 DEF shutdown_pop, queueVars, handlerVars
<1>9. ASSUME NEW x \in connected, connection_lost(x) PROVE AnswersInv'
    BY <1>9, <1>6 DEF connection_lost, queueVars, handlerVars
<1>10. CASE terminate
  <2>1. HandlersFind'
    BY <1>10 DEF terminate, HandlersFind
  <2>2. PICK kept \in [Workers -> 0..Cardinality(Callers)] :
           /\ \A w \in Workers : kept[w] <= Len(responseQueue[w])
           /\ responseQueue' = [w \in Workers |-> SubSeq(responseQueue[w], 1, kept[w])]
    BY <1>10 DEF terminate
  <2>3. ASSUME NEW w \in Workers, NEW i \in DOMAIN responseQueue'[w]
        PROVE  AnswerTo(w, responseQueue'[w][i])
    <3> DEFINE q == responseQueue[w]
               k == kept[w]
    <3>1. k \in 0 .. Cardinality(Callers) /\ k <= Len(q) /\ q \in Seq(Items)
          /\ responseQueue'[w] = SubSeq(q, 1, k)
      BY <2>2, <1>t
    <3>2. k \in Int
      BY <3>1
    <3>3. \A j \in DOMAIN q : AnswerTo(w, q[j])
      BY <1>p DEF QueuesAnswer
    <3> HIDE DEF q, k
    <3>4. /\ SubSeq(q, 1, k) \in Seq(Items) /\ Len(SubSeq(q, 1, k)) = IF 1 <= k THEN k - 1 + 1 ELSE 0
          /\ \A j \in 1 .. k - 1 + 1 : SubSeq(q, 1, k)[j] = q[1 + j - 1]
      BY <3>1, <3>2, SubSeqProperties
    <3>5. i \in 1 .. k
      BY <3>1, <3>2, <3>4
    <3>6. responseQueue'[w][i] = q[i] /\ i \in DOMAIN q
      BY <3>1, <3>2, <3>4, <3>5
    <3> QED BY <3>3, <3>6
  <2>4. QueuesAnswer'
    BY <2>3, <1>u DEF QueuesAnswer, AnswerTo
  <2> QED BY <2>1, <2>4, <1>s
<1>h. ASSUME NEW c \in Callers, Handler(c) PROVE AnswersInv'
    BY <1>h, <1>1, <1>2, <1>3, <1>4 DEF Handler
<1>d. CASE Dispatcher
    BY <1>d, <1>5, <1>7, <1>8 DEF Dispatcher
<1>e. CASE Environment
    BY <1>e, <1>7, <1>9, <1>10 DEF Environment
<1> QED BY <1>h, <1>d, <1>e DEF BrokerStep

(* Those that ask take up only answers about them: an id names one caller  *)
(* of the process whose reader found the answer.                           *)
LEMMA AnswersCaller ==
    ASSUME TypeOK, SlotsInv, AnswersInv, CallerStep
    PROVE  AnswersInv'
<1>p. IdsAreOwn /\ HandlersFind /\ QueuesAnswer /\ ReadersAnswer /\ CallersGet
    BY AnswerParts DEF AnswersInv
<1>t. /\ cpc \in [Callers -> CallerPcs] /\ id \in [Callers -> Nat]
      /\ nextId \in [Workers -> Nat] /\ pending \in [Workers -> SUBSET Callers]
      /\ slot \in [Callers -> Results] /\ result \in [Callers -> Results]
      /\ responseQueue \in [Workers -> Seq(Items)]
      /\ rpc \in [Workers -> {"get", "pop", "put"}] /\ item \in [Workers -> Items]
      /\ \A c \in Callers : WorkerOf[c] \in Workers
    BY WorkersAssumption DEF TypeOK
<1>h. HandlersFind'
    BY CallerFrame, <1>p DEF handlerVars, HandlersFind
<1>s. ASSUME IdsAreOwn', QueuesAnswer', ReadersAnswer', CallersGet' PROVE AnswersInv'
    BY <1>h, <1>s DEF AnswersInv, AnswersAreOwn, HandlersFind, QueuesAnswer, ReadersAnswer,
        CallersGet
(* A caller's step after lookup: ids and queues of answers stay.           *)
<1>m. ASSUME NEW c \in Callers, cpc[c] # "idle", NEW x \in CallerPcs, x # "idle",
             cpc' = [cpc EXCEPT ![c] = x], UNCHANGED <<nextId, id, responseQueue, rpc, item>>
      PROVE  IdsAreOwn' /\ QueuesAnswer' /\ ReadersAnswer'
  <2>1. \A d \in Callers : cpc'[d] = IF d = c THEN x ELSE cpc[d]
    BY <1>m, <1>t
  <2>2. IdsAreOwn'
    BY <1>m, <2>1, <1>p DEF IdsAreOwn
  <2>3. \A d \in Callers : cpc[d] # "idle" => cpc'[d] # "idle" /\ id'[d] = id[d]
    BY <1>m, <2>1
  <2>4. \A w \in Workers : \A m : AnswerTo(w, m) =>
           \E d \in Callers : /\ WorkerOf[d] = w /\ cpc'[d] # "idle" /\ id'[d] = m.id
                              /\ m.result \in FoundOf(d)
    BY <2>3, AnswerStays
  <2>5. QueuesAnswer'
    BY <2>4, <1>m, <1>p DEF QueuesAnswer, AnswerTo
  <2>6. ReadersAnswer'
    BY <2>4, <1>m, <1>p DEF ReadersAnswer, AnswerTo
  <2> QED BY <2>2, <2>5, <2>6
<1>1. ASSUME NEW c \in Callers, lookup(c) PROVE AnswersInv'
  <2> DEFINE w == WorkerOf[c]
  <2>1. /\ cpc[c] = "idle" /\ id' = [id EXCEPT ![c] = nextId[w]]
        /\ nextId' = [nextId EXCEPT ![w] = nextId[w] + 1] /\ cpc' = [cpc EXCEPT ![c] = "put"]
        /\ UNCHANGED <<slot, result, rpc, item, responseQueue>>
    BY <1>1 DEF lookup, queueVars
  <2>2. /\ \A d \in Callers : cpc'[d] = IF d = c THEN "put" ELSE cpc[d]
        /\ \A d \in Callers : id'[d] = IF d = c THEN nextId[w] ELSE id[d]
        /\ \A v \in Workers : nextId'[v] = IF v = w THEN nextId[w] + 1 ELSE nextId[v]
        /\ \A v \in Workers : nextId[v] \in Nat /\ \A d \in Callers : id[d] \in Nat
    BY <2>1, <1>t
  <2>3. IdsAreOwn'
    BY <2>1, <2>2, <1>p, <1>t DEF IdsAreOwn
  <2>4. \A d \in Callers : cpc[d] # "idle" => cpc'[d] # "idle" /\ id'[d] = id[d]
    BY <2>1, <2>2
  <2>5. \A v \in Workers : \A m : AnswerTo(v, m) =>
           \E d \in Callers : /\ WorkerOf[d] = v /\ cpc'[d] # "idle" /\ id'[d] = m.id
                              /\ m.result \in FoundOf(d)
    BY <2>4, AnswerStays
  <2>6. QueuesAnswer'
    BY <2>5, <2>1, <1>p DEF QueuesAnswer, AnswerTo
  <2>7. ReadersAnswer'
    BY <2>5, <2>1, <1>p DEF ReadersAnswer, AnswerTo
  <2>8. CallersGet'
    BY <2>1, <2>2, <1>p DEF CallersGet
  <2> QED BY <2>3, <2>6, <2>7, <2>8, <1>s
<1>2. ASSUME NEW c \in Callers, request_put(c) PROVE AnswersInv'
  <2>1. /\ cpc[c] = "put" /\ cpc' = [cpc EXCEPT ![c] = "get"]
        /\ UNCHANGED <<nextId, id, result, slot, rpc, item, responseQueue>>
    BY <1>2 DEF request_put, clientVars
  <2>2. CallersGet'
    BY <2>1, <1>p, <1>t DEF CallersGet
  <2> QED BY <2>1, <2>2, <1>m, <1>s DEF CallerPcs
<1>3. ASSUME NEW c \in Callers, request_put_raises(c) \/ slot_timeout(c) PROVE AnswersInv'
  <2>1. /\ cpc[c] \in {"put", "get"} /\ cpc' = [cpc EXCEPT ![c] = "give_up"]
        /\ \E r \in Service!Excuses : result' = [result EXCEPT ![c] = r]
        /\ UNCHANGED <<nextId, id, slot, rpc, item, responseQueue>>
    BY <1>3 DEF request_put_raises, slot_timeout, clientVars, queueVars, Service!Excuses,
        Service!NoOne, NoOne
  <2>2. CallersGet'
    BY <2>1, <1>p, <1>t DEF CallersGet
  <2> QED BY <2>1, <2>2, <1>m, <1>s DEF CallerPcs
<1>4. ASSUME NEW c \in Callers, slot_get(c) PROVE AnswersInv'
  <2>1. /\ cpc[c] = "get" /\ cpc' = [cpc EXCEPT ![c] = "returned"]
        /\ slot' = [slot EXCEPT ![c] = NoResult] /\ result' = [result EXCEPT ![c] = slot[c]]
        /\ UNCHANGED <<nextId, id, rpc, item, responseQueue>>
    BY <1>4 DEF slot_get, queueVars
  <2>2. CallersGet'
    BY <2>1, <1>p, <1>t DEF CallersGet
  <2> QED BY <2>1, <2>2, <1>m, <1>s DEF CallerPcs
<1>5. ASSUME NEW c \in Callers, give_up(c) PROVE AnswersInv'
  <2>1. /\ cpc[c] = "give_up" /\ cpc' = [cpc EXCEPT ![c] = "returned"]
        /\ UNCHANGED <<nextId, id, result, slot, rpc, item, responseQueue>>
    BY <1>5 DEF give_up, queueVars
  <2>2. CallersGet'
    BY <2>1, <1>p, <1>t DEF CallersGet
  <2> QED BY <2>1, <2>2, <1>m, <1>s DEF CallerPcs
<1>r. ASSUME UNCHANGED callerVars PROVE IdsAreOwn'
    BY <1>r, <1>p DEF callerVars, IdsAreOwn
<1>6. ASSUME NEW w \in Workers, reader_get(w) PROVE AnswersInv'
  <2>1. /\ responseQueue[w] # <<>> /\ item' = [item EXCEPT ![w] = Head(responseQueue[w])]
        /\ responseQueue' = [responseQueue EXCEPT ![w] = Tail(responseQueue[w])]
        /\ rpc' = [rpc EXCEPT ![w] = "pop"]
        /\ UNCHANGED <<cpc, id, nextId, result, slot>>
    BY <1>6 DEF reader_get, callerVars
  <2> DEFINE q == responseQueue[w]
  <2>2. /\ q \in Seq(Items) /\ q # <<>> /\ \A i \in DOMAIN q : AnswerTo(w, q[i])
        /\ item'[w] = Head(q) /\ responseQueue'[w] = Tail(q)
        /\ \A v \in Workers : v # w =>
              item'[v] = item[v] /\ responseQueue'[v] = responseQueue[v] /\ rpc'[v] = rpc[v]
        /\ rpc'[w] = "pop"
    BY <2>1, <1>t, <1>p DEF QueuesAnswer
  <2> HIDE DEF q
  <2>3. AnswerTo(w, Head(q)) /\ \A i \in DOMAIN Tail(q) : AnswerTo(w, Tail(q)[i])
    <3>1. Head(q) = q[1] /\ 1 \in DOMAIN q
      BY <2>2
    <3>2. \A i \in DOMAIN Tail(q) : i + 1 \in DOMAIN q /\ Tail(q)[i] = q[i + 1]
      BY <2>2
    <3> QED BY <2>2, <3>1, <3>2
  <2>4. QueuesAnswer'
    <3>1. ASSUME NEW v \in Workers, NEW i \in DOMAIN responseQueue'[v]
          PROVE  AnswerTo(v, responseQueue'[v][i])
      BY <2>2, <2>3, <1>p DEF QueuesAnswer
    <3> QED BY <3>1, <2>1 DEF QueuesAnswer, AnswerTo
  <2>5. ReadersAnswer'
    <3>1. ASSUME NEW v \in Workers, rpc'[v] = "pop" PROVE AnswerTo(v, item'[v])
      BY <3>1, <2>2, <2>3, <1>p DEF ReadersAnswer
    <3>2. ASSUME NEW v \in Workers, rpc'[v] = "put", NEW c \in item'[v].to
          PROVE  item'[v].result \in FoundOf(c)
      BY <3>2, <2>2, <1>p DEF ReadersAnswer
    <3> QED BY <3>1, <3>2, <2>1 DEF ReadersAnswer, AnswerTo
  <2>6. CallersGet'
    BY <2>1, <1>p DEF CallersGet
  <2> QED BY <2>1, <2>4, <2>5, <2>6, <1>r, <1>s DEF callerVars
<1>7. ASSUME NEW w \in Workers, reader_pop(w) PROVE AnswersInv'
  <2>1. /\ rpc[w] = "pop" /\ item' = [item EXCEPT ![w].to = Owners(w)]
        /\ rpc' = [rpc EXCEPT ![w] = IF Owners(w) = {} THEN "get" ELSE "put"]
        /\ UNCHANGED <<cpc, id, nextId, result, slot, responseQueue>>
    BY <1>7 DEF reader_pop, callerVars, queueVars
  <2>2. /\ item'[w].to = Owners(w) /\ item'[w].result = item[w].result
        /\ \A v \in Workers : v # w => item'[v] = item[v] /\ rpc'[v] = rpc[v]
        /\ rpc'[w] # "pop"
    BY <2>1, <1>t DEF Items
  <2>3. ASSUME NEW c \in Owners(w) PROVE item[w].result \in FoundOf(c)
    <3>1. PICK d \in Callers : /\ WorkerOf[d] = w /\ cpc[d] # "idle" /\ id[d] = item[w].id
                               /\ item[w].result \in FoundOf(d)
      BY <2>1, <1>p DEF ReadersAnswer, AnswerTo
    <3>2. c \in Callers /\ WorkerOf[c] = w /\ cpc[c] # "idle" /\ id[c] = item[w].id
      BY <1>t DEF Owners, SlotsInv, PendingAsk
    <3>3. c = d
      BY <3>1, <3>2, <1>p DEF IdsAreOwn
    <3> QED BY <3>1, <3>3
  <2>4. ReadersAnswer'
    <3>1. ASSUME NEW v \in Workers, rpc'[v] = "pop" PROVE AnswerTo(v, item'[v])
      BY <3>1, <2>2, <1>p DEF ReadersAnswer
    <3>2. ASSUME NEW v \in Workers, rpc'[v] = "put", NEW c \in item'[v].to
          PROVE  item'[v].result \in FoundOf(c)
      BY <3>2, <2>2, <2>3, <1>p DEF ReadersAnswer
    <3> QED BY <3>1, <3>2, <2>1 DEF ReadersAnswer, AnswerTo
  <2>5. QueuesAnswer' /\ CallersGet'
    BY <2>1, <1>p DEF QueuesAnswer, AnswerTo, CallersGet
  <2> QED BY <2>1, <2>4, <2>5, <1>r, <1>s DEF callerVars
<1>8. ASSUME NEW w \in Workers, reader_put(w) PROVE AnswersInv'
  <2>1. /\ rpc[w] = "put" /\ rpc' = [rpc EXCEPT ![w] = "get"]
        /\ slot' = [c \in Callers |-> IF c \in item[w].to THEN item[w].result ELSE slot[c]]
        /\ UNCHANGED <<cpc, id, nextId, result, responseQueue>>
        /\ \A v \in Workers : v # w => item'[v] = item[v] /\ rpc'[v] = rpc[v]
        /\ rpc'[w] = "get"
    BY <1>8, <1>t DEF reader_put, callerVars, queueVars
  <2>2. CallersGet'
    BY <2>1, <1>p DEF CallersGet, ReadersAnswer
  <2>3. ReadersAnswer'
    BY <2>1, <1>p DEF ReadersAnswer, AnswerTo
  <2>4. QueuesAnswer'
    BY <2>1, <1>p DEF QueuesAnswer, AnswerTo
  <2> QED BY <2>1, <2>2, <2>3, <2>4, <1>r, <1>s DEF callerVars
<1>w. ASSUME NEW c \in Callers, lookup(c) \/ Wait(c) PROVE AnswersInv'
    BY <1>w, <1>1, <1>2, <1>3, <1>4, <1>5 DEF Wait
<1>d. ASSUME NEW w \in Workers, Reader(w) PROVE AnswersInv'
    BY <1>d, <1>6, <1>7, <1>8 DEF Reader
<1> QED BY <1>w, <1>d DEF CallerStep

(* A step of anyone keeps answers with those they are about.               *)
LEMMA AnswersStep ==
    TypeOK /\ RequestsInv /\ SlotsInv /\ AnswersInv /\ [Next]_vars => AnswersInv'
<1>1. ASSUME AnswersInv, UNCHANGED vars PROVE AnswersInv'
    BY <1>1 DEF AnswersInv, IdsAreOwn, AnswersAreOwn, AnswerTo, vars, callerVars, clientVars,
        queueVars, handlerVars
<1> QED BY <1>1, TwoSides, AnswersBroker, AnswersCaller

-----------------------------------------------------------------------------
(* IInv is inductive.                                                      *)
LEMMA IInvStep == IInv /\ [Next]_vars => IInv'
BY TypeStep, RequestsStep, HostsStep, SlotsStep, AnswersStep DEF IInv, HostsInv

(* ... and holds always.                                                   *)
LEMMA IInvAlways == Spec => []IInv
BY InitInv, IInvStep, PTL DEF Spec

(* The types of SSHBroker's variables, in every behaviour.                 *)
THEOREM TypeCorrect == Spec => []TypeOK
<1>1. IInv => TypeOK
    BY DEF IInv
<1> QED BY <1>1, IInvAlways, PTL

(* Two handlers that are inside a lock are of different computers, and an  *)
(* object is of the computer of its handler: so nobody else has it.        *)
LEMMA ExclusiveUse == IInv => ConnectionsAreExclusive
<1> SUFFICES ASSUME IInv PROVE ConnectionsAreExclusive
    OBVIOUS
<1>i. Held /\ AtHome /\ NoneWhileClosing /\ ConnectedIsKnown /\ UsesTheHosts /\ NoPendingLeak
    BY DEF IInv, HostsInv, SlotsInv
<1>p. UsingPcs \subseteq LockedPcs /\ "closing" \in LockedPcs
    BY DEF LockedPcs
<1>1. OneQueryPerConnection
  <2> SUFFICES ASSUME NEW c \in Callers, NEW d \in Callers, c # d,
                      hpc[c] \in UsingPcs, hpc[d] \in UsingPcs
               PROVE  client[c] # client[d]
    BY DEF OneQueryPerConnection
  <2>1. client[c] # NoOne /\ client[d] # NoOne
    BY <1>i DEF UsesTheHosts
  <2>2. host[client[c]] = host[c] /\ host[client[d]] = host[d]
    BY <2>1, <1>i DEF AtHome
  <2> QED BY <2>2, <1>i, <1>p, OneInside
<1>2. ClosedByItsUser
  <2> SUFFICES ASSUME NEW c \in Callers, NEW d \in Callers, c # d,
                      popped[c] # NoOne, hpc[d] \in UsingPcs
               PROVE  client[d] # popped[c]
    BY DEF ClosedByItsUser
  <2>1. hpc[c] = "closing" /\ host[popped[c]] = host[c]
    BY <1>i DEF AtHome
  <2>2. host[client[d]] = host[d]
    BY <1>i DEF AtHome, UsesTheHosts
  <2> QED BY <2>1, <2>2, <1>i, <1>p, OneInside
<1>3. OneConnectionPerHost
  <2> SUFFICES ASSUME bpc = "serving", NEW x \in connected, NEW y \in connected,
                      host[x] = host[y]
               PROVE  x = y
    BY DEF OneConnectionPerHost
  <2>t. x \in Callers /\ y \in Callers /\ NoOne \notin Callers
    BY CallersAssumption DEF IInv, TypeOK
  <2>1. ASSUME NEW z \in connected, host[z] = host[x], clients[host[z]] # z
        PROVE  \E c \in Callers : /\ hpc[c] = "closing" /\ popped[c] = z
                                  /\ host[c] = host[x] /\ clients[host[c]] = NoOne
    <3>1. PICK c \in Callers : hpc[c] = "closing" /\ popped[c] = z
      BY <2>1, <1>i DEF ConnectedIsKnown
    <3>2. z # NoOne
      BY CallersAssumption DEF IInv, TypeOK
    <3> QED BY <3>1, <3>2, <2>1, <1>i DEF AtHome, NoneWhileClosing
  <2>2. CASE clients[host[x]] = x /\ clients[host[y]] = y
    BY <2>2
  <2>3. CASE clients[host[x]] # x /\ clients[host[y]] # y
    BY <2>3, <2>1, <1>i, <1>p, OneInside
  <2>4. CASE clients[host[x]] # x /\ clients[host[y]] = y
    BY <2>4, <2>1, <2>t
  <2>5. CASE clients[host[x]] = x /\ clients[host[y]] # y
    BY <2>5, <2>1, <2>t
  <2> QED BY <2>2, <2>3, <2>4, <2>5
<1> QED BY <1>1, <1>2, <1>3, <1>i DEF ConnectionsAreExclusive

(* "that host's single connection is used by one query at a time", and     *)
(* closed by the query which failed on it; no caller that returned is left *)
(* in _pending: for any callers, processes, computers and troubles.        *)
THEOREM ConnectionsStayExclusive == Spec => []ConnectionsAreExclusive
BY ExclusiveUse, IInvAlways, PTL

-----------------------------------------------------------------------------
(* What a caller sees of its lookup: the variables of LookupService.       *)
status == [c \in Callers |-> CASE cpc[c] = "idle" -> "idle"
                               [] cpc[c] = "returned" -> "returned"
                               [] OTHER -> "asking"]
returned == [c \in Callers |-> IF cpc[c] = "returned" THEN result[c] ELSE NoResult]

(* The initial states are the abstract ones.                               *)
LEMMA ServiceInit == Init => Service!Init
<1> SUFFICES ASSUME Init PROVE Service!Init
    OBVIOUS
<1>1. \A c \in Callers : cpc[c] = "idle"
    BY DEF Init
<1>2. status = [c \in Callers |-> "idle"]
    BY <1>1 DEF status
<1>3. returned = [c \in Callers |-> Service!NoResult]
    BY <1>1 DEF returned, Service!NoResult, Service!NoOne, NoResult, NoOne
<1> QED BY <1>2, <1>3 DEF Service!Init, status, returned

(* A step after which every caller is where it was, as seen from outside.  *)
LEMMA ServiceStutters ==
    ASSUME TypeOK,
           \A c \in Callers :
              \/ cpc'[c] = cpc[c] /\ result'[c] = result[c]
              \/ cpc[c] \notin {"idle", "returned"} /\ cpc'[c] \notin {"idle", "returned"}
    PROVE  UNCHANGED Service!vars
<1>1. status' = status
    BY DEF status
<1>2. returned' = returned
    BY DEF returned
<1> QED BY <1>1, <1>2 DEF Service!vars, status, returned

(* A step that returns something of its own, or an excuse, to a caller.    *)
LEMMA ServiceReturns ==
    ASSUME TypeOK, NEW c \in Callers, cpc[c] \notin {"idle", "returned"},
           cpc' = [cpc EXCEPT ![c] = "returned"],
           NEW r \in FoundOf(c) \cup Service!Excuses, result'[c] = r,
           \A d \in Callers : d # c => result'[d] = result[d]
    PROVE  Service!Next
<1>1. \A d \in Callers : cpc'[d] = IF d = c THEN "returned" ELSE cpc[d]
    BY DEF TypeOK
<1>2. status[c] = "asking" /\ status' = [status EXCEPT ![c] = "returned"]
    BY <1>1 DEF status
<1>3. returned' = [returned EXCEPT ![c] = r]
    BY <1>1 DEF returned
<1>4. r \in Service!Found(c) \cup Service!Excuses
    BY DEF FoundOf, Service!Found
<1>5. Service!Return(c)
    BY <1>2, <1>3, <1>4 DEF Service!Return, status, returned
<1> QED BY <1>5 DEF Service!Next

(* Every step is a step of the service or a stutter.                       *)
LEMMA ServiceStep == IInv /\ [Next]_vars => [Service!Next]_(Service!vars)
<1> SUFFICES ASSUME IInv, [Next]_vars PROVE Service!Next \/ UNCHANGED Service!vars
    OBVIOUS
<1>t. /\ TypeOK /\ SlotsInv /\ AnswersInv
      /\ cpc \in [Callers -> CallerPcs] /\ result \in [Callers -> Results]
    BY DEF IInv, TypeOK
<1>1. CASE BrokerStep \/ UNCHANGED vars \/ \E w \in Workers : Reader(w)
  <2>1. cpc' = cpc /\ result' = result
    BY <1>1, BrokerFrame DEF vars, callerVars, Reader, reader_get, reader_pop, reader_put
  <2> QED BY <2>1, <1>t, ServiceStutters
<1>2. ASSUME NEW c \in Callers, lookup(c) PROVE Service!Next
  <2>1. /\ cpc[c] = "idle" /\ result' = result
        /\ \A d \in Callers : cpc'[d] = IF d = c THEN "put" ELSE cpc[d]
    BY <1>2, <1>t DEF lookup
  <2>2. status[c] = "idle" /\ status' = [status EXCEPT ![c] = "asking"]
    BY <2>1 DEF status
  <2>3. returned' = returned
    BY <2>1 DEF returned
  <2>4. Service!Ask(c)
    BY <2>2, <2>3 DEF Service!Ask, status, returned
  <2> QED BY <2>4 DEF Service!Next
<1>3. ASSUME NEW c \in Callers, request_put(c) \/ request_put_raises(c) \/ slot_timeout(c)
      PROVE  UNCHANGED Service!vars
  <2>1. /\ cpc[c] \in {"put", "get"}
        /\ \E x \in {"get", "give_up"} : cpc' = [cpc EXCEPT ![c] = x]
        /\ \A d \in Callers : d # c => result'[d] = result[d]
    BY <1>3, <1>t DEF request_put, request_put_raises, slot_timeout
  <2>2. PICK x \in {"get", "give_up"} : \A d \in Callers : cpc'[d] = IF d = c THEN x ELSE cpc[d]
    BY <2>1, <1>t
  <2> QED BY <2>1, <2>2, <1>t, ServiceStutters
<1>4. ASSUME NEW c \in Callers, slot_get(c) PROVE Service!Next
  <2>1. /\ cpc[c] = "get" /\ cpc' = [cpc EXCEPT ![c] = "returned"] /\ slot[c] # NoResult
        /\ result'[c] = slot[c] /\ \A d \in Callers : d # c => result'[d] = result[d]
    BY <1>4, <1>t DEF slot_get
  <2>2. slot[c] \in FoundOf(c)
    BY <2>1, <1>t DEF AnswersInv, AnswersAreOwn
  <2> QED BY <2>1, <2>2, <1>t, ServiceReturns
<1>5. ASSUME NEW c \in Callers, give_up(c) PROVE Service!Next
  <2>1. /\ cpc[c] = "give_up" /\ cpc' = [cpc EXCEPT ![c] = "returned"] /\ result' = result
    BY <1>5 DEF give_up
  <2>2. result[c] \in Service!Excuses
    BY <2>1, <1>t DEF AnswersInv, AnswersAreOwn
  <2> QED BY <2>1, <2>2, <1>t, ServiceReturns
<1> QED BY <1>1, <1>2, <1>3, <1>4, <1>5, TwoSides DEF CallerStep, Wait

(* Whatever is late, lost or killed, a caller of lookup() gets what was    *)
(* found about its own connection, or an excuse, and once: SSHBroker keeps *)
(* the safety part of LookupService.                                       *)
THEOREM ImplementsTheService == Spec => Service!Init /\ [][Service!Next]_(Service!vars)
BY ServiceInit, ServiceStep, IInvAlways, PTL DEF Spec
=============================================================================
