----------------------------- MODULE SSHBroker -----------------------------
(***************************************************************************)
(* Process-name lookups of mitm/ssh_broker.py: connection threads of the   *)
(* TCP server processes ("workers") ask one broker process which program   *)
(* on which computer opened a connection.                                  *)
(*                                                                         *)
(* SSHLookupClient, one per worker: a caller leaves a slot in _pending and *)
(* a request in the shared queue and waits for the slot with a timeout;    *)
(* the worker's reader thread takes results off the worker's response      *)
(* queue and puts each into the slot of its caller.  SSHBroker: a          *)
(* dispatcher hands requests to a thread pool, and a handler queries its   *)
(* host over the host's only SSH connection, under the host's lock.        *)
(*                                                                         *)
(* A connection makes one lookup, so a request, its handler and the        *)
(* SSHRemote object a handler creates are named after the caller.          *)
(***************************************************************************)
EXTENDS Naturals, Sequences, FiniteSets

CONSTANTS
    Callers,          \* connection threads
    Workers,          \* TCP server processes, by worker_id
    WorkerOf,         \* the process of a connection thread
    Hosts,            \* source addresses of the connections
    LocalHosts,       \* socket_base.THIS_DEVICE_IP_LIST
    MaxWorkers,       \* _MAX_RESOLVE_WORKERS
    Troubles          \* which of AllTroubles happen

ASSUME WorkersAssumption == WorkerOf \in [Callers -> Workers]
ASSUME HostsAssumption   == LocalHosts \subseteq Hosts
ASSUME PoolAssumption    == MaxWorkers \in Nat \ {0}

(* Queue.put raises; the main process stops the broker; the broker process *)
(* dies; an SSH connection is lost; a computer stalls a query.             *)
AllTroubles == {"put", "stop", "kill", "lost", "stall"}
ASSUME TroublesAssumption == Troubles \subseteq AllTroubles

NoOne == "no one"
ASSUME CallersAssumption == {NoOne, "dispatcher"} \cap Callers = {}

NoResult == [kind |-> "none", of |-> NoOne]
Results  == [kind : {"none", "command_line", "error", "timeout", "client_error"},
             of : Callers \cup {NoOne}]

(* A message of a response queue; to is used by the reader that holds it. *)
Items  == [id : Nat, result : Results, to : SUBSET Callers]
NoItem == [id |-> 0, result |-> NoResult, to |-> {}]

VARIABLES
    host,             \* per caller: the address its connection came from
    cpc,              \* where each caller is in lookup()
    nextId,           \* per worker: SSHLookupClient._ids
    id,               \* per caller: its request id (0: none yet)
    pending,          \* per worker: _pending, as the callers whose slots it holds
    slot,             \* per caller: its single-slot queue (NoResult: empty)
    result,           \* per caller: what lookup() returned
    requestQueue,     \* per worker: its part of the shared request queue
    responseQueue,    \* per worker: its response queue
    rpc,              \* per worker: where its reader thread is
    item,             \* per worker: what its reader holds
    bpc,              \* where the broker's dispatcher is
    closing,          \* hosts left for shutdown() to forget
    tasks,            \* the executor's queue
    hpc,              \* per request: where its handler is
    hostLock,         \* _locks: who holds a host's lock
    clients,          \* _clients: whose SSHRemote object serves a host
    client,           \* per handler: the object it got
    popped,           \* per handler and the dispatcher: the object it will close
    connected,        \* the SSHRemote objects with a live transport
    found             \* per handler: its local "result"

callerVars == <<cpc, nextId, id, result>>
clientVars == <<pending, slot, rpc, item>>
queueVars  == <<requestQueue, responseQueue>>
brokerVars == <<bpc, closing, tasks>>
handlerVars == <<hpc, hostLock, client, found>>
sshVars    == <<clients, popped, connected>>
vars == <<host, callerVars, clientVars, queueVars, brokerVars, handlerVars, sshVars>>

Closers == Callers \cup {"dispatcher"}
CallerPcs == {"idle", "put", "get", "give_up", "returned"}
HandlerPcs == {"none", "queued", "waiting", "create", "connect", "querying", "stalled", "failed",
               "closing", "respond", "done"}
(* The handlers that occupy a thread of the pool, those of them inside     *)
(* "with host_lock", and those of them that use the host's connection.     *)
UsingPcs   == {"connect", "querying", "stalled"}
LockedPcs  == UsingPcs \cup {"create", "failed", "closing"}
RunningPcs == LockedPcs \cup {"waiting", "respond"}

Init ==
    /\ host \in [Callers -> Hosts]
    /\ cpc = [c \in Callers |-> "idle"]
    /\ nextId = [w \in Workers |-> 1]
    /\ id = [c \in Callers |-> 0]
    /\ pending = [w \in Workers |-> {}]
    /\ slot = [c \in Callers |-> NoResult]
    /\ result = [c \in Callers |-> NoResult]
    /\ requestQueue = [w \in Workers |-> <<>>]
    /\ responseQueue = [w \in Workers |-> <<>>]
    /\ rpc = [w \in Workers |-> "get"]
    /\ item = [w \in Workers |-> NoItem]
    /\ bpc = "serving"
    /\ closing = {}
    /\ tasks = <<>>
    /\ hpc = [c \in Callers |-> "none"]
    /\ hostLock = [h \in Hosts |-> NoOne]
    /\ clients = [h \in Hosts |-> NoOne]
    /\ client = [c \in Callers |-> NoOne]
    /\ popped = [c \in Closers |-> NoOne]
    /\ connected = {}
    /\ found = [c \in Callers |-> NoResult]

---------------------------------------------------------------------------
(* SSHLookupClient.lookup, in a connection thread.                         *)

(* A new id, and a slot under it in _pending. *)
lookup(c) ==
    LET w == WorkerOf[c]
    IN  /\ cpc[c] = "idle"
        /\ id' = [id EXCEPT ![c] = nextId[w]]
        /\ nextId' = [nextId EXCEPT ![w] = @ + 1]
        /\ pending' = [pending EXCEPT ![w] = @ \cup {c}]
        /\ cpc' = [cpc EXCEPT ![c] = "put"]
        /\ UNCHANGED <<host, result, slot, rpc, item, queueVars, brokerVars,
                       handlerVars, sshVars>>

request_put(c) ==
    /\ cpc[c] = "put"
    /\ requestQueue' = [requestQueue EXCEPT ![WorkerOf[c]] = Append(@, c)]
    /\ cpc' = [cpc EXCEPT ![c] = "get"]
    /\ UNCHANGED <<host, nextId, id, result, clientVars, responseQueue, brokerVars, handlerVars,
                   sshVars>>

request_put_raises(c) ==
    /\ "put" \in Troubles
    /\ cpc[c] = "put"
    /\ result' = [result EXCEPT ![c] = [kind |-> "client_error", of |-> NoOne]]
    /\ cpc' = [cpc EXCEPT ![c] = "give_up"]
    /\ UNCHANGED <<host, nextId, id, clientVars, queueVars, brokerVars, handlerVars, sshVars>>

slot_get(c) ==
    /\ cpc[c] = "get"
    /\ slot[c] # NoResult
    /\ result' = [result EXCEPT ![c] = slot[c]]
    /\ slot' = [slot EXCEPT ![c] = NoResult]
    /\ cpc' = [cpc EXCEPT ![c] = "returned"]
    /\ UNCHANGED <<host, nextId, id, pending, rpc, item, queueVars, brokerVars,
                   handlerVars, sshVars>>

(* SSH_LOOKUP_TIMEOUT seconds without a result. *)
slot_timeout(c) ==
    /\ cpc[c] = "get"
    /\ slot[c] = NoResult
    /\ result' = [result EXCEPT ![c] = [kind |-> "timeout", of |-> NoOne]]
    /\ cpc' = [cpc EXCEPT ![c] = "give_up"]
    /\ UNCHANGED <<host, nextId, id, clientVars, queueVars, brokerVars, handlerVars, sshVars>>

(* Both exception handlers take the slot back, if it is still there. *)
Mutant_give_up_keeps_slot(c) ==
    /\ cpc[c] = "give_up"
    /\ cpc' = [cpc EXCEPT ![c] = "returned"]
    /\ UNCHANGED <<host, nextId, id, result, clientVars, queueVars, brokerVars, handlerVars, sshVars>>
give_up(c) ==
    /\ cpc[c] = "give_up"
    /\ pending' = [pending EXCEPT ![WorkerOf[c]] = @ \ {c}]
    /\ cpc' = [cpc EXCEPT ![c] = "returned"]
    /\ UNCHANGED <<host, nextId, id, result, slot, rpc, item, queueVars, brokerVars,
                   handlerVars, sshVars>>

(* SSHLookupClient._reader_loop: get, pop under the lock, put.             *)
reader_get(w) ==
    /\ rpc[w] = "get"
    /\ responseQueue[w] # <<>>
    /\ item' = [item EXCEPT ![w] = Head(responseQueue[w])]
    /\ responseQueue' = [responseQueue EXCEPT ![w] = Tail(@)]
    /\ rpc' = [rpc EXCEPT ![w] = "pop"]
    /\ UNCHANGED <<host, callerVars, pending, slot, requestQueue, brokerVars,
                   handlerVars, sshVars>>

(* An unknown id is of a caller that has left: the result is dropped. *)
Owners(w) == {c \in pending[w] : id[c] = item[w].id}

reader_pop(w) ==
    /\ rpc[w] = "pop"
    /\ item' = [item EXCEPT ![w].to = Owners(w)]
    /\ pending' = [pending EXCEPT ![w] = @ \ Owners(w)]
    /\ rpc' = [rpc EXCEPT ![w] = IF Owners(w) = {} THEN "get" ELSE "put"]
    /\ UNCHANGED <<host, callerVars, slot, queueVars, brokerVars, handlerVars, sshVars>>

(* slot.put: the caller may have left since; nobody looks at its slot. *)
reader_put(w) ==
    /\ rpc[w] = "put"
    /\ \A c \in item[w].to : slot[c] = NoResult
    /\ slot' = [c \in Callers |-> IF c \in item[w].to THEN item[w].result ELSE slot[c]]
    /\ item' = [item EXCEPT ![w] = NoItem]
    /\ rpc' = [rpc EXCEPT ![w] = "get"]
    /\ UNCHANGED <<host, callerVars, pending, queueVars, brokerVars, handlerVars, sshVars>>

---------------------------------------------------------------------------
(* SSHBroker.serve_forever and shutdown, in the broker's main thread.      *)

serve_forever(w) ==
    /\ bpc = "serving"
    /\ requestQueue[w] # <<>>
    /\ requestQueue' = [requestQueue EXCEPT ![w] = Tail(@)]
    /\ tasks' = Append(tasks, Head(requestQueue[w]))
    /\ hpc' = [hpc EXCEPT ![Head(requestQueue[w])] = "queued"]
    /\ UNCHANGED <<host, callerVars, clientVars, responseQueue, bpc, closing, hostLock,
                   client, found, sshVars>>

(* The sentinel which exit_cleanup puts: the executor takes no new task,   *)
(* and runs those it has.                                                  *)
shutdown ==
    /\ "stop" \in Troubles
    /\ bpc = "serving"
    /\ bpc' = "forgetting"
    /\ closing' = {h \in Hosts : clients[h] # NoOne}
    /\ UNCHANGED <<host, callerVars, clientVars, queueVars, tasks, handlerVars, sshVars>>

shutdown_pop(h) ==
    /\ bpc = "forgetting"
    /\ h \in closing
    /\ popped["dispatcher"] = NoOne
    /\ closing' = closing \ {h}
    /\ popped' = [popped EXCEPT !["dispatcher"] = clients[h]]
    /\ clients' = [clients EXCEPT ![h] = NoOne]
    /\ UNCHANGED <<host, callerVars, clientVars, queueVars, bpc, tasks, handlerVars,
                   connected>>

shutdown_close ==
    /\ bpc = "forgetting"
    /\ popped["dispatcher"] # NoOne
    /\ connected' = connected \ {popped["dispatcher"]}
    /\ popped' = [popped EXCEPT !["dispatcher"] = NoOne]
    /\ UNCHANGED <<host, callerVars, clientVars, queueVars, brokerVars, handlerVars, clients>>

shutdown_returns ==
    /\ bpc = "forgetting"
    /\ closing = {}
    /\ popped["dispatcher"] = NoOne
    /\ bpc' = "stopped"
    /\ UNCHANGED <<host, callerVars, clientVars, queueVars, closing, tasks, handlerVars,
                   sshVars>>

---------------------------------------------------------------------------
(* SSHBroker._handle, in a thread of the pool.                             *)

Mutant_Error_unknown(c) == [kind |-> "exception", of |-> c]
Error(c) == [kind |-> "error", of |-> c]
Release(c) == hostLock' = [hostLock EXCEPT ![host[c]] = NoOne]

Running == {c \in Callers : hpc[c] \in RunningPcs}

(* The pool takes the oldest task as soon as one of its threads is free.   *)
take(c) ==
    /\ tasks # <<>>
    /\ c = Head(tasks)
    /\ Cardinality(Running) < MaxWorkers
    /\ tasks' = Tail(tasks)
    /\ hpc' = [hpc EXCEPT ![c] = "waiting"]
    /\ UNCHANGED <<host, callerVars, clientVars, queueVars, bpc, closing, hostLock, client,
                   found, sshVars>>

Mutant_host_lock_none(c) ==
    /\ hpc[c] = "waiting"
    /\ hpc' = [hpc EXCEPT ![c] = "create"]
    /\ UNCHANGED <<host, callerVars, clientVars, queueVars, brokerVars, hostLock, client, found,
                   sshVars>>
host_lock(c) ==
    /\ hpc[c] = "waiting"
    /\ hostLock[host[c]] = NoOne
    /\ hostLock' = [hostLock EXCEPT ![host[c]] = c]
    /\ hpc' = [hpc EXCEPT ![c] = "create"]
    /\ UNCHANGED <<host, callerVars, clientVars, queueVars, brokerVars, client, found, sshVars>>

(* _get_or_create_client: the host's object, or a new one. *)
get_or_create_client(c) ==
    /\ hpc[c] = "create"
    /\ clients' = [clients EXCEPT ![host[c]] = IF @ = NoOne THEN c ELSE @]
    /\ client' = [client EXCEPT ![c] = clients'[host[c]]]
    /\ hpc' = [hpc EXCEPT ![c] = "connect"]
    /\ UNCHANGED <<host, callerVars, clientVars, queueVars, brokerVars, hostLock, found, popped,
                   connected>>

Mutant_create_raises_keeps_lock(c) ==
    /\ hpc[c] = "create"
    /\ clients[host[c]] = NoOne
    /\ found' = [found EXCEPT ![c] = Error(c)]
    /\ hpc' = [hpc EXCEPT ![c] = "respond"]
    /\ UNCHANGED <<host, callerVars, clientVars, queueVars, brokerVars, hostLock, client, sshVars>>

(* SSHRemote() raises: the outer handler answers, after the lock is free.  *)
create_raises(c) ==
    /\ hpc[c] = "create"
    /\ clients[host[c]] = NoOne
    /\ found' = [found EXCEPT ![c] = Error(c)]
    /\ hpc' = [hpc EXCEPT ![c] = "respond"]
    /\ Release(c)
    /\ UNCHANGED <<host, callerVars, clientVars, queueVars, brokerVars, client, sshVars>>

(* SSHRemote.connect, called first in connect_get_client_commandline: it   *)
(* does nothing while the transport is active.  The script for a local     *)
(* address runs without SSH.                                               *)
connect(c) ==
    /\ hpc[c] = "connect"
    /\ hpc' = [hpc EXCEPT ![c] = "querying"]
    /\ connected' = IF host[c] \in LocalHosts THEN connected ELSE connected \cup {client[c]}
    /\ UNCHANGED <<host, callerVars, clientVars, queueVars, brokerVars, hostLock, client, found,
                   clients, popped>>

(* The query, and every error which is returned and not raised: connect's  *)
(* own ("one of the local computer network interfaces"), a read timeout,   *)
(* the script's output on stderr.                                          *)
run_lookup(c) ==
    /\ \/ hpc[c] = "querying"
          /\ \E k \in {"command_line", "error"} :
                found' = [found EXCEPT ![c] = [kind |-> k, of |-> c]]
       \/ /\ hpc[c] = "connect"
          /\ host[c] \notin LocalHosts
          /\ client[c] \notin connected
          /\ found' = [found EXCEPT ![c] = Error(c)]
    /\ hpc' = [hpc EXCEPT ![c] = "respond"]
    /\ client' = [client EXCEPT ![c] = NoOne]
    /\ Release(c)
    /\ UNCHANGED <<host, callerVars, clientVars, queueVars, brokerVars, sshVars>>

(* recv_exit_status (ssh_remote.py, 263) has no timeout: a computer which  *)
(* closes its output and sends no exit status holds the handler until the  *)
(* connection is gone.  Only the first query over an object looks for the  *)
(* remote interpreter.                                                     *)
query_stalls(c) ==
    /\ "stall" \in Troubles
    /\ hpc[c] = "querying"
    /\ host[c] \notin LocalHosts
    /\ client[c] = c
    /\ hpc' = [hpc EXCEPT ![c] = "stalled"]
    /\ UNCHANGED <<host, callerVars, clientVars, queueVars, brokerVars, hostLock, client, found,
                   sshVars>>

(* Connecting or querying raises: the host's object is dropped and closed, *)
(* under the host's lock, before the error is sent.                        *)
Raises(c) ==
    \/ hpc[c] \in {"connect", "querying"}
    \/ hpc[c] = "stalled" /\ client[c] \notin connected

Mutant_run_lookup_raises_unlocks(c) ==
    /\ Raises(c)
    /\ found' = [found EXCEPT ![c] = Error(c)]
    /\ hpc' = [hpc EXCEPT ![c] = "failed"]
    /\ Release(c)
    /\ UNCHANGED <<host, callerVars, clientVars, queueVars, brokerVars, client, sshVars>>
run_lookup_raises(c) ==
    /\ Raises(c)
    /\ found' = [found EXCEPT ![c] = Error(c)]
    /\ hpc' = [hpc EXCEPT ![c] = "failed"]
    /\ UNCHANGED <<host, callerVars, clientVars, queueVars, brokerVars, hostLock, client, sshVars>>

forget_client_pop(c) ==
    /\ hpc[c] = "failed"
    /\ popped' = [popped EXCEPT ![c] = clients[host[c]]]
    /\ clients' = [clients EXCEPT ![host[c]] = NoOne]
    /\ hpc' = [hpc EXCEPT ![c] = "closing"]
    /\ UNCHANGED <<host, callerVars, clientVars, queueVars, brokerVars, hostLock, client, found,
                   connected>>

forget_client_close(c) ==
    /\ hpc[c] = "closing"
    /\ connected' = connected \ {popped[c]}
    /\ popped' = [popped EXCEPT ![c] = NoOne]
    /\ client' = [client EXCEPT ![c] = NoOne]
    /\ hpc' = [hpc EXCEPT ![c] = "respond"]
    /\ Release(c)
    /\ UNCHANGED <<host, callerVars, clientVars, queueVars, brokerVars, found, clients>>

(* The finally clause: the response goes to the queue of the caller's      *)
(* worker; a put that raises is swallowed.                                 *)
Mutant_Destinations_all(c) == Workers
Destinations(c) == {WorkerOf[c]}

respond(c) ==
    /\ hpc[c] = "respond"
    /\ \/ responseQueue' = [w \in Workers |->
              IF w \in Destinations(c)
                THEN Append(responseQueue[w], [id |-> id[c], result |-> found[c], to |-> {}])
                ELSE responseQueue[w]]
       \/ "put" \in Troubles /\ UNCHANGED responseQueue
    /\ found' = [found EXCEPT ![c] = NoResult]
    /\ hpc' = [hpc EXCEPT ![c] = "done"]
    /\ UNCHANGED <<host, callerVars, clientVars, requestQueue, brokerVars, hostLock, client, sshVars>>

---------------------------------------------------------------------------
(* What happens to the processes (external).                               *)

(* exit_cleanup of mitm_main.py terminates the broker, which may also die  *)
(* by itself: responses which its queue has not written yet are lost with  *)
(* the rest.                                                               *)
terminate ==
    /\ "kill" \in Troubles
    /\ bpc # "killed"
    /\ bpc' = "killed"
    /\ \E kept \in [Workers -> 0..Cardinality(Callers)] :
          /\ \A w \in Workers : kept[w] <= Len(responseQueue[w])
          /\ responseQueue' = [w \in Workers |-> SubSeq(responseQueue[w], 1, kept[w])]
    /\ closing' = {}
    /\ tasks' = <<>>
    /\ hpc' = [c \in Callers |-> IF hpc[c] = "none" THEN "none" ELSE "done"]
    /\ hostLock' = [h \in Hosts |-> NoOne]
    /\ client' = [c \in Callers |-> NoOne]
    /\ found' = [c \in Callers |-> NoResult]
    /\ clients' = [h \in Hosts |-> NoOne]
    /\ popped' = [c \in Closers |-> NoOne]
    /\ connected' = {}
    /\ UNCHANGED <<host, callerVars, clientVars, requestQueue>>

(* A computer or the network ends an SSH connection. *)
connection_lost(x) ==
    /\ "lost" \in Troubles
    /\ x \in connected
    /\ connected' = connected \ {x}
    /\ UNCHANGED <<host, callerVars, clientVars, queueVars, brokerVars, handlerVars, clients, popped>>

---------------------------------------------------------------------------

Wait(c) == request_put(c) \/ request_put_raises(c) \/ slot_get(c) \/ slot_timeout(c) \/ give_up(c)
Reader(w) == reader_get(w) \/ reader_pop(w) \/ reader_put(w)
Dispatcher ==
    \/ \E w \in Workers : serve_forever(w)
    \/ shutdown_close \/ shutdown_returns
    \/ \E h \in Hosts : shutdown_pop(h)
Handler(c) ==
    \/ take(c) \/ host_lock(c) \/ get_or_create_client(c) \/ create_raises(c) \/ connect(c)
    \/ run_lookup(c) \/ query_stalls(c) \/ run_lookup_raises(c)
    \/ forget_client_pop(c) \/ forget_client_close(c)
    \/ respond(c)
Environment ==
    \/ shutdown \/ terminate
    \/ \E x \in connected : connection_lost(x)

(* Nobody waits, for a result, a lock or a thread of the pool, except for  *)
(* a computer that stalls.                                                 *)
Stalled == {c \in Callers : hpc[c] = "stalled"}
Terminating ==
    /\ \A c \in Callers :
          /\ cpc[c] \in {"idle", "returned"}
          /\ hpc[c] \in {"none", "done", "stalled"} \cup
                        IF Stalled = {} THEN {} ELSE {"queued", "waiting"}
    /\ UNCHANGED vars

Next ==
    \/ \E c \in Callers : lookup(c) \/ Wait(c) \/ Handler(c)
    \/ \E w \in Workers : Reader(w)
    \/ Dispatcher
    \/ Environment
    \/ Terminating

(* The operating system runs every thread that can run, and a wait with a  *)
(* timeout ends.  So does a query that does not stall: the other calls of  *)
(* ssh_remote.py that wait for a computer have a timeout.  Connections     *)
(* need not come.                                                          *)
Fairness ==
    /\ \A c \in Callers : WF_vars(Wait(c)) /\ WF_vars(Handler(c))
    /\ \A w \in Workers : WF_vars(Reader(w))
    /\ WF_vars(Dispatcher)

Spec == Init /\ [][Next]_vars /\ Fairness

---------------------------------------------------------------------------
(* Properties.                                                             *)

(* Every variable keeps its type. *)
TypeOK ==
    /\ host \in [Callers -> Hosts]
    /\ cpc \in [Callers -> CallerPcs]
    /\ nextId \in [Workers -> Nat]
    /\ id \in [Callers -> Nat]
    /\ pending \in [Workers -> SUBSET Callers]
    /\ slot \in [Callers -> Results]
    /\ result \in [Callers -> Results]
    /\ requestQueue \in [Workers -> Seq(Callers)]
    /\ responseQueue \in [Workers -> Seq(Items)]
    /\ rpc \in [Workers -> {"get", "pop", "put"}]
    /\ item \in [Workers -> Items]
    /\ bpc \in {"serving", "forgetting", "stopped", "killed"}
    /\ closing \subseteq Hosts
    /\ tasks \in Seq(Callers)
    /\ hpc \in [Callers -> HandlerPcs]
    /\ hostLock \in [Hosts -> Callers \cup {NoOne}]
    /\ clients \in [Hosts -> Callers \cup {NoOne}]
    /\ client \in [Callers -> Callers \cup {NoOne}]
    /\ popped \in [Closers -> Callers \cup {NoOne}]
    /\ connected \subseteq Callers
    /\ found \in [Callers -> Results]

(* A caller that has returned left nothing in _pending, however it left:   *)
(* the dictionary does not grow over the life of the server.               *)
NoPendingLeak == \A c \in Callers : cpc[c] = "returned" => c \notin pending[WorkerOf[c]]

(* "that host's single connection is used by one query at a time" (lines   *)
(* 4-5 and 88-89): paramiko transports are not safe to share.              *)
OneQueryPerConnection ==
    \A c, d \in Callers :
        c # d /\ hpc[c] \in UsingPcs /\ hpc[d] \in UsingPcs => client[c] # client[d]

(* A failed query closes the object which failed, never one that another   *)
(* request of the same host works with by now.                             *)
ClosedByItsUser ==
    \A c, d \in Callers :
        c # d /\ popped[c] # NoOne /\ hpc[d] \in UsingPcs => client[d] # popped[c]

(* While the broker serves, a host has one connection at most. *)
OneConnectionPerHost ==
    bpc = "serving" => \A x, y \in connected : host[x] = host[y] => x = y

(* The broker's dictionaries hold what is in use and nothing else: one     *)
(* connection per computer, one query on it, closed by its user, and no    *)
(* entry of a caller that went away.                                       *)
ConnectionsAreExclusive ==
    NoPendingLeak /\ OneQueryPerConnection /\ ClosedByItsUser /\ OneConnectionPerHost

(* Whatever its holder runs into, a host's lock is free again and again,   *)
(* unless that very host stalls: no other request of that host, and no     *)
(* thread of the pool, waits for ever.                                     *)
LocksAreFreed == \A h \in Hosts : []<>(hostLock[h] = NoOne \/ h \in {host[c] : c \in Stalled})

(* A caller sees LookupService: it always returns, and what it returns is  *)
(* about its own connection.                                               *)
Service == INSTANCE LookupService WITH
    status <- [c \in Callers |-> CASE cpc[c] = "idle" -> "idle"
                                   [] cpc[c] = "returned" -> "returned"
                                   [] OTHER -> "asking"],
    result <- [c \in Callers |-> IF cpc[c] = "returned" THEN result[c] ELSE NoResult]
ImplementsLookupService == Service!Spec

=============================================================================
