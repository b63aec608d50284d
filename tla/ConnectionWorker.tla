------------------------- MODULE ConnectionWorker -------------------------
(***************************************************************************)
(* One intercepted TCP connection: thread_worker_main of                   *)
(* mitm/connection_thread_worker.py and the Receiver and Sender it calls.  *)
(*                                                                         *)
(* Three threads share the closure of thread_worker_main: "main", which    *)
(* connects to the service, starts the other two and joins them; "client", *)
(* which receives from the client and sends to the service; "service",     *)
(* which does the reverse.  Offline, there is no service thread and the    *)
(* client thread answers the client itself.                                *)
(*                                                                         *)
(* A side is named by the thread that receives from it: wire["client"] is  *)
(* what the client has sent and the worker has not read yet.               *)
(***************************************************************************)
EXTENDS Naturals, Sequences

CONSTANTS
    Offline,               \* config_static.MainConfig.is_offline
    IsTls,                 \* the worker's sockets are SSLSockets
    MaxRequests,           \* bound: messages the client puts on its wire
    MaxResponses,          \* bound: messages the service puts on its wire
    MaxOutputs,            \* bound: messages one responder call returns
    RawChunks,             \* the peers also send what does not parse as HTTP
    RequesterChanges,      \* the engine's requester may rewrite a request
    EngineFails,           \* the engine's parser, requester or responder may raise
    PipelinedRequests,     \* the client sends a request before the last is answered
    UnsolicitedResponses,  \* the service sends an HTTP response nobody asked for
    SetupFails             \* the calls before line 850 may raise

ASSUME FlagsAssumption ==
    {Offline, IsTls, RawChunks, RequesterChanges, EngineFails, PipelinedRequests,
     UnsolicitedResponses, SetupFails} \subseteq BOOLEAN
ASSUME BoundsAssumption == {MaxRequests, MaxResponses, MaxOutputs} \subseteq Nat

Sides   == {"client", "service"}
Threads == Sides \cup {"main"}
Other(s) == IF s = "client" THEN "service" ELSE "client"

(* A chunk is what one wire message is to the worker: whether it parses as *)
(* HTTP and, for a request its number, for a response the request it       *)
(* answers (0: none).  Payloads are left out.                              *)
Chunks  == [kind : {"request", "response", "raw"}, id : Nat]
Batches == Seq(Chunks)
(* A message the worker sends, and whether the engine changed it. *)
Outputs == [data : Batches, changed : BOOLEAN]

(* What Receiver.receive returned.  err "conn" is an error string holding  *)
(* both 'Connection' and 'Error'; own marks an error which this worker's   *)
(* own close() caused.                                                     *)
Received == [data : Batches, closed : BOOLEAN, err : {"none", "conn", "other"},
             own : BOOLEAN]
NothingReceived == [data |-> <<>>, closed |-> FALSE, err |-> "none", own |-> FALSE]

Actions == {"service_connect", "client_receive", "client_requester", "service_send",
            "service_receive", "service_responder", "client_send",
            "client_responder_offline", "exception"}
(* One call of record_and_statistics_write; path is what parse_http took   *)
(* from http_path_queue (0: nothing).                                      *)
LogEntries == [action : Actions, data : Batches, path : Nat, own : BOOLEAN]

Exceptions == {"engine", "send", "attribute", "connect", "setup", "name"}
NoException == "no exception"

VARIABLES
    pc,          \* where each thread is
    sock,        \* the worker's own sockets: "none", "open" or "closed"
    socketInstance,   \* origin_service_client_instance.socket_instance is not None
    resetSent,   \* the client's socket got SO_LINGER 0: closing it sends TCP RST
    peer,        \* the remote ends: "open", "fin" or "rst"
    wire,        \* per side: sent by the peer, not yet read
    sentCount,   \* per side: how much the peer has sent (up to its bound)
    asked,       \* client: its last request (0: none); service: the last it answered
    delivered,   \* per side: what Sender.send has handed to that peer
    flag,        \* exception_or_close_in_receiving_thread
    pathQueue,   \* http_path_queue
    msg,         \* per side: what its thread received this cycle
    outs,        \* per side: bytes_to_send_list, what is left to send of it
    sendError,   \* per side: error_on_send
    reset,       \* per thread: send_connection_reset of its finish_thread call
    exc,         \* per thread: the exception it has caught
    excQueue,    \* client_exception_queue and service_exception_queue
    raised,      \* what thread_worker_main raised to its caller
    recorded     \* per thread: its calls of record_and_statistics_write

sockVars  == <<sock, socketInstance, resetSent>>
netVars   == <<peer, wire, sentCount, asked, delivered>>
cycleVars == <<msg, outs, sendError>>
excVars   == <<exc, excQueue, raised>>
vars == <<pc, sockVars, netVars, flag, pathQueue, cycleVars, reset, excVars, recorded>>

MainPcs   == {"setup", "connect", "start_client", "start_service", "join_client",
              "join_service", "check_queues"}
CyclePcs  == {"connect_response", "receive", "process", "engine", "responder", "output",
              "send", "decide"}
FinishPcs == {"finish", "close_service", "forget_service", "close_client", "linger_client",
              "close_client_now", "finished"}

Init ==
    /\ pc = [t \in Threads |-> IF t = "main" THEN "setup" ELSE "not_started"]
    /\ sock = [s \in Sides |-> IF s = "client" THEN "open" ELSE "none"]
    /\ socketInstance = FALSE
    /\ resetSent = FALSE
    /\ peer = [s \in Sides |-> "open"]
    /\ wire = [s \in Sides |-> <<>>]
    /\ sentCount = [s \in Sides |-> 0]
    /\ asked = [s \in Sides |-> 0]
    /\ delivered = [s \in Sides |-> <<>>]
    /\ flag = FALSE
    /\ pathQueue = <<>>
    /\ msg = [s \in Sides |-> NothingReceived]
    /\ outs = [s \in Sides |-> <<>>]
    /\ sendError = [s \in Sides |-> FALSE]
    /\ reset = [t \in Threads |-> FALSE]
    /\ exc = [t \in Threads |-> NoException]
    /\ excQueue = [s \in Sides |-> NoException]
    /\ raised = NoException
    /\ recorded = [t \in Threads |-> <<>>]

Goto(t, label) == pc' = [pc EXCEPT ![t] = label]

Record(t, action, data, path, own) ==
    recorded' = [recorded EXCEPT ![t] =
        Append(@, [action |-> action, data |-> data, path |-> path, own |-> own])]

(* The locals of a cycle die with it. *)
EndCycle(s) ==
    /\ msg' = [msg EXCEPT ![s] = NothingReceived]
    /\ outs' = [outs EXCEPT ![s] = <<>>]
    /\ sendError' = [sendError EXCEPT ![s] = FALSE]

---------------------------------------------------------------------------
(* The remote ends (external).                                             *)

PeerSends(s, kind, id) ==
    /\ peer[s] = "open"
    /\ sock[s] = "open"
    /\ sentCount[s] < IF s = "client" THEN MaxRequests ELSE MaxResponses
    /\ sentCount' = [sentCount EXCEPT ![s] = @ + 1]
    /\ wire' = [wire EXCEPT ![s] = Append(@, [kind |-> kind, id |-> id])]
    /\ UNCHANGED <<pc, sockVars, peer, delivered, flag, pathQueue, cycleVars, reset,
                   excVars, recorded>>

Reached(s, chunk) ==
    \E i \in 1..Len(delivered[s]) : \E k \in 1..Len(delivered[s][i].data) :
        delivered[s][i].data[k] = chunk

(* Unless it pipelines, a client waits for the answer to its last request  *)
(* before the next one, and the worker has read what came before.          *)
LastAnswered ==
    /\ wire["client"] = <<>>
    /\ asked["client"] # 0 => Reached("client", [kind |-> "response", id |-> asked["client"]])

ClientSends ==
    LET id == sentCount["client"] + 1
    IN  \/ /\ PipelinedRequests \/ LastAnswered
           /\ PeerSends("client", "request", id)
           /\ asked' = [asked EXCEPT !["client"] = id]
        \/ RawChunks /\ PeerSends("client", "raw", id) /\ UNCHANGED asked

(* The service answers the requests that reached it once each, in order.   *)
Unanswered == {id \in (asked["service"] + 1)..asked["client"] :
                  Reached("service", [kind |-> "request", id |-> id])}

ServiceSends ==
    \/ \E id \in Unanswered :
          /\ \A other \in Unanswered : id <= other
          /\ PeerSends("service", "response", id)
          /\ asked' = [asked EXCEPT !["service"] = id]
    \/ /\ UnsolicitedResponses
       /\ PeerSends("service", "response", 0)
       /\ UNCHANGED asked
    \/ RawChunks /\ PeerSends("service", "raw", 0) /\ UNCHANGED asked

PeerCloses(s) ==
    /\ peer[s] = "open"
    /\ sock[s] = "open"
    /\ \E p \in {"fin", "rst"} : peer' = [peer EXCEPT ![s] = p]
    /\ UNCHANGED <<pc, sockVars, wire, sentCount, asked, delivered, flag, pathQueue,
                   cycleVars, reset, excVars, recorded>>

---------------------------------------------------------------------------
(* One cycle of a receiving thread.                                        *)

(* What the kernel and TLS report of a closed peer. *)
PeerErrors(s) ==
    IF peer[s] = "fin" THEN {"none"} \cup (IF IsTls THEN {"other"} ELSE {})
                       ELSE {"conn"} \cup (IF IsTls THEN {"other"} ELSE {})

(* Receiver.receive: chunks are put together until half a second passes in *)
(* silence or the socket is found closed.  A thread waiting in recv on a   *)
(* socket which the other thread closes gets an error string.              *)
receive(s) ==
    /\ pc[s] = "receive"
    /\ \/ /\ sock[s] = "open"
          /\ \E n \in 1..Len(wire[s]) :
                /\ msg' = [msg EXCEPT ![s] =
                       [NothingReceived EXCEPT !.data = SubSeq(wire[s], 1, n)]]
                /\ wire' = [wire EXCEPT ![s] = SubSeq(@, n + 1, Len(@))]
       \/ /\ sock[s] = "open"
          /\ peer[s] # "open"
          /\ \E e \in PeerErrors(s) :
                msg' = [msg EXCEPT ![s] =
                       [data |-> wire[s], closed |-> TRUE, err |-> e, own |-> FALSE]]
          /\ wire' = [wire EXCEPT ![s] = <<>>]
       \/ /\ sock[s] = "closed"
          /\ \E e \in {"conn", "other"} :
                msg' = [msg EXCEPT ![s] =
                       [data |-> <<>>, closed |-> TRUE, err |-> e, own |-> TRUE]]
          /\ UNCHANGED wire
    /\ Goto(s, "process")
    /\ UNCHANGED <<sockVars, peer, sentCount, asked, delivered, flag, pathQueue, outs,
                   sendError, reset, excVars, recorded>>

(* getpeername, select or recv on a socket this worker has closed: OSError *)
(* 10038, which receive_send_start logs and drops.                         *)
receive_on_closed_socket(s) ==
    /\ pc[s] = "receive"
    /\ sock[s] = "closed"
    /\ Goto(s, "done")
    /\ EndCycle(s)
    /\ UNCHANGED <<sockVars, netVars, flag, pathQueue, reset, excVars, recorded>>

(* parse_http: a request leaves its path in the queue; a response takes    *)
(* one, and waits for it as long as the queue is empty.                    *)
IsHttp(kind, data) == data # <<>> /\ Head(data).kind = kind
PathTaken(data) == IF IsHttp("response", data) THEN Head(pathQueue) ELSE 0

CanParse(data) == IsHttp("response", data) => pathQueue # <<>>

Mutant_parse_http_peeks(data) ==
    \/ /\ IsHttp("request", data)
       /\ pathQueue' = Append(pathQueue, Head(data).id)
    \/ /\ ~IsHttp("request", data)
       /\ CanParse(data)
       /\ UNCHANGED pathQueue

parse_http(data) ==
    \/ /\ IsHttp("request", data)
       /\ pathQueue' = Append(pathQueue, Head(data).id)
    \/ /\ IsHttp("response", data)
       /\ CanParse(data)
       /\ pathQueue' = Tail(pathQueue)
    \/ /\ ~IsHttp("request", data)
       /\ ~IsHttp("response", data)
       /\ UNCHANGED pathQueue

Mutant_ReceiveAction_unnamed(s) == "receive"
ReceiveAction(s) == IF s = "client" THEN "client_receive" ELSE "service_receive"

(* An error or nothing, after the other thread announced that it closes:   *)
(* the thread returns and records nothing.                                 *)
Mutant_Aborted_empty_only(s) == msg[s].data = <<>> /\ msg[s].err = "none" /\ flag
Aborted(s) == (msg[s].data = <<>> \/ msg[s].err # "none") /\ flag

(* process_client_raw_data or process_server_raw_data, then the look at    *)
(* the flag, then the record.  Offline the record comes before that look,  *)
(* and a closed client ends the cycle with nothing sent.                   *)
process_and_record(s) ==
    /\ pc[s] = "process"
    /\ parse_http(msg[s].data)
    /\ IF Aborted(s) /\ ~Offline
         THEN UNCHANGED recorded
         ELSE Record(s, ReceiveAction(s), msg[s].data, PathTaken(msg[s].data), msg[s].own)
    /\ IF Aborted(s)
         THEN Goto(s, "done") /\ EndCycle(s)
         ELSE /\ Goto(s, IF msg[s].data = <<>> \/ (Offline /\ msg[s].closed)
                           THEN "decide" ELSE "engine")
              /\ UNCHANGED cycleVars
    /\ UNCHANGED <<sockVars, netVars, flag, reset, excVars>>

(* What the engine makes of a message: a request stays one message, a      *)
(* response becomes any list.  Offline the responder answers in the        *)
(* service's place.                                                        *)
ListsOf(S) == UNION {[1..n -> S] : n \in 0..MaxOutputs}
ConnectOutputs == ListsOf({[data |-> <<>>, changed |-> TRUE]})
ResponderOutputs(data) == ListsOf([data : {data}, changed : BOOLEAN])
OfflineOutputs(data) ==
    LET id == IF IsHttp("request", data) THEN Head(data).id ELSE 0
        raw == [data |-> <<[kind |-> "raw", id |-> 0]>>, changed |-> TRUE]
        response == [data |-> <<[kind |-> "response", id |-> id]>>, changed |-> TRUE]
        Responses(list) == {i \in DOMAIN list : list[i] = response}
    IN  {list \in ListsOf({raw, response}) :
            \/ UnsolicitedResponses
            \/ Responses(list) = {}
            \/ id # 0 /\ \E i \in DOMAIN list : Responses(list) = {i}}

(* create_requester_request; what it rewrites is parsed and recorded again *)
(* before it is sent.                                                      *)
requester ==
    /\ pc["client"] = "engine"
    /\ \E changed \in {FALSE, RequesterChanges} :
          /\ IF changed
               THEN /\ parse_http(msg["client"].data)
                    /\ Record("client", "client_requester", msg["client"].data,
                              PathTaken(msg["client"].data), msg["client"].own)
               ELSE UNCHANGED <<recorded, pathQueue>>
          /\ outs' = [outs EXCEPT !["client"] =
                IF Offline THEN @ ELSE <<[data |-> msg["client"].data, changed |-> changed]>>]
    /\ Goto("client", IF Offline THEN "responder" ELSE "send")
    /\ UNCHANGED <<sockVars, netVars, flag, msg, sendError, reset, excVars>>

(* The loop over bytes_to_send_list, from its start or after a send: a     *)
(* responder's message is recorded before it is sent, one it left as it    *)
(* was has been.                                                           *)
Mutant_NextOutput_unrecorded(list) == IF list = <<>> THEN "decide" ELSE "send"
NextOutput(list) ==
    IF list = <<>> THEN "decide" ELSE IF Head(list).changed THEN "output" ELSE "send"

(* create_responder_response, in the service thread or offline. *)
responder(s) ==
    /\ pc[s] = IF s = "service" THEN "engine" ELSE "responder"
    /\ \E list \in IF s = "service" THEN ResponderOutputs(msg[s].data)
                                    ELSE OfflineOutputs(msg[s].data) :
          /\ outs' = [outs EXCEPT ![s] = list]
          /\ Goto(s, NextOutput(list))
    /\ UNCHANGED <<sockVars, netVars, flag, pathQueue, msg, sendError, reset, excVars, recorded>>

(* create_connect_response: the service thread's first cycle. *)
connect_response ==
    /\ pc["service"] = "connect_response"
    /\ \E list \in ConnectOutputs :
          /\ outs' = [outs EXCEPT !["service"] = list]
          /\ Goto("service", NextOutput(list))
    /\ UNCHANGED <<sockVars, netVars, flag, pathQueue, msg, sendError, reset, excVars, recorded>>

(* The record of a responder's message; offline it is parsed first.        *)
output(s) ==
    /\ pc[s] = "output"
    /\ LET data == Head(outs[s]).data
       IN  IF Offline
             THEN /\ parse_http(data)
                  /\ Record(s, "client_responder_offline", data, PathTaken(data), FALSE)
             ELSE /\ Record(s, "service_responder", data, 0, FALSE)
                  /\ UNCHANGED pathQueue
    /\ Goto(s, "send")
    /\ UNCHANGED <<sockVars, netVars, flag, cycleVars, reset, excVars>>

Destination(s) == IF Offline THEN s ELSE Other(s)

(* Sender.send returns None: everything went to the socket. *)
send(s) ==
    /\ pc[s] = "send"
    /\ LET d == Destination(s)
       IN  /\ sock[d] = "open"
           /\ peer[d] # "rst"
           /\ delivered' = [delivered EXCEPT ![d] = Append(@, Head(outs[s]))]
    /\ outs' = [outs EXCEPT ![s] = Tail(@)]
    /\ sendError' = [sendError EXCEPT ![s] = FALSE]
    /\ Goto(s, NextOutput(Tail(outs[s])))
    /\ UNCHANGED <<sockVars, peer, wire, sentCount, asked, flag, pathQueue, msg, reset,
                   excVars, recorded>>

(* Sender.send returns an error string, which a TLS socket alone can give: *)
(* building it reads ssl_socket.server_hostname.                           *)
send_error(s) ==
    /\ pc[s] = "send"
    /\ IsTls
    /\ sock[Destination(s)] = "open"
    /\ peer[Destination(s)] # "open"
    /\ Record(s, IF s = "client" THEN "service_send" ELSE "client_send", <<>>, 0, FALSE)
    /\ outs' = [outs EXCEPT ![s] = Tail(@)]
    /\ sendError' = [sendError EXCEPT ![s] = TRUE]
    /\ Goto(s, NextOutput(Tail(outs[s])))
    /\ UNCHANGED <<sockVars, netVars, flag, pathQueue, msg, reset, excVars>>

(* getpeername on a socket this worker has closed: OSError 10038, logged   *)
(* and dropped by receive_send_start.                                      *)
send_on_closed_socket(s) ==
    /\ pc[s] = "send"
    /\ sock[Destination(s)] = "closed"
    /\ Goto(s, "done")
    /\ EndCycle(s)
    /\ UNCHANGED <<sockVars, netVars, flag, pathQueue, reset, excVars, recorded>>

(* The end of a cycle: announce the closing and finish, or receive again.  *)
(* Only the service thread asks for a reset.                               *)
Closing(s) == msg[s].closed \/ sendError[s]

decide(s) ==
    /\ pc[s] = "decide"
    /\ IF Closing(s)
         THEN /\ flag' = TRUE
              /\ reset' = [reset EXCEPT ![s] = s = "service" /\ msg[s].err = "conn"]
              /\ Goto(s, "finish")
         ELSE Goto(s, "receive") /\ UNCHANGED <<flag, reset>>
    /\ EndCycle(s)
    /\ UNCHANGED <<sockVars, netVars, pathQueue, excVars, recorded>>

---------------------------------------------------------------------------
(* Exceptions in a receiving thread.                                       *)

(* handle_exceptions_on_sub_connection_thread up to its finish_thread().   *)
Mutant_RaiseInSide_swallows(s, e) ==
    /\ Goto(s, "receive")
    /\ EndCycle(s)
    /\ UNCHANGED <<exc, reset, flag>>
RaiseInSide(s, e) ==
    /\ exc' = [exc EXCEPT ![s] = e]
    /\ reset' = [reset EXCEPT ![s] = FALSE]
    /\ flag' = TRUE
    /\ Goto(s, "finish")
    /\ EndCycle(s)

(* The HTTP parsers raise (a Content-Length which is no number) before the *)
(* path queue is touched, the engine's own parser after, for a request as  *)
(* it came or as the requester rewrote it.                                 *)
engine_raises(s) ==
    /\ EngineFails
    /\ \/ /\ pc[s] = "process"
          /\ msg[s].data # <<>>
          /\ UNCHANGED pathQueue
       \/ /\ s = "client"
          /\ \/ pc[s] = "process" /\ msg[s].data # <<>>
             \/ pc[s] = "engine" /\ RequesterChanges
          /\ parse_http(msg[s].data)
       \/ /\ pc[s] \in {"engine", "responder", "connect_response"}
          /\ UNCHANGED pathQueue
    /\ RaiseInSide(s, "engine")
    /\ UNCHANGED <<sockVars, netVars, excQueue, raised, recorded>>

(* An error that Sender.send does not list, or any on a plain socket. *)
send_raises(s) ==
    /\ pc[s] = "send"
    /\ sock[Destination(s)] = "open"
    /\ peer[Destination(s)] # "open"
    /\ RaiseInSide(s, "send")
    /\ UNCHANGED <<sockVars, netVars, pathQueue, excQueue, raised, recorded>>

(* finish_thread() has returned: a handler puts its exception in the queue.*)
end_thread(s) ==
    /\ pc[s] = "finished"
    /\ excQueue' = [excQueue EXCEPT ![s] = exc[s]]
    /\ Goto(s, "done")
    /\ UNCHANGED <<sockVars, netVars, flag, pathQueue, cycleVars, reset, exc, raised, recorded>>

---------------------------------------------------------------------------
(* finish_thread, which every thread may run, and two at once.             *)

(* The two reads before close_socket(); once both passed, close_socket()   *)
(* is called, whatever the other thread has closed by then.                *)
Mutant_finish_thread_service_first(t) ==
    /\ pc[t] = "finish"
    /\ Goto(t, IF sock["service"] = "open" THEN "close_service" ELSE "finished")
    /\ UNCHANGED <<sockVars, netVars, flag, pathQueue, cycleVars, reset, excVars, recorded>>
Mutant_finish_thread_client_only(t) ==
    /\ pc[t] = "finish"
    /\ Goto(t, "close_client")
    /\ UNCHANGED <<sockVars, netVars, flag, pathQueue, cycleVars, reset, excVars, recorded>>
finish_thread(t) ==
    /\ pc[t] = "finish"
    /\ Goto(t, IF sock["service"] = "open" /\ socketInstance
                 THEN "close_service" ELSE "close_client")
    /\ UNCHANGED <<sockVars, netVars, flag, pathQueue, cycleVars, reset, excVars, recorded>>

(* What a closed socket has not delivered is gone. *)
CloseOwn(s) ==
    /\ sock' = [sock EXCEPT ![s] = "closed"]
    /\ wire' = [wire EXCEPT ![s] = <<>>]
    /\ UNCHANGED <<peer, sentCount, asked, delivered>>

(* SocketClient.close_socket: self.socket_instance.close().                *)
close_socket(t) ==
    /\ pc[t] = "close_service"
    /\ socketInstance
    /\ CloseOwn("service")
    /\ Goto(t, "forget_service")
    /\ UNCHANGED <<socketInstance, resetSent, flag, pathQueue, cycleVars, reset, excVars, recorded>>

(* The other thread has set socket_instance to None: AttributeError.  From *)
(* the exception handler's finish_thread() it ends the thread, and the     *)
(* exception being handled is never queued.                                *)
close_socket_raises(s) ==
    /\ pc[s] = "close_service"
    /\ ~socketInstance
    /\ IF exc[s] = NoException
         THEN RaiseInSide(s, "attribute")
         ELSE Goto(s, "done") /\ UNCHANGED <<exc, reset, flag, cycleVars>>
    /\ UNCHANGED <<sockVars, netVars, pathQueue, excQueue, raised, recorded>>

(* close_socket: self.socket_instance = None.                              *)
forget_socket(t) ==
    /\ pc[t] = "forget_service"
    /\ socketInstance' = FALSE
    /\ Goto(t, "close_client")
    /\ UNCHANGED <<sock, resetSent, netVars, flag, pathQueue, cycleVars, reset, excVars, recorded>>

check_client(t) ==
    /\ pc[t] = "close_client"
    /\ Goto(t, IF sock["client"] = "closed" THEN "finished"
               ELSE IF reset[t] THEN "linger_client" ELSE "close_client_now")
    /\ UNCHANGED <<sockVars, netVars, flag, pathQueue, cycleVars, reset, excVars, recorded>>

(* setsockopt(SO_LINGER): OSError 10038 when the other thread has closed   *)
(* the socket since, which receive_send_start logs and drops.              *)
linger_client(t) ==
    /\ pc[t] = "linger_client"
    /\ IF sock["client"] = "open"
         THEN resetSent' = TRUE /\ Goto(t, "close_client_now")
         ELSE Goto(t, "done") /\ UNCHANGED resetSent
    /\ UNCHANGED <<sock, socketInstance, netVars, flag, pathQueue, cycleVars, reset, excVars,
                   recorded>>

close_client(t) ==
    /\ pc[t] = "close_client_now"
    /\ CloseOwn("client")
    /\ Goto(t, "finished")
    /\ UNCHANGED <<socketInstance, resetSent, flag, pathQueue, cycleVars, reset, excVars, recorded>>

---------------------------------------------------------------------------
(* The main thread.                                                        *)

(* handle_exceptions_on_main_connection_thread up to its finish_thread().  *)
RaiseInMain(e) ==
    /\ exc' = [exc EXCEPT !["main"] = e]
    /\ Record("main", "exception", <<>>, 0, FALSE)
    /\ Goto("main", "finish")

setup ==
    /\ pc["main"] = "setup"
    /\ Goto("main", IF Offline THEN "start_client" ELSE "connect")
    /\ UNCHANGED <<sockVars, netVars, flag, pathQueue, cycleVars, reset, excVars, recorded>>

(* getpeername or the host name lookup raises before line 850 has given    *)
(* service_socket_instance a value: the handler records, then finish_thread*)
(* fails on the unbound name and the thread ends with that NameError.      *)
setup_raises ==
    /\ SetupFails
    /\ pc["main"] = "setup"
    /\ exc' = [exc EXCEPT !["main"] = "setup"]
    /\ Record("main", "exception", <<>>, 0, FALSE)
    /\ raised' = "name"
    /\ Goto("main", "done")
    /\ UNCHANGED <<sockVars, netVars, flag, pathQueue, cycleVars, reset, excQueue>>

(* SocketClient.service_connection: connected; connected, and then         *)
(* getpeername (line 865) raised; an error string; raised.                 *)
service_connection ==
    /\ pc["main"] = "connect"
    /\ socketInstance' = TRUE
    /\ \/ /\ sock' = [sock EXCEPT !["service"] = "open"]
          /\ \/ Goto("main", "start_client") /\ UNCHANGED <<exc, recorded>>
             \/ RaiseInMain("connect")
       \/ /\ UNCHANGED sock
          /\ \/ /\ Record("main", "service_connect", <<>>, 0, FALSE)
                /\ Goto("main", "finish")
                /\ UNCHANGED exc
             \/ RaiseInMain("connect")
    /\ UNCHANGED <<resetSent, netVars, flag, pathQueue, cycleVars, reset, excQueue, raised>>

start_client ==
    /\ pc["main"] = "start_client"
    /\ pc' = [pc EXCEPT !["main"] = IF Offline THEN "join_client" ELSE "start_service",
                        !["client"] = "receive"]
    /\ UNCHANGED <<sockVars, netVars, flag, pathQueue, cycleVars, reset, excVars, recorded>>

start_service ==
    /\ pc["main"] = "start_service"
    /\ pc' = [pc EXCEPT !["main"] = "join_client", !["service"] = "connect_response"]
    /\ UNCHANGED <<sockVars, netVars, flag, pathQueue, cycleVars, reset, excVars, recorded>>

Mutant_join_both ==
    /\ \/ /\ pc["main"] = "join_client"
          /\ pc["client"] = "done"
          /\ Goto("main", "join_service")
       \/ /\ pc["main"] = "join_service"
          /\ pc["service"] = "done"
          /\ Goto("main", "check_queues")
    /\ UNCHANGED <<sockVars, netVars, flag, pathQueue, cycleVars, reset, excVars, recorded>>
join ==
    /\ \/ /\ pc["main"] = "join_client"
          /\ pc["client"] = "done"
          /\ Goto("main", IF Offline THEN "check_queues" ELSE "join_service")
       \/ /\ pc["main"] = "join_service"
          /\ pc["service"] = "done"
          /\ Goto("main", "check_queues")
    /\ UNCHANGED <<sockVars, netVars, flag, pathQueue, cycleVars, reset, excVars, recorded>>

(* The client's exception is raised first; the service's, if both have one,*)
(* stays in its queue.                                                     *)
check_queues ==
    /\ pc["main"] = "check_queues"
    /\ IF \A s \in Sides : excQueue[s] = NoException
         THEN Goto("main", "finish") /\ UNCHANGED <<exc, excQueue, recorded>>
         ELSE LET s == IF excQueue["client"] # NoException THEN "client" ELSE "service"
              IN  /\ RaiseInMain(excQueue[s])
                  /\ excQueue' = [excQueue EXCEPT ![s] = NoException]
    /\ UNCHANGED <<sockVars, netVars, flag, pathQueue, cycleVars, reset, raised>>

return ==
    /\ pc["main"] = "finished"
    /\ raised' = exc["main"]
    /\ Goto("main", "done")
    /\ UNCHANGED <<sockVars, netVars, flag, pathQueue, cycleVars, reset, exc, excQueue, recorded>>

---------------------------------------------------------------------------

Finish(t) ==
    \/ finish_thread(t) \/ close_socket(t) \/ forget_socket(t)
    \/ check_client(t) \/ linger_client(t) \/ close_client(t)

Main ==
    \/ setup \/ setup_raises \/ service_connection \/ start_client \/ start_service
    \/ join \/ check_queues \/ return \/ Finish("main")

Side(s) ==
    \/ receive(s) \/ receive_on_closed_socket(s) \/ process_and_record(s)
    \/ responder(s) \/ output(s) \/ send(s) \/ send_error(s)
    \/ send_on_closed_socket(s) \/ send_raises(s) \/ engine_raises(s) \/ decide(s)
    \/ Finish(s) \/ close_socket_raises(s) \/ end_thread(s)

ClientThread  == requester \/ Side("client")
ServiceThread == connect_response \/ Side("service")

Peers == ClientSends \/ ServiceSends \/ \E s \in Sides : PeerCloses(s)

Finished == pc["main"] = "done" /\ \A s \in Sides : pc[s] \in {"not_started", "done"}
Terminating == Finished /\ UNCHANGED vars

Next == Main \/ ClientThread \/ ServiceThread \/ Peers \/ Terminating

(* The operating system runs every thread that can run; the peers owe      *)
(* nothing.                                                                *)
Fairness == WF_vars(Main) /\ WF_vars(ClientThread) /\ WF_vars(ServiceThread)

Spec == Init /\ [][Next]_vars /\ Fairness

---------------------------------------------------------------------------
(* Properties.                                                             *)

(* Every variable keeps its type. *)
TypeOK ==
    /\ pc \in [Threads -> MainPcs \cup CyclePcs \cup FinishPcs \cup {"not_started", "done"}]
    /\ sock \in [Sides -> {"none", "open", "closed"}]
    /\ socketInstance \in BOOLEAN
    /\ resetSent \in BOOLEAN
    /\ peer \in [Sides -> {"open", "fin", "rst"}]
    /\ wire \in [Sides -> Batches]
    /\ sentCount \in [Sides -> Nat]
    /\ asked \in [Sides -> Nat]
    /\ delivered \in [Sides -> Seq(Outputs)]
    /\ flag \in BOOLEAN
    /\ pathQueue \in Seq(Nat)
    /\ msg \in [Sides -> Received]
    /\ outs \in [Sides -> Seq(Outputs)]
    /\ sendError \in [Sides -> BOOLEAN]
    /\ reset \in [Threads -> BOOLEAN]
    /\ exc \in [Threads -> Exceptions \cup {NoException}]
    /\ excQueue \in [Sides -> Exceptions \cup {NoException}]
    /\ raised \in Exceptions \cup {NoException}
    /\ recorded \in [Threads -> Seq(LogEntries)]

(* "We don't need to record aborted socket receives if the socket was      *)
(* closed on receive on the second socket" (lines 529 and 598): an error   *)
(* which this worker's own close() caused is never recorded as an error of *)
(* the peer.                                                               *)
OwnAbortsNotRecorded ==
    \A s \in Sides : \A i \in 1..Len(recorded[s]) : ~recorded[s][i].own

(* finish_thread's docstring (lines 183-186): the client's connection is   *)
(* reset only if the service really reset its own, never because this      *)
(* worker closed the service's socket under a waiting recv.                *)
ResetOnlyAfterServiceReset == resetSent => peer["service"] = "rst"

(* What a peer was sent was recorded before: as it was received, or, when  *)
(* the engine changed it, as the engine's own message.                     *)
RecordedAs(t, action, data) ==
    \E i \in 1..Len(recorded[t]) : recorded[t][i].action = action /\ recorded[t][i].data = data

SentIsRecorded ==
    /\ \A i \in 1..Len(delivered["service"]) :
          LET o == delivered["service"][i]
          IN  RecordedAs("client", IF o.changed THEN "client_requester" ELSE "client_receive",
                         o.data)
    /\ \A i \in 1..Len(delivered["client"]) :
          LET o == delivered["client"][i]
          IN  IF Offline
                THEN RecordedAs("client", "client_responder_offline", o.data)
                ELSE RecordedAs("service",
                        IF o.changed THEN "service_responder" ELSE "service_receive", o.data)

(* What reached the service is a prefix of what the client sent: nothing   *)
(* is skipped, repeated or reordered, however reads group it and whatever  *)
(* fails on the way.                                                       *)
RequestsInOrder ==
    \A i \in 1..Len(delivered["service"]) :
       LET data == delivered["service"][i].data
           before == delivered["service"][i - 1].data
       IN  /\ data[1].id = IF i = 1 THEN 1 ELSE before[Len(before)].id + 1
           /\ \A k \in 1..(Len(data) - 1) : data[k + 1].id = data[k].id + 1

(* The path recorded with an HTTP response is that of the request which    *)
(* the response answers (lines 134 and 143).                               *)
PathsMatch ==
    \A s \in Sides : \A i \in 1..Len(recorded[s]) :
       LET e == recorded[s][i]
       IN  IsHttp("response", e.data) /\ e.action # "service_responder"
             => e.path = Head(e.data).id

(* When thread_worker_main ends, normally or with an exception, both       *)
(* sockets are closed ("After the socket clean up, we will still raise the *)
(* exception to the main thread", line 746).                               *)
SocketsClosedAtEnd ==
    pc["main"] = "done" => sock["client"] = "closed" /\ sock["service"] # "open"

(* "If there was an exception in any of the threads, then we'll raise it   *)
(* here" (line 893).                                                       *)
ExceptionsRaised ==
    pc["main"] = "done" =>
        ((\E s \in Sides : exc[s] # NoException) => raised # NoException)

(* Once a peer has closed, every thread ends and the worker returns: no    *)
(* thread is left in recv, join or http_path_queue.get.                    *)
ClosedPeerEndsWorker == (\E s \in Sides : peer[s] # "open") ~> Finished

(* "But if the data was received and then the socket was closed, we first  *)
(* send the data and then close the socket" (line 608): after a service    *)
(* that answered and closed, the client's socket is closed too.            *)
ServiceAnsweredAndClosed ==
    pc["service"] = "process" /\ msg["service"].data # <<>> /\ msg["service"].closed
DataThenClose == ServiceAnsweredAndClosed ~> sock["client"] = "closed"

(* What a connection leaves behind, as the recordings and the two sockets  *)
(* show it: the right path with every response, a recording of all that    *)
(* was sent, and no open socket.                                           *)
AnsweredAndRecorded == PathsMatch /\ SentIsRecorded /\ SocketsClosedAtEnd

(* Offline, no step leaves that, and the worker ends with its client       *)
(* (lines 778-851 and 858-897).                                            *)
ServesOffline == [][AnsweredAndRecorded']_vars /\ ClosedPeerEndsWorker

(* Whatever the peers send, and when: nothing is forwarded unrecorded or   *)
(* out of order.                                                           *)
ForwardsInOrder == SentIsRecorded /\ RequestsInOrder

=============================================================================
