---------------------- MODULE ConnectionWorkerProofs ----------------------
(***************************************************************************)
(* Theorems about ConnectionWorker, for every value of its constants.      *)
(*                                                                         *)
(* A thread blocked in recv cannot tell the peer's closing of a socket     *)
(* from the other thread's.  The code tells them apart by one flag, which  *)
(* a thread sets before it closes anything.  CloseIsAnnounced says that    *)
(* this order works, and the two safety properties follow from it.         *)
(*                                                                         *)
(* What a peer gets was recorded before, and the service gets what the     *)
(* client sent in its order: ToSendIsRecorded and SentInOrder follow a     *)
(* message from the wire through its thread to the send.  With peers that  *)
(* take turns there is one exchange in the air, so that the path at the    *)
(* head of the queue is the one of the response (OneExchange).             *)
(***************************************************************************)
EXTENDS ConnectionWorker, SequenceTheorems, TLAPS

(* Where the sides can be while main is at each point. *)
MainWaits ==
    /\ pc["main"] \in {"setup", "connect", "start_client"} =>
          ~flag /\ \A s \in Sides : pc[s] = "not_started" /\ sock[s] # "closed"
    /\ pc["main"] = "start_service" => ~Offline /\ pc["service"] = "not_started"
    /\ Offline => pc["service"] = "not_started"
    /\ pc["main"] = "join_service" => pc["client"] = "done"
    /\ pc["main"] \in FinishPcs \cup {"check_queues", "done"} =>
          \A s \in Sides : pc[s] \in {"not_started", "done"}
    /\ pc["main"] \notin CyclePcs

(* A side that finishes has set the flag, and no socket closes before. *)
CloseIsAnnounced ==
    /\ \A s \in Sides : pc[s] \in FinishPcs => flag
    /\ \A s \in Sides : sock[s] = "closed" => flag \/ pc["main"] \in FinishPcs \cup {"done"}
    /\ Offline /\ sock["client"] = "closed" => pc["client"] \in {"finished", "done", "not_started"}

(* An error of our own making is looked at with the flag set. *)
OwnErrorsAreSeen ==
    \A s \in Sides : msg[s].own =>
        /\ pc[s] = "process"
        /\ ~Offline
        /\ flag
        /\ msg[s].err # "none"

(* A reset is asked for only by the service thread, for the service's own. *)
ResetsAreReal ==
    /\ msg["service"].err = "conn" => msg["service"].own \/ peer["service"] = "rst"
    /\ \A t \in Threads : reset[t] => t = "service" /\ peer["service"] = "rst"
    /\ \A t \in Threads : pc[t] = "linger_client" => reset[t]

(* The loop over bytes_to_send_list has something to record or send. *)
OutputsLeft == \A s \in Sides : pc[s] \in {"output", "send"} => outs[s] # <<>>

IInv == TypeOK /\ OutputsLeft /\ MainWaits /\ CloseIsAnnounced /\ OwnErrorsAreSeen
        /\ ResetsAreReal /\ OwnAbortsNotRecorded /\ ResetOnlyAfterServiceReset

---------------------------------------------------------------------------
(* Types.                                                                  *)

(* What an engine returns is a list of messages. *)
LEMMA ListsAreSequences ==
    ASSUME NEW S, NEW T, S \subseteq T, NEW list \in ListsOf(S)
    PROVE  list \in Seq(T)
<1>1. PICK n \in 0..MaxOutputs : list \in [1..n -> S]
  BY DEF ListsOf
<1>2. n \in Nat
  BY BoundsAssumption
<1>3. list \in [1..n -> T]
  BY <1>1
<1> QED
  BY <1>2, <1>3

LEMMA HeadIsChunk ==
    ASSUME NEW data \in Batches, data # <<>>
    PROVE  Head(data).id \in Nat
<1>1. Head(data) \in Chunks
  BY HeadTailProperties DEF Batches
<1> QED
  BY <1>1 DEF Chunks

LEMMA OutputsAreSequences ==
    ASSUME NEW data \in Batches
    PROVE  /\ ConnectOutputs \subseteq Seq(Outputs)
           /\ ResponderOutputs(data) \subseteq Seq(Outputs)
           /\ OfflineOutputs(data) \subseteq Seq(Outputs)
<1>1. {[data |-> <<>>, changed |-> TRUE]} \subseteq Outputs
  BY DEF Outputs, Batches
<1>2. [data : {data}, changed : BOOLEAN] \subseteq Outputs
  BY DEF Outputs
<1>3. ASSUME NEW id \in Nat
      PROVE  {[data |-> <<[kind |-> "raw", id |-> 0]>>, changed |-> TRUE],
              [data |-> <<[kind |-> "response", id |-> id]>>, changed |-> TRUE]} \subseteq Outputs
  BY DEF Outputs, Batches, Chunks
<1>4. ConnectOutputs \subseteq Seq(Outputs)
  BY <1>1, ListsAreSequences DEF ConnectOutputs
<1>5. ResponderOutputs(data) \subseteq Seq(Outputs)
  BY <1>2, ListsAreSequences DEF ResponderOutputs
<1>6. OfflineOutputs(data) \subseteq Seq(Outputs)
  <2> DEFINE id == IF IsHttp("request", data) THEN Head(data).id ELSE 0
  <2>1. id \in Nat
    BY HeadIsChunk DEF IsHttp
  <2> DEFINE S == {[data |-> <<[kind |-> "raw", id |-> 0]>>, changed |-> TRUE],
                   [data |-> <<[kind |-> "response", id |-> id]>>, changed |-> TRUE]}
  <2>2. OfflineOutputs(data) \subseteq ListsOf(S)
    BY DEF OfflineOutputs
  <2>3. S \subseteq Outputs
    BY <2>1, <1>3
  <2> HIDE DEF S
  <2> QED
    BY <2>2, <2>3, ListsAreSequences
<1> QED
  BY <1>4, <1>5, <1>6

LEMMA TypeInit == Init => TypeOK /\ OutputsLeft
<1> SUFFICES ASSUME Init PROVE TypeOK /\ OutputsLeft
  OBVIOUS
<1>1. \A T : <<>> \in Seq(T)
  OBVIOUS
<1>2. NothingReceived \in Received
  BY <1>1 DEF NothingReceived, Received, Batches
<1>3. pc \in [Threads -> MainPcs \cup CyclePcs \cup FinishPcs \cup {"not_started", "done"}]
  BY DEF Init, Threads, Sides, MainPcs
<1>4. OutputsLeft
  BY DEF Init, OutputsLeft, Threads, Sides
<1>5. /\ wire \in [Sides -> Batches]
      /\ delivered \in [Sides -> Seq(Outputs)]
      /\ outs \in [Sides -> Seq(Outputs)]
      /\ recorded \in [Threads -> Seq(LogEntries)]
      /\ pathQueue \in Seq(Nat)
  BY <1>1 DEF Init, Batches
<1>6. msg \in [Sides -> Received]
  BY <1>2 DEF Init
<1> QED
  BY <1>3, <1>4, <1>5, <1>6 DEF Init, TypeOK

(* The pieces of an action keep their types. *)
LEMMA RecordType ==
    ASSUME TypeOK, NEW t \in Threads, NEW action \in Actions, NEW data \in Batches,
           NEW path \in Nat, NEW own \in BOOLEAN, Record(t, action, data, path, own)
    PROVE  recorded' \in [Threads -> Seq(LogEntries)]
<1>1. [action |-> action, data |-> data, path |-> path, own |-> own] \in LogEntries
  BY DEF LogEntries
<1> QED
  BY <1>1 DEF TypeOK, Record

LEMMA ParseType ==
    ASSUME TypeOK, NEW data \in Batches, parse_http(data)
    PROVE  /\ pathQueue' \in Seq(Nat)
           /\ PathTaken(data) \in Nat
<1>1. data # <<>> => Head(data).id \in Nat
  BY HeadIsChunk
<1>2. pathQueue # <<>> => Head(pathQueue) \in Nat /\ Tail(pathQueue) \in Seq(Nat)
  BY HeadTailProperties DEF TypeOK
<1>3. pathQueue \in Seq(Nat)
  BY DEF TypeOK
<1>4. PathTaken(data) \in Nat
  BY <1>2 DEF parse_http, IsHttp, CanParse, PathTaken
<1>5. CASE IsHttp("request", data)
  BY <1>1, <1>3, <1>4, <1>5, AppendProperties DEF parse_http, IsHttp
<1>6. CASE ~IsHttp("request", data)
  BY <1>2, <1>3, <1>4, <1>6 DEF parse_http, CanParse
<1> QED
  BY <1>5, <1>6

LEMMA EndCycleType ==
    ASSUME TypeOK, NEW s \in Sides, EndCycle(s)
    PROVE  /\ msg' \in [Sides -> Received]
           /\ outs' \in [Sides -> Seq(Outputs)]
           /\ sendError' \in [Sides -> BOOLEAN]
<1>1. NothingReceived \in Received
  BY DEF NothingReceived, Received, Batches
<1> QED
  BY <1>1 DEF TypeOK, EndCycle

LEMMA NextOutputType ==
    ASSUME NEW list \in Seq(Outputs)
    PROVE  /\ NextOutput(list) \in {"decide", "output", "send"}
           /\ NextOutput(list) # "decide" => list # <<>>
  BY DEF NextOutput

(* A thread that goes where nothing is sent keeps what pc needs. *)
Pcs == MainPcs \cup CyclePcs \cup FinishPcs \cup {"not_started", "done"}
GoesTo(t, label) == pc' \in [Threads -> Pcs] /\ (outs' = outs => OutputsLeft')

LEMMA GotoType ==
    ASSUME TypeOK, OutputsLeft, NEW t \in Threads, NEW label \in Pcs \ {"output", "send"},
           Goto(t, label)
    PROVE  GoesTo(t, label)
<1>1. pc' \in [Threads -> Pcs]
  BY DEF TypeOK, Goto, Pcs
<1>2. \A s \in Sides : pc'[s] \in {"output", "send"} => pc[s] \in {"output", "send"}
  BY DEF TypeOK, Goto, Sides, Threads
<1> QED
  BY <1>1, <1>2 DEF GoesTo, OutputsLeft

LEMMA LeavesCycle ==
    ASSUME TypeOK, OutputsLeft, NEW s \in Sides, NEW label \in Pcs \ {"output", "send"},
           Goto(s, label), EndCycle(s)
    PROVE  pc' \in [Threads -> Pcs] /\ OutputsLeft'
<1>1. pc' \in [Threads -> Pcs]
  BY DEF TypeOK, Goto, Pcs, Threads
<1>2. \A r \in Sides : pc'[r] \in {"output", "send"} => pc[r] \in {"output", "send"} /\ r # s
  BY DEF TypeOK, Goto, Sides, Threads
<1> QED
  BY <1>1, <1>2 DEF EndCycle, OutputsLeft, TypeOK

(* So does one that has something to send. *)
LEMMA SendingType ==
    ASSUME TypeOK, OutputsLeft, NEW s \in Sides, NEW list \in Seq(Outputs),
           NEW label \in {"decide", "output", "send"}, label # "decide" => list # <<>>,
           outs' = [outs EXCEPT ![s] = list], Goto(s, label)
    PROVE  /\ outs' \in [Sides -> Seq(Outputs)]
           /\ pc' \in [Threads -> Pcs]
           /\ OutputsLeft'
<1>1. pc' \in [Threads -> Pcs]
  BY DEF TypeOK, Goto, Pcs, CyclePcs, Threads
<1>2. \A r \in Sides : pc'[r] \in {"output", "send"} =>
        IF r = s THEN list # <<>> ELSE pc[r] \in {"output", "send"}
  BY DEF TypeOK, Goto, Sides, Threads
<1> QED
  BY <1>1, <1>2 DEF OutputsLeft, TypeOK

---------------------------------------------------------------------------
(* Every step keeps the types. *)
LEMMA TypeFinish ==
    ASSUME TypeOK, OutputsLeft, NEW t \in Threads, Finish(t)
    PROVE  TypeOK' /\ OutputsLeft'
<1>1. <<>> \in Batches
  BY DEF Batches
<1>2. \A label \in FinishPcs \cup {"done"} : Goto(t, label) => GoesTo(t, label)
  BY GotoType DEF FinishPcs, Pcs
<1>3. \A s \in Sides : CloseOwn(s) => sock' \in [Sides -> {"none", "open", "closed"}]
                                     /\ wire' \in [Sides -> Batches]
  BY <1>1 DEF TypeOK, CloseOwn
<1>4. CASE finish_thread(t) \/ forget_socket(t) \/ check_client(t) \/ linger_client(t)
  BY <1>2, <1>4 DEF GoesTo, Pcs, finish_thread, forget_socket, check_client, linger_client, TypeOK, FinishPcs,
                    sockVars, netVars, cycleVars, excVars
<1>5. CASE close_socket(t) \/ close_client(t)
  BY <1>2, <1>3, <1>5 DEF GoesTo, Pcs, close_socket, close_client, CloseOwn, TypeOK, FinishPcs, Sides,
                          cycleVars, excVars
<1> QED
  BY <1>4, <1>5 DEF Finish

LEMMA TypeMain ==
    ASSUME TypeOK, OutputsLeft, Main
    PROVE  TypeOK' /\ OutputsLeft'
<1>1. <<>> \in Batches
  BY DEF Batches
<1>2. \A e : RaiseInMain(e) => recorded' \in [Threads -> Seq(LogEntries)]
  BY <1>1, RecordType DEF RaiseInMain, Threads, Actions
<1>3. CASE setup_raises
  <2>1. recorded' \in [Threads -> Seq(LogEntries)]
    BY <1>1, <1>3, RecordType DEF setup_raises, Threads, Actions
  <2> QED
    BY <2>1, <1>3 DEF setup_raises, TypeOK, OutputsLeft, Threads, Sides, Goto, sockVars,
                      netVars, cycleVars, Exceptions
<1>4. CASE service_connection
  <2>1. recorded' \in [Threads -> Seq(LogEntries)]
    BY <1>1, <1>2, <1>4, RecordType DEF service_connection, Threads, Actions, TypeOK
  <2>2. exc' \in [Threads -> Exceptions \cup {NoException}]
    BY <1>4 DEF service_connection, RaiseInMain, TypeOK, Exceptions
  <2>3. pc' \in [Threads -> Pcs] /\ OutputsLeft'
    <3>1. \E label \in {"start_client", "finish"} : Goto("main", label)
      BY <1>4 DEF service_connection, RaiseInMain
    <3> QED
      BY <1>4, <3>1, GotoType DEF service_connection, GoesTo, Pcs, MainPcs, FinishPcs, Threads,
                                  cycleVars
  <2>4. sock' \in [Sides -> {"none", "open", "closed"}] /\ socketInstance' \in BOOLEAN
    BY <1>4 DEF service_connection, TypeOK, Sides
  <2> QED
    BY <2>1, <2>2, <2>3, <2>4, <1>4 DEF service_connection, TypeOK, Pcs, netVars, cycleVars
<1>5. CASE check_queues
  <2>1. recorded' \in [Threads -> Seq(LogEntries)]
    BY <1>2, <1>5 DEF check_queues, TypeOK
  <2>2. /\ exc' \in [Threads -> Exceptions \cup {NoException}]
        /\ excQueue' \in [Sides -> Exceptions \cup {NoException}]
    <3>1. /\ exc' = exc \/ \E s \in Sides : exc' = [exc EXCEPT !["main"] = excQueue[s]]
          /\ excQueue' = excQueue
             \/ \E s \in Sides : excQueue' = [excQueue EXCEPT ![s] = NoException]
      BY <1>5 DEF check_queues, RaiseInMain, Sides
    <3>2. /\ exc \in [Threads -> Exceptions \cup {NoException}]
          /\ excQueue \in [Sides -> Exceptions \cup {NoException}]
      BY DEF TypeOK
    <3> QED
      BY <3>1, <3>2
  <2>3. pc' \in [Threads -> Pcs] /\ OutputsLeft'
    <3>1. Goto("main", "finish")
      BY <1>5 DEF check_queues, RaiseInMain
    <3> QED
      BY <1>5, <3>1, GotoType DEF check_queues, GoesTo, Pcs, FinishPcs, Threads, cycleVars
  <2> QED
    BY <2>1, <2>2, <2>3, <1>5 DEF check_queues, TypeOK, Pcs, sockVars, netVars, cycleVars
<1>6. CASE setup \/ start_client \/ start_service \/ join \/ return
  <2>1. pc' \in [Threads -> Pcs] /\ OutputsLeft'
    BY <1>6 DEF setup, start_client, start_service, join, return, TypeOK, OutputsLeft, Threads,
                Sides, Pcs, MainPcs, CyclePcs, FinishPcs, Goto, cycleVars
  <2> QED
    BY <1>6, <2>1 DEF setup, start_client, start_service, join, return, TypeOK, Pcs, Threads,
                      sockVars, netVars, cycleVars, excVars
<1>7. CASE Finish("main")
  BY <1>7, TypeFinish DEF Threads
<1> QED
  BY <1>3, <1>4, <1>5, <1>6, <1>7 DEF Main

LEMMA TypeReceive ==
    ASSUME TypeOK, OutputsLeft, NEW s \in Sides, receive(s)
    PROVE  TypeOK' /\ OutputsLeft'
<1>1. \A n \in 1..Len(wire[s]) :
        SubSeq(wire[s], 1, n) \in Batches /\ SubSeq(wire[s], n + 1, Len(wire[s])) \in Batches
  <2>1. wire[s] \in Seq(Chunks)
    BY DEF TypeOK, Batches
  <2> QED
    BY <2>1, SubSeqProperties, LenProperties DEF Batches
<1>2. <<>> \in Batches /\ wire[s] \in Batches
  BY DEF TypeOK, Batches
<1>3. \A data \in Batches : [NothingReceived EXCEPT !.data = data] \in Received
  BY DEF NothingReceived, Received
<1>4. \A data \in Batches, own \in BOOLEAN : \A e \in PeerErrors(s) \cup {"conn", "other"} :
        [data |-> data, closed |-> TRUE, err |-> e, own |-> own] \in Received
  BY DEF PeerErrors, Received
<1>5. wire' \in [Sides -> Batches]
  <2>1. wire' = wire \/ \E w \in Batches : wire' = [wire EXCEPT ![s] = w]
    BY <1>1, <1>2 DEF receive
  <2> QED
    BY <2>1 DEF TypeOK
<1>6. msg' \in [Sides -> Received]
  <2>1. \E m \in Received : msg' = [msg EXCEPT ![s] = m]
    BY <1>1, <1>2, <1>3, <1>4 DEF receive
  <2> QED
    BY <2>1 DEF TypeOK
<1>7. GoesTo(s, "process")
  BY GotoType DEF receive, Pcs, CyclePcs, Sides, Threads
<1> QED
  BY <1>5, <1>6, <1>7 DEF receive, TypeOK, GoesTo, Pcs, sockVars, excVars

LEMMA TypeRaise ==
    ASSUME TypeOK, OutputsLeft, NEW s \in Sides, NEW e \in Exceptions, RaiseInSide(s, e)
    PROVE  /\ exc' \in [Threads -> Exceptions \cup {NoException}]
           /\ reset' \in [Threads -> BOOLEAN]
           /\ flag' \in BOOLEAN
           /\ pc' \in [Threads -> Pcs]
           /\ OutputsLeft'
           /\ msg' \in [Sides -> Received]
           /\ outs' \in [Sides -> Seq(Outputs)]
           /\ sendError' \in [Sides -> BOOLEAN]
<1>1. s \in Threads
  BY DEF Threads
<1>2. pc' \in [Threads -> Pcs] /\ OutputsLeft'
  BY <1>1, LeavesCycle DEF RaiseInSide, Pcs, FinishPcs
<1> QED
  BY <1>1, <1>2, EndCycleType DEF RaiseInSide, TypeOK

LEMMA TypeEnd ==
    ASSUME TypeOK, OutputsLeft, NEW s \in Sides,
           \/ receive_on_closed_socket(s) \/ send_on_closed_socket(s) \/ decide(s)
           \/ end_thread(s)
    PROVE  TypeOK' /\ OutputsLeft'
<1>1. s \in Threads
  BY DEF Threads
<1>2. CASE receive_on_closed_socket(s) \/ send_on_closed_socket(s)
  <2>1. EndCycle(s) /\ Goto(s, "done")
    BY <1>2 DEF receive_on_closed_socket, send_on_closed_socket
  <2>2. pc' \in [Threads -> Pcs] /\ OutputsLeft'
    BY <1>1, <2>1, LeavesCycle DEF Pcs
  <2> QED
    BY <1>2, <2>1, <2>2, EndCycleType
    DEF receive_on_closed_socket, send_on_closed_socket, TypeOK, Pcs, sockVars, netVars, excVars
<1>3. CASE decide(s)
  <2>1. EndCycle(s) /\ \E label \in {"finish", "receive"} : Goto(s, label)
    BY <1>3 DEF decide
  <2>2. pc' \in [Threads -> Pcs] /\ OutputsLeft'
    BY <1>1, <2>1, LeavesCycle DEF Pcs, FinishPcs, CyclePcs
  <2>3. flag' \in BOOLEAN /\ reset' \in [Threads -> BOOLEAN]
    BY <1>1, <1>3 DEF decide, TypeOK
  <2> QED
    BY <1>3, <2>1, <2>2, <2>3, EndCycleType DEF decide, TypeOK, Pcs, sockVars, netVars, excVars
<1>4. CASE end_thread(s)
  <2>1. GoesTo(s, "done")
    BY <1>1, <1>4, GotoType DEF end_thread, Pcs
  <2>2. excQueue' \in [Sides -> Exceptions \cup {NoException}]
    BY <1>1, <1>4 DEF end_thread, TypeOK
  <2> QED
    BY <1>4, <2>1, <2>2 DEF end_thread, GoesTo, TypeOK, Pcs, sockVars, netVars, cycleVars
<1> QED
  BY <1>2, <1>3, <1>4

LEMMA TypeProcess ==
    ASSUME TypeOK, OutputsLeft, NEW s \in Sides, process_and_record(s)
    PROVE  TypeOK' /\ OutputsLeft'
<1>1. s \in Threads /\ msg[s].data \in Batches /\ msg[s].own \in BOOLEAN
      /\ ReceiveAction(s) \in Actions
  BY DEF Threads, TypeOK, Received, ReceiveAction, Actions
<1>2. pathQueue' \in Seq(Nat) /\ PathTaken(msg[s].data) \in Nat
  BY <1>1, ParseType DEF process_and_record
<1>3. recorded' \in [Threads -> Seq(LogEntries)]
  <2>1. CASE UNCHANGED recorded
    BY <2>1 DEF TypeOK
  <2>2. CASE Record(s, ReceiveAction(s), msg[s].data, PathTaken(msg[s].data), msg[s].own)
    BY <1>1, <1>2, <2>2, RecordType
  <2> QED
    BY <2>1, <2>2 DEF process_and_record
<1>4. CASE Aborted(s)
  <2>1. EndCycle(s) /\ Goto(s, "done")
    BY <1>4 DEF process_and_record
  <2>2. pc' \in [Threads -> Pcs] /\ OutputsLeft'
    BY <2>1, LeavesCycle DEF Pcs
  <2> QED
    BY <1>2, <1>3, <2>1, <2>2, EndCycleType DEF process_and_record, TypeOK, Pcs, sockVars, netVars,
                                                excVars
<1>5. CASE ~Aborted(s)
  <2>1. \E label \in {"decide", "engine"} : Goto(s, label)
    BY <1>5 DEF process_and_record
  <2>2. pc' \in [Threads -> Pcs] /\ OutputsLeft'
    BY <1>1, <1>5, <2>1, GotoType DEF process_and_record, GoesTo, Pcs, CyclePcs, cycleVars
  <2> QED
    BY <1>2, <1>3, <1>5, <2>2 DEF process_and_record, TypeOK, Pcs, sockVars, netVars, cycleVars,
                                  excVars
<1> QED
  BY <1>4, <1>5

LEMMA TypeRequester ==
    ASSUME TypeOK, OutputsLeft, requester
    PROVE  TypeOK' /\ OutputsLeft'
<1>1. "client" \in Sides /\ "client" \in Threads /\ msg["client"].data \in Batches
      /\ "client_requester" \in Actions
  BY DEF Sides, Threads, TypeOK, Received, Actions
<1>2. PICK changed \in {FALSE, RequesterChanges} :
        /\ \/ /\ parse_http(msg["client"].data)
              /\ Record("client", "client_requester", msg["client"].data,
                        PathTaken(msg["client"].data), msg["client"].own)
           \/ UNCHANGED <<recorded, pathQueue>>
        /\ outs' = [outs EXCEPT !["client"] =
              IF Offline THEN @ ELSE <<[data |-> msg["client"].data, changed |-> changed]>>]
  BY DEF requester
<1>3. changed \in BOOLEAN
  BY FlagsAssumption
<1>4. pathQueue' \in Seq(Nat) /\ recorded' \in [Threads -> Seq(LogEntries)]
  <2>1. CASE UNCHANGED <<recorded, pathQueue>>
    BY <2>1 DEF TypeOK
  <2>2. CASE /\ parse_http(msg["client"].data)
             /\ Record("client", "client_requester", msg["client"].data,
                       PathTaken(msg["client"].data), msg["client"].own)
    <3>1. msg["client"].own \in BOOLEAN
      BY <1>1 DEF TypeOK, Received
    <3> QED
      BY <1>1, <2>2, <3>1, ParseType, RecordType
  <2> QED
    BY <1>2, <2>1, <2>2
<1>5. /\ outs' \in [Sides -> Seq(Outputs)]
      /\ pc' \in [Threads -> Pcs]
      /\ OutputsLeft'
  <2>1. CASE Offline
    <3>1. outs' = outs
      BY <1>2, <2>1 DEF TypeOK
    <3> QED
      BY <1>1, <2>1, <3>1, GotoType DEF requester, GoesTo, TypeOK, Pcs, CyclePcs
  <2>2. CASE ~Offline
    <3> DEFINE list == <<[data |-> msg["client"].data, changed |-> changed]>>
    <3>1. list \in Seq(Outputs) /\ list # <<>>
      BY <1>1, <1>3 DEF Outputs
    <3> QED
      BY <1>1, <1>2, <2>2, <3>1, SendingType DEF requester
  <2> QED
    BY <2>1, <2>2
<1> QED
  BY <1>4, <1>5 DEF requester, TypeOK, Pcs, sockVars, netVars, excVars

LEMMA TypeResponder ==
    ASSUME TypeOK, OutputsLeft, NEW s \in Sides,
           responder(s) \/ (s = "service" /\ connect_response)
    PROVE  TypeOK' /\ OutputsLeft'
<1>1. msg[s].data \in Batches
  BY DEF TypeOK, Received
<1>2. \E list \in Seq(Outputs) :
        outs' = [outs EXCEPT ![s] = list] /\ Goto(s, NextOutput(list))
  BY <1>1, OutputsAreSequences DEF responder, connect_response
<1>3. /\ outs' \in [Sides -> Seq(Outputs)]
      /\ pc' \in [Threads -> Pcs]
      /\ OutputsLeft'
  BY <1>2, NextOutputType, SendingType
<1> QED
  BY <1>3 DEF responder, connect_response, TypeOK, Pcs, sockVars, netVars, excVars

LEMMA TypeOutput ==
    ASSUME TypeOK, OutputsLeft, NEW s \in Sides, output(s)
    PROVE  TypeOK' /\ OutputsLeft'
<1> DEFINE data == Head(outs[s]).data
<1>1. data \in Batches
  <2>1. outs[s] \in Seq(Outputs) /\ outs[s] # <<>>
    BY DEF TypeOK, OutputsLeft, output
  <2>2. Head(outs[s]) \in Outputs
    BY <2>1, HeadTailProperties
  <2> QED
    BY <2>2 DEF Outputs
<1>2. s \in Threads /\ {"client_responder_offline", "service_responder"} \subseteq Actions
  BY DEF Threads, Actions
<1> HIDE DEF data
<1>3. pathQueue' \in Seq(Nat) /\ recorded' \in [Threads -> Seq(LogEntries)]
  <2>1. CASE Offline
    <3>1. parse_http(data) /\ Record(s, "client_responder_offline", data, PathTaken(data), FALSE)
      BY <2>1 DEF output, data
    <3> QED
      BY <1>1, <1>2, <3>1, ParseType, RecordType
  <2>2. CASE ~Offline
    <3>1. Record(s, "service_responder", data, 0, FALSE) /\ UNCHANGED pathQueue
      BY <2>2 DEF output, data
    <3> QED
      BY <1>1, <1>2, <3>1, RecordType DEF TypeOK
  <2> QED
    BY <2>1, <2>2
<1>4. pc' \in [Threads -> Pcs] /\ OutputsLeft'
  <2>1. Goto(s, "send") /\ pc[s] = "output" /\ outs' = outs
    BY DEF output, cycleVars
  <2>2. \A r \in Sides : pc'[r] \in {"output", "send"} => pc[r] \in {"output", "send"}
    BY <2>1 DEF TypeOK, Goto, Sides, Threads
  <2> QED
    BY <1>2, <2>1, <2>2 DEF TypeOK, OutputsLeft, Goto, Pcs, CyclePcs
<1> QED
  BY <1>3, <1>4 DEF output, TypeOK, Pcs, sockVars, netVars, cycleVars, excVars

LEMMA TypeSend ==
    ASSUME TypeOK, OutputsLeft, NEW s \in Sides, send(s) \/ send_error(s)
    PROVE  TypeOK' /\ OutputsLeft'
<1>1. Head(outs[s]) \in Outputs /\ Tail(outs[s]) \in Seq(Outputs)
  <2>1. outs[s] \in Seq(Outputs) /\ outs[s] # <<>>
    BY DEF TypeOK, OutputsLeft, send, send_error
  <2> QED
    BY <2>1, HeadTailProperties
<1>2. /\ outs' \in [Sides -> Seq(Outputs)]
      /\ pc' \in [Threads -> Pcs]
      /\ OutputsLeft'
  <2>1. outs' = [outs EXCEPT ![s] = Tail(outs[s])] /\ Goto(s, NextOutput(Tail(outs[s])))
    BY DEF send, send_error
  <2> QED
    BY <1>1, <2>1, NextOutputType, SendingType
<1>3. sendError' \in [Sides -> BOOLEAN]
  BY DEF send, send_error, TypeOK
<1>4. delivered' \in [Sides -> Seq(Outputs)]
  <2>1. delivered' = delivered
        \/ \E d \in Sides : delivered' = [delivered EXCEPT ![d] = Append(@, Head(outs[s]))]
    BY DEF send, send_error, Destination, Other, Sides, netVars
  <2>2. delivered \in [Sides -> Seq(Outputs)]
    BY DEF TypeOK
  <2>3. \A d \in Sides : Append(delivered[d], Head(outs[s])) \in Seq(Outputs)
    BY <1>1, <2>2, AppendProperties
  <2> QED
    BY <2>1, <2>2, <2>3
<1>5. recorded' \in [Threads -> Seq(LogEntries)]
  <2>1. <<>> \in Batches /\ s \in Threads /\ {"service_send", "client_send"} \subseteq Actions
    BY DEF Batches, Threads, Actions
  <2> QED
    BY <2>1, RecordType DEF send, send_error, TypeOK
<1> QED
  BY <1>2, <1>3, <1>4, <1>5 DEF send, send_error, TypeOK, Pcs, sockVars, netVars, excVars

LEMMA TypeRaises ==
    ASSUME TypeOK, OutputsLeft, NEW s \in Sides,
           engine_raises(s) \/ send_raises(s) \/ close_socket_raises(s)
    PROVE  TypeOK' /\ OutputsLeft'
<1>1. CASE \E e \in Exceptions : RaiseInSide(s, e)
  <2>1. pathQueue' \in Seq(Nat)
    <3>1. CASE UNCHANGED pathQueue
      BY <3>1 DEF TypeOK
    <3>2. CASE parse_http(msg[s].data)
      <4>1. msg[s].data \in Batches
        BY DEF TypeOK, Received
      <4> QED
        BY <3>2, <4>1, ParseType
    <3> QED
      BY <3>1, <3>2 DEF engine_raises, send_raises, close_socket_raises
  <2> QED
    BY <1>1, <2>1, TypeRaise DEF engine_raises, send_raises, close_socket_raises, TypeOK, Pcs,
                                 sockVars, netVars
<1>2. CASE close_socket_raises(s) /\ Goto(s, "done") /\ UNCHANGED <<exc, reset, flag, cycleVars>>
  <2>1. GoesTo(s, "done")
    BY <1>2, GotoType DEF Pcs, Threads
  <2> QED
    BY <1>2, <2>1 DEF close_socket_raises, GoesTo, TypeOK, Pcs, sockVars, netVars, cycleVars
<1> QED
  BY <1>1, <1>2 DEF engine_raises, send_raises, close_socket_raises, Exceptions

LEMMA TypePeers ==
    ASSUME TypeOK, OutputsLeft, Peers
    PROVE  TypeOK' /\ OutputsLeft'
<1>1. ASSUME NEW s \in Sides, NEW id \in Nat, NEW kind \in {"request", "response", "raw"},
             PeerSends(s, kind, id)
      PROVE  /\ wire' \in [Sides -> Batches]
             /\ sentCount' \in [Sides -> Nat]
  <2>1. [kind |-> kind, id |-> id] \in Chunks
    BY DEF Chunks
  <2>2. Append(wire[s], [kind |-> kind, id |-> id]) \in Batches
    BY <2>1, AppendProperties DEF TypeOK, Batches
  <2>3. wire' = [wire EXCEPT ![s] = Append(wire[s], [kind |-> kind, id |-> id])]
    BY <1>1 DEF PeerSends
  <2> QED
    BY <1>1, <2>2, <2>3 DEF PeerSends, TypeOK
<1>2. CASE \E s \in Sides : PeerCloses(s)
  BY <1>2 DEF PeerCloses, TypeOK, OutputsLeft, sockVars, cycleVars, excVars
<1>3. CASE ClientSends
  <2> DEFINE id == sentCount["client"] + 1
  <2>1. id \in Nat /\ "client" \in Sides
    BY DEF TypeOK, Sides
  <2>2. PICK kind \in {"request", "raw"} : PeerSends("client", kind, id)
    BY <1>3 DEF ClientSends
  <2>3. asked' \in [Sides -> Nat]
    BY <1>3, <2>1 DEF ClientSends, TypeOK
  <2>4. wire' \in [Sides -> Batches] /\ sentCount' \in [Sides -> Nat]
    BY <1>1, <2>1, <2>2
  <2> QED
    BY <2>2, <2>3, <2>4 DEF PeerSends, TypeOK, OutputsLeft, sockVars, cycleVars, excVars
<1>4. CASE ServiceSends
  <2>1. "service" \in Sides
    BY DEF Sides
  <2>2. \E id \in Nat : \E kind \in {"response", "raw"} :
          /\ PeerSends("service", kind, id)
          /\ asked' = asked \/ asked' = [asked EXCEPT !["service"] = id]
    <3>1. Unanswered \subseteq Nat
      BY <2>1 DEF Unanswered, TypeOK, Sides
    <3> QED
      BY <1>4, <3>1 DEF ServiceSends
  <2>3. PICK id \in Nat : \E kind \in {"response", "raw"} :
          /\ PeerSends("service", kind, id)
          /\ asked' = asked \/ asked' = [asked EXCEPT !["service"] = id]
    BY <2>2
  <2>4. asked' \in [Sides -> Nat]
    BY <2>3 DEF TypeOK
  <2>5. wire' \in [Sides -> Batches] /\ sentCount' \in [Sides -> Nat]
    BY <1>1, <2>1, <2>3
  <2> QED
    BY <2>3, <2>4, <2>5 DEF PeerSends, TypeOK, OutputsLeft, sockVars, cycleVars, excVars
<1> QED
  BY <1>2, <1>3, <1>4 DEF Peers

LEMMA TypeStep == TypeOK /\ OutputsLeft /\ [Next]_vars => TypeOK' /\ OutputsLeft'
<1> SUFFICES ASSUME TypeOK, OutputsLeft, [Next]_vars PROVE TypeOK' /\ OutputsLeft'
  OBVIOUS
<1>1. CASE UNCHANGED vars
  BY <1>1 DEF vars, sockVars, netVars, cycleVars, excVars, TypeOK, OutputsLeft
<1>2. ASSUME NEW s \in Sides, Side(s) PROVE TypeOK' /\ OutputsLeft'
  BY <1>2, TypeReceive, TypeEnd, TypeProcess, TypeResponder, TypeOutput, TypeSend, TypeRaises,
     TypeFinish DEF Side, Threads
<1> QED
  BY <1>1, <1>2, TypeMain, TypeRequester, TypeResponder, TypePeers
  DEF Next, ClientThread, ServiceThread, Terminating, Sides

---------------------------------------------------------------------------
(* What a step of a side may change.                                       *)

SideStep(s) == \/ Side(s)
               \/ s = "client" /\ requester
               \/ s = "service" /\ connect_response

(* Only a thread that runs takes a step, and it moves itself alone. *)
LEMMA SideMoves ==
    ASSUME IInv, NEW s \in Sides, SideStep(s)
    PROVE  /\ pc[s] \in CyclePcs \cup FinishPcs
           /\ \E label \in CyclePcs \cup FinishPcs \cup {"done"} : pc' = [pc EXCEPT ![s] = label]
           /\ Finish(s) \/ \E label \in CyclePcs \cup {"finish", "done"} : pc' = [pc EXCEPT ![s] = label]
<1>1. \A list \in Seq(Outputs) : NextOutput(list) \in CyclePcs
  BY NextOutputType DEF CyclePcs
<1>2. pc[s] \in {"output", "send"} => Tail(outs[s]) \in Seq(Outputs)
  BY HeadTailProperties DEF IInv, TypeOK, OutputsLeft
<1>3. CASE responder(s) \/ (s = "service" /\ connect_response)
  <2>1. msg[s].data \in Batches
    BY DEF IInv, TypeOK, Received
  <2>2. \E list \in Seq(Outputs) : Goto(s, NextOutput(list))
    BY <1>3, <2>1, OutputsAreSequences DEF responder, connect_response
  <2> QED
    BY <1>1, <1>3, <2>2 DEF responder, connect_response, Goto, CyclePcs
<1>4. CASE send(s) \/ send_error(s)
  BY <1>1, <1>2, <1>4 DEF send, send_error, Goto, CyclePcs
<1>5. CASE \/ receive(s) \/ receive_on_closed_socket(s) \/ process_and_record(s) \/ output(s)
           \/ send_on_closed_socket(s) \/ decide(s) \/ end_thread(s)
           \/ (s = "client" /\ requester)
  BY <1>5 DEF receive, receive_on_closed_socket, process_and_record, output,
              send_on_closed_socket, decide, end_thread, requester, Goto, CyclePcs, FinishPcs
<1>6. CASE send_raises(s) \/ engine_raises(s) \/ close_socket_raises(s)
  BY <1>6 DEF send_raises, engine_raises, close_socket_raises, RaiseInSide, Goto, CyclePcs,
              FinishPcs
<1>7. CASE Finish(s)
  BY <1>7 DEF Finish, finish_thread, close_socket, forget_socket, check_client, linger_client,
              close_client, Goto, FinishPcs
<1> QED
  BY <1>3, <1>4, <1>5, <1>6, <1>7 DEF SideStep, Side

(* The flag is never taken back, and nobody finishes without it. *)
LEMMA FlagStays ==
    ASSUME IInv, NEW s \in Sides, SideStep(s)
    PROVE  /\ flag => flag'
           /\ pc'[s] \in FinishPcs => flag'
<1>1. /\ flag \in BOOLEAN
      /\ pc[s] \in FinishPcs => flag
  BY DEF IInv, TypeOK, CloseIsAnnounced
<1>2. CASE send_raises(s) \/ engine_raises(s) \/ close_socket_raises(s)
  BY <1>1, <1>2 DEF send_raises, engine_raises, close_socket_raises, RaiseInSide, FinishPcs
<1>3. CASE decide(s)
  BY <1>1, <1>3 DEF decide, Goto, FinishPcs, IInv, TypeOK, Threads
<1>4. CASE Finish(s)
  <2>1. UNCHANGED flag
    BY <1>4 DEF Finish, finish_thread, close_socket, forget_socket, check_client, linger_client,
                close_client
  <2>2. pc[s] \in FinishPcs
    BY <1>4 DEF Finish, finish_thread, close_socket, forget_socket, check_client, linger_client,
                close_client, FinishPcs
  <2> QED
    BY <1>1, <2>1, <2>2
<1>5. CASE \/ receive(s) \/ receive_on_closed_socket(s) \/ process_and_record(s) \/ output(s)
           \/ send_on_closed_socket(s) \/ end_thread(s) \/ (s = "client" /\ requester)
  <2>1. UNCHANGED flag
    BY <1>5 DEF receive, receive_on_closed_socket, process_and_record, output,
                send_on_closed_socket, end_thread, requester
  <2>2. \E label \in {"process", "done", "decide", "engine", "send", "responder"} : Goto(s, label)
    BY <1>5 DEF receive, receive_on_closed_socket, process_and_record, output,
                send_on_closed_socket, end_thread, requester
  <2>3. pc'[s] \notin FinishPcs
    BY <2>2 DEF Goto, FinishPcs, IInv, TypeOK, Threads
  <2> QED
    BY <2>1, <2>3
<1>6. CASE responder(s) \/ (s = "service" /\ connect_response) \/ send(s) \/ send_error(s)
  <2>1. UNCHANGED flag
    BY <1>6 DEF responder, connect_response, send, send_error
  <2>2. pc'[s] \in {"decide", "output", "send"}
    BY <1>6 DEF responder, connect_response, send, send_error, Goto, NextOutput, IInv, TypeOK,
                Threads
  <2> QED
    BY <1>1, <2>1, <2>2 DEF FinishPcs
<1> QED
  BY <1>2, <1>3, <1>4, <1>5, <1>6 DEF SideStep, Side

(* Only a thread that finishes closes a socket. *)
LEMMA WhoCloses ==
    ASSUME IInv, NEW s \in Sides, SideStep(s)
    PROVE  \/ UNCHANGED sock
           \/ pc[s] = "close_service" /\ sock' = [sock EXCEPT !["service"] = "closed"]
           \/ /\ pc[s] = "close_client_now"
              /\ pc'[s] = "finished"
              /\ sock' = [sock EXCEPT !["client"] = "closed"]
<1>1. CASE close_client(s)
  BY <1>1 DEF close_client, CloseOwn, Goto, IInv, TypeOK, Threads
<1>2. CASE close_socket(s)
  BY <1>2 DEF close_socket, CloseOwn
<1>3. CASE finish_thread(s) \/ forget_socket(s) \/ check_client(s) \/ linger_client(s)
  BY <1>3 DEF finish_thread, forget_socket, check_client, linger_client, sockVars
<1> QED
  BY <1>1, <1>2, <1>3
  DEF SideStep, Side, Finish, receive, receive_on_closed_socket, process_and_record, requester,
      responder, connect_response, output, send, send_error, send_on_closed_socket, send_raises,
      engine_raises, decide, close_socket_raises, end_thread, sockVars

(* After finish_thread a side only ends. *)
LEMMA FinishedEnds ==
    ASSUME IInv, NEW s \in Sides, SideStep(s), pc[s] = "finished"
    PROVE  pc'[s] = "done"
  BY DEF SideStep, Side, Finish, finish_thread, close_socket, forget_socket, check_client,
      linger_client, close_client, receive, receive_on_closed_socket, process_and_record,
      requester, responder, connect_response, output, send, send_error, send_on_closed_socket,
      send_raises, engine_raises, decide, close_socket_raises, end_thread, Goto, IInv, TypeOK,
      Threads

LEMMA PeersMoveNothing ==
    Peers => UNCHANGED <<pc, sock, flag, msg, reset, resetSent, recorded>>
  BY DEF Peers, ClientSends, ServiceSends, PeerSends, PeerCloses, sockVars, cycleVars

LEMMA MainWaitsStep == IInv /\ [Next]_vars => MainWaits'
<1> SUFFICES ASSUME IInv, [Next]_vars PROVE MainWaits'
  OBVIOUS
<1>1. CASE UNCHANGED vars \/ Peers
  BY <1>1, PeersMoveNothing DEF vars, sockVars, IInv, MainWaits
<1>2. ASSUME NEW s \in Sides, SideStep(s) PROVE MainWaits'
  <2>1. PICK label \in CyclePcs \cup FinishPcs \cup {"done"} : pc' = [pc EXCEPT ![s] = label]
    BY <1>2, SideMoves
  <2>2. pc[s] \in CyclePcs \cup FinishPcs
    BY <1>2, SideMoves
  <2>3. pc[s] \notin {"not_started", "done"}
    BY <2>2 DEF CyclePcs, FinishPcs
  <2>4. pc'["main"] = pc["main"] /\ \A r \in Sides : r # s => pc'[r] = pc[r]
    BY <2>1 DEF IInv, TypeOK, Threads, Sides
  <2>5. /\ pc["main"] \notin {"setup", "connect", "start_client", "check_queues", "done"}
        /\ pc["main"] \notin FinishPcs
    BY <2>3 DEF IInv, MainWaits
  <2>6. s = "service" => ~Offline /\ pc["main"] # "start_service"
    BY <2>3 DEF IInv, MainWaits
  <2>7. s = "client" => pc["main"] # "join_service"
    BY <2>3 DEF IInv, MainWaits
  <2> QED
    BY <2>4, <2>5, <2>6, <2>7 DEF IInv, MainWaits, Sides
<1>3. CASE Main
  <2> USE DEF Sides, Threads
  <2>1. CASE setup \/ setup_raises \/ start_client \/ start_service \/ join \/ return
    <3>1. UNCHANGED <<sock, flag>>
      BY <2>1 DEF setup, setup_raises, start_client, start_service, join, return, sockVars
    <3>2. CASE setup \/ setup_raises \/ return
      <4>1. PICK label \in {"start_client", "connect", "done"} : pc' = [pc EXCEPT !["main"] = label]
        BY <3>2 DEF setup, setup_raises, return, Goto
      <4>2. pc["main"] = "setup" \/ (pc["main"] = "finished" /\ label = "done")
        <5>1. CASE setup \/ setup_raises
          BY <5>1 DEF setup, setup_raises
        <5>2. CASE return
          <6>1. pc["main"] = "finished" /\ pc' = [pc EXCEPT !["main"] = "done"]
            BY <5>2 DEF return, Goto
          <6>2. pc'["main"] = label /\ pc'["main"] = "done"
            BY <4>1, <6>1 DEF IInv, TypeOK
          <6> QED
            BY <6>1, <6>2
        <5> QED
          BY <3>2, <5>1, <5>2
      <4>3. /\ pc'["main"] = label
            /\ pc'["client"] = pc["client"]
            /\ pc'["service"] = pc["service"]
        BY <4>1 DEF IInv, TypeOK
      <4> QED
        BY <3>1, <4>2, <4>3 DEF IInv, MainWaits, CyclePcs, FinishPcs
    <3>3. CASE start_client \/ start_service
      BY <3>1, <3>3 DEF start_client, start_service, IInv, TypeOK, MainWaits, CyclePcs, FinishPcs
    <3>4. CASE join
      BY <3>1, <3>4 DEF join, Goto, IInv, TypeOK, MainWaits, CyclePcs, FinishPcs
    <3> QED
      BY <2>1, <3>2, <3>3, <3>4
  <2>2. CASE service_connection
    <3>1. \E label \in {"start_client", "finish"} : pc' = [pc EXCEPT !["main"] = label]
      BY <2>2 DEF service_connection, RaiseInMain, Goto
    <3>2. /\ pc'["main"] \in {"start_client", "finish"}
          /\ pc'["client"] = "not_started"
          /\ pc'["service"] = "not_started"
          /\ ~flag'
      BY <2>2, <3>1 DEF service_connection, IInv, TypeOK, MainWaits
    <3>3. sock'["client"] # "closed" /\ sock'["service"] # "closed"
      BY <2>2 DEF service_connection, IInv, TypeOK, MainWaits
    <3> QED
      BY <3>2, <3>3 DEF MainWaits, CyclePcs, FinishPcs
  <2>3. CASE check_queues
    <3>1. pc' = [pc EXCEPT !["main"] = "finish"]
      BY <2>3 DEF check_queues, RaiseInMain, Goto
    <3>2. /\ pc'["main"] = "finish"
          /\ pc'["client"] = pc["client"]
          /\ pc'["service"] = pc["service"]
      BY <3>1 DEF IInv, TypeOK
    <3>3. pc["main"] = "check_queues"
      BY <2>3 DEF check_queues
    <3> QED
      BY <3>2, <3>3 DEF IInv, MainWaits, CyclePcs, FinishPcs
  <2>4. CASE Finish("main")
    BY <2>4 DEF Finish, finish_thread, close_socket, forget_socket, check_client, linger_client,
                close_client, CloseOwn, Goto, sockVars, IInv, TypeOK, MainWaits, CyclePcs, FinishPcs
  <2> QED
    BY <1>3, <2>1, <2>2, <2>3, <2>4 DEF Main
<1> QED
  BY <1>1, <1>2, <1>3 DEF Next, ClientThread, ServiceThread, SideStep, Terminating, Sides

LEMMA CloseIsAnnouncedStep == IInv /\ [Next]_vars => CloseIsAnnounced'
<1> SUFFICES ASSUME IInv, [Next]_vars PROVE CloseIsAnnounced'
  OBVIOUS
<1>1. CASE UNCHANGED vars \/ Peers
  BY <1>1, PeersMoveNothing DEF vars, sockVars, IInv, CloseIsAnnounced
<1>2. ASSUME NEW s \in Sides, SideStep(s) PROVE CloseIsAnnounced'
  <2>1. PICK label \in CyclePcs \cup FinishPcs \cup {"done"} : pc' = [pc EXCEPT ![s] = label]
    BY <1>2, SideMoves
  <2>2. /\ pc'["main"] = pc["main"]
        /\ pc'[s] = label
        /\ \A r \in Sides : r # s => pc'[r] = pc[r]
    BY <2>1 DEF IInv, TypeOK, Threads, Sides
  <2>3. /\ flag => flag'
        /\ \A r \in Sides : pc'[r] \in FinishPcs => flag'
    BY <1>2, <2>2, FlagStays DEF IInv, CloseIsAnnounced
  <2>4. \A r \in Sides : sock'[r] = "closed" => flag' \/ pc["main"] \in FinishPcs \cup {"done"}
    <3>1. pc[s] \in {"close_service", "close_client_now"} => flag'
      BY <2>3 DEF IInv, CloseIsAnnounced, FinishPcs
    <3> QED
      BY <1>2, <2>3, <3>1, WhoCloses DEF IInv, TypeOK, CloseIsAnnounced
  <2>5. Offline /\ sock'["client"] = "closed" => pc'["client"] \in {"finished", "done", "not_started"}
    <3> SUFFICES ASSUME Offline, sock'["client"] = "closed"
                 PROVE  pc'["client"] \in {"finished", "done", "not_started"}
      OBVIOUS
    <3>1. s = "client"
      <4>1. pc[s] # "not_started"
        BY <1>2, SideMoves DEF CyclePcs, FinishPcs
      <4> QED
        BY <4>1 DEF IInv, MainWaits, Sides
    <3>2. CASE sock["client"] = "closed"
      <4>1. pc["client"] = "finished"
        BY <1>2, <3>1, <3>2, SideMoves DEF IInv, CloseIsAnnounced, CyclePcs, FinishPcs
      <4> QED
        BY <1>2, <3>1, <4>1, <2>2, FinishedEnds
    <3>3. CASE sock["client"] # "closed"
      BY <1>2, <3>1, <3>3, WhoCloses DEF IInv, TypeOK, Sides
    <3> QED
      BY <3>2, <3>3
  <2> QED
    BY <2>2, <2>3, <2>4, <2>5 DEF CloseIsAnnounced
<1>3. CASE Main
  <2> USE DEF Sides, Threads
  <2>1. CASE setup \/ setup_raises \/ start_client \/ start_service \/ join \/ return
    BY <2>1 DEF setup, setup_raises, start_client, start_service, join, return, Goto, sockVars,
                IInv, TypeOK, MainWaits, CloseIsAnnounced, FinishPcs
  <2>2. CASE service_connection
    BY <2>2 DEF service_connection, RaiseInMain, Goto, IInv, TypeOK, MainWaits, CloseIsAnnounced,
                FinishPcs
  <2>3. CASE check_queues
    BY <2>3 DEF check_queues, RaiseInMain, Goto, sockVars, IInv, TypeOK, CloseIsAnnounced, FinishPcs
  <2>4. CASE Finish("main")
    BY <2>4 DEF Finish, finish_thread, close_socket, forget_socket, check_client, linger_client,
                close_client, CloseOwn, Goto, sockVars, IInv, TypeOK, MainWaits, CloseIsAnnounced,
                FinishPcs
  <2> QED
    BY <1>3, <2>1, <2>2, <2>3, <2>4 DEF Main
<1> QED
  BY <1>1, <1>2, <1>3 DEF Next, ClientThread, ServiceThread, SideStep, Terminating, Sides

(* An error is the worker's own only on a socket which it has closed. *)
LEMMA WhatReceiveReturns ==
    ASSUME IInv, NEW s \in Sides, receive(s)
    PROVE  \/ ~msg'[s].own /\ (msg'[s].err = "conn" => peer[s] = "rst")
           \/ sock[s] = "closed" /\ msg'[s].own /\ msg'[s].err # "none"
<1>1. CASE \E n \in 1..Len(wire[s]) :
             msg' = [msg EXCEPT ![s] = [NothingReceived EXCEPT !.data = SubSeq(wire[s], 1, n)]]
  <2>1. PICK n \in 1..Len(wire[s]) :
          msg' = [msg EXCEPT ![s] = [NothingReceived EXCEPT !.data = SubSeq(wire[s], 1, n)]]
    BY <1>1
  <2>2. msg'[s] = [NothingReceived EXCEPT !.data = SubSeq(wire[s], 1, n)]
    BY <2>1 DEF IInv, TypeOK
  <2>3. ~msg'[s].own /\ msg'[s].err = "none"
    BY <2>2 DEF NothingReceived
  <2> QED
    BY <2>3
<1>2. CASE /\ peer[s] # "open"
           /\ \E e \in PeerErrors(s) :
                msg' = [msg EXCEPT ![s] = [data |-> wire[s], closed |-> TRUE, err |-> e, own |-> FALSE]]
  <2>1. PICK e \in PeerErrors(s) :
          msg' = [msg EXCEPT ![s] = [data |-> wire[s], closed |-> TRUE, err |-> e, own |-> FALSE]]
    BY <1>2
  <2>2. e = "conn" => peer[s] # "fin"
    BY DEF PeerErrors
  <2>3. peer[s] \in {"open", "fin", "rst"}
    BY DEF IInv, TypeOK
  <2>4. msg'[s] = [data |-> wire[s], closed |-> TRUE, err |-> e, own |-> FALSE]
    BY <2>1 DEF IInv, TypeOK
  <2> QED
    BY <1>2, <2>2, <2>3, <2>4
<1>3. CASE /\ sock[s] = "closed"
           /\ \E e \in {"conn", "other"} :
                msg' = [msg EXCEPT ![s] = [data |-> <<>>, closed |-> TRUE, err |-> e, own |-> TRUE]]
  BY <1>3 DEF IInv, TypeOK
<1> QED
  BY <1>1, <1>2, <1>3 DEF receive

(* A side that goes on has received nothing, or just what it had. *)
LEMMA WhatIsReceived ==
    ASSUME IInv, NEW s \in Sides, SideStep(s)
    PROVE  /\ \A r \in Sides : r # s => msg'[r] = msg[r]
           /\ \/ receive(s)
              \/ msg'[s] = NothingReceived
              \/ msg'[s] = msg[s] /\ (msg[s].own => pc[s] # "process")
<1>1. CASE receive(s)
  BY <1>1 DEF receive, IInv, TypeOK
<1>2. CASE EndCycle(s)
  BY <1>2 DEF EndCycle, IInv, TypeOK
<1>3. CASE process_and_record(s) /\ ~Aborted(s)
  BY <1>3 DEF process_and_record, cycleVars, Aborted, IInv, OwnErrorsAreSeen
<1>4. CASE UNCHANGED msg /\ pc[s] # "process"
  BY <1>4
<1> QED
  BY <1>1, <1>2, <1>3, <1>4
  DEF SideStep, Side, Finish, finish_thread, close_socket, forget_socket, check_client,
      linger_client, close_client, receive_on_closed_socket, process_and_record, requester,
      responder, connect_response, output, send, send_error, send_on_closed_socket, send_raises,
      engine_raises, decide, close_socket_raises, end_thread, RaiseInSide, cycleVars

LEMMA OwnErrorsAreSeenStep == IInv /\ [Next]_vars => OwnErrorsAreSeen'
<1> SUFFICES ASSUME IInv, [Next]_vars PROVE OwnErrorsAreSeen'
  OBVIOUS
<1>1. CASE UNCHANGED vars \/ Peers
  BY <1>1, PeersMoveNothing DEF vars, cycleVars, IInv, OwnErrorsAreSeen
<1>2. ASSUME NEW s \in Sides, SideStep(s) PROVE OwnErrorsAreSeen'
  <2>1. PICK label \in CyclePcs \cup FinishPcs \cup {"done"} : pc' = [pc EXCEPT ![s] = label]
    BY <1>2, SideMoves
  <2>2. flag => flag'
    BY <1>2, FlagStays
  <2>3. ASSUME NEW r \in Sides, r # s, msg'[r].own
        PROVE  pc'[r] = "process" /\ ~Offline /\ flag' /\ msg'[r].err # "none"
    BY <1>2, <2>1, <2>2, <2>3, WhatIsReceived DEF IInv, TypeOK, OwnErrorsAreSeen
  <2>4. ASSUME msg'[s].own
        PROVE  pc'[s] = "process" /\ ~Offline /\ flag' /\ msg'[s].err # "none"
    <3>1. receive(s)
      BY <1>2, <2>4, WhatIsReceived DEF NothingReceived, IInv, OwnErrorsAreSeen
    <3>2. sock[s] = "closed" /\ msg'[s].err # "none" /\ pc[s] = "receive"
      BY <2>4, <3>1, WhatReceiveReturns DEF receive
    <3>3. pc'[s] = "process" /\ UNCHANGED flag
      BY <3>1 DEF receive, Goto, IInv, TypeOK, Threads
    <3>4. pc["main"] \notin FinishPcs \cup {"done"}
      BY <3>2 DEF IInv, MainWaits
    <3>5. flag
      BY <3>2, <3>4 DEF IInv, CloseIsAnnounced
    <3>6. ~Offline
      <4>1. Offline => s = "client"
        BY <3>2 DEF IInv, MainWaits, Sides
      <4> QED
        BY <3>2, <4>1 DEF IInv, CloseIsAnnounced
    <3> QED
      BY <3>2, <3>3, <3>5, <3>6
  <2> QED
    BY <2>3, <2>4 DEF OwnErrorsAreSeen
<1>3. CASE Main
  <2>1. UNCHANGED <<msg, flag>>
    BY <1>3 DEF Main, setup, setup_raises, service_connection, start_client, start_service, join,
                check_queues, return, Finish, finish_thread, close_socket, forget_socket,
                check_client, linger_client, close_client, cycleVars
  <2>2. \A s \in Sides : pc[s] = "process" => pc'[s] = "process"
    <3>1. /\ pc["main"] = "start_client" => pc["client"] # "process"
          /\ pc["main"] = "start_service" => pc["service"] # "process"
      BY DEF IInv, MainWaits, Sides
    <3> QED
      BY <1>3, <3>1
      DEF Main, setup, setup_raises, service_connection, start_client, start_service, join,
          check_queues, return, RaiseInMain, Finish, finish_thread, close_socket, forget_socket,
          check_client, linger_client, close_client, Goto, IInv, TypeOK, Threads, Sides
  <2> QED
    BY <2>1, <2>2 DEF IInv, OwnErrorsAreSeen
<1> QED
  BY <1>1, <1>2, <1>3 DEF Next, ClientThread, ServiceThread, SideStep, Terminating, Sides

LEMMA ResetsAreRealStep == IInv /\ [Next]_vars => ResetsAreReal' /\ ResetOnlyAfterServiceReset'
<1> SUFFICES ASSUME IInv, [Next]_vars PROVE ResetsAreReal' /\ ResetOnlyAfterServiceReset'
  OBVIOUS
<1>1. peer["service"] = "rst" => peer'["service"] = "rst"
  <2>1. CASE \E s \in Sides : PeerCloses(s)
    BY <2>1 DEF PeerCloses, IInv, TypeOK, Sides
  <2>2. CASE UNCHANGED peer
    BY <2>2
  <2> QED
    BY <2>1, <2>2
    DEF Next, Main, setup, setup_raises, service_connection, start_client, start_service, join,
        check_queues, return, ClientThread, ServiceThread, Side, Finish, finish_thread,
        close_socket, forget_socket, check_client, linger_client, close_client, CloseOwn, receive,
        receive_on_closed_socket, process_and_record, requester, responder, connect_response,
        output, send, send_error, send_on_closed_socket, send_raises, engine_raises, decide,
        close_socket_raises, end_thread, Terminating, vars, netVars, Peers, ClientSends,
        ServiceSends, PeerSends
<1>2. CASE UNCHANGED vars \/ Peers
  BY <1>1, <1>2, PeersMoveNothing DEF vars, sockVars, cycleVars, IInv, ResetsAreReal,
                                      ResetOnlyAfterServiceReset
<1>3. ASSUME NEW t \in Threads, Finish(t) PROVE ResetsAreReal' /\ ResetOnlyAfterServiceReset'
  <2>1. UNCHANGED <<msg, reset>>
    BY <1>3 DEF Finish, finish_thread, close_socket, forget_socket, check_client, linger_client,
                close_client, cycleVars
  <2>2. \A r \in Threads : pc'[r] = "linger_client" => reset[r]
    <3>1. \A r \in Threads : pc[r] = "linger_client" => reset[r]
      BY DEF IInv, ResetsAreReal
    <3> QED
      BY <1>3, <3>1 DEF Finish, finish_thread, close_socket, forget_socket, check_client,
                        linger_client, close_client, Goto, IInv, TypeOK
  <2>3. resetSent' => peer["service"] = "rst"
    <3>1. CASE linger_client(t)
      BY <3>1 DEF linger_client, IInv, ResetsAreReal
    <3>2. CASE UNCHANGED resetSent
      BY <3>2 DEF IInv, ResetOnlyAfterServiceReset
    <3> QED
      BY <1>3, <3>1, <3>2 DEF Finish, finish_thread, close_socket, forget_socket, check_client,
                              close_client, sockVars
  <2> QED
    BY <1>1, <2>1, <2>2, <2>3 DEF IInv, ResetsAreReal, ResetOnlyAfterServiceReset
<1>4. ASSUME NEW s \in Sides, SideStep(s), ~Finish(s)
      PROVE  ResetsAreReal' /\ ResetOnlyAfterServiceReset'
  <2>1. UNCHANGED resetSent
    BY <1>4 DEF SideStep, Side, receive, receive_on_closed_socket, process_and_record, requester,
                responder, connect_response, output, send, send_error, send_on_closed_socket,
                send_raises, engine_raises, decide, close_socket_raises, end_thread, sockVars
  <2>2. msg'["service"].err = "conn" => msg'["service"].own \/ peer["service"] = "rst"
    <3>1. CASE receive("service")
      BY <3>1, WhatReceiveReturns DEF Sides
    <3>2. CASE msg'["service"] = msg["service"] \/ msg'["service"] = NothingReceived
      BY <3>2 DEF NothingReceived, IInv, ResetsAreReal
    <3> QED
      BY <1>4, <3>1, <3>2, WhatIsReceived DEF Sides
  <2>3. reset' = reset \/ \E value \in BOOLEAN :
          /\ reset' = [reset EXCEPT ![s] = value]
          /\ value => s = "service" /\ peer["service"] = "rst"
    <3>1. CASE decide(s)
      <4>1. pc[s] = "decide"
        BY <3>1 DEF decide
      <4>2. ~msg[s].own
        BY <4>1 DEF IInv, OwnErrorsAreSeen
      <4> QED
        BY <3>1, <4>2 DEF decide, IInv, ResetsAreReal
    <3>2. CASE send_raises(s) \/ engine_raises(s) \/ close_socket_raises(s)
      BY <3>2 DEF send_raises, engine_raises, close_socket_raises, RaiseInSide
    <3> QED
      BY <1>4, <3>1, <3>2 DEF SideStep, Side, receive, receive_on_closed_socket,
         process_and_record, requester, responder, connect_response, output, send, send_error,
         send_on_closed_socket, end_thread
  <2>4. pc'[s] # "linger_client" /\ \A r \in Threads : r # s => pc'[r] = pc[r]
    <3>1. PICK label \in CyclePcs \cup {"finish", "done"} : pc' = [pc EXCEPT ![s] = label]
      BY <1>4, SideMoves
    <3>2. label # "linger_client"
      BY DEF CyclePcs
    <3> QED
      BY <3>1, <3>2 DEF IInv, TypeOK, Threads
  <2>5. \A t \in Threads : reset'[t] => t = "service" /\ peer["service"] = "rst"
    BY <2>3 DEF IInv, TypeOK, ResetsAreReal
  <2>6. \A t \in Threads : pc'[t] = "linger_client" => reset'[t]
    BY <2>3, <2>4 DEF IInv, TypeOK, ResetsAreReal
  <2> QED
    BY <1>1, <2>1, <2>2, <2>5, <2>6 DEF IInv, ResetsAreReal, ResetOnlyAfterServiceReset
<1>5. CASE Main /\ ~Finish("main")
  <2>1. UNCHANGED <<msg, reset, resetSent, peer>>
    BY <1>5 DEF Main, setup, setup_raises, service_connection, start_client, start_service, join,
                check_queues, return, cycleVars, sockVars, netVars
  <2>2. \A r \in Threads : pc'[r] = "linger_client" => pc[r] = "linger_client"
    BY <1>5 DEF Main, setup, setup_raises, service_connection, start_client, start_service, join,
                check_queues, return, RaiseInMain, Goto, IInv, TypeOK
  <2> QED
    BY <2>1, <2>2 DEF IInv, ResetsAreReal, ResetOnlyAfterServiceReset
<1> QED
  BY <1>2, <1>3, <1>4, <1>5
  DEF Next, ClientThread, ServiceThread, SideStep, Terminating, Main, Sides, Threads

(* A record of a side's own message is made with nothing received by force. *)
LEMMA OwnAbortsNotRecordedStep == IInv /\ [Next]_vars => OwnAbortsNotRecorded'
<1> SUFFICES ASSUME IInv, [Next]_vars PROVE OwnAbortsNotRecorded'
  OBVIOUS
<1>1. ASSUME NEW t \in Threads, NEW action, NEW data, NEW path, NEW own,
             Record(t, action, data, path, own), t \in Sides => ~own, TypeOK'
      PROVE  OwnAbortsNotRecorded'
  <2> DEFINE entry == [action |-> action, data |-> data, path |-> path, own |-> own]
  <2>1. recorded' = [recorded EXCEPT ![t] = Append(recorded[t], entry)]
    BY <1>1 DEF Record
  <2> SUFFICES ASSUME NEW s \in Sides, NEW i \in 1..Len(recorded'[s])
               PROVE  ~recorded'[s][i].own
    BY DEF OwnAbortsNotRecorded
  <2>2. recorded[s] \in Seq(LogEntries)
    BY DEF IInv, TypeOK, Threads
  <2>3. CASE s # t
    BY <2>1, <2>3 DEF IInv, TypeOK, OwnAbortsNotRecorded, Threads
  <2>4. CASE s = t
    <3>1. recorded'[s] = Append(recorded[s], entry)
      BY <2>1, <2>4 DEF IInv, TypeOK
    <3>2. Len(recorded'[s]) = Len(recorded[s]) + 1 /\ Len(recorded[s]) \in Nat
      BY <2>2, <3>1
    <3>3. i = Len(recorded[s]) + 1 \/ i \in 1..Len(recorded[s])
      BY <3>2
    <3>4. CASE i = Len(recorded[s]) + 1
      <4>1. recorded'[s][i] = entry
        BY <2>2, <3>1, <3>4
      <4> QED
        BY <1>1, <2>4, <4>1
    <3>5. CASE i \in 1..Len(recorded[s])
      <4>1. recorded'[s][i] = recorded[s][i]
        BY <2>2, <3>1, <3>5
      <4> QED
        BY <3>5, <4>1 DEF IInv, OwnAbortsNotRecorded
    <3> QED
      BY <3>3, <3>4, <3>5
  <2> QED
    BY <2>3, <2>4
<1>2. CASE UNCHANGED recorded
  BY <1>2 DEF IInv, OwnAbortsNotRecorded
<1>3. TypeOK'
  BY TypeStep DEF IInv
<1>4. ASSUME NEW s \in Sides, process_and_record(s), ~UNCHANGED recorded
      PROVE  OwnAbortsNotRecorded'
  <2>1. Record(s, ReceiveAction(s), msg[s].data, PathTaken(msg[s].data), msg[s].own)
    BY <1>4 DEF process_and_record
  <2>2. ~msg[s].own
    BY <1>4 DEF process_and_record, Aborted, IInv, OwnErrorsAreSeen
  <2> QED
    BY <1>1, <1>3, <2>1, <2>2 DEF Threads
<1>5. CASE requester
  <2>1. UNCHANGED recorded
        \/ Record("client", "client_requester", msg["client"].data,
                  PathTaken(msg["client"].data), msg["client"].own)
    BY <1>5 DEF requester
  <2>2. ~msg["client"].own
    BY <1>5 DEF requester, IInv, OwnErrorsAreSeen, Sides
  <2> QED
    BY <1>1, <1>2, <1>3, <2>1, <2>2 DEF Threads, Sides
<1>6. ASSUME NEW s \in Sides, output(s) \/ send_error(s) PROVE OwnAbortsNotRecorded'
  <2>1. \E action, data, path : Record(s, action, data, path, FALSE)
    BY <1>6 DEF output, send_error
  <2> QED
    BY <1>1, <1>3, <2>1 DEF Threads
<1>7. CASE \E action, data, path, own : Record("main", action, data, path, own)
  BY <1>1, <1>3, <1>7 DEF Threads, Sides
<1>8. CASE Main
  BY <1>2, <1>7, <1>8
  DEF Main, setup, setup_raises, service_connection, start_client, start_service, join,
      check_queues, return, RaiseInMain, Finish, finish_thread, close_socket, forget_socket,
      check_client, linger_client, close_client
<1>9. ASSUME NEW s \in Sides, Side(s) PROVE OwnAbortsNotRecorded'
  BY <1>2, <1>4, <1>6, <1>9
  DEF Side, Finish, finish_thread, close_socket, forget_socket, check_client, linger_client,
      close_client, receive, receive_on_closed_socket, responder, send, send_on_closed_socket,
      send_raises, engine_raises, decide, close_socket_raises, end_thread
<1>10. CASE connect_response \/ Peers \/ UNCHANGED vars
  BY <1>2, <1>10, PeersMoveNothing DEF connect_response, vars
<1> QED
  BY <1>5, <1>8, <1>9, <1>10 DEF Next, ClientThread, ServiceThread, Terminating, Sides

---------------------------------------------------------------------------
(* The inductive invariant holds initially, is kept, and implies the rest. *)
LEMMA InitialInvariant == Init => IInv
<1> SUFFICES ASSUME Init PROVE IInv
  OBVIOUS
<1>1. MainWaits /\ CloseIsAnnounced
  BY DEF Init, MainWaits, CloseIsAnnounced, Threads, Sides, CyclePcs, FinishPcs
<1>2. OwnErrorsAreSeen /\ ResetsAreReal /\ ResetOnlyAfterServiceReset
  BY DEF Init, OwnErrorsAreSeen, ResetsAreReal, ResetOnlyAfterServiceReset, NothingReceived,
         Threads, Sides
<1>3. OwnAbortsNotRecorded
  BY DEF Init, OwnAbortsNotRecorded, Threads, Sides
<1> QED
  BY <1>1, <1>2, <1>3, TypeInit DEF IInv

LEMMA InvariantStep == IInv /\ [Next]_vars => IInv'
  BY TypeStep, MainWaitsStep, CloseIsAnnouncedStep, OwnErrorsAreSeenStep, ResetsAreRealStep,
     OwnAbortsNotRecordedStep DEF IInv

LEMMA Invariance == Spec => []IInv
  BY InitialInvariant, InvariantStep, PTL DEF Spec

(* Every variable of the worker keeps its type. *)
THEOREM TypeCorrect == Spec => []TypeOK
<1>1. IInv => TypeOK
  BY DEF IInv
<1> QED
  BY <1>1, Invariance, PTL

(* An error which the worker's own close() caused is never recorded as the  *)
(* peer's: the flag is set before anything is closed, and a thread looks at *)
(* it before it records (lines 529 and 598).                                *)
THEOREM NoOwnAbortRecorded == Spec => []OwnAbortsNotRecorded
<1>1. IInv => OwnAbortsNotRecorded
  BY DEF IInv
<1> QED
  BY <1>1, Invariance, PTL

(* The client's connection is reset only when the service's was            *)
(* (finish_thread, lines 183-186).                                         *)
THEOREM NoFalseReset == Spec => []ResetOnlyAfterServiceReset
<1>1. IInv => ResetOnlyAfterServiceReset
  BY DEF IInv
<1> QED
  BY <1>1, Invariance, PTL

(* No socket is closed by a side before the flag is set.                   *)
THEOREM ClosingIsAnnounced == Spec => []CloseIsAnnounced
<1>1. IInv => CloseIsAnnounced
  BY DEF IInv
<1> QED
  BY <1>1, Invariance, PTL

---------------------------------------------------------------------------
(* What is forwarded.                                                      *)

(* log holds an entry of this action and data. *)
HasEntry(log, action, data) ==
    \E i \in 1..Len(log) : log[i].action = action /\ log[i].data = data

(* A message in bytes_to_send_list was recorded as it was received, or as  *)
(* the requester changed it, or the loop records it before it sends it.    *)
ListedIsRecorded(log, s, o) ==
    IF s = "client"
      THEN IF Offline THEN o.changed
           ELSE HasEntry(log, IF o.changed THEN "client_requester" ELSE "client_receive", o.data)
      ELSE ~o.changed => HasEntry(log, "service_receive", o.data)

(* At the send itself, a responder's message has been recorded as such. *)
NextIsRecorded(log, s, o) ==
    IF s = "client"
      THEN Offline => HasEntry(log, "client_responder_offline", o.data)
      ELSE o.changed => HasEntry(log, "service_responder", o.data)

ToSendIsRecorded ==
    /\ \A s \in Sides : pc[s] \in {"engine", "responder"} =>
          HasEntry(recorded[s], ReceiveAction(s), msg[s].data)
    /\ \A s \in Sides : \A i \in 1..Len(outs[s]) : ListedIsRecorded(recorded[s], s, outs[s][i])
    /\ \A s \in Sides : pc[s] = "send" => NextIsRecorded(recorded[s], s, outs[s][1])
    /\ pc["client"] = "responder" => Offline
    /\ Offline => delivered["service"] = <<>>

(* A record stays. *)
LEMMA RecordStays ==
    ASSUME IInv, [Next]_vars
    PROVE  \A t \in Threads : \A action, data :
              HasEntry(recorded[t], action, data) => HasEntry(recorded'[t], action, data)
<1>1. recorded' = recorded
      \/ \E t, e : recorded' = [recorded EXCEPT ![t] = Append(recorded[t], e)]
  <2>1. \A t, action, data, path, own : Record(t, action, data, path, own) =>
          \E u, e : recorded' = [recorded EXCEPT ![u] = Append(recorded[u], e)]
    BY DEF Record
  <2>2. CASE Main
    BY <2>1, <2>2
    DEF Main, setup, setup_raises, service_connection, start_client, start_service, join,
        check_queues, return, RaiseInMain, Finish, finish_thread, close_socket, forget_socket,
        check_client, linger_client, close_client
  <2>3. ASSUME NEW s \in Sides, Side(s) \/ requester \/ connect_response
        PROVE  recorded' = recorded
               \/ \E t, e : recorded' = [recorded EXCEPT ![t] = Append(recorded[t], e)]
    BY <2>1, <2>3
    DEF Side, Finish, finish_thread, close_socket, forget_socket, check_client, linger_client,
        close_client, receive, receive_on_closed_socket, process_and_record, requester,
        connect_response, responder, output, send, send_error, send_on_closed_socket, send_raises,
        engine_raises, decide, close_socket_raises, end_thread
  <2>4. CASE Peers \/ UNCHANGED vars
    BY <2>4, PeersMoveNothing DEF vars
  <2> QED
    BY <2>2, <2>3, <2>4 DEF Next, ClientThread, ServiceThread, Terminating, Sides
<1> SUFFICES ASSUME NEW t \in Threads, NEW action, NEW data, HasEntry(recorded[t], action, data)
             PROVE  HasEntry(recorded'[t], action, data)
  OBVIOUS
<1>2. PICK i \in 1..Len(recorded[t]) :
        recorded[t][i].action = action /\ recorded[t][i].data = data
  BY DEF HasEntry
<1>3. recorded \in [Threads -> Seq(LogEntries)] /\ recorded' \in [Threads -> Seq(LogEntries)]
  BY TypeStep DEF IInv, TypeOK
<1>4. i \in 1..Len(recorded'[t]) /\ recorded'[t][i] = recorded[t][i]
  <2>1. recorded'[t] = recorded[t] \/ \E e : recorded'[t] = Append(recorded[t], e)
    BY <1>1, <1>3
  <2>2. recorded[t] \in Seq(LogEntries)
    BY <1>3
  <2>3. \A e : /\ Len(Append(recorded[t], e)) = Len(recorded[t]) + 1
               /\ Append(recorded[t], e)[i] = recorded[t][i]
    BY <2>2, <1>2
  <2> QED
    BY <1>2, <2>1, <2>2, <2>3
<1> QED
  BY <1>2, <1>4 DEF HasEntry

(* A record is found again. *)
LEMMA RecordIsFound ==
    ASSUME IInv, TypeOK', NEW t \in Threads, NEW action, NEW data, NEW path, NEW own,
           Record(t, action, data, path, own)
    PROVE  HasEntry(recorded'[t], action, data)
<1> DEFINE e == [action |-> action, data |-> data, path |-> path, own |-> own]
<1>1. recorded[t] \in Seq(LogEntries)
  BY DEF IInv, TypeOK
<1>2. recorded'[t] = Append(recorded[t], e)
  BY DEF Record, IInv, TypeOK
<1> DEFINE n == Len(recorded[t]) + 1
<1>3. n \in 1..Len(recorded'[t]) /\ recorded'[t][n] = e
  BY <1>1, <1>2
<1>4. e.action = action /\ e.data = data
  OBVIOUS
<1> HIDE DEF e, n
<1> QED
  BY <1>3, <1>4 DEF HasEntry

(* The elements of a list the engine returns. *)
LEMMA ListElements ==
    ASSUME NEW S, NEW list \in ListsOf(S)
    PROVE  \A i \in 1..Len(list) : list[i] \in S
<1>1. list \in Seq(S)
  BY ListsAreSequences
<1> QED
  BY <1>1

(* Offline there is nothing to leave as it was. *)
LEMMA OfflineOutputsChange ==
    ASSUME NEW data, NEW list \in OfflineOutputs(data)
    PROVE  \A i \in 1..Len(list) : list[i].changed
<1> DEFINE id == IF IsHttp("request", data) THEN Head(data).id ELSE 0
           S == {[data |-> <<[kind |-> "raw", id |-> 0]>>, changed |-> TRUE],
                 [data |-> <<[kind |-> "response", id |-> id]>>, changed |-> TRUE]}
<1>1. list \in ListsOf(S)
  BY DEF OfflineOutputs
<1>2. \A o \in S : o.changed
  OBVIOUS
<1> HIDE DEF S
<1> QED
  BY <1>1, <1>2, ListElements

(* What becomes of bytes_to_send_list. *)
LEMMA WhatIsListed ==
    ASSUME IInv, NEW s \in Sides, SideStep(s)
    PROVE  /\ \A r \in Sides : r # s => outs'[r] = outs[r]
           /\ \/ outs'[s] = outs[s] /\ (pc'[s] = "send" => output(s))
              \/ outs'[s] = <<>> /\ pc'[s] # "send"
              \/ /\ send(s) \/ send_error(s)
                 /\ outs'[s] = Tail(outs[s])
                 /\ pc'[s] = NextOutput(outs'[s])
              \/ s = "client" /\ ~Offline /\ requester
              \/ /\ responder(s) \/ (s = "service" /\ connect_response)
                 /\ pc'[s] = NextOutput(outs'[s])
<1>0. s \in Threads
  BY DEF Threads
<1>1. CASE responder(s) \/ (s = "service" /\ connect_response)
  <2>1. PICK list : outs' = [outs EXCEPT ![s] = list] /\ Goto(s, NextOutput(list))
    BY <1>1 DEF responder, connect_response
  <2>2. outs'[s] = list /\ \A r \in Sides : r # s => outs'[r] = outs[r]
    BY <2>1 DEF IInv, TypeOK
  <2>3. pc'[s] = NextOutput(list)
    BY <1>0, <2>1 DEF Goto, IInv, TypeOK
  <2> QED
    BY <1>1, <2>2, <2>3
<1>2. CASE send(s) \/ send_error(s)
  <2>1. outs' = [outs EXCEPT ![s] = Tail(outs[s])] /\ Goto(s, NextOutput(Tail(outs[s])))
    BY <1>2 DEF send, send_error
  <2>2. outs'[s] = Tail(outs[s]) /\ \A r \in Sides : r # s => outs'[r] = outs[r]
    BY <2>1 DEF IInv, TypeOK
  <2>3. pc'[s] = NextOutput(Tail(outs[s]))
    BY <1>0, <2>1 DEF Goto, IInv, TypeOK
  <2> QED
    BY <1>2, <2>2, <2>3
<1>3. CASE s = "client" /\ requester
  BY <1>0, <1>3 DEF requester, Goto, IInv, TypeOK
<1>4. CASE UNCHANGED outs /\ pc'[s] # "send"
  BY <1>4
<1>5. CASE EndCycle(s) /\ pc'[s] # "send"
  BY <1>5 DEF EndCycle, IInv, TypeOK
<1>6. CASE output(s)
  BY <1>6 DEF output, cycleVars
<1>7. CASE process_and_record(s) \/ receive(s) \/ decide(s) \/ end_thread(s)
           \/ receive_on_closed_socket(s) \/ send_on_closed_socket(s)
  BY <1>0, <1>4, <1>5, <1>7 DEF process_and_record, receive, decide, end_thread, Goto, cycleVars,
     receive_on_closed_socket, send_on_closed_socket, IInv, TypeOK
<1>8. CASE send_raises(s) \/ engine_raises(s) \/ close_socket_raises(s)
  BY <1>0, <1>4, <1>5, <1>8 DEF send_raises, engine_raises, close_socket_raises, RaiseInSide,
     Goto, cycleVars, IInv, TypeOK
<1>9. CASE Finish(s)
  BY <1>0, <1>4, <1>9 DEF Finish, finish_thread, close_socket, forget_socket, check_client,
     linger_client, close_client, Goto, cycleVars, IInv, TypeOK
<1> QED
  BY <1>1, <1>2, <1>3, <1>6, <1>7, <1>8, <1>9 DEF SideStep, Side

(* What the engine gets was processed. *)
LEMMA WhatReachesTheEngine ==
    ASSUME IInv, NEW s \in Sides, SideStep(s), pc'[s] \in {"engine", "responder"}
    PROVE  \/ process_and_record(s) /\ ~Aborted(s) /\ pc'[s] = "engine" /\ msg[s].data # <<>>
           \/ s = "client" /\ requester
<1>0. s \in Threads
  BY DEF Threads
<1>1. CASE process_and_record(s)
  BY <1>0, <1>1 DEF process_and_record, Goto, IInv, TypeOK
<1>2. CASE responder(s) \/ (s = "service" /\ connect_response) \/ send(s) \/ send_error(s)
  <2>1. PICK list : Goto(s, NextOutput(list))
    BY <1>2 DEF responder, connect_response, send, send_error
  <2>2. pc'[s] = NextOutput(list)
    BY <1>0, <2>1 DEF Goto, IInv, TypeOK
  <2> QED
    BY <2>2 DEF NextOutput
<1>3. CASE \/ receive(s) \/ receive_on_closed_socket(s) \/ output(s)
           \/ send_on_closed_socket(s) \/ decide(s) \/ end_thread(s)
  BY <1>0, <1>3 DEF receive, receive_on_closed_socket, output, send_on_closed_socket, decide,
                    end_thread, Goto, IInv, TypeOK
<1>4. CASE send_raises(s) \/ engine_raises(s) \/ close_socket_raises(s)
  BY <1>0, <1>4 DEF send_raises, engine_raises, close_socket_raises, RaiseInSide, Goto, IInv,
                    TypeOK
<1>5. CASE Finish(s)
  BY <1>0, <1>5 DEF Finish, finish_thread, close_socket, forget_socket, check_client,
                    linger_client, close_client, Goto, IInv, TypeOK
<1> QED
  BY <1>1, <1>2, <1>3, <1>4, <1>5 DEF SideStep, Side

(* Nothing is listed, sent or forgotten but what is recorded. *)
LEMMA ToSendIsRecordedStep == IInv /\ ToSendIsRecorded /\ [Next]_vars => ToSendIsRecorded'
<1> SUFFICES ASSUME IInv, ToSendIsRecorded, [Next]_vars PROVE ToSendIsRecorded'
  OBVIOUS
<1>1. \A t \in Threads : \A action, data :
        HasEntry(recorded[t], action, data) => HasEntry(recorded'[t], action, data)
  BY RecordStays
<1>2. /\ \A s \in Sides : \A o : ListedIsRecorded(recorded[s], s, o) => ListedIsRecorded(recorded'[s], s, o)
      /\ \A s \in Sides : \A o : NextIsRecorded(recorded[s], s, o) => NextIsRecorded(recorded'[s], s, o)
  BY <1>1 DEF ListedIsRecorded, NextIsRecorded, Threads, Sides
<1>3. CASE Main \/ Peers \/ UNCHANGED vars
  <2>1. UNCHANGED <<msg, outs>> /\ delivered' = delivered
    BY <1>3 DEF Main, setup, setup_raises, service_connection, start_client, start_service, join,
                check_queues, return, Finish, finish_thread, close_socket, forget_socket,
                check_client, linger_client, close_client, CloseOwn, cycleVars, netVars, vars,
                Peers, ClientSends, ServiceSends, PeerSends, PeerCloses
  <2>2. \A s \in Sides : pc'[s] \in {"engine", "responder", "send"} => pc'[s] = pc[s]
    BY <1>3, PeersMoveNothing
    DEF vars, Main, setup, setup_raises, service_connection, start_client, start_service, join,
        check_queues, return, RaiseInMain, Finish, finish_thread, close_socket, forget_socket,
        check_client, linger_client, close_client, Goto, IInv, TypeOK, Threads, Sides
  <2> QED
    BY <1>1, <1>2, <2>1, <2>2 DEF ToSendIsRecorded, Threads, Sides
<1>4. ASSUME NEW s \in Sides, SideStep(s) PROVE ToSendIsRecorded'
  <2>0. s \in Threads /\ TypeOK'
    BY TypeStep DEF Threads, IInv
  <2>1. \A r \in Sides : r # s => pc'[r] = pc[r] /\ msg'[r] = msg[r] /\ outs'[r] = outs[r]
    <3>1. PICK label : pc' = [pc EXCEPT ![s] = label]
      BY <1>4, SideMoves
    <3> QED
      BY <1>4, <3>1, WhatIsReceived, WhatIsListed DEF IInv, TypeOK, Threads
  <2>2. pc'[s] \in {"engine", "responder"} => HasEntry(recorded'[s], ReceiveAction(s), msg'[s].data)
    <3>1. CASE process_and_record(s) /\ ~Aborted(s)
      <4>1. /\ Record(s, ReceiveAction(s), msg[s].data, PathTaken(msg[s].data), msg[s].own)
            /\ msg' = msg
        BY <3>1 DEF process_and_record, cycleVars
      <4> QED
        BY <2>0, <4>1, RecordIsFound
    <3>2. CASE s = "client" /\ requester
      <4>1. pc[s] = "engine" /\ msg' = msg
        BY <3>2 DEF requester
      <4> QED
        BY <1>1, <2>0, <4>1 DEF ToSendIsRecorded
    <3> QED
      BY <1>4, <3>1, <3>2, WhatReachesTheEngine
  <2>3. \A i \in 1..Len(outs'[s]) : ListedIsRecorded(recorded'[s], s, outs'[s][i])
    <3>0. outs[s] \in Seq(Outputs)
      BY DEF IInv, TypeOK
    <3>1. CASE outs'[s] = outs[s] \/ outs'[s] = <<>>
      BY <1>2, <3>1 DEF ToSendIsRecorded
    <3>2. CASE (send(s) \/ send_error(s)) /\ outs'[s] = Tail(outs[s])
      <4>1. outs[s] # <<>>
        BY <3>2 DEF send, send_error, IInv, OutputsLeft
      <4>2. \A i \in 1..Len(outs'[s]) : i + 1 \in 1..Len(outs[s]) /\ outs'[s][i] = outs[s][i + 1]
        BY <3>0, <3>2, <4>1
      <4> QED
        BY <1>2, <4>2 DEF ToSendIsRecorded
    <3>3. CASE s = "client" /\ ~Offline /\ requester
      <4>0. PICK changed \in {FALSE, RequesterChanges} :
              /\ outs' = [outs EXCEPT ![s] = <<[data |-> msg[s].data, changed |-> changed]>>]
              /\ changed => Record(s, "client_requester", msg[s].data, PathTaken(msg[s].data),
                                   msg[s].own)
        BY <3>3 DEF requester
      <4>1. /\ outs'[s] = <<[data |-> msg[s].data, changed |-> changed]>>
            /\ changed \in BOOLEAN
        BY <4>0, FlagsAssumption DEF IInv, TypeOK
      <4>2. HasEntry(recorded[s], "client_receive", msg[s].data)
        BY <3>3 DEF ToSendIsRecorded, requester, ReceiveAction
      <4>3. changed => HasEntry(recorded'[s], "client_requester", msg[s].data)
        BY <2>0, <4>0, RecordIsFound
      <4> DEFINE o == [data |-> msg[s].data, changed |-> changed]
      <4>4. o.data = msg[s].data /\ o.changed = changed
        OBVIOUS
      <4> HIDE DEF o
      <4>5. \A i \in 1..Len(outs'[s]) : outs'[s][i] = o
        BY <4>1 DEF o
      <4>6. HasEntry(recorded'[s], IF o.changed THEN "client_requester" ELSE "client_receive", o.data)
        BY <1>1, <2>0, <3>3, <4>1, <4>2, <4>3, <4>4
      <4> QED
        BY <3>3, <4>5, <4>6 DEF ListedIsRecorded
    <3>4. CASE s = "client" /\ responder(s)
      <4>1. Offline
        BY <1>4, <3>4 DEF responder, ToSendIsRecorded
      <4>2. PICK list \in OfflineOutputs(msg[s].data) : outs' = [outs EXCEPT ![s] = list]
        BY <3>4 DEF responder
      <4>4. \A i \in 1..Len(list) : list[i].changed
        BY <4>2, OfflineOutputsChange
      <4>3. outs'[s] = list
        BY <4>2 DEF IInv, TypeOK
      <4> QED
        BY <3>4, <4>1, <4>3, <4>4 DEF ListedIsRecorded
    <3>5. CASE s = "service" /\ responder(s)
      <4>1. HasEntry(recorded[s], "service_receive", msg[s].data)
        BY <3>5 DEF responder, ToSendIsRecorded, ReceiveAction
      <4>2. PICK list \in ResponderOutputs(msg[s].data) : outs' = [outs EXCEPT ![s] = list]
        BY <3>5 DEF responder
      <4>3. outs'[s] = list
        BY <4>2 DEF IInv, TypeOK
      <4>4. \A i \in 1..Len(list) : list[i] \in [data : {msg[s].data}, changed : BOOLEAN]
        BY <4>2, ListElements DEF ResponderOutputs
      <4>5. HasEntry(recorded'[s], "service_receive", msg[s].data)
        BY <1>1, <2>0, <4>1
      <4> QED
        BY <3>5, <4>3, <4>4, <4>5 DEF ListedIsRecorded
    <3>6. CASE s = "service" /\ connect_response
      <4>1. PICK list \in ConnectOutputs : outs' = [outs EXCEPT ![s] = list]
        BY <3>6 DEF connect_response
      <4>2. outs'[s] = list
        BY <4>1 DEF IInv, TypeOK
      <4>3. \A i \in 1..Len(list) : list[i].changed
        BY <4>1, ListElements DEF ConnectOutputs
      <4> QED
        BY <3>6, <4>2, <4>3 DEF ListedIsRecorded
    <3> QED
      BY <1>4, <3>1, <3>2, <3>3, <3>4, <3>5, <3>6, WhatIsListed DEF Sides
  <2>4. pc'[s] = "send" => NextIsRecorded(recorded'[s], s, outs'[s][1])
    <3> SUFFICES ASSUME pc'[s] = "send" PROVE NextIsRecorded(recorded'[s], s, outs'[s][1])
      OBVIOUS
    <3>0. outs[s] \in Seq(Outputs) /\ outs'[s] \in Seq(Outputs)
      BY <2>0 DEF IInv, TypeOK
    <3>1. CASE output(s)
      <4>1. outs'[s] = outs[s] /\ outs[s] # <<>>
        BY <3>1 DEF output, cycleVars, IInv, OutputsLeft
      <4>2. Record(s, IF Offline THEN "client_responder_offline" ELSE "service_responder",
                   Head(outs[s]).data, IF Offline THEN PathTaken(Head(outs[s]).data) ELSE 0, FALSE)
        BY <3>1 DEF output
      <4>3. HasEntry(recorded'[s], IF Offline THEN "client_responder_offline"
                                              ELSE "service_responder", Head(outs[s]).data)
        BY <2>0, <4>2, RecordIsFound
      <4>4. Head(outs[s]) = outs[s][1]
        BY <3>0, <4>1
      <4>5. Offline => s = "client"
        BY <3>1 DEF output, IInv, MainWaits, Sides
      <4> QED
        BY <4>1, <4>3, <4>4, <4>5 DEF NextIsRecorded, Sides
    <3>2. CASE s = "client" /\ ~Offline
      BY <3>2 DEF NextIsRecorded
    <3>3. CASE pc'[s] = NextOutput(outs'[s]) /\ ~(s = "client" /\ ~Offline)
      <4>1. outs'[s] # <<>> /\ ~Head(outs'[s]).changed
        BY <3>3 DEF NextOutput
      <4>2. outs'[s][1] = Head(outs'[s]) /\ 1 \in 1..Len(outs'[s])
        BY <3>0, <4>1
      <4>3. s # "client"
        BY <2>3, <3>3, <4>1, <4>2 DEF ListedIsRecorded
      <4> QED
        BY <4>1, <4>2, <4>3 DEF NextIsRecorded
    <3> QED
      BY <1>4, <3>1, <3>2, <3>3, WhatIsListed
  <2>5. Offline => delivered'["service"] = <<>>
    <3>1. CASE send(s)
      <4>1. Offline => s = "client"
        BY <3>1 DEF send, IInv, MainWaits, Sides
      <4> QED
        BY <3>1, <4>1 DEF send, Destination, ToSendIsRecorded, IInv, TypeOK, Sides
    <3>2. CASE ~send(s)
      <4>1. delivered' = delivered
        BY <1>4, <3>2 DEF SideStep, Side, Finish, finish_thread, close_socket, forget_socket,
           check_client, linger_client, close_client, CloseOwn, receive, receive_on_closed_socket,
           process_and_record, requester, responder, connect_response, output, send_error,
           send_on_closed_socket, send_raises, engine_raises, decide, close_socket_raises,
           end_thread, netVars
      <4> QED
        BY <4>1 DEF ToSendIsRecorded
    <3> QED
      BY <3>1, <3>2
  <2>6. pc'["client"] = "responder" => Offline
    <3>1. CASE s = "client" /\ requester
      BY <3>1 DEF requester, Goto, IInv, TypeOK, Threads
    <3>2. CASE ~(s = "client" /\ requester)
      BY <1>4, <2>1, <3>2, WhatReachesTheEngine DEF ToSendIsRecorded, Sides
    <3> QED
      BY <3>1, <3>2
  <2> QED
    BY <1>1, <1>2, <2>1, <2>2, <2>3, <2>4, <2>5, <2>6 DEF ToSendIsRecorded, Threads
<1> QED
  BY <1>3, <1>4 DEF Next, ClientThread, ServiceThread, SideStep, Terminating, Sides

(* What a peer was sent, entry by entry. *)
SentEntry(d, o) ==
    IF d = "service" THEN HasEntry(recorded["client"], IF o.changed THEN "client_requester"
                                                       ELSE "client_receive", o.data)
    ELSE IF Offline THEN HasEntry(recorded["client"], "client_responder_offline", o.data)
    ELSE HasEntry(recorded["service"], IF o.changed THEN "service_responder"
                                       ELSE "service_receive", o.data)

(* SentIsRecorded, for either peer. *)
LEMMA SentEntries ==
    SentIsRecorded <=> \A d \in Sides : \A i \in 1..Len(delivered[d]) : SentEntry(d, delivered[d][i])
<1> DEFINE All(d) == \A i \in 1..Len(delivered[d]) : SentEntry(d, delivered[d][i])
<1>1. \A t, action, data : RecordedAs(t, action, data) <=> HasEntry(recorded[t], action, data)
  BY DEF RecordedAs, HasEntry
<1>2. SentIsRecorded <=> All("service") /\ All("client")
  BY <1>1 DEF SentIsRecorded, SentEntry
<1>3. (\A d \in Sides : All(d)) <=> All("service") /\ All("client")
  BY DEF Sides
<1> QED
  BY <1>2, <1>3

(* send hands the first listed message to the destination; nothing else    *)
(* reaches a peer.                                                         *)
LEMMA WhatIsDelivered ==
    ASSUME IInv, [Next]_vars
    PROVE  \/ delivered' = delivered
           \/ \E s \in Sides :
                 /\ send(s)
                 /\ delivered' = [delivered EXCEPT ![Destination(s)] =
                                     Append(delivered[Destination(s)], outs[s][1])]
<1>1. ASSUME NEW s \in Sides, send(s)
      PROVE  delivered' = [delivered EXCEPT ![Destination(s)] =
                             Append(delivered[Destination(s)], outs[s][1])]
  <2>1. Head(outs[s]) = outs[s][1]
    BY <1>1 DEF send, IInv, TypeOK, OutputsLeft
  <2> QED
    BY <1>1, <2>1 DEF send
<1>2. CASE \E s \in Sides : send(s)
  BY <1>1, <1>2
<1>3. CASE ~\E s \in Sides : send(s)
  BY <1>3 DEF Next, ClientThread, ServiceThread, Terminating, Side, Finish, finish_thread,
     close_socket, forget_socket, check_client, linger_client, close_client, CloseOwn, receive,
     receive_on_closed_socket, process_and_record, requester, responder, connect_response, output,
     send_error, send_on_closed_socket, send_raises, engine_raises, decide, close_socket_raises,
     end_thread, netVars, vars, Main, setup, setup_raises, service_connection, start_client,
     start_service, join, check_queues, return, Peers, ClientSends, ServiceSends, PeerSends,
     PeerCloses, Sides
<1> QED
  BY <1>2, <1>3

(* send hands on only what is recorded. *)
LEMMA SentIsRecordedStep ==
    IInv /\ ToSendIsRecorded /\ SentIsRecorded /\ [Next]_vars => SentIsRecorded'
<1> SUFFICES ASSUME IInv, ToSendIsRecorded, SentIsRecorded, [Next]_vars PROVE SentIsRecorded'
  OBVIOUS
<1>1. \A d \in Sides : \A o : SentEntry(d, o) => SentEntry(d, o)'
  BY RecordStays DEF SentEntry, Threads, Sides
<1>2. \A d \in Sides : \A i \in 1..Len(delivered[d]) : SentEntry(d, delivered[d][i])
  BY SentEntries
<1>3. \A d \in Sides : \A i \in 1..Len(delivered'[d]) : \E o : o = delivered'[d][i] /\ SentEntry(d, o)'
  <2>1. CASE delivered' = delivered
    BY <1>1, <1>2, <2>1
  <2>2. ASSUME NEW s \in Sides, send(s),
               delivered' = [delivered EXCEPT ![Destination(s)] =
                               Append(delivered[Destination(s)], outs[s][1])]
        PROVE  \A d \in Sides : \A i \in 1..Len(delivered'[d]) :
                  \E o : o = delivered'[d][i] /\ SentEntry(d, o)'
    <3>1. SentEntry(Destination(s), outs[s][1])
      <4>1. 1 \in 1..Len(outs[s])
        BY <2>2 DEF send, IInv, TypeOK, OutputsLeft
      <4>2. /\ ListedIsRecorded(recorded[s], s, outs[s][1])
            /\ NextIsRecorded(recorded[s], s, outs[s][1])
        BY <2>2, <4>1 DEF ToSendIsRecorded, send
      <4>3. Offline => s = "client"
        BY <2>2 DEF send, IInv, MainWaits, Sides
      <4> QED
        BY <4>2, <4>3 DEF ListedIsRecorded, NextIsRecorded, SentEntry, Destination, Other, Sides
    <3>2. ASSUME NEW d \in Sides, NEW i \in 1..Len(delivered'[d])
          PROVE  \/ i \in 1..Len(delivered[d]) /\ delivered'[d][i] = delivered[d][i]
                 \/ d = Destination(s) /\ delivered'[d][i] = outs[s][1]
      <4>1. delivered[d] \in Seq(Outputs)
        BY DEF IInv, TypeOK
      <4>2. \/ delivered'[d] = delivered[d]
            \/ d = Destination(s) /\ delivered'[d] = Append(delivered[d], outs[s][1])
        BY <2>2 DEF IInv, TypeOK
      <4> QED
        BY <4>1, <4>2
    <3> QED
      BY <1>1, <1>2, <3>1, <3>2
  <2> QED
    BY <2>1, <2>2, WhatIsDelivered
<1>4. \A d \in Sides : \A i \in 1..Len(delivered'[d]) : SentEntry(d, delivered[d][i])'
  BY <1>3
<1> QED
  BY <1>4 DEF SentIsRecorded, SentEntry, RecordedAs, HasEntry, Sides

---------------------------------------------------------------------------
(* The order in which requests reach the service.                          *)

(* The ids of data are the n + 1st and the following ones. *)
Follows(data, n) == \A k \in 1..Len(data) : data[k].id = n + k

LastSent ==
    IF delivered["service"] = <<>> THEN 0
    ELSE LET last == delivered["service"][Len(delivered["service"])].data
         IN  last[Len(last)].id

(* What the client thread has read and not sent, and whether it may still. *)
Pending ==
    IF pc["client"] \in {"process", "engine"} THEN msg["client"].data
    ELSE IF pc["client"] = "send" THEN outs["client"][1].data
    ELSE <<>>
StillSends ==
    \/ pc["client"] \in {"not_started", "receive", "process", "engine", "send"}
    \/ pc["client"] = "decide" /\ ~sendError["client"]

(* What was sent, what is about to be, and what is on the wire are in the  *)
(* client's order without a gap, as long as anything can still be sent.    *)
SentInOrder ==
    ~Offline =>
    /\ pc["client"] \notin {"connect_response", "responder", "output"}
    /\ pc["client"] = "send" => Len(outs["client"]) = 1
    /\ pc["client"] \in {"engine", "send"} => Pending # <<>>
    /\ \A i \in 1..Len(delivered["service"]) : delivered["service"][i].data # <<>>
    /\ StillSends =>
          /\ Follows(Pending, LastSent)
          /\ Follows(wire["client"], LastSent + Len(Pending))
          /\ sock["client"] = "open" =>
                sentCount["client"] = LastSent + Len(Pending) + Len(wire["client"])

(* The streams of the client are sequences. *)
LEMMA StreamTypes ==
    ASSUME TypeOK, SentInOrder, ~Offline
    PROVE  /\ LastSent \in Nat
           /\ Pending \in Batches
           /\ wire["client"] \in Batches
           /\ sentCount["client"] \in Nat
<1>1. wire["client"] \in Batches /\ sentCount["client"] \in Nat /\ msg["client"].data \in Batches
  BY DEF TypeOK, Sides, Received
<1>2. Pending \in Batches
  <2>1. pc["client"] = "send" => outs["client"][1].data \in Batches
    <3>1. outs["client"] \in Seq(Outputs)
      BY DEF TypeOK, Sides
    <3>2. pc["client"] = "send" => outs["client"][1] \in Outputs
      BY <3>1 DEF SentInOrder
    <3> QED
      BY <3>2 DEF Outputs
  <2>2. <<>> \in Batches
    BY DEF Batches
  <2> QED
    BY <1>1, <2>1, <2>2 DEF Pending
<1>3. LastSent \in Nat
  <2> DEFINE sent == delivered["service"]
  <2>1. sent \in Seq(Outputs)
    BY DEF TypeOK, Sides
  <2>2. CASE sent # <<>>
    <3>1. Len(sent) \in 1..Len(sent) /\ sent[Len(sent)] \in Outputs
      BY <2>1, <2>2
    <3> DEFINE last == sent[Len(sent)].data
    <3>2. last \in Seq(Chunks) /\ last # <<>>
      BY <3>1 DEF Outputs, Batches, SentInOrder
    <3>3. last[Len(last)] \in Chunks
      BY <3>2
    <3> QED
      BY <2>2, <3>3 DEF LastSent, Chunks
  <2> QED
    BY <2>2 DEF LastSent
<1> QED
  BY <1>1, <1>2, <1>3

(* Steps of others leave the client's stream, or cut it off. *)
LEMMA StreamStays ==
    ASSUME TypeOK, SentInOrder, ~Offline,
           msg'["client"] = msg["client"], outs'["client"] = outs["client"],
           sendError'["client"] = sendError["client"],
           delivered'["service"] = delivered["service"],
           \/ pc'["client"] = pc["client"]
           \/ pc["client"] = "not_started" /\ pc'["client"] = "receive",
           sentCount'["client"] = sentCount["client"],
           \/ /\ wire'["client"] = wire["client"]
              /\ sock'["client"] = "open" => sock["client"] = "open"
           \/ wire'["client"] = <<>> /\ sock'["client"] = "closed"
    PROVE  SentInOrder'
<1>1. LastSent' = LastSent /\ Pending' = Pending /\ StillSends' = StillSends
  BY DEF LastSent, Pending, StillSends
<1>2. \A n : Follows(<<>>, n)
  BY DEF Follows
<1> QED
  BY <1>1, <1>2, StreamTypes DEF SentInOrder, Follows

(* Main, the service thread and the service leave the client's stream. *)
LEMMA OthersKeepOrder ==
    ASSUME IInv, SentInOrder, ~Offline,
           \/ Main \/ SideStep("service") \/ ServiceSends \/ UNCHANGED vars
           \/ \E s \in Sides : PeerCloses(s)
    PROVE  SentInOrder'
<1>0. "client" \in Sides /\ "client" \in Threads /\ TypeOK
  BY DEF Sides, Threads, IInv
<1>1. CASE Main
  <2>1. UNCHANGED <<msg, outs, sendError, delivered, sentCount>>
    BY <1>1 DEF Main, setup, setup_raises, service_connection, start_client, start_service, join,
                check_queues, return, Finish, finish_thread, close_socket, forget_socket,
                check_client, linger_client, close_client, CloseOwn, cycleVars, netVars
  <2>2. \/ pc'["client"] = pc["client"]
        \/ pc["client"] = "not_started" /\ pc'["client"] = "receive"
    <3>1. pc["main"] = "start_client" => pc["client"] = "not_started"
      BY DEF IInv, MainWaits, Sides
    <3> QED
      BY <1>0, <1>1, <3>1
      DEF Main, setup, setup_raises, service_connection, start_client, start_service, join,
          check_queues, return, RaiseInMain, Finish, finish_thread, close_socket, forget_socket,
          check_client, linger_client, close_client, Goto, TypeOK
  <2>3. \/ /\ wire'["client"] = wire["client"]
           /\ sock'["client"] = "open" => sock["client"] = "open"
        \/ wire'["client"] = <<>> /\ sock'["client"] = "closed"
    BY <1>0, <1>1
    DEF Main, setup, setup_raises, service_connection, start_client, start_service, join,
        check_queues, return, Finish, finish_thread, close_socket, forget_socket, check_client,
        linger_client, close_client, CloseOwn, sockVars, netVars, TypeOK
  <2> QED
    BY <1>0, <2>1, <2>2, <2>3, StreamStays
<1>2. CASE SideStep("service")
  <2>1. /\ msg'["client"] = msg["client"] /\ outs'["client"] = outs["client"]
        /\ pc'["client"] = pc["client"]
    <3>1. PICK label : pc' = [pc EXCEPT !["service"] = label]
      BY <1>2, SideMoves DEF Sides
    <3> QED
      BY <1>0, <1>2, <3>1, WhatIsReceived, WhatIsListed DEF TypeOK, Sides
  <2>2. sendError'["client"] = sendError["client"] /\ sentCount' = sentCount
    BY <1>0, <1>2
    DEF SideStep, Side, Finish, finish_thread, close_socket, forget_socket, check_client,
        linger_client, close_client, CloseOwn, receive, receive_on_closed_socket,
        process_and_record, connect_response, responder, output, send, send_error,
        send_on_closed_socket, send_raises, engine_raises, decide, close_socket_raises,
        end_thread, RaiseInSide, EndCycle, cycleVars, netVars, TypeOK
  <2>3. delivered'["service"] = delivered["service"]
    BY <1>0, <1>2
    DEF SideStep, Side, Finish, finish_thread, close_socket, forget_socket, check_client,
        linger_client, close_client, CloseOwn, receive, receive_on_closed_socket,
        process_and_record, connect_response, responder, output, send, send_error,
        send_on_closed_socket, send_raises, engine_raises, decide, close_socket_raises,
        end_thread, Destination, Other, netVars, TypeOK, Sides
  <2>4. \/ /\ wire'["client"] = wire["client"]
           /\ sock'["client"] = "open" => sock["client"] = "open"
        \/ wire'["client"] = <<>> /\ sock'["client"] = "closed"
    BY <1>0, <1>2
    DEF SideStep, Side, Finish, finish_thread, close_socket, forget_socket, check_client,
        linger_client, close_client, CloseOwn, receive, receive_on_closed_socket,
        process_and_record, connect_response, responder, output, send, send_error,
        send_on_closed_socket, send_raises, engine_raises, decide, close_socket_raises,
        end_thread, sockVars, netVars, TypeOK
  <2> QED
    BY <1>0, <2>1, <2>2, <2>3, <2>4, StreamStays
<1>3. CASE ServiceSends \/ (\E s \in Sides : PeerCloses(s)) \/ UNCHANGED vars
  <2>1. UNCHANGED <<msg, outs, sendError, delivered, pc, sock>>
    BY <1>3 DEF ServiceSends, PeerSends, PeerCloses, cycleVars, sockVars, vars, netVars
  <2>2. wire'["client"] = wire["client"] /\ sentCount'["client"] = sentCount["client"]
    BY <1>0, <1>3 DEF ServiceSends, PeerSends, PeerCloses, vars, netVars, TypeOK
  <2> QED
    BY <1>0, <2>1, <2>2, StreamStays
<1> QED
  BY <1>1, <1>2, <1>3

(* The client's next chunk continues what it has sent. *)
LEMMA ClientKeepsOrder ==
    ASSUME IInv, SentInOrder, ~Offline, ClientSends
    PROVE  SentInOrder'
<1> DEFINE w == wire["client"]
           id == sentCount["client"] + 1
<1>1. PICK kind : PeerSends("client", kind, id)
  BY DEF ClientSends
<1>2. UNCHANGED <<msg, outs, sendError, delivered, pc, sock>> /\ sock["client"] = "open"
  BY <1>1 DEF PeerSends, cycleVars, sockVars
<1>3. wire'["client"] = Append(w, [kind |-> kind, id |-> id]) /\ sentCount'["client"] = id
  BY <1>1 DEF PeerSends, IInv, TypeOK, Sides
<1>4. LastSent' = LastSent /\ Pending' = Pending /\ StillSends' = StillSends
  BY <1>2 DEF LastSent, Pending, StillSends
<1>5. LastSent \in Nat /\ Pending \in Seq(Chunks) /\ w \in Seq(Chunks) /\ sentCount["client"] \in Nat
  BY StreamTypes DEF IInv, Batches
<1> DEFINE n == LastSent + Len(Pending)
<1>6. n \in Nat
  BY <1>5
<1>7. ASSUME StillSends
      PROVE  Follows(wire'["client"], n) /\ sentCount'["client"] = n + Len(wire'["client"])
  <2>1. Follows(w, n) /\ sentCount["client"] = n + Len(w)
    BY <1>2, <1>7 DEF SentInOrder
  <2> HIDE DEF w, n
  <2>2. /\ Len(wire'["client"]) = Len(w) + 1
        /\ \A k \in 1..Len(w) : wire'["client"][k] = w[k]
        /\ wire'["client"][Len(w) + 1].id = id
    BY <1>3, <1>5
  <2> QED
    BY <1>3, <1>5, <1>6, <2>1, <2>2 DEF Follows
<1> QED
  BY <1>2, <1>4, <1>7 DEF SentInOrder

(* receive takes the first n chunks from the wire. *)
LEMMA WhatReceiveTakes ==
    ASSUME TypeOK, NEW s \in Sides, receive(s)
    PROVE  \E n \in 0..Len(wire[s]) :
              /\ msg'[s].data \in Seq(Chunks) /\ Len(msg'[s].data) = n
              /\ \A k \in 1..n : msg'[s].data[k] = wire[s][k]
              /\ wire'[s] \in Seq(Chunks) /\ Len(wire'[s]) = Len(wire[s]) - n
              /\ \A k \in 1..(Len(wire[s]) - n) : wire'[s][k] = wire[s][n + k]
<1> DEFINE w == wire[s]
<1>1. w \in Seq(Chunks) /\ msg \in [Sides -> Received] /\ wire \in [Sides -> Batches]
  BY DEF TypeOK, Batches
<1>2. CASE \E n \in 1..Len(w) : msg'[s].data = SubSeq(w, 1, n) /\ wire'[s] = SubSeq(w, n + 1, Len(w))
  <2>1. PICK n \in 1..Len(w) : msg'[s].data = SubSeq(w, 1, n) /\ wire'[s] = SubSeq(w, n + 1, Len(w))
    BY <1>2
  <2> HIDE DEF w
  <2>2. /\ Len(SubSeq(w, 1, n)) = n /\ SubSeq(w, 1, n) \in Seq(Chunks)
        /\ \A k \in 1..n : SubSeq(w, 1, n)[k] = w[k]
        /\ Len(SubSeq(w, n + 1, Len(w))) = Len(w) - n
        /\ SubSeq(w, n + 1, Len(w)) \in Seq(Chunks)
        /\ \A k \in 1..(Len(w) - n) : SubSeq(w, n + 1, Len(w))[k] = w[n + k]
    BY <1>1, SubSeqProperties
  <2> QED
    BY <2>1, <2>2 DEF w
<1>3. CASE msg'[s].data = w /\ wire'[s] = <<>>
  <2>1. Len(w) \in 0..Len(w)
    BY <1>1
  <2> QED
    BY <1>1, <1>3, <2>1
<1>4. CASE msg'[s].data = <<>> /\ wire'[s] = w
  <2>1. 0 \in 0..Len(w)
    BY <1>1
  <2> QED
    BY <1>1, <1>4, <2>1
<1>5. CASE \E n \in 1..Len(wire[s]) :
              /\ msg' = [msg EXCEPT ![s] =
                     [NothingReceived EXCEPT !.data = SubSeq(wire[s], 1, n)]]
              /\ wire' = [wire EXCEPT ![s] = SubSeq(@, n + 1, Len(@))]
  <2>1. PICK n \in 1..Len(wire[s]) :
          /\ msg' = [msg EXCEPT ![s] = [NothingReceived EXCEPT !.data = SubSeq(wire[s], 1, n)]]
          /\ wire' = [wire EXCEPT ![s] = SubSeq(@, n + 1, Len(@))]
    BY <1>5
  <2> DEFINE m == [NothingReceived EXCEPT !.data = SubSeq(wire[s], 1, n)]
  <2>2. m.data = SubSeq(wire[s], 1, n)
    BY DEF NothingReceived
  <2>3. msg'[s] = m
    BY <1>1, <2>1
  <2>4. wire'[s] = SubSeq(wire[s], n + 1, Len(wire[s]))
    BY <1>1, <2>1
  <2> HIDE DEF m
  <2> QED
    BY <1>2, <2>2, <2>3, <2>4
<1>6. CASE /\ \E e : msg' = [msg EXCEPT ![s] =
                     [data |-> wire[s], closed |-> TRUE, err |-> e, own |-> FALSE]]
           /\ wire' = [wire EXCEPT ![s] = <<>>]
  <2>1. PICK e : msg' = [msg EXCEPT ![s] =
                     [data |-> wire[s], closed |-> TRUE, err |-> e, own |-> FALSE]]
    BY <1>6
  <2>2. msg'[s] = [data |-> wire[s], closed |-> TRUE, err |-> e, own |-> FALSE]
    BY <1>1, <2>1
  <2>3. wire'[s] = <<>>
    BY <1>1, <1>6
  <2> QED
    BY <1>3, <2>2, <2>3
<1>7. CASE /\ \E e : msg' = [msg EXCEPT ![s] =
                     [data |-> <<>>, closed |-> TRUE, err |-> e, own |-> TRUE]]
           /\ UNCHANGED wire
  <2>1. PICK e : msg' = [msg EXCEPT ![s] =
                     [data |-> <<>>, closed |-> TRUE, err |-> e, own |-> TRUE]]
    BY <1>7
  <2>2. msg'[s] = [data |-> <<>>, closed |-> TRUE, err |-> e, own |-> TRUE]
    BY <1>1, <2>1
  <2>3. wire' = wire
    BY <1>7
  <2> QED
    BY <1>4, <2>2, <2>3
<1>8. \/ \E n \in 1..Len(wire[s]) :
            /\ msg' = [msg EXCEPT ![s] =
                   [NothingReceived EXCEPT !.data = SubSeq(wire[s], 1, n)]]
            /\ wire' = [wire EXCEPT ![s] = SubSeq(@, n + 1, Len(@))]
      \/ /\ \E e : msg' = [msg EXCEPT ![s] =
                   [data |-> wire[s], closed |-> TRUE, err |-> e, own |-> FALSE]]
         /\ wire' = [wire EXCEPT ![s] = <<>>]
      \/ /\ \E e : msg' = [msg EXCEPT ![s] =
                   [data |-> <<>>, closed |-> TRUE, err |-> e, own |-> TRUE]]
         /\ UNCHANGED wire
  BY ONLY receive(s) DEF receive
<1> QED
  BY <1>5, <1>6, <1>7, <1>8

(* The client thread's own steps. *)
LEMMA ClientReads ==
    ASSUME IInv, SentInOrder, ~Offline, receive("client")
    PROVE  SentInOrder'
<1> DEFINE w == wire["client"]
<1>0. "client" \in Sides /\ "client" \in Threads /\ TypeOK
  BY DEF Sides, Threads, IInv
<1>1. pc["client"] = "receive" /\ pc'["client"] = "process"
  BY <1>0 DEF receive, Goto, TypeOK
<1>2. LastSent' = LastSent /\ sock' = sock /\ sentCount' = sentCount /\ delivered' = delivered
  BY DEF receive, LastSent, sockVars
<1>3. Pending = <<>> /\ Pending' = msg'["client"].data
  BY <1>1 DEF Pending
<1>4. LastSent \in Nat /\ w \in Seq(Chunks) /\ sentCount["client"] \in Nat
  BY <1>0, StreamTypes DEF Batches
<1>5. Follows(w, LastSent) /\ (sock["client"] = "open" => sentCount["client"] = LastSent + Len(w))
  BY <1>1, <1>3, <1>4 DEF SentInOrder, StillSends
<1>6. PICK n \in 0..Len(w) :
        /\ Pending' \in Seq(Chunks) /\ Len(Pending') = n
        /\ \A k \in 1..n : Pending'[k] = w[k]
        /\ wire'["client"] \in Seq(Chunks) /\ Len(wire'["client"]) = Len(w) - n
        /\ \A k \in 1..(Len(w) - n) : wire'["client"][k] = w[n + k]
  BY <1>0, <1>3, WhatReceiveTakes
<1> HIDE DEF w
<1>7. Follows(Pending', LastSent) /\ Follows(wire'["client"], LastSent + Len(Pending'))
  <2>1. \A k \in 1..Len(w) : w[k].id = LastSent + k
    BY <1>5 DEF Follows
  <2>2. \A k \in 1..n : Pending'[k].id = LastSent + k
    <3>1. \A k \in 1..n : k \in 1..Len(w)
      BY <1>4
    <3> QED
      BY <1>6, <2>1, <3>1
  <2>3. \A k \in 1..(Len(w) - n) : n + k \in 1..Len(w) /\ LastSent + n + k = LastSent + (n + k)
    BY <1>4, <1>6
  <2>4. \A k \in 1..(Len(w) - n) : wire'["client"][k].id = LastSent + n + k
    BY <1>6, <2>1, <2>3
  <2> QED
    BY <1>6, <2>2, <2>4 DEF Follows
<1>8. sock["client"] = "open" =>
        sentCount["client"] = LastSent + Len(Pending') + Len(wire'["client"])
  BY <1>4, <1>5, <1>6
<1> QED
  BY <1>1, <1>2, <1>7, <1>8 DEF SentInOrder

(* A thread that ends sends no more. *)
LEMMA ClientStops ==
    ASSUME SentInOrder, ~Offline, delivered' = delivered,
           \/ pc'["client"] \in FinishPcs \cup {"done"}
           \/ pc'["client"] = "decide" /\ sendError'["client"]
    PROVE  SentInOrder'
  BY DEF SentInOrder, StillSends, FinishPcs

(* Until it is sent, a batch stays what was read. *)
LEMMA ClientPassesOn ==
    ASSUME IInv, SentInOrder, ~Offline,
           process_and_record("client") \/ requester \/ decide("client")
    PROVE  SentInOrder'
<1>0. "client" \in Sides /\ "client" \in Threads /\ TypeOK
  BY DEF Sides, Threads, IInv
<1>1. UNCHANGED <<sock, wire, sentCount, delivered>> /\ LastSent' = LastSent
  BY DEF process_and_record, requester, decide, sockVars, netVars, LastSent
<1>2. CASE pc'["client"] \in FinishPcs \cup {"done"}
  BY <1>1, <1>2, ClientStops
<1>3. CASE /\ StillSends /\ Pending' = Pending
           /\ pc'["client"] \in {"receive", "decide", "engine", "send"}
           /\ pc'["client"] = "send" => Len(outs'["client"]) = 1
           /\ pc'["client"] \in {"engine", "send"} => Pending # <<>>
  BY <1>1, <1>3 DEF SentInOrder
<1>4. CASE requester
  <2>1. pc["client"] = "engine" /\ pc'["client"] = "send"
    BY <1>0, <1>4 DEF requester, Goto, TypeOK
  <2>2. \E changed : outs'["client"] = <<[data |-> msg["client"].data, changed |-> changed]>>
    BY <1>0, <1>4 DEF requester, TypeOK
  <2> QED
    BY <1>3, <2>1, <2>2 DEF Pending, StillSends, SentInOrder
<1>5. CASE process_and_record("client")
  <2>1. pc["client"] = "process"
    BY <1>5 DEF process_and_record
  <2>2. CASE Aborted("client")
    BY <1>0, <1>2, <1>5, <2>2 DEF process_and_record, Goto, TypeOK
  <2>3. CASE ~Aborted("client")
    <3>1. msg' = msg /\ pc'["client"] = IF msg["client"].data = <<>> THEN "decide" ELSE "engine"
      BY <1>0, <1>5, <2>3 DEF process_and_record, Goto, TypeOK, cycleVars
    <3> QED
      BY <1>3, <2>1, <3>1 DEF Pending, StillSends
  <2> QED
    BY <2>2, <2>3
<1>6. CASE decide("client")
  <2>1. pc["client"] = "decide"
    BY <1>6 DEF decide
  <2>2. CASE Closing("client")
    BY <1>0, <1>2, <1>6, <2>2 DEF decide, Goto, TypeOK, FinishPcs
  <2>3. CASE ~Closing("client")
    <3>1. pc'["client"] = "receive" /\ ~sendError["client"]
      BY <1>0, <1>6, <2>3 DEF decide, Goto, TypeOK, Closing
    <3> QED
      BY <1>3, <2>1, <3>1 DEF Pending, StillSends
  <2> QED
    BY <2>2, <2>3
<1> QED
  BY <1>4, <1>5, <1>6

(* What is sent follows what was sent. *)
LEMMA ClientSendsOn ==
    ASSUME IInv, SentInOrder, ~Offline, send("client")
    PROVE  /\ SentInOrder'
           /\ LastSent' = LastSent + Len(Pending)
<1> DEFINE sent == delivered["service"]
           o == outs["client"][1]
<1>0. "client" \in Sides /\ "client" \in Threads /\ "service" \in Sides /\ TypeOK
  BY DEF Sides, Threads, IInv
<1>1. pc["client"] = "send" /\ Len(outs["client"]) = 1 /\ outs["client"] \in Seq(Outputs)
  BY <1>0 DEF send, SentInOrder, TypeOK
<1>2. Tail(outs["client"]) = <<>> /\ Head(outs["client"]) = o
  <2> DEFINE list == outs["client"]
  <2> HIDE DEF list
  <2>1. list \in Seq(Outputs) /\ Len(list) = 1
    BY <1>1 DEF list
  <2>2. list # <<>>
    BY <2>1
  <2>3. Tail(list) \in Seq(Outputs) /\ Len(Tail(list)) = 0
    BY <2>1, <2>2, HeadTailProperties
  <2>4. Tail(list) = <<>>
    BY <2>3, EmptySeq
  <2> QED
    BY <2>2, <2>4, <2>1 DEF list
<1>3. pc'["client"] = "decide" /\ ~sendError'["client"]
  BY <1>0, <1>2 DEF send, Goto, NextOutput, TypeOK
<1>4. UNCHANGED <<sock, wire, sentCount>> /\ delivered'["service"] = Append(sent, o)
  BY <1>0, <1>2 DEF send, Destination, Other, sockVars, TypeOK
<1>5. Pending = o.data /\ Pending' = <<>> /\ StillSends /\ Pending # <<>>
  BY <1>1, <1>3 DEF Pending, StillSends, SentInOrder
<1>6. LastSent \in Nat /\ Pending \in Seq(Chunks) /\ sent \in Seq(Outputs)
      /\ wire["client"] \in Seq(Chunks)
  BY <1>0, StreamTypes DEF Batches, TypeOK
<1>7. o \in Outputs
  BY <1>1
<1> HIDE DEF o, sent
<1>8. /\ Len(delivered'["service"]) = Len(sent) + 1
      /\ delivered'["service"][Len(sent) + 1] = o
      /\ \A i \in 1..Len(sent) : delivered'["service"][i] = sent[i]
  BY <1>4, <1>6, <1>7
<1>9. Follows(Pending, LastSent) /\ Len(Pending) \in 1..Len(Pending)
  BY <1>5, <1>6 DEF SentInOrder
<1>10. LastSent' = LastSent + Len(Pending)
  <2>1. delivered'["service"] # <<>>
    BY <1>8, <1>6
  <2>2. LastSent' = Pending[Len(Pending)].id
    BY <1>5, <1>6, <1>8, <2>1 DEF LastSent
  <2> QED
    BY <1>9, <2>2 DEF Follows
<1>11. \A i \in 1..Len(delivered'["service"]) : delivered'["service"][i].data # <<>>
  <2>1. \A i \in 1..Len(sent) : sent[i].data # <<>>
    BY DEF SentInOrder, sent
  <2> QED
    BY <1>5, <1>6, <1>8, <2>1
<1>12. /\ Follows(Pending', LastSent')
       /\ Follows(wire'["client"], LastSent' + Len(Pending'))
       /\ sock'["client"] = "open" =>
             sentCount'["client"] = LastSent' + Len(Pending') + Len(wire'["client"])
  <2>1. Follows(wire["client"], LastSent + Len(Pending))
        /\ (sock["client"] = "open" =>
             sentCount["client"] = LastSent + Len(Pending) + Len(wire["client"]))
    BY <1>5 DEF SentInOrder
  <2>2. Len(Pending') = 0 /\ Len(Pending) \in Nat /\ Len(wire["client"]) \in Nat
    BY <1>5, <1>6
  <2>3. Follows(Pending', LastSent')
    BY <2>2 DEF Follows
  <2>4. LastSent' + Len(Pending') = LastSent + Len(Pending)
    BY <1>6, <1>10, <2>2
  <2> QED
    BY <1>4, <2>1, <2>3, <2>4
<1> QED
  BY <1>3, <1>10, <1>11, <1>12 DEF SentInOrder

(* The client's stream keeps its order. *)
LEMMA SentInOrderStep == IInv /\ SentInOrder /\ [Next]_vars => SentInOrder'
<1> SUFFICES ASSUME IInv, SentInOrder, [Next]_vars, ~Offline PROVE SentInOrder'
  BY DEF SentInOrder
<1>0. "client" \in Sides /\ "client" \in Threads /\ TypeOK
  BY DEF Sides, Threads, IInv
<1>1. CASE \/ Main \/ SideStep("service") \/ ServiceSends \/ UNCHANGED vars
           \/ \E s \in Sides : PeerCloses(s)
  BY <1>1, OthersKeepOrder
<1>2. CASE ClientSends
  BY <1>2, ClientKeepsOrder
<1>3. CASE SideStep("client")
  <2>1. CASE receive("client")
    BY <2>1, ClientReads
  <2>2. CASE process_and_record("client") \/ requester \/ decide("client")
    BY <2>2, ClientPassesOn
  <2>3. CASE send("client")
    BY <2>3, ClientSendsOn
  <2>4. CASE responder("client") \/ output("client")
    BY <2>4 DEF responder, output, SentInOrder
  <2>5. CASE send_error("client")
    <3>1. outs["client"] \in Seq(Outputs) /\ Len(outs["client"]) = 1
      BY <1>0, <2>5 DEF send_error, SentInOrder, TypeOK
    <3>2. Tail(outs["client"]) = <<>>
      <4> DEFINE list == outs["client"]
      <4> HIDE DEF list
      <4>1. list \in Seq(Outputs) /\ Len(list) = 1 /\ list # <<>>
        BY <3>1 DEF list
      <4>2. Tail(list) \in Seq(Outputs) /\ Len(Tail(list)) = 0
        BY <4>1, HeadTailProperties
      <4>3. Tail(list) = <<>>
        BY <4>2, EmptySeq
      <4> QED
        BY <4>3 DEF list
    <3>3. pc'["client"] = "decide" /\ sendError'["client"] /\ delivered' = delivered
      BY <1>0, <2>5, <3>2 DEF send_error, Goto, NextOutput, TypeOK, netVars
    <3> QED
      BY <3>3, ClientStops
  <2>6. CASE \/ receive_on_closed_socket("client") \/ send_on_closed_socket("client")
             \/ end_thread("client") \/ send_raises("client") \/ engine_raises("client")
             \/ close_socket_raises("client") \/ Finish("client")
    <3>1. pc'["client"] \in FinishPcs \cup {"done"} /\ delivered' = delivered
      BY <1>0, <2>6
      DEF receive_on_closed_socket, send_on_closed_socket, end_thread, send_raises, engine_raises,
          close_socket_raises, RaiseInSide, Finish, finish_thread, close_socket, forget_socket,
          check_client, linger_client, close_client, CloseOwn, Goto, TypeOK, FinishPcs, netVars
    <3> QED
      BY <3>1, ClientStops
  <2> QED
    BY <1>3, <2>1, <2>2, <2>3, <2>4, <2>5, <2>6 DEF SideStep, Side
<1> QED
  BY <1>1, <1>2, <1>3 DEF Next, ClientThread, ServiceThread, SideStep, Terminating, Peers

(* A batch which follows what was sent keeps the order. *)
LEMMA RequestsInOrderStep ==
    IInv /\ ToSendIsRecorded /\ SentInOrder /\ RequestsInOrder /\ [Next]_vars => RequestsInOrder'
<1> SUFFICES ASSUME IInv, ToSendIsRecorded, SentInOrder, RequestsInOrder, [Next]_vars
             PROVE  RequestsInOrder'
  OBVIOUS
<1> DEFINE sent == delivered["service"]
           o == outs["client"][1]
<1>1. CASE delivered'["service"] = delivered["service"]
  BY <1>1 DEF RequestsInOrder
<1>2. CASE Offline
  <2>1. delivered'["service"] = <<>>
    BY <1>2, ToSendIsRecordedStep DEF ToSendIsRecorded
  <2> QED
    BY <2>1 DEF RequestsInOrder
<1>3. CASE ~Offline /\ send("client") /\ delivered'["service"] = Append(sent, o)
  <2>1. sent \in Seq(Outputs) /\ o \in Outputs /\ Pending = o.data /\ Pending # <<>>
        /\ o.data \in Seq(Chunks) /\ Follows(Pending, LastSent) /\ LastSent \in Nat
    <3>1. Pending = o.data /\ Pending # <<>> /\ Follows(Pending, LastSent)
      BY <1>3 DEF SentInOrder, send, Pending, StillSends
    <3>2. outs["client"] \in Seq(Outputs) /\ Len(outs["client"]) = 1 /\ sent \in Seq(Outputs)
      BY <1>3 DEF SentInOrder, send, IInv, TypeOK, Sides
    <3>3. o \in Outputs
      BY <3>2
    <3> QED
      BY <1>3, <3>1, <3>2, <3>3, StreamTypes DEF Outputs, Batches, IInv
  <2>2. LastSent = IF sent = <<>> THEN 0 ELSE sent[Len(sent)].data[Len(sent[Len(sent)].data)].id
    BY DEF LastSent
  <2> HIDE DEF sent, o
  <2>3. /\ Len(delivered'["service"]) = Len(sent) + 1
        /\ \A i \in 1..Len(sent) : delivered'["service"][i] = sent[i]
        /\ delivered'["service"][Len(sent) + 1] = o
    BY <1>3, <2>1
  <2>4. /\ o.data[1].id = LastSent + 1
        /\ \A k \in 1..(Len(o.data) - 1) : o.data[k + 1].id = o.data[k].id + 1
    <3>1. \A k \in 1..Len(o.data) : o.data[k].id = LastSent + k
      BY <2>1 DEF Follows
    <3>2. 1 \in 1..Len(o.data)
      BY <2>1
    <3>3. \A k \in 1..(Len(o.data) - 1) : k \in 1..Len(o.data) /\ k + 1 \in 1..Len(o.data)
      BY <2>1
    <3>4. \A k \in 1..(Len(o.data) - 1) : o.data[k].id = LastSent + k /\ o.data[k + 1].id = LastSent + (k + 1)
      BY <3>1, <3>3
    <3>5. \A k \in 1..(Len(o.data) - 1) : LastSent + (k + 1) = LastSent + k + 1
      BY <2>1
    <3> QED
      BY <3>1, <3>2, <3>4, <3>5
  <2> SUFFICES ASSUME NEW i \in 1..Len(delivered'["service"])
               PROVE  LET data == delivered'["service"][i].data
                          before == delivered'["service"][i - 1].data
                      IN  /\ data[1].id = IF i = 1 THEN 1 ELSE before[Len(before)].id + 1
                          /\ \A k \in 1..(Len(data) - 1) : data[k + 1].id = data[k].id + 1
    BY DEF RequestsInOrder
  <2>5. CASE i \in 1..Len(sent)
    <3>1. i # 1 => i - 1 \in 1..Len(sent)
      BY <2>5
    <3>2. i # 1 => delivered'["service"][i - 1] = sent[i - 1]
      BY <2>3, <3>1
    <3>3. delivered'["service"][i] = sent[i]
      BY <2>3, <2>5
    <3>4. LET data == sent[i].data
              before == sent[i - 1].data
          IN  /\ data[1].id = IF i = 1 THEN 1 ELSE before[Len(before)].id + 1
              /\ \A k \in 1..(Len(data) - 1) : data[k + 1].id = data[k].id + 1
      BY <2>5 DEF RequestsInOrder, sent
    <3> QED
      BY <3>2, <3>3, <3>4
  <2>6. CASE i = Len(sent) + 1
    <3>1. i = 1 <=> sent = <<>>
      BY <2>1, <2>6
    <3>2. i # 1 => i - 1 = Len(sent) /\ Len(sent) \in 1..Len(sent)
      BY <2>1, <2>6
    <3> QED
      BY <2>2, <2>3, <2>4, <2>6, <3>1, <3>2
  <2> QED
    BY <2>1, <2>3, <2>5, <2>6
<1> QED
  <2>1. CASE ~Offline /\ delivered' # delivered
    <3>1. PICK s \in Sides :
            /\ send(s)
            /\ delivered' = [delivered EXCEPT ![Destination(s)] =
                                Append(delivered[Destination(s)], outs[s][1])]
      BY <2>1, WhatIsDelivered
    <3> QED
      BY <1>1, <1>3, <2>1, <3>1 DEF Destination, Other, IInv, TypeOK, Sides
  <2> QED
    BY <1>1, <1>2, <2>1

---------------------------------------------------------------------------
(* The invariant of forwarding. *)
ForwardInv == IInv /\ ToSendIsRecorded /\ SentIsRecorded /\ SentInOrder /\ RequestsInOrder

(* Nothing has been sent at the start. *)
LEMMA InitialForward == Init => ForwardInv
<1> SUFFICES ASSUME Init PROVE ForwardInv
  OBVIOUS
<1>1. IInv
  BY InitialInvariant
<1>2. ToSendIsRecorded /\ SentIsRecorded /\ RequestsInOrder
  BY DEF Init, ToSendIsRecorded, SentIsRecorded, RequestsInOrder, Threads, Sides
<1>3. SentInOrder
  BY DEF Init, SentInOrder, Follows, Pending, StillSends, LastSent, Threads, Sides
<1> QED
  BY <1>1, <1>2, <1>3 DEF ForwardInv

(* Every step keeps the order and the records. *)
LEMMA ForwardStep == ForwardInv /\ [Next]_vars => ForwardInv'
  BY InvariantStep, ToSendIsRecordedStep, SentIsRecordedStep, SentInOrderStep,
     RequestsInOrderStep DEF ForwardInv

(* Whatever the peers send and whatever fails: what the worker hands to a  *)
(* peer was recorded, and the service gets a prefix of what the client     *)
(* sent (lines 520 to 680).                                                *)
THEOREM NothingUnrecordedOrOutOfOrder == Spec => []ForwardsInOrder
<1>1. ForwardInv => ForwardsInOrder
  BY DEF ForwardInv, ForwardsInOrder
<1> QED
  BY <1>1, InitialForward, ForwardStep, PTL DEF Spec

---------------------------------------------------------------------------
(* The sockets at the end.                                                 *)

SocketsAreClosed ==
    /\ sock["client"] # "none"
    /\ pc["main"] \in {"finished", "done"} => sock["client"] = "closed"
    /\ pc["main"] \in {"close_client", "close_client_now", "finished", "done"} =>
          sock["service"] # "open"
    /\ sock["service"] = "open" => socketInstance
    /\ \A t \in Threads : pc[t] = "forget_service" => sock["service"] = "closed"

(* finish_thread closes what is open, whoever runs it. *)
LEMMA SocketsAreClosedStep ==
    ~SetupFails /\ IInv /\ SocketsAreClosed /\ [Next]_vars => SocketsAreClosed'
<1> SUFFICES ASSUME ~SetupFails, IInv, SocketsAreClosed, [Next]_vars PROVE SocketsAreClosed'
  OBVIOUS
<1>0. /\ pc \in [Threads -> Pcs] /\ sock \in [Sides -> {"none", "open", "closed"}]
      /\ {"main", "client", "service"} \subseteq Threads /\ {"client", "service"} \subseteq Sides
      /\ "main" \notin Sides
  BY DEF IInv, TypeOK, Pcs, Threads, Sides
<1>1. CASE UNCHANGED vars \/ Peers
  BY <1>1, PeersMoveNothing
  DEF vars, sockVars, SocketsAreClosed, Peers, ClientSends, ServiceSends, PeerSends, PeerCloses
<1>2. ASSUME NEW t \in Threads, Finish(t) PROVE SocketsAreClosed'
  <2>0. pc["main"] = "linger_client" => FALSE
    BY <1>0 DEF IInv, ResetsAreReal
  <2>1. CASE finish_thread(t)
    BY <1>0, <2>1 DEF finish_thread, Goto, sockVars, SocketsAreClosed
  <2>2. CASE close_socket(t)
    BY <1>0, <2>2 DEF close_socket, CloseOwn, Goto, SocketsAreClosed
  <2>3. CASE forget_socket(t)
    BY <1>0, <2>3 DEF forget_socket, Goto, SocketsAreClosed
  <2>4. CASE check_client(t)
    BY <1>0, <2>4 DEF check_client, Goto, sockVars, SocketsAreClosed, IInv, ResetsAreReal
  <2>5. CASE linger_client(t)
    BY <1>0, <2>0, <2>5 DEF linger_client, Goto, SocketsAreClosed
  <2>6. CASE close_client(t)
    BY <1>0, <2>6 DEF close_client, CloseOwn, Goto, SocketsAreClosed
  <2> QED
    BY <1>2, <2>1, <2>2, <2>3, <2>4, <2>5, <2>6 DEF Finish
<1>3. ASSUME NEW s \in Sides, SideStep(s), ~Finish(s) PROVE SocketsAreClosed'
  <2>1. UNCHANGED <<sock, socketInstance>>
    BY <1>3 DEF SideStep, Side, receive, receive_on_closed_socket, process_and_record, requester,
       responder, connect_response, output, send, send_error, send_on_closed_socket, send_raises,
       engine_raises, decide, close_socket_raises, end_thread, sockVars
  <2>2. PICK label \in CyclePcs \cup {"finish", "done"} : pc' = [pc EXCEPT ![s] = label]
    BY <1>3, SideMoves
  <2>3. label # "forget_service" /\ s # "main"
    BY <1>0 DEF CyclePcs
  <2> QED
    BY <1>0, <2>1, <2>2, <2>3 DEF SocketsAreClosed
<1>4. CASE service_connection
  <2>1. \A t \in Threads : pc[t] # "forget_service"
    BY <1>0, <1>4 DEF service_connection, IInv, MainWaits, Threads
  <2> QED
    BY <1>0, <1>4, <2>1 DEF service_connection, RaiseInMain, Goto, SocketsAreClosed
<1>5. CASE setup \/ start_client \/ start_service \/ join \/ check_queues \/ return
  BY <1>0, <1>5 DEF setup, start_client, start_service, join, check_queues, return, RaiseInMain,
                    Goto, sockVars, SocketsAreClosed
<1> QED
  BY <1>1, <1>2, <1>3, <1>4, <1>5
  DEF Next, ClientThread, ServiceThread, SideStep, Terminating, Main, setup_raises, Sides, Threads

---------------------------------------------------------------------------
(* One request at a time.                                                  *)

(* Peers that take turns, and an engine that leaves requests as they are.  *)
OneAtATime ==
    /\ ~Offline
    /\ ~RawChunks /\ ~PipelinedRequests /\ ~UnsolicitedResponses
    /\ ~RequesterChanges

Request(id)  == [kind |-> "request", id |-> id]
Response(id) == [kind |-> "response", id |-> id]

(* What the service thread has read and not parsed. *)
Coming == IF pc["service"] = "process" THEN msg["service"].data ELSE <<>>

UpTo(data, n) == \A k \in 1..Len(data) : data[k].id <= n
RequestsUpTo(n) ==
    \A i \in 1..Len(delivered["service"]) : UpTo(delivered["service"][i].data, n)
(* The responses that have been parsed. *)
AnswersUpTo(n) ==
    /\ pc["service"] = "engine" => UpTo(msg["service"].data, n)
    /\ \A i \in 1..Len(outs["service"]) : UpTo(outs["service"][i].data, n)
    /\ \A i \in 1..Len(delivered["client"]) : UpTo(delivered["client"][i].data, n)

(* There is one exchange in the air, the last: its request, or the path in *)
(* the queue, or its response.                                             *)
OneExchange ==
    /\ sentCount["client"] = asked["client"]
    /\ asked["service"] <= asked["client"] /\ asked["client"] <= asked["service"] + 1
    /\ wire["client"] # <<>> => wire["client"] = <<Request(asked["client"])>> /\ Pending = <<>>
    /\ Pending # <<>> => Pending = <<Request(asked["client"])>>
    /\ wire["client"] # <<>> \/ Pending # <<>> =>
          asked["service"] < asked["client"] /\ RequestsUpTo(asked["client"] - 1)
    /\ RequestsUpTo(asked["client"])
    /\ pathQueue # <<>> =>
          /\ asked["client"] # 0 /\ pathQueue = <<asked["client"]>>
          /\ AnswersUpTo(asked["client"] - 1)
    /\ wire["client"] # <<>> \/ (pc["client"] = "process" /\ Pending # <<>>) => pathQueue = <<>>
    /\ wire["service"] # <<>> => wire["service"] = <<Response(asked["client"])>> /\ Coming = <<>>
    /\ Coming # <<>> => Coming = <<Response(asked["client"])>>
    /\ wire["service"] # <<>> \/ Coming # <<>> =>
          /\ asked["service"] = asked["client"] /\ asked["client"] # 0
          /\ AnswersUpTo(asked["client"] - 1)
    /\ AnswersUpTo(asked["service"])

(* A bound on the ids can be raised. *)
LEMMA UpToMore ==
    ASSUME NEW data \in Batches, NEW m \in Int, NEW n \in Int, m <= n, UpTo(data, m)
    PROVE  UpTo(data, n)
<1> SUFFICES ASSUME NEW k \in 1..Len(data) PROVE data[k].id <= n
  BY DEF UpTo
<1>1. data[k] \in Chunks
  BY DEF Batches
<1>2. data[k].id \in Nat /\ data[k].id <= m
  BY <1>1 DEF Chunks, UpTo
<1> QED
  BY <1>2

(* So it can for what the service was sent. *)
LEMMA RequestsUpToMore ==
    ASSUME TypeOK, NEW m \in Int, NEW n \in Int, m <= n, RequestsUpTo(m)
    PROVE  RequestsUpTo(n)
<1> SUFFICES ASSUME NEW i \in 1..Len(delivered["service"])
             PROVE  UpTo(delivered["service"][i].data, n)
  BY DEF RequestsUpTo
<1>1. delivered["service"] \in Seq(Outputs)
  BY DEF TypeOK, Sides
<1>2. delivered["service"][i] \in Outputs
  BY <1>1
<1>3. delivered["service"][i].data \in Batches
  BY <1>2 DEF Outputs
<1> QED
  BY <1>3, UpToMore DEF RequestsUpTo

(* What moves no message on, or drops it, keeps the exchange. *)
LEMMA ExchangeStays ==
    ASSUME OneExchange, UNCHANGED <<asked, sentCount, pathQueue>>,
           delivered'["service"] = delivered["service"],
           \A s \in Sides : wire'[s] = wire[s] \/ wire'[s] = <<>>,
           Pending' = Pending \/ Pending' = <<>>,
           Coming' = Coming \/ Coming' = <<>>,
           pc'["client"] = "process" => pc["client"] = "process",
           \A n : AnswersUpTo(n) => AnswersUpTo(n)'
    PROVE  OneExchange'
<1>1. \A n : RequestsUpTo(n) => RequestsUpTo(n)'
  BY DEF RequestsUpTo
<1>2. \A s \in {"client", "service"} : wire'[s] = wire[s] \/ wire'[s] = <<>>
  BY DEF Sides
<1> QED
  BY <1>1, <1>2 DEF OneExchange

(* Main only starts the sides. *)
LEMMA MainStarts ==
    ASSUME IInv, Main, NEW s \in Sides
    PROVE  \/ pc'[s] = pc[s]
           \/ /\ pc[s] = "not_started"
              /\ pc'[s] = IF s = "client" THEN "receive" ELSE "connect_response"
<1>0. /\ pc \in [Threads -> Pcs] /\ {"client", "service", "main"} \subseteq Threads
      /\ Sides = {"client", "service"}
  BY DEF Sides, Threads, IInv, TypeOK, Pcs
<1>1. CASE start_client
  <2>1. pc["client"] = "not_started"
    BY <1>0, <1>1 DEF start_client, IInv, MainWaits
  <2> QED
    BY <1>0, <1>1, <2>1 DEF start_client
<1>2. CASE start_service
  <2>1. pc["service"] = "not_started"
    BY <1>0, <1>2 DEF start_service, IInv, MainWaits
  <2> QED
    BY <1>0, <1>2, <2>1 DEF start_service
<1>3. CASE ~start_client /\ ~start_service
  <2>1. \E label : pc' = [pc EXCEPT !["main"] = label]
    BY <1>3
    DEF Main, setup, setup_raises, service_connection, join, check_queues, return, RaiseInMain,
        Finish, finish_thread, close_socket, forget_socket, check_client, linger_client,
        close_client, Goto
  <2> QED
    BY <1>0, <2>1
<1> QED
  BY <1>1, <1>2, <1>3

(* Neither main nor a closing peer moves a message on. *)
LEMMA ExchangeWaits ==
    ASSUME IInv, OneExchange, Main \/ UNCHANGED vars \/ \E s \in Sides : PeerCloses(s)
    PROVE  OneExchange'
<1>0. TypeOK /\ {"client", "service"} \subseteq Sides /\ {"client", "service", "main"} \subseteq Threads
  BY DEF Sides, Threads, IInv
<1>1. UNCHANGED <<msg, outs, delivered, sentCount, asked, pathQueue>>
  BY DEF Main, setup, setup_raises, service_connection, start_client, start_service, join,
         check_queues, return, Finish, finish_thread, close_socket, forget_socket, check_client,
         linger_client, close_client, CloseOwn, cycleVars, netVars, PeerCloses, vars
<1>2. \A s \in Sides : wire'[s] = wire[s] \/ wire'[s] = <<>>
  BY <1>0 DEF Main, setup, setup_raises, service_connection, start_client, start_service, join,
         check_queues, return, Finish, finish_thread, close_socket, forget_socket, check_client,
         linger_client, close_client, CloseOwn, netVars, PeerCloses, vars, TypeOK
<1>3. /\ \/ pc'["client"] = pc["client"]
         \/ pc["client"] = "not_started" /\ pc'["client"] = "receive"
      /\ \/ pc'["service"] = pc["service"]
         \/ pc["service"] = "not_started" /\ pc'["service"] = "connect_response"
  <2>1. CASE Main
    BY <1>0, <2>1, MainStarts
  <2>2. CASE UNCHANGED vars \/ \E s \in Sides : PeerCloses(s)
    BY <2>2 DEF PeerCloses, vars
  <2> QED
    BY <2>1, <2>2
<1>4. Pending' = Pending /\ Coming' = Coming
  BY <1>1, <1>3 DEF Pending, Coming
<1>5. \A n : AnswersUpTo(n) => AnswersUpTo(n)'
  BY <1>1, <1>3 DEF AnswersUpTo
<1> QED
  BY <1>1, <1>2, <1>3, <1>4, <1>5, ExchangeStays

(* The client asks when the last answer has reached it. *)
LEMMA ExchangeBegins ==
    ASSUME OneAtATime, IInv, OneExchange, ClientSends
    PROVE  OneExchange'
<1>0. TypeOK /\ {"client", "service"} \subseteq Sides
  BY DEF Sides, IInv
<1>1. PICK c \in Nat : c = asked["client"] /\ sentCount["client"] = c /\ asked["service"] \in Nat
  BY <1>0 DEF TypeOK, OneExchange
<1>2. LastAnswered /\ PeerSends("client", "request", c + 1)
      /\ asked' = [asked EXCEPT !["client"] = c + 1]
  BY <1>1 DEF ClientSends, OneAtATime
<1>3. UNCHANGED <<msg, outs, delivered, pathQueue, pc>>
  BY <1>2 DEF PeerSends, cycleVars
<1>4. wire["client"] = <<>> /\ (c # 0 => Reached("client", Response(c)))
  BY <1>1, <1>2 DEF LastAnswered, Response
<1>5. c # 0 => ~AnswersUpTo(c - 1)
  <2> SUFFICES ASSUME c # 0, AnswersUpTo(c - 1) PROVE FALSE
    OBVIOUS
  <2>1. PICK i \in 1..Len(delivered["client"]) : \E k \in 1..Len(delivered["client"][i].data) :
          delivered["client"][i].data[k] = Response(c)
    BY <1>4 DEF Reached
  <2>2. PICK k \in 1..Len(delivered["client"][i].data) :
          delivered["client"][i].data[k] = Response(c)
    BY <2>1
  <2>3. delivered["client"][i].data[k].id <= c - 1
    BY DEF AnswersUpTo, UpTo
  <2>4. Response(c).id = c
    BY DEF Response
  <2> QED
    BY <1>1, <2>2, <2>3, <2>4
<1>6. asked["service"] = c
  <2>1. asked["service"] = c \/ (asked["service"] = c - 1 /\ c # 0)
    BY <1>1 DEF OneExchange
  <2> QED
    BY <1>5, <2>1 DEF OneExchange
<1>7. pathQueue = <<>> /\ wire["service"] = <<>> /\ Coming = <<>> /\ Pending = <<>>
  BY <1>1, <1>5, <1>6 DEF OneExchange
<1>8. Pending' = <<>> /\ Coming' = <<>> /\ (\A n : AnswersUpTo(n) => AnswersUpTo(n)')
      /\ (\A n : RequestsUpTo(n) => RequestsUpTo(n)')
  BY <1>3, <1>7 DEF Pending, Coming, AnswersUpTo, RequestsUpTo
<1>9. /\ wire'["client"] = <<Request(c + 1)>> /\ wire'["service"] = <<>>
      /\ sentCount'["client"] = c + 1 /\ asked'["client"] = c + 1 /\ asked'["service"] = c
  <2>1. Append(<<>>, Request(c + 1)) = <<Request(c + 1)>>
    OBVIOUS
  <2> QED
    BY <1>0, <1>1, <1>2, <1>4, <1>6, <1>7, <2>1 DEF PeerSends, TypeOK, Request
<1>10. RequestsUpTo(c) /\ AnswersUpTo(c)
  BY <1>1, <1>6 DEF OneExchange
<1>11. RequestsUpTo(c + 1)
  BY <1>0, <1>1, <1>10, RequestsUpToMore
<1>12. c + 1 - 1 = c /\ c + 1 # 0 /\ c < c + 1 /\ c <= c + 1 /\ c + 1 <= c + 1
  BY <1>1
<1>13. pathQueue' = <<>>
  BY <1>3, <1>7
<1>14. RequestsUpTo(asked["client"] - 1)' /\ RequestsUpTo(asked["client"])'
       /\ AnswersUpTo(asked["service"])'
  <2>1. asked'["client"] - 1 = c /\ asked'["client"] = c + 1 /\ asked'["service"] = c
    BY ONLY <1>1, <1>9, <1>12
  <2>2. delivered' = delivered /\ outs' = outs /\ msg' = msg /\ pc' = pc
    BY <1>3
  <2> QED
    BY ONLY <1>10, <1>11, <2>1, <2>2 DEF RequestsUpTo, AnswersUpTo
<1>15. wire'["client"] = <<Request(asked["client"])>>'
  BY <1>9 DEF Request
<1> QED
  BY ONLY <1>8, <1>9, <1>12, <1>13, <1>14, <1>15 DEF OneExchange

(* So it can for the answers. *)
LEMMA AnswersUpToMore ==
    ASSUME TypeOK, NEW m \in Int, NEW n \in Int, m <= n, AnswersUpTo(m)
    PROVE  AnswersUpTo(n)
<1>1. /\ msg["service"].data \in Batches
      /\ outs["service"] \in Seq(Outputs) /\ delivered["client"] \in Seq(Outputs)
  BY DEF TypeOK, Sides, Received
<1>2. \A list \in Seq(Outputs) : \A i \in 1..Len(list) : list[i].data \in Batches
  <2> SUFFICES ASSUME NEW list \in Seq(Outputs), NEW i \in 1..Len(list)
               PROVE  list[i].data \in Batches
    OBVIOUS
  <2>1. list[i] \in Outputs
    OBVIOUS
  <2> QED
    BY <2>1 DEF Outputs
<1>3. \A data \in Batches : UpTo(data, m) => UpTo(data, n)
  BY UpToMore
<1> QED
  BY <1>1, <1>2, <1>3 DEF AnswersUpTo

(* The elements of a sequence of one. *)
LEMMA OneElement ==
    ASSUME NEW S, NEW list \in Seq(S), Len(list) = 1
    PROVE  list = <<list[1]>>
<1>1. <<list[1]>> \in Seq(S) /\ Len(<<list[1]>>) = 1 /\ <<list[1]>>[1] = list[1]
  OBVIOUS
<1> QED
  BY <1>1, SeqEqual

(* A read takes the one chunk on the wire, or none. *)
LEMMA OneIsRead ==
    ASSUME TypeOK, NEW s \in Sides, receive(s), Len(wire[s]) <= 1
    PROVE  \/ msg'[s].data = wire[s] /\ wire'[s] = <<>>
           \/ msg'[s].data = <<>> /\ wire'[s] = wire[s]
<1> DEFINE w == wire[s]
           d == msg'[s].data
           v == wire'[s]
<1>0. w \in Seq(Chunks)
  BY DEF TypeOK, Batches
<1>1. PICK n \in 0..Len(w) :
        /\ d \in Seq(Chunks) /\ Len(d) = n /\ \A k \in 1..n : d[k] = w[k]
        /\ v \in Seq(Chunks) /\ Len(v) = Len(w) - n
        /\ \A k \in 1..(Len(w) - n) : v[k] = w[n + k]
  BY WhatReceiveTakes
<1>2. PICK l \in Nat : l = Len(w) /\ l <= 1
  BY <1>0
<1> HIDE DEF w, d, v
<1>3. CASE n = Len(w)
  <2>1. Len(v) = 0 /\ Len(d) = Len(w) /\ \A k \in 1..Len(d) : d[k] = w[k]
    BY <1>0, <1>1, <1>3
  <2>2. v = <<>> /\ d = w
    BY <1>0, <1>1, <2>1, EmptySeq, SeqEqual
  <2> QED
    BY <2>2 DEF w, d, v
<1>4. CASE n = 0
  <2>1. Len(d) = 0 /\ Len(v) = Len(w) /\ \A k \in 1..Len(v) : v[k] = w[k]
    BY <1>0, <1>1, <1>4
  <2>2. d = <<>> /\ v = w
    BY <1>0, <1>1, <2>1, EmptySeq, SeqEqual
  <2> QED
    BY <2>2 DEF w, d, v
<1> QED
  <2>1. n = 0 \/ n = l
    BY <1>1, <1>2
  <2> QED
    BY <1>2, <1>3, <1>4, <2>1

(* A request or a response goes from the wire to its thread. *)
LEMMA ExchangeIsRead ==
    ASSUME IInv, OneExchange, NEW s \in Sides, receive(s)
    PROVE  OneExchange'
<1>0. TypeOK /\ s \in Threads /\ {"client", "service"} \subseteq Sides
      /\ {"client", "service"} \subseteq Threads
  BY DEF IInv, Threads, Sides
<1>1. /\ UNCHANGED <<sentCount, asked, delivered, pathQueue, outs>>
      /\ pc[s] = "receive" /\ pc'[s] = "process"
      /\ \A r \in Sides : r # s => pc'[r] = pc[r] /\ msg'[r] = msg[r] /\ wire'[r] = wire[r]
  <2>1. \A r \in Sides : r # s => msg'[r] = msg[r]
    BY <1>0 DEF receive, TypeOK
  <2>2. \A r \in Sides : r # s => wire'[r] = wire[r]
    BY <1>0 DEF receive, TypeOK
  <2> QED
    BY <1>0, <2>1, <2>2 DEF receive, Goto, TypeOK
<1>2. Len(wire[s]) <= 1
  <2>1. wire[s] = <<>> \/ \E x : wire[s] = <<x>>
    BY DEF OneExchange, Sides
  <2>2. CASE wire[s] = <<>>
    BY <2>2
  <2>3. ASSUME NEW x, wire[s] = <<x>> PROVE Len(wire[s]) <= 1
    BY <2>3
  <2> QED
    BY <2>1, <2>2, <2>3
<1>3. \/ msg'[s].data = wire[s] /\ wire'[s] = <<>>
      \/ msg'[s].data = <<>> /\ wire'[s] = wire[s]
  BY <1>0, <1>2, OneIsRead
<1>4. (\A n : RequestsUpTo(n) => RequestsUpTo(n)') /\ (\A n : AnswersUpTo(n) => AnswersUpTo(n)')
  <2>1. pc'["service"] = "engine" => pc["service"] = "engine" /\ msg'["service"] = msg["service"]
    BY <1>0, <1>1
  <2> QED
    BY <1>1, <2>1 DEF RequestsUpTo, AnswersUpTo
<1>5. CASE s = "client"
  <2>1. Pending = <<>> /\ Pending' = msg'["client"].data
    BY <1>1, <1>5 DEF Pending
  <2>2. Coming' = Coming /\ wire'["service"] = wire["service"]
    BY <1>0, <1>1, <1>5 DEF Coming
  <2>3. Request(asked["client"])' = Request(asked["client"])
    BY <1>1 DEF Request
  <2> QED
    BY <1>1, <1>3, <1>4, <1>5, <2>1, <2>2 DEF OneExchange
<1>6. CASE s = "service"
  <2>1. Coming = <<>> /\ Coming' = msg'["service"].data
    BY <1>1, <1>6 DEF Coming
  <2>2. Pending' = Pending /\ wire'["client"] = wire["client"] /\ pc'["client"] = pc["client"]
    BY <1>0, <1>1, <1>6 DEF Pending
  <2> QED
    BY <1>1, <1>3, <1>4, <1>6, <2>1, <2>2 DEF OneExchange
<1> QED
  BY <1>5, <1>6 DEF Sides

(* The service answers what has reached it. *)
LEMMA ExchangeIsAnswered ==
    ASSUME OneAtATime, IInv, OneExchange, ServiceSends
    PROVE  OneExchange'
<1>0. TypeOK /\ {"client", "service"} \subseteq Sides
  BY DEF Sides, IInv
<1>1. PICK c \in Nat : c = asked["client"] /\ asked["service"] \in Nat
  BY <1>0 DEF TypeOK
<1>2. PICK id \in Unanswered : PeerSends("service", "response", id)
                               /\ asked' = [asked EXCEPT !["service"] = id]
  BY DEF ServiceSends, OneAtATime
<1>3. /\ id \in asked["service"] + 1 .. c
      /\ Reached("service", Request(id))
  BY <1>1, <1>2 DEF Unanswered, Request
<1>4. id = c /\ c # 0 /\ asked["service"] = c - 1
  BY <1>1, <1>3 DEF OneExchange
<1>5. ~RequestsUpTo(c - 1)
  <2> SUFFICES ASSUME RequestsUpTo(c - 1) PROVE FALSE
    OBVIOUS
  <2>1. PICK i \in 1..Len(delivered["service"]) : \E k \in 1..Len(delivered["service"][i].data) :
          delivered["service"][i].data[k] = Request(c)
    BY <1>3, <1>4 DEF Reached
  <2>2. PICK k \in 1..Len(delivered["service"][i].data) :
          delivered["service"][i].data[k] = Request(c)
    BY <2>1
  <2>3. delivered["service"][i].data[k].id <= c - 1
    BY DEF RequestsUpTo, UpTo
  <2>4. Request(c).id = c
    BY DEF Request
  <2> QED
    BY <1>1, <2>2, <2>3, <2>4
<1>6. wire["client"] = <<>> /\ Pending = <<>>
  BY <1>1, <1>5 DEF OneExchange
<1>7. wire["service"] = <<>> /\ Coming = <<>>
  BY <1>1, <1>4 DEF OneExchange
<1>8. UNCHANGED <<msg, outs, delivered, pathQueue, pc>>
  BY <1>2 DEF PeerSends, cycleVars
<1>9. Pending' = <<>> /\ Coming' = <<>> /\ (\A n : AnswersUpTo(n) => AnswersUpTo(n)')
      /\ (\A n : RequestsUpTo(n) => RequestsUpTo(n)')
  BY <1>6, <1>7, <1>8 DEF Pending, Coming, AnswersUpTo, RequestsUpTo
<1>10. /\ wire'["service"] = <<Response(c)>> /\ wire'["client"] = <<>>
       /\ asked'["client"] = c /\ asked'["service"] = c /\ sentCount'["client"] = c
  <2>1. Append(<<>>, Response(c)) = <<Response(c)>>
    OBVIOUS
  <2>2. sentCount["client"] = c
    BY <1>1 DEF OneExchange
  <2> QED
    BY <1>0, <1>1, <1>2, <1>4, <1>6, <1>7, <2>1, <2>2 DEF PeerSends, TypeOK, Response
<1>11. RequestsUpTo(c) /\ AnswersUpTo(c - 1)
       /\ (pathQueue # <<>> => pathQueue = <<c>>)
  BY <1>1, <1>4 DEF OneExchange
<1>12. AnswersUpTo(c)
  BY <1>0, <1>1, <1>11, AnswersUpToMore
<1>13. RequestsUpTo(asked["client"])' /\ AnswersUpTo(asked["service"])'
       /\ AnswersUpTo(asked["client"] - 1)'
  <2>1. asked'["client"] - 1 = c - 1 /\ asked'["client"] = c /\ asked'["service"] = c
    BY ONLY <1>10
  <2>2. delivered' = delivered /\ outs' = outs /\ msg' = msg /\ pc' = pc
    BY <1>8
  <2> QED
    BY ONLY <1>11, <1>12, <2>1, <2>2 DEF RequestsUpTo, AnswersUpTo
<1>14. wire'["service"] = <<Response(asked["client"])>>'
  BY <1>10 DEF Response
<1>15. pathQueue' = pathQueue /\ c <= c /\ c <= c + 1
  BY <1>1, <1>8
<1> QED
  BY ONLY <1>4, <1>9, <1>10, <1>11, <1>13, <1>14, <1>15 DEF OneExchange

(* A side's step leaves the other side where it is. *)
LEMMA OtherSideStays ==
    ASSUME IInv, ~Offline, NEW s \in Sides, NEW r \in Sides, r # s, SideStep(s)
    PROVE  /\ pc'[r] = pc[r] /\ msg'[r] = msg[r] /\ outs'[r] = outs[r]
           /\ delivered'[s] = delivered[s] /\ UNCHANGED <<asked, sentCount>>
<1>1. PICK label : pc' = [pc EXCEPT ![s] = label]
  BY SideMoves
<1>2. pc'[r] = pc[r] /\ msg'[r] = msg[r] /\ outs'[r] = outs[r]
  BY <1>1, WhatIsReceived, WhatIsListed DEF IInv, TypeOK, Threads
<1>3. UNCHANGED <<asked, sentCount>> /\ (delivered' = delivered \/ send(s))
  BY DEF SideStep, Side, Finish, finish_thread, close_socket, forget_socket, check_client,
         linger_client, close_client, CloseOwn, receive, receive_on_closed_socket,
         process_and_record, requester, connect_response, responder, output, send_error,
         send, send_on_closed_socket, send_raises, engine_raises, decide, close_socket_raises,
         end_thread, netVars
<1>4. delivered'[s] = delivered[s]
  BY <1>3 DEF send, Destination, Other, Sides, IInv, TypeOK
<1> QED
  BY <1>2, <1>3, <1>4

(* A side which does not read leaves what is on the wires, or closes one. *)
LEMMA WiresStay ==
    ASSUME IInv, NEW s \in Sides, SideStep(s), ~receive(s), NEW r \in Sides
    PROVE  wire'[r] = wire[r] \/ wire'[r] = <<>>
BY DEF SideStep, Side, Finish, finish_thread, close_socket, forget_socket, check_client,
       linger_client, close_client, CloseOwn, receive_on_closed_socket,
       process_and_record, requester, connect_response, responder, output, send_error,
       send, send_on_closed_socket, send_raises, engine_raises, decide, close_socket_raises,
       end_thread, netVars, IInv, TypeOK

(* Only parsing touches the queue of paths. *)
LEMMA QueueStays ==
    ASSUME OneAtATime, IInv, SentInOrder, NEW s \in Sides, SideStep(s),
           ~(pc[s] = "process" /\ parse_http(msg[s].data))
    PROVE  pathQueue' = pathQueue
<1>1. ~RequesterChanges /\ ~Offline
  BY DEF OneAtATime
<1>2. CASE requester
  <2>1. PICK changed \in {FALSE, RequesterChanges} : ~changed => UNCHANGED <<recorded, pathQueue>>
    BY <1>2 DEF requester
  <2>2. RequesterChanges = FALSE
    BY <1>1, FlagsAssumption
  <2> QED
    BY <2>1, <2>2
<1>3. CASE output(s) \/ process_and_record(s) \/ engine_raises(s)
  BY <1>1, <1>3 DEF output, process_and_record, engine_raises
<1>4. CASE Finish(s)
  BY <1>4 DEF Finish, finish_thread, close_socket, forget_socket, check_client, linger_client,
              close_client
<1> QED
  BY <1>2, <1>3, <1>4
  DEF SideStep, Side, receive, receive_on_closed_socket, connect_response, responder, send_error,
      send, send_on_closed_socket, send_raises, decide, close_socket_raises, end_thread

(* The service thread passes on what it has parsed. *)
LEMMA AnswersMove ==
    ASSUME IInv, ~Offline, SideStep("service"), pc'["service"] # "engine", NEW n, AnswersUpTo(n)
    PROVE  AnswersUpTo(n)'
<1>0. "service" \in Sides /\ "client" \in Sides /\ TypeOK /\ [Next]_vars /\ TypeOK'
  BY TypeStep DEF Sides, IInv, Next, ServiceThread, SideStep
<1> DEFINE list == outs["service"]
           next == outs'["service"]
           sent == delivered["client"]
           then == delivered'["client"]
<1>1. \A i \in 1..Len(list) : UpTo(list[i].data, n)
  BY DEF AnswersUpTo
<1>2. list \in Seq(Outputs) /\ sent \in Seq(Outputs)
  BY <1>0 DEF TypeOK
<1>3. \A i \in 1..Len(next) : UpTo(next[i].data, n)
  <2>1. CASE next = list \/ next = <<>>
    BY <1>1, <2>1
  <2>2. CASE (send("service") \/ send_error("service")) /\ next = Tail(list)
    <3>1. list # <<>>
      BY <1>0, <2>2 DEF send, send_error, IInv, OutputsLeft
    <3>2. \A i \in 1..Len(next) : i + 1 \in 1..Len(list) /\ next[i] = list[i + 1]
      BY <1>2, <2>2, <3>1
    <3> QED
      BY <1>1, <3>2
  <2>3. CASE responder("service")
    <3>1. PICK l \in ResponderOutputs(msg["service"].data) : outs' = [outs EXCEPT !["service"] = l]
      BY <2>3 DEF responder
    <3>2. next = l
      BY <1>0, <3>1 DEF TypeOK
    <3>3. \A i \in 1..Len(l) : l[i] \in [data : {msg["service"].data}, changed : BOOLEAN]
      BY <3>1, ListElements DEF ResponderOutputs
    <3>4. UpTo(msg["service"].data, n)
      BY <2>3 DEF responder, AnswersUpTo
    <3> QED
      BY <3>2, <3>3, <3>4
  <2>4. CASE connect_response
    <3>1. PICK l \in ConnectOutputs : outs' = [outs EXCEPT !["service"] = l]
      BY <2>4 DEF connect_response
    <3>2. next = l
      BY <1>0, <3>1 DEF TypeOK
    <3>3. \A i \in 1..Len(l) : l[i] \in {[data |-> <<>>, changed |-> TRUE]}
      BY <3>1, ListElements DEF ConnectOutputs
    <3>4. \A i \in 1..Len(l) : l[i].data = <<>>
      BY <3>3
    <3> QED
      BY <3>2, <3>4 DEF UpTo
  <2> QED
    BY <1>0, <2>1, <2>2, <2>3, <2>4, WhatIsListed
<1>4. \A i \in 1..Len(then) : UpTo(then[i].data, n)
  <2>1. \A i \in 1..Len(sent) : UpTo(sent[i].data, n)
    BY DEF AnswersUpTo
  <2>2. CASE then = sent
    BY <2>1, <2>2
  <2>3. CASE send("service") /\ then = Append(sent, list[1])
    <3>1. list # <<>>
      BY <1>0, <2>3 DEF send, IInv, OutputsLeft
    <3>2. UpTo(list[1].data, n)
      BY <1>1, <1>2, <3>1
    <3> HIDE DEF sent, list, then
    <3>3. \A i \in 1..Len(then) : then[i] = list[1] \/ (i \in 1..Len(sent) /\ then[i] = sent[i])
      BY <1>2, <2>3
    <3> QED
      BY <2>1, <3>2, <3>3
  <2>4. PICK s \in Sides : \/ delivered' = delivered
                           \/ /\ send(s)
                              /\ delivered' = [delivered EXCEPT ![Destination(s)] =
                                                  Append(delivered[Destination(s)], outs[s][1])]
    BY <1>0, WhatIsDelivered
  <2>5. CASE /\ send(s)
             /\ delivered' = [delivered EXCEPT ![Destination(s)] =
                                 Append(delivered[Destination(s)], outs[s][1])]
    <3>1. s = "client" => Destination(s) = "service"
      BY DEF Destination, Other
    <3>2. s = "service" => Destination(s) = "client"
      BY DEF Destination, Other
    <3>3. s = "client" => then = sent
      BY <1>0, <2>5, <3>1 DEF TypeOK
    <3>4. s = "service" => send("service") /\ then = Append(sent, list[1])
      BY <1>0, <2>5, <3>2 DEF TypeOK
    <3> QED
      BY <2>2, <2>3, <3>3, <3>4 DEF Sides
  <2> QED
    BY <2>2, <2>4, <2>5
<1> QED
  BY <1>3, <1>4 DEF AnswersUpTo

(* What parse_http does with the one message of an exchange. *)
LEMMA ParsesOne ==
    ASSUME NEW c, NEW data, parse_http(data)
    PROVE  /\ data = <<>> => pathQueue' = pathQueue
           /\ data = <<Request(c)>> => pathQueue' = Append(pathQueue, c)
           /\ data = <<Response(c)>> => pathQueue # <<>> /\ pathQueue' = Tail(pathQueue)
BY DEF parse_http, IsHttp, CanParse, Request, Response

(* The client thread puts the path of the request in the queue. *)
LEMMA RequestIsParsed ==
    ASSUME IInv, ~Offline, OneExchange, SideStep("client"), pc["client"] = "process",
           ~receive("client"), parse_http(msg["client"].data)
    PROVE  OneExchange'
<1>0. TypeOK /\ {"client", "service"} \subseteq Sides /\ {"client", "service"} \subseteq Threads
  BY DEF IInv, Threads, Sides
<1>1. /\ pc'["service"] = pc["service"] /\ msg'["service"] = msg["service"]
      /\ outs'["service"] = outs["service"] /\ delivered'["client"] = delivered["client"]
      /\ UNCHANGED <<asked, sentCount>>
  BY <1>0, OtherSideStays
<1>2. process_and_record("client") \/ engine_raises("client")
  BY <1>0
  DEF SideStep, Side, receive_on_closed_socket, requester, responder, output, send, send_error,
      send_on_closed_socket, send_raises, decide, close_socket_raises, end_thread, Finish,
      finish_thread, close_socket, forget_socket, check_client, linger_client, close_client
<1>3. wire' = wire /\ delivered' = delivered
  BY <1>2 DEF process_and_record, engine_raises, netVars
<1>4. Pending = msg["client"].data /\ (Pending' = Pending \/ Pending' = <<>>)
      /\ pc'["client"] # "process"
  <2>1. Pending = msg["client"].data
    BY DEF Pending
  <2>2. CASE msg' = msg /\ pc'["client"] = "engine"
    BY <2>1, <2>2 DEF Pending
  <2>3. CASE pc'["client"] \in {"done", "finish", "decide"}
    BY <2>1, <2>3 DEF Pending
  <2>4. CASE process_and_record("client")
    BY <1>0, <2>1, <2>2, <2>3, <2>4 DEF process_and_record, Goto, TypeOK, cycleVars
  <2>5. CASE engine_raises("client")
    BY <1>0, <2>1, <2>3, <2>5 DEF engine_raises, RaiseInSide, Goto, TypeOK
  <2> QED
    BY <1>2, <2>4, <2>5
<1>5. (\A n : AnswersUpTo(n) => AnswersUpTo(n)') /\ (\A n : RequestsUpTo(n) => RequestsUpTo(n)')
      /\ Coming' = Coming
  BY <1>1, <1>3 DEF AnswersUpTo, RequestsUpTo, Coming
<1>6. CASE Pending = <<>>
  <2>1. pathQueue' = pathQueue
    BY <1>4, <1>6, ParsesOne
  <2> QED
    BY <1>1, <1>3, <1>4, <1>5, <2>1, ExchangeStays
<1>7. CASE Pending # <<>>
  <2>1. PICK c \in Nat : c = asked["client"] /\ asked["service"] \in Nat
    BY <1>0 DEF TypeOK
  <2>2. Pending = <<Request(c)>> /\ pathQueue = <<>> /\ wire["client"] = <<>>
        /\ asked["service"] = c - 1 /\ c # 0
    BY <1>7, <2>1 DEF OneExchange
  <2>3. wire["service"] = <<>> /\ Coming = <<>>
    BY <2>1, <2>2 DEF OneExchange
  <2>4. pathQueue' = <<c>>
    <3>1. pathQueue' = Append(pathQueue, c)
      BY <1>4, <2>2, ParsesOne
    <3> QED
      BY <2>2, <3>1
  <2>5. AnswersUpTo(c - 1) /\ RequestsUpTo(c - 1) /\ RequestsUpTo(c) /\ c - 1 < c /\ c <= c
        /\ c - 1 <= c /\ c <= c - 1 + 1
    BY <1>7, <2>1, <2>2 DEF OneExchange
  <2>6. (AnswersUpTo(asked["client"] - 1) /\ RequestsUpTo(asked["client"] - 1)
         /\ RequestsUpTo(asked["client"]) /\ AnswersUpTo(asked["service"]))'
    <3>1. asked' = asked /\ asked["client"] = c /\ asked["service"] = c - 1
      BY <1>1, <2>1, <2>2
    <3>2. AnswersUpTo(c - 1)' /\ RequestsUpTo(c - 1)' /\ RequestsUpTo(c)'
      BY <1>5, <2>5
    <3> QED
      BY ONLY <3>1, <3>2 DEF AnswersUpTo, RequestsUpTo
  <2>7. sentCount'["client"] = c /\ asked'["client"] = c /\ asked'["service"] = c - 1
        /\ (Pending' = <<Request(asked["client"])>>' \/ Pending' = <<>>)
    <3>1. sentCount["client"] = c
      BY <2>1 DEF OneExchange
    <3> QED
      BY <1>1, <1>4, <2>1, <2>2, <3>1 DEF Request
  <2> QED
    BY ONLY <1>3, <1>4, <1>5, <2>2, <2>3, <2>4, <2>5, <2>6, <2>7 DEF OneExchange
<1> QED
  BY <1>6, <1>7

(* The service thread takes it when the response comes. *)
LEMMA ResponseIsParsed ==
    ASSUME IInv, ~Offline, OneExchange, process_and_record("service")
    PROVE  OneExchange'
<1>0. TypeOK /\ {"client", "service"} \subseteq Sides /\ {"client", "service"} \subseteq Threads
      /\ SideStep("service")
  BY DEF IInv, Threads, Sides, SideStep, Side
<1>1. /\ pc'["client"] = pc["client"] /\ msg'["client"] = msg["client"]
      /\ outs'["client"] = outs["client"] /\ UNCHANGED <<asked, sentCount>>
  BY <1>0, OtherSideStays
<1>2. wire' = wire /\ delivered' = delivered /\ Pending' = Pending
      /\ parse_http(msg["service"].data) /\ pc["service"] = "process"
  BY <1>1 DEF process_and_record, netVars, Pending
<1>3. Coming = msg["service"].data /\ Coming' = <<>>
  <2>1. pc'["service"] # "process"
    BY <1>0 DEF process_and_record, Goto, TypeOK
  <2> QED
    BY <1>2, <2>1 DEF Coming
<1>4. \/ outs' = outs /\ msg'["service"].data = Coming
      \/ outs'["service"] = <<>> /\ pc'["service"] # "engine"
  BY <1>0, <1>3 DEF process_and_record, EndCycle, Goto, cycleVars, TypeOK
<1>5. ASSUME NEW n, AnswersUpTo(n), UpTo(Coming, n) PROVE AnswersUpTo(n)'
  BY <1>2, <1>4, <1>5 DEF AnswersUpTo
<1>6. CASE Coming = <<>>
  <2>1. pathQueue' = pathQueue
    BY <1>2, <1>3, <1>6, ParsesOne
  <2>2. \A n : UpTo(Coming, n)
    BY <1>6 DEF UpTo
  <2> QED
    BY <1>1, <1>2, <1>3, <1>5, <2>1, <2>2, ExchangeStays
<1>7. CASE Coming # <<>>
  <2>1. PICK c \in Nat : c = asked["client"] /\ asked["service"] = c
    BY <1>0, <1>7 DEF TypeOK, OneExchange
  <2>2. Coming = <<Response(c)>> /\ wire["service"] = <<>> /\ wire["client"] = <<>> /\ Pending = <<>>
        /\ c # 0
    BY <1>7, <2>1 DEF OneExchange
  <2>3. pathQueue # <<>> /\ pathQueue' = Tail(pathQueue)
    BY <1>2, <1>3, <2>2, ParsesOne
  <2>4. pathQueue = <<c>>
    BY <2>1, <2>3 DEF OneExchange
  <2>5. pathQueue' = <<>>
    <3>1. Tail(<<c>>) = <<>>
      <4> DEFINE l == <<c>>
      <4>1. l \in Seq(Nat) /\ l # <<>> /\ Len(l) = 1
        BY <2>1
      <4> HIDE DEF l
      <4>2. Tail(l) \in Seq(Nat) /\ Len(Tail(l)) = 0
        BY <4>1, HeadTailProperties
      <4>3. Tail(l) = <<>>
        BY <4>2, EmptySeq
      <4> QED
        BY <4>3 DEF l
    <3> QED
      BY <2>3, <2>4, <3>1
  <2>6. AnswersUpTo(c) /\ UpTo(Coming, c) /\ RequestsUpTo(c) /\ sentCount["client"] = c
    <3>1. AnswersUpTo(c) /\ RequestsUpTo(c) /\ sentCount["client"] = c
      BY <2>1 DEF OneExchange
    <3>2. UpTo(Coming, c)
      BY <2>1, <2>2 DEF UpTo, Response
    <3> QED
      BY <3>1, <3>2
  <2>7. AnswersUpTo(asked["service"])' /\ RequestsUpTo(asked["client"])'
    <3>1. asked' = asked /\ asked["client"] = c /\ asked["service"] = c /\ AnswersUpTo(c)'
      BY <1>1, <1>5, <2>1, <2>6
    <3> QED
      BY ONLY <1>2, <2>6, <3>1 DEF AnswersUpTo, RequestsUpTo
  <2>8. asked'["client"] = c /\ asked'["service"] = c /\ sentCount'["client"] = c /\ c <= c /\ c <= c + 1
    BY <1>1, <2>1, <2>6
  <2> QED
    BY ONLY <1>2, <1>3, <2>2, <2>5, <2>7, <2>8 DEF OneExchange
<1> QED
  BY <1>6, <1>7

(* The client thread sends the request it has. *)
LEMMA RequestIsSent ==
    ASSUME IInv, ~Offline, SentInOrder, OneExchange, send("client")
    PROVE  OneExchange'
<1> DEFINE sent == delivered["service"]
           then == delivered'["service"]
           o == outs["client"][1]
<1>0. TypeOK /\ {"client", "service"} \subseteq Sides /\ {"client", "service"} \subseteq Threads
      /\ SideStep("client") /\ [Next]_vars
  BY DEF IInv, Threads, Sides, SideStep, Side, Next, ClientThread
<1>1. /\ pc'["service"] = pc["service"] /\ msg'["service"] = msg["service"]
      /\ outs'["service"] = outs["service"] /\ delivered'["client"] = delivered["client"]
      /\ UNCHANGED <<asked, sentCount, wire, pathQueue>>
  BY <1>0, OtherSideStays DEF send
<1>2. Coming' = Coming /\ \A n : AnswersUpTo(n) => AnswersUpTo(n)'
  BY <1>1 DEF AnswersUpTo, Coming
<1>3. pc["client"] = "send" /\ Pending = o.data /\ Pending # <<>>
  BY DEF send, SentInOrder, Pending
<1>4. Pending' = <<>> /\ pc'["client"] # "process"
  <2>1. Tail(outs["client"]) = <<>>
    <3> DEFINE list == outs["client"]
    <3>1. list \in Seq(Outputs) /\ Len(list) = 1
      BY <1>0, <1>3 DEF SentInOrder, TypeOK
    <3> HIDE DEF list
    <3>2. list # <<>>
      BY <3>1
    <3>3. Tail(list) \in Seq(Outputs) /\ Len(Tail(list)) = 0
      BY <3>1, <3>2, HeadTailProperties
    <3>4. Tail(list) = <<>>
      BY <3>3, EmptySeq
    <3> QED
      BY <3>4 DEF list
  <2>2. pc'["client"] = "decide"
    BY <1>0, <2>1 DEF send, Goto, NextOutput, TypeOK
  <2> QED
    BY <2>2 DEF Pending
<1>5. PICK c \in Nat : c = asked["client"] /\ asked["service"] \in Nat
  BY <1>0 DEF TypeOK
<1>6. Pending = <<Request(c)>> /\ wire["client"] = <<>> /\ asked["service"] = c - 1
      /\ RequestsUpTo(c) /\ AnswersUpTo(c - 1) /\ sentCount["client"] = c
  BY <1>3, <1>5 DEF OneExchange
<1>7. wire["service"] = <<>> /\ Coming = <<>>
  BY <1>5, <1>6 DEF OneExchange
<1>8. RequestsUpTo(c)'
  <2>1. then = Append(sent, o)
    <3>1. Destination("client") = "service"
      BY DEF Destination, Other
    <3>2. Head(outs["client"]) = o
      BY <1>0 DEF send, IInv, TypeOK, OutputsLeft
    <3> QED
      BY <1>0, <3>1, <3>2 DEF send, TypeOK
  <2>2. sent \in Seq(Outputs)
    BY <1>0 DEF TypeOK
  <2>3. UpTo(o.data, c)
    BY <1>3, <1>5, <1>6 DEF UpTo, Request
  <2>4. \A i \in 1..Len(sent) : UpTo(sent[i].data, c)
    BY <1>6 DEF RequestsUpTo
  <2> HIDE DEF sent, then, o
  <2>5. \A i \in 1..Len(then) : then[i] = o \/ (i \in 1..Len(sent) /\ then[i] = sent[i])
    BY <2>1, <2>2
  <2>6. \A i \in 1..Len(then) : UpTo(then[i].data, c)
    BY <2>3, <2>4, <2>5
  <2> QED
    BY <2>6 DEF RequestsUpTo, then
<1>9. RequestsUpTo(asked["client"])' /\ AnswersUpTo(asked["service"])'
      /\ (pathQueue # <<>> => pathQueue = <<c>> /\ c # 0)
      /\ (AnswersUpTo(asked["client"] - 1))'
  <2>1. asked' = asked /\ asked["client"] = c /\ asked["service"] = c - 1 /\ AnswersUpTo(c - 1)'
    BY <1>1, <1>2, <1>5, <1>6
  <2>2. pathQueue # <<>> => pathQueue = <<c>> /\ c # 0
    BY <1>5 DEF OneExchange
  <2> QED
    BY ONLY <1>8, <2>1, <2>2 DEF AnswersUpTo, RequestsUpTo
<1>10. /\ asked'["client"] = c /\ asked'["service"] = c - 1 /\ sentCount'["client"] = c
       /\ c - 1 <= c /\ c <= c - 1 + 1 /\ wire'["client"] = <<>> /\ wire'["service"] = <<>>
       /\ pathQueue' = pathQueue /\ Coming' = <<>>
  BY <1>1, <1>2, <1>5, <1>6, <1>7
<1> QED
  BY ONLY <1>4, <1>9, <1>10 DEF OneExchange

(* Every other step of the client thread keeps its request or drops it. *)
LEMMA RequestWaits ==
    ASSUME OneAtATime, IInv, SentInOrder, OneExchange, SideStep("client"),
           ~receive("client"), ~send("client"),
           ~(pc["client"] = "process" /\ parse_http(msg["client"].data))
    PROVE  OneExchange'
<1>0. TypeOK /\ {"client", "service"} \subseteq Sides /\ {"client", "service"} \subseteq Threads
      /\ ~Offline
  BY DEF IInv, Threads, Sides, OneAtATime
<1>1. /\ pc'["service"] = pc["service"] /\ msg'["service"] = msg["service"]
      /\ outs'["service"] = outs["service"] /\ delivered'["client"] = delivered["client"]
      /\ UNCHANGED <<asked, sentCount>>
  BY <1>0, OtherSideStays
<1>2. pathQueue' = pathQueue /\ \A s \in Sides : wire'[s] = wire[s] \/ wire'[s] = <<>>
  BY <1>0, QueueStays, WiresStay
<1>3. delivered'["service"] = delivered["service"]
  BY DEF SideStep, Side, Finish, finish_thread, close_socket, forget_socket, check_client,
         linger_client, close_client, CloseOwn, receive_on_closed_socket,
         process_and_record, requester, responder, output, send_error,
         send_on_closed_socket, send_raises, engine_raises, decide, close_socket_raises,
         end_thread, netVars
<1>4. pc'["client"] # "process" /\ (Pending' = Pending \/ Pending' = <<>>)
  <2>1. CASE requester
    <3>1. pc["client"] = "engine" /\ pc'["client"] = "send"
      BY <1>0, <2>1 DEF requester, Goto, TypeOK
    <3>2. PICK changed : outs'["client"] = <<[data |-> msg["client"].data, changed |-> changed]>>
      BY <1>0, <2>1 DEF requester, TypeOK
    <3>3. outs'["client"][1].data = msg["client"].data
      BY <3>2
    <3> QED
      BY <3>1, <3>3 DEF Pending
  <2>2. CASE pc'["client"] \in FinishPcs \cup {"done", "decide", "receive"}
    BY <2>2 DEF Pending, FinishPcs
  <2>3. CASE responder("client") \/ output("client")
    BY <1>0, <2>3 DEF responder, output, SentInOrder
  <2>4. CASE send_error("client")
    <3>1. Tail(outs["client"]) = <<>>
      <4> DEFINE list == outs["client"]
      <4>1. list \in Seq(Outputs) /\ Len(list) = 1
        BY <1>0, <2>4 DEF SentInOrder, TypeOK, send_error
      <4> HIDE DEF list
      <4>2. list # <<>>
        BY <4>1
      <4>3. Tail(list) \in Seq(Outputs) /\ Len(Tail(list)) = 0
        BY <4>1, <4>2, HeadTailProperties
      <4>4. Tail(list) = <<>>
        BY <4>3, EmptySeq
      <4> QED
        BY <4>4 DEF list
    <3> QED
      BY <1>0, <2>2, <2>4, <3>1 DEF send_error, Goto, NextOutput, TypeOK
  <2>5. CASE process_and_record("client")
    BY <2>5 DEF process_and_record
  <2>6. CASE \/ receive_on_closed_socket("client") \/ send_on_closed_socket("client")
             \/ end_thread("client") \/ send_raises("client") \/ engine_raises("client")
             \/ close_socket_raises("client") \/ Finish("client") \/ decide("client")
    BY <1>0, <2>2, <2>6
    DEF receive_on_closed_socket, send_on_closed_socket, end_thread, send_raises, engine_raises,
        close_socket_raises, RaiseInSide, Finish, finish_thread, close_socket, forget_socket,
        check_client, linger_client, close_client, decide, Goto, TypeOK, FinishPcs
  <2> QED
    BY <2>1, <2>3, <2>4, <2>5, <2>6 DEF SideStep, Side
<1>5. Coming' = Coming /\ (\A n : AnswersUpTo(n) => AnswersUpTo(n)')
  BY <1>1 DEF AnswersUpTo, Coming
<1> QED
  BY <1>1, <1>2, <1>3, <1>4, <1>5, ExchangeStays

(* So does every other step of the service thread its response. *)
LEMMA ResponseWaits ==
    ASSUME OneAtATime, IInv, SentInOrder, OneExchange, SideStep("service"),
           ~receive("service"), ~process_and_record("service")
    PROVE  OneExchange'
<1>0. TypeOK /\ {"client", "service"} \subseteq Sides /\ {"client", "service"} \subseteq Threads
      /\ ~Offline
  BY DEF IInv, Threads, Sides, OneAtATime
<1>1. /\ pc'["client"] = pc["client"] /\ msg'["client"] = msg["client"]
      /\ outs'["client"] = outs["client"] /\ delivered'["service"] = delivered["service"]
      /\ UNCHANGED <<asked, sentCount>>
  BY <1>0, OtherSideStays
<1>2. pathQueue' = pathQueue
  <2>1. CASE engine_raises("service")
    BY <2>1 DEF engine_raises
  <2>2. CASE ~engine_raises("service")
    <3>1. pc["service"] # "process"
      BY <2>2
      DEF SideStep, Side, receive_on_closed_socket, connect_response, responder, output, send,
          send_error, send_on_closed_socket, send_raises, decide, close_socket_raises, end_thread,
          Finish, finish_thread, close_socket, forget_socket, check_client, linger_client,
          close_client
    <3> QED
      BY <1>0, <3>1, QueueStays
  <2> QED
    BY <2>1, <2>2
<1>3. \A s \in Sides : wire'[s] = wire[s] \/ wire'[s] = <<>>
  BY <1>0, WiresStay
<1>4. pc'["service"] # "process" /\ pc'["service"] # "engine"
  <2>1. pc'["service"] # "engine"
    BY <1>0, WhatReachesTheEngine
  <2>2. CASE responder("service") \/ connect_response \/ send("service") \/ send_error("service")
    <3>1. PICK list : Goto("service", NextOutput(list))
      BY <2>2 DEF responder, connect_response, send, send_error
    <3>2. pc'["service"] = NextOutput(list)
      BY <1>0, <3>1 DEF Goto, TypeOK
    <3> QED
      BY <2>1, <3>2 DEF NextOutput
  <2>3. CASE ~(responder("service") \/ connect_response \/ send("service") \/ send_error("service"))
    BY <1>0, <2>1, <2>3
    DEF SideStep, Side, receive_on_closed_socket, send_on_closed_socket, end_thread, send_raises,
        engine_raises, close_socket_raises, RaiseInSide, Finish, finish_thread, close_socket,
        forget_socket, check_client, linger_client, close_client, decide, output, Goto, TypeOK
  <2> QED
    BY <2>2, <2>3
<1>5. Coming' = <<>> /\ Pending' = Pending
  BY <1>1, <1>4 DEF Coming, Pending
<1>6. \A n : AnswersUpTo(n) => AnswersUpTo(n)'
  BY <1>0, <1>4, AnswersMove
<1> QED
  BY <1>1, <1>2, <1>3, <1>5, <1>6, ExchangeStays

(* There is never more than one exchange. *)
LEMMA OneExchangeStep ==
    OneAtATime /\ IInv /\ SentInOrder /\ OneExchange /\ [Next]_vars => OneExchange'
<1> SUFFICES ASSUME OneAtATime, IInv, SentInOrder, OneExchange, [Next]_vars PROVE OneExchange'
  OBVIOUS
<1>0. ~Offline /\ {"client", "service"} \subseteq Sides
  BY DEF OneAtATime, Sides
<1>1. CASE Main \/ UNCHANGED vars \/ \E s \in Sides : PeerCloses(s)
  BY <1>1, ExchangeWaits
<1>2. CASE ClientSends
  BY <1>2, ExchangeBegins
<1>3. CASE ServiceSends
  BY <1>3, ExchangeIsAnswered
<1>4. CASE receive("client") \/ receive("service")
  BY <1>0, <1>4, ExchangeIsRead
<1>5. CASE SideStep("client") /\ ~receive("client")
  BY <1>0, <1>5, RequestIsParsed, RequestIsSent, RequestWaits
<1>6. CASE SideStep("service") /\ ~receive("service")
  BY <1>0, <1>6, ResponseIsParsed, ResponseWaits
<1> QED
  BY <1>1, <1>2, <1>3, <1>4, <1>5, <1>6
  DEF Next, ClientThread, ServiceThread, SideStep, Side, Terminating, Peers

(* The path of one record. *)
PathMatches(e) ==
    IsHttp("response", e.data) /\ e.action # "service_responder" => e.path = Head(e.data).id

(* What a side records has the right path. *)
LEMMA WhatIsRecorded ==
    ASSUME OneAtATime, IInv, OneExchange, [Next]_vars, NEW r \in Sides
    PROVE  \/ recorded'[r] = recorded[r]
           \/ \E e : recorded'[r] = Append(recorded[r], e) /\ PathMatches(e)
<1>0. TypeOK /\ ~Offline /\ r \in Threads /\ r # "main" /\ Sides = {"client", "service"}
      /\ recorded \in [Threads -> Seq(LogEntries)]
  BY DEF OneAtATime, IInv, Threads, Sides, TypeOK
<1>1. ASSUME NEW s \in Threads, NEW action, NEW data, NEW path, NEW own,
             Record(s, action, data, path, own),
             s = "main" \/ (IsHttp("response", data) /\ action # "service_responder"
                              => path = Head(data).id)
      PROVE  \/ recorded'[r] = recorded[r]
             \/ \E e : recorded'[r] = Append(recorded[r], e) /\ PathMatches(e)
  <2> DEFINE e == [action |-> action, data |-> data, path |-> path, own |-> own]
  <2>1. r # s => recorded'[r] = recorded[r]
    BY <1>0, <1>1 DEF Record
  <2>2. r = s => recorded'[r] = Append(recorded[r], e)
    BY <1>0, <1>1 DEF Record
  <2>3. e.action = action /\ e.data = data /\ e.path = path
    OBVIOUS
  <2> HIDE DEF e
  <2>4. r = s => PathMatches(e)
    BY <1>0, <1>1, <2>3 DEF PathMatches
  <2> QED
    BY <2>1, <2>2, <2>4
<1>2. CASE Main
  <2>1. recorded' = recorded \/ \E action, data, path, own : Record("main", action, data, path, own)
    BY <1>2
    DEF Main, setup, setup_raises, service_connection, start_client, start_service, join,
        check_queues, return, RaiseInMain, Finish, finish_thread, close_socket, forget_socket,
        check_client, linger_client, close_client
  <2> QED
    BY <1>1, <2>1 DEF Threads
<1>3. CASE Peers \/ UNCHANGED vars
  BY <1>3, PeersMoveNothing DEF vars
<1>4. CASE process_and_record("client")
  <2>1. \/ recorded' = recorded
        \/ Record("client", "client_receive", msg["client"].data, PathTaken(msg["client"].data),
                  msg["client"].own)
    BY <1>4 DEF process_and_record, ReceiveAction
  <2>2. msg["client"].data = <<>> \/ msg["client"].data = <<Request(asked["client"])>>
    BY <1>4 DEF process_and_record, OneExchange, Pending
  <2>3. ~IsHttp("response", msg["client"].data)
    BY <2>2 DEF IsHttp, Request
  <2> QED
    BY <1>0, <1>1, <2>1, <2>3 DEF Threads
<1>5. CASE process_and_record("service")
  <2>1. \/ recorded' = recorded
        \/ Record("service", "service_receive", msg["service"].data,
                  PathTaken(msg["service"].data), msg["service"].own)
    BY <1>5 DEF process_and_record, ReceiveAction
  <2>2. msg["service"].data = <<>> \/ msg["service"].data = <<Response(asked["client"])>>
    BY <1>5 DEF process_and_record, OneExchange, Coming
  <2>3. IsHttp("response", msg["service"].data) =>
          /\ Head(msg["service"].data).id = asked["client"]
          /\ pathQueue = <<asked["client"]>>
    <3>1. IsHttp("response", msg["service"].data) => pathQueue # <<>>
      BY <1>5 DEF process_and_record, parse_http, CanParse, IsHttp
    <3>2. Head(<<Response(asked["client"])>>).id = asked["client"]
      BY DEF Response
    <3> QED
      BY <2>2, <3>1, <3>2 DEF OneExchange, IsHttp
  <2>4. IsHttp("response", msg["service"].data) =>
          PathTaken(msg["service"].data) = Head(msg["service"].data).id
    BY <2>3 DEF PathTaken
  <2> QED
    BY <1>0, <1>1, <2>1, <2>4 DEF Threads
<1>6. CASE requester
  <2>1. PICK changed \in {FALSE, RequesterChanges} : ~changed => UNCHANGED <<recorded, pathQueue>>
    BY <1>6 DEF requester
  <2>2. RequesterChanges = FALSE
    BY FlagsAssumption DEF OneAtATime
  <2> QED
    BY <2>1, <2>2
<1>7. ASSUME NEW s \in Sides, output(s) \/ send_error(s)
      PROVE  \/ recorded'[r] = recorded[r]
             \/ \E e : recorded'[r] = Append(recorded[r], e) /\ PathMatches(e)
  <2>1. CASE output(s)
    <3>1. Record(s, "service_responder", Head(outs[s]).data, 0, FALSE)
      BY <1>0, <2>1 DEF output
    <3> QED
      BY <1>1, <3>1 DEF Threads
  <2>2. CASE send_error(s)
    <3>1. Record(s, IF s = "client" THEN "service_send" ELSE "client_send", <<>>, 0, FALSE)
      BY <2>2 DEF send_error
    <3>2. ~IsHttp("response", <<>>)
      BY DEF IsHttp
    <3> QED
      BY <1>1, <3>1, <3>2 DEF Threads
  <2> QED
    BY <1>7, <2>1, <2>2
<1>8. ASSUME NEW s \in Sides, SideStep(s), ~process_and_record(s), ~requester, ~output(s),
             ~send_error(s)
      PROVE  recorded'[r] = recorded[r]
  BY <1>8
  DEF SideStep, Side, Finish, finish_thread, close_socket, forget_socket, check_client,
      linger_client, close_client, receive, receive_on_closed_socket, connect_response, responder,
      send, send_on_closed_socket, send_raises, engine_raises, decide, close_socket_raises,
      end_thread
<1>9. ASSUME NEW s \in Sides, SideStep(s)
      PROVE  \/ recorded'[r] = recorded[r]
             \/ \E e : recorded'[r] = Append(recorded[r], e) /\ PathMatches(e)
  BY <1>0, <1>4, <1>5, <1>6, <1>7, <1>8, <1>9
<1> QED
  BY <1>0, <1>2, <1>3, <1>9 DEF Next, ClientThread, ServiceThread, SideStep, Terminating

(* Every record that is added has its path. *)
LEMMA PathsMatchStep ==
    OneAtATime /\ IInv /\ OneExchange /\ PathsMatch /\ [Next]_vars => PathsMatch'
<1> SUFFICES ASSUME OneAtATime, IInv, OneExchange, PathsMatch, [Next]_vars,
                    NEW r \in Sides, NEW i \in 1..Len(recorded'[r])
             PROVE  PathMatches(recorded'[r][i])
  BY DEF PathsMatch, PathMatches
<1>1. recorded[r] \in Seq(LogEntries)
  BY DEF IInv, TypeOK, Threads
<1>2. \A k \in 1..Len(recorded[r]) : PathMatches(recorded[r][k])
  BY DEF PathsMatch, PathMatches
<1>3. CASE recorded'[r] = recorded[r]
  BY <1>2, <1>3
<1>4. ASSUME NEW e, recorded'[r] = Append(recorded[r], e), PathMatches(e)
      PROVE  PathMatches(recorded'[r][i])
  <2>1. \/ i \in 1..Len(recorded[r]) /\ recorded'[r][i] = recorded[r][i]
        \/ recorded'[r][i] = e
    BY <1>1, <1>4
  <2> QED
    BY <1>2, <1>4, <2>1
<1> QED
  BY <1>3, <1>4, WhatIsRecorded

---------------------------------------------------------------------------
(* The invariant of exchanges. *)
AnswersInv == ForwardInv /\ SocketsAreClosed /\ OneExchange /\ PathsMatch

(* Peers that take turns: every response is recorded with the path of its  *)
(* request.                                                                *)
THEOREM ExchangesAreAnswered ==
    ASSUME OneAtATime, ~SetupFails
    PROVE  Spec => []AnsweredAndRecorded
<1>1. Init => AnswersInv
  <2> SUFFICES ASSUME Init PROVE AnswersInv
    OBVIOUS
  <2>1. ForwardInv
    BY InitialForward
  <2>2. SocketsAreClosed
    BY DEF Init, SocketsAreClosed, Sides, Threads
  <2>3. OneExchange
    BY DEF Init, OneExchange, Pending, Coming, AnswersUpTo, RequestsUpTo, UpTo, Sides, Threads
  <2>4. PathsMatch
    BY DEF Init, PathsMatch, Sides, Threads
  <2> QED
    BY <2>1, <2>2, <2>3, <2>4 DEF AnswersInv
<1>2. AnswersInv /\ [Next]_vars => AnswersInv'
  BY ForwardStep, SocketsAreClosedStep, OneExchangeStep, PathsMatchStep DEF AnswersInv, ForwardInv
<1>3. AnswersInv => AnsweredAndRecorded
  <2> SUFFICES ASSUME AnswersInv PROVE SocketsClosedAtEnd
    BY DEF AnswersInv, ForwardInv, AnsweredAndRecorded
  <2> QED
    BY DEF AnswersInv, SocketsAreClosed, SocketsClosedAtEnd
<1> QED
  BY <1>1, <1>2, <1>3, PTL DEF Spec

(* Both sockets are closed when the worker ends, whatever the peers do. *)
THEOREM SocketsAreClosedAtTheEnd ==
    ASSUME ~SetupFails
    PROVE  Spec => []SocketsClosedAtEnd
<1>1. Init => SocketsAreClosed
  BY DEF Init, SocketsAreClosed, Sides, Threads
<1>2. IInv /\ SocketsAreClosed /\ [Next]_vars => SocketsAreClosed'
  BY SocketsAreClosedStep
<1>3. SocketsAreClosed => SocketsClosedAtEnd
  BY DEF SocketsAreClosed, SocketsClosedAtEnd
<1> QED
  BY <1>1, <1>2, <1>3, Invariance, PTL DEF Spec

=============================================================================
