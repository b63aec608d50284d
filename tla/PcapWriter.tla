------------------------------ MODULE PcapWriter ------------------------------
(***************************************************************************)
(* The pcap writer of mitm/pcap_worker.py: a daemon process reads the      *)
(* messages that the recorders of all connections put on one queue, cuts   *)
(* each payload into packets, and appends them to one capture file for     *)
(* each engine and day, with TCP numbers it makes up so that a reader of   *)
(* the capture can follow each connection.  The process may be killed      *)
(* between two packets, and the server may be started again the same day.  *)
(***************************************************************************)
EXTENDS Naturals, Sequences, FiniteSets

CONSTANTS PcapMessages,     \* the messages recorders get:
                            \*   [engine, action, client, server, len]
          MAX_CHUNK,        \* the longest payload of a packet
          SeqLimit,         \* 2^32: what the field of a number cannot hold
          MaxPcapMessages,  \* bound: messages put
          MaxPcapDays,      \* bound: days
          MaxPcapRuns       \* bound: starts of the process

ASSUME PcapAssumption ==
    /\ \A m \in PcapMessages : m.len \in Nat
    /\ MAX_CHUNK \in Nat \ {0} /\ SeqLimit \in Nat
    /\ MaxPcapMessages \in Nat /\ MaxPcapDays \in Nat \ {0} /\ MaxPcapRuns \in Nat \ {0}

PcapEngines == {m.engine : m \in PcapMessages}
PcapDays == 1 .. MaxPcapDays
PcapHeader == [header |-> TRUE]
StopSignal == [engine |-> "", source |-> "", dest |-> "", len |-> 0]

VARIABLES today,        \* the clock
          pcap_queue,   \* messages, and the stop signal, None
          pcap_files,   \* what each file holds: the header and the packets
          writers,      \* for each engine with a writer: [date, header_present]
          tcp_streams,  \* for each known connection, the next number of each end
          pcap_msg,     \* the message being written
          chunks,       \* the lengths of its chunks still to write
          pcap_worker,  \* "get", "write", "closed", "died" or "killed"
          packets,      \* history: all packets, in order
          placed,       \* history: where each was written, [file, position]
          run_start,    \* history: how many of them are of earlier runs
          puts, pcap_runs \* bounds

pcap_thread == <<pcap_files, writers, tcp_streams, pcap_msg, chunks, packets, placed>>
pcap_bounds == <<puts, pcap_runs, run_start>>
pcap_vars == <<today, pcap_queue, pcap_thread, pcap_worker, pcap_bounds>>

PcapInit ==
    /\ today = 1 /\ pcap_queue = <<>>
    /\ pcap_files = [f \in PcapEngines \X PcapDays |-> <<>>]
    /\ writers = <<>> /\ tcp_streams = <<>>
    /\ pcap_msg = StopSignal /\ chunks = <<>>
    /\ packets = <<>> /\ placed = <<>>
    /\ pcap_worker = "get"
    /\ puts = 0 /\ pcap_runs = 1 /\ run_start = 0

-----------------------------------------------------------------------------
(* The pcap half of save_message_worker: only what a socket received.      *)
pcap_message(m) ==
    [engine |-> m.engine, len |-> m.len,
     source |-> IF m.action = "client_receive" THEN m.client ELSE m.server,
     dest |-> IF m.action = "client_receive" THEN m.server ELSE m.client]

put_to_pcap(m) ==
    /\ puts < MaxPcapMessages /\ puts' = puts + 1
    /\ pcap_queue' = IF m.action \in {"client_receive", "service_receive"}
                     THEN Append(pcap_queue, pcap_message(m)) ELSE pcap_queue
    /\ UNCHANGED <<today, pcap_thread, pcap_worker, pcap_runs, run_start>>

PcapMidnight ==
    /\ today < MaxPcapDays /\ today' = today + 1
    /\ UNCHANGED <<pcap_queue, pcap_thread, pcap_worker, pcap_bounds>>

(* exit_cleanup puts the stop signal; recorders may still put messages,    *)
(* and terminates the children soon after.                                 *)
StopPcap ==
    /\ ~ \E i \in DOMAIN pcap_queue : pcap_queue[i] = StopSignal
    /\ pcap_queue' = Append(pcap_queue, StopSignal)
    /\ UNCHANGED <<today, pcap_thread, pcap_worker, pcap_bounds>>

\* An interrupt (KeyboardInterrupt, caught) or a kill of the daemon process.
\* Every packet was flushed (writer.sync), and the rest of a message is lost.
KillPcap ==
    /\ pcap_worker \in {"get", "write"}
    /\ pcap_worker' = "killed"
    /\ UNCHANGED <<today, pcap_queue, pcap_thread, pcap_bounds>>

\* The whole server is started again: a new queue and a new process.
StartPcap ==
    /\ pcap_worker \in {"closed", "died", "killed"}
    /\ pcap_runs < MaxPcapRuns /\ pcap_runs' = pcap_runs + 1
    /\ pcap_worker' = "get" /\ pcap_queue' = <<>>
    /\ writers' = <<>> /\ tcp_streams' = <<>>
    /\ pcap_msg' = StopSignal /\ chunks' = <<>>
    /\ run_start' = Len(packets)
    /\ UNCHANGED <<today, pcap_files, packets, placed, puts>>

-----------------------------------------------------------------------------
(* The writer of a file that holds something appends to it; PcapNgWriter   *)
(* truncates any other, and writes the header before its first packet.     *)
Mutant_appends(file) == FALSE
appends(file) == file # <<>>

open_writer(e) ==
    LET append == appends(pcap_files[<<e, today>>])
        writer == [date |-> today, header_present |-> append] IN
    /\ writers' = [x \in DOMAIN writers \cup {e} |->
                      IF x = e THEN writer ELSE writers[x]]
    /\ pcap_files' = IF append THEN pcap_files
                     ELSE [pcap_files EXCEPT ![<<e, today>>] = <<>>]

Mutant_chunk_lengths(len) ==
    [i \in 1 .. len \div MAX_CHUNK + 1 |->
        IF i * MAX_CHUNK <= len THEN MAX_CHUNK ELSE len % MAX_CHUNK]
chunk_lengths(len) ==
    [i \in 1 .. ((len + MAX_CHUNK - 1) \div MAX_CHUNK) |->
        IF i * MAX_CHUNK <= len THEN MAX_CHUNK ELSE len % MAX_CHUNK]

ends(msg) == {msg.source, msg.dest}

take_message ==
    /\ pcap_worker = "get" /\ pcap_queue # <<>> /\ Head(pcap_queue) # StopSignal
    /\ LET msg == Head(pcap_queue)
           e == msg.engine IN
       /\ pcap_queue' = Tail(pcap_queue)
       /\ pcap_msg' = msg
       /\ IF e \in DOMAIN writers /\ writers[e].date = today
          THEN UNCHANGED <<writers, pcap_files>> ELSE open_writer(e)
       /\ chunks' = chunk_lengths(msg.len)
       /\ tcp_streams' =
            IF ends(msg) \in DOMAIN tcp_streams THEN tcp_streams
            ELSE [c \in DOMAIN tcp_streams \cup {ends(msg)} |->
                    IF c = ends(msg) THEN [end \in c |-> 1] ELSE tcp_streams[c]]
    /\ pcap_worker' = IF chunks' = <<>> THEN "get" ELSE "write"
    /\ UNCHANGED <<today, packets, placed, pcap_bounds>>

(* One packet.  A number that does not fit in the field is an error of     *)
(* struct that nothing catches: the process ends.                          *)
Mutant_after_chunk(stream, source, length) == [stream EXCEPT ![source] = @ + 1]
after_chunk(stream, source, length) == [stream EXCEPT ![source] = @ + length]

write_chunk ==
    /\ pcap_worker = "write"
    /\ LET e == pcap_msg.engine
           stream == tcp_streams[ends(pcap_msg)]
           packet == [engine |-> e,
                      source |-> pcap_msg.source, dest |-> pcap_msg.dest,
                      seq |-> stream[pcap_msg.source],
                      ack |-> stream[pcap_msg.dest], len |-> Head(chunks)]
           header == IF writers[e].header_present THEN <<>> ELSE <<PcapHeader>>
           f == <<e, writers[e].date>>
           file == pcap_files[f] \o header \o <<packet>> IN
       IF packet.seq >= SeqLimit \/ packet.ack >= SeqLimit
       THEN /\ pcap_worker' = "died"
            /\ UNCHANGED pcap_thread
       ELSE /\ pcap_files' = [pcap_files EXCEPT ![f] = file]
            /\ writers' = [writers EXCEPT ![e].header_present = TRUE]
            /\ packets' = Append(packets, packet)
            /\ placed' = Append(placed, [file |-> f, position |-> Len(file)])
            /\ tcp_streams' = [tcp_streams EXCEPT ![ends(pcap_msg)] =
                  after_chunk(stream, pcap_msg.source, Head(chunks))]
            /\ chunks' = Tail(chunks)
            /\ pcap_worker' = IF Len(chunks) = 1 THEN "get" ELSE "write"
            /\ UNCHANGED pcap_msg
    /\ UNCHANGED <<today, pcap_queue, pcap_bounds>>

close_writers ==
    /\ pcap_worker = "get" /\ pcap_queue # <<>> /\ Head(pcap_queue) = StopSignal
    /\ pcap_queue' = Tail(pcap_queue)
    /\ pcap_worker' = "closed"
    /\ UNCHANGED <<today, pcap_thread, pcap_bounds>>

PcapWriterProcess == take_message \/ write_chunk \/ close_writers

PcapNext ==
    \/ \E m \in PcapMessages : put_to_pcap(m)
    \/ PcapMidnight \/ StopPcap \/ KillPcap \/ StartPcap
    \/ PcapWriterProcess

-----------------------------------------------------------------------------
Endpoints == {m.client : m \in PcapMessages} \cup {m.server : m \in PcapMessages}
PcapPacket == [engine : PcapEngines, source : Endpoints, dest : Endpoints,
               seq : 1 .. SeqLimit - 1, ack : 1 .. SeqLimit - 1,
               len : 1 .. MAX_CHUNK]

(* The types of the pcap writer. *)
PcapTypeOK ==
    /\ today \in PcapDays
    /\ \A f \in DOMAIN pcap_files : \A i \in DOMAIN pcap_files[f] :
         IF i = 1 THEN pcap_files[f][i] = PcapHeader ELSE pcap_files[f][i] \in PcapPacket
    /\ \A e \in DOMAIN writers : 
         e \in PcapEngines /\ writers[e] \in [date : PcapDays, header_present : BOOLEAN]
    /\ \A c \in DOMAIN tcp_streams : \A end \in c : tcp_streams[c][end] \in Nat \ {0}
    /\ \A i \in DOMAIN packets : packets[i] \in PcapPacket
    /\ \A i \in DOMAIN chunks : chunks[i] \in 1 .. MAX_CHUNK
    /\ pcap_worker \in {"get", "write", "closed", "died", "killed"}
    /\ run_start \in 0 .. Len(packets)
    /\ puts \in 0 .. MaxPcapMessages /\ pcap_runs \in 1 .. MaxPcapRuns

(* The number that an end of a connection goes on with after a packet.     *)
number_after(p, end) == IF p.source = end THEN p.seq + p.len ELSE p.ack

\* The packets of this run on the connection c, before the n-th packet.
of_connection(c, n) == {i \in run_start + 1 .. n - 1 : ends(packets[i]) = c}

(* A connection's first packet of a run has the numbers 1, and every other *)
(* one goes on where the last one, of either end, left off.                *)
goes_on(i) ==
    LET p == packets[i]
        earlier == of_connection(ends(p), i) IN
    /\ earlier = {} => p.seq = 1 /\ p.ack = 1
    /\ \A j \in earlier :
         (\A k \in earlier : k <= j) =>
            /\ p.seq = number_after(packets[j], p.source)
            /\ p.ack = number_after(packets[j], p.dest)
NumbersGoOn == \A i \in run_start + 1 .. Len(packets) : goes_on(i)

\* A place in the files of an engine comes before another one.
comes_before(a, b) ==
    a.file[2] < b.file[2] \/ (a.file = b.file /\ a.position < b.position)

(* The files of an engine hold its packets and a header each, every packet *)
(* once and, day after day, in the order in which they were written.       *)
PacketsAreInFiles ==
    /\ \A f \in DOMAIN pcap_files : \A k \in DOMAIN pcap_files[f] :
         /\ (pcap_files[f][k] = PcapHeader) <=> (k = 1)
         /\ k > 1 => \E i \in DOMAIN placed : placed[i] = [file |-> f, position |-> k]
    /\ \A i \in DOMAIN packets :
         LET at == placed[i] IN
         /\ at.file[1] = packets[i].engine
         /\ at.file \in DOMAIN pcap_files /\ at.position \in DOMAIN pcap_files[at.file]
         /\ pcap_files[at.file][at.position] = packets[i]
    /\ \A i, j \in DOMAIN packets :
         i < j /\ packets[i].engine = packets[j].engine => comes_before(placed[i], placed[j])

(* A capture can be followed, whatever the interleaving of connections,    *)
(* the midnights and the restarts: the number of a packet says how many    *)
(* bytes its sender sent before, and its acknowledgement how many came the *)
(* other way; and no packet written is missing from the engine's files, or *)
(* there twice or out of order, however often a file was opened again      *)
(* ("Per-connection TCP sequence tracking so Wireshark sees coherent       *)
(* streams").                                                              *)
PcapStreamsAreCoherent == NumbersGoOn /\ PacketsAreInFiles
=============================================================================
