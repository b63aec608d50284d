---------------------------- MODULE StorageProofs ----------------------------
(***************************************************************************)
(* Theorems about the components of MCStorage, for every value of their    *)
(* constants: that what is logged is kept once, whole and in order, by the *)
(* rotating file, its reader and the queue of create_logger, that the      *)
(* packets of a connection make one stream of each side, that no file is   *)
(* lost by a call that does not say so, that the statistics add up, and    *)
(* that an update of a TOML file changes what it is given and no more.     *)
(***************************************************************************)
EXTENDS MCStorage, ReportProofs

-----------------------------------------------------------------------------
(* The pcap files. *)

PcapMsgs == {pcap_message(m) : m \in PcapMessages}
PcapFileNames == PcapEngines \X PcapDays
PcapFile == Seq(PcapPacket \cup {PcapHeader})
Placements == [file : PcapFileNames, position : Nat]

PcapTypes ==
    /\ today \in PcapDays
    /\ pcap_queue \in Seq(PcapMsgs \cup {StopSignal})
    /\ pcap_files \in [PcapFileNames -> PcapFile]
    /\ DOMAIN writers \subseteq PcapEngines
    /\ \A e \in DOMAIN writers : writers[e] \in [date : PcapDays, header_present : BOOLEAN]
    /\ \A c \in DOMAIN tcp_streams : tcp_streams[c] \in [c -> Nat \ {0}]
    /\ chunks \in Seq(1 .. MAX_CHUNK)
    /\ pcap_worker \in {"get", "write", "closed", "died", "killed"}
    /\ packets \in Seq(PcapPacket) /\ placed \in Seq(Placements)
    /\ Len(placed) = Len(packets)
    /\ run_start \in 0 .. Len(packets)
    /\ puts \in 0 .. MaxPcapMessages /\ pcap_runs \in 1 .. MaxPcapRuns

(* What the worker writes to is open. *)
WritesToOpenFile ==
    pcap_worker = "write" =>
        /\ pcap_msg \in PcapMsgs /\ chunks # <<>>
        /\ pcap_msg.engine \in DOMAIN writers /\ ends(pcap_msg) \in DOMAIN tcp_streams

FilesHaveHeaders ==
    /\ \A f \in PcapFileNames : \A k \in DOMAIN pcap_files[f] :
         /\ (pcap_files[f][k] = PcapHeader) <=> (k = 1)
         /\ k > 1 => \E i \in DOMAIN placed : placed[i] = [file |-> f, position |-> k]
    /\ \A e \in DOMAIN writers :
         writers[e].header_present <=> pcap_files[<<e, writers[e].date>>] # <<>>

PacketsHavePlaces ==
    \A i \in DOMAIN packets :
        /\ placed[i].file[1] = packets[i].engine
        /\ placed[i].position \in DOMAIN pcap_files[placed[i].file]
        /\ pcap_files[placed[i].file][placed[i].position] = packets[i]

PlacesAreInOrder ==
    /\ \A i, j \in DOMAIN packets :
         i < j /\ packets[i].engine = packets[j].engine => comes_before(placed[i], placed[j])
    /\ \A i \in DOMAIN packets : placed[i].file[2] <= today
    /\ \A e \in DOMAIN writers :
         /\ writers[e].date <= today
         /\ \A i \in DOMAIN packets :
              packets[i].engine = e => placed[i].file[2] <= writers[e].date

(* The next numbers of a connection are those after its last packet. *)
NextNumbers(c, end) ==
    LET earlier == of_connection(c, Len(packets) + 1) IN
    /\ earlier = {} => tcp_streams[c][end] = 1
    /\ \A j \in earlier :
         (\A k \in earlier : k <= j) => tcp_streams[c][end] = number_after(packets[j], end)
StreamsFollow ==
    /\ \A c \in DOMAIN tcp_streams : \A end \in c : NextNumbers(c, end)
    /\ \A i \in run_start + 1 .. Len(packets) : ends(packets[i]) \in DOMAIN tcp_streams

PcapIInv ==
    /\ PcapTypes /\ WritesToOpenFile /\ FilesHaveHeaders /\ PacketsHavePlaces
    /\ PlacesAreInOrder /\ StreamsFollow /\ NumbersGoOn
-----------------------------------------------------------------------------
LEMMA ChunksAreSmall ==
    ASSUME NEW len \in Nat
    PROVE  chunk_lengths(len) \in Seq(1 .. MAX_CHUNK)
<1> DEFINE n == (len + MAX_CHUNK - 1) \div MAX_CHUNK
<1>1. MAX_CHUNK \in Nat /\ MAX_CHUNK >= 1
  BY PcapAssumption
<1>2. n \in Nat
  BY <1>1
<1>3. ASSUME NEW i \in 1 .. n, ~(i * MAX_CHUNK <= len) PROVE len % MAX_CHUNK \in 1 .. MAX_CHUNK
  <2>1. n * MAX_CHUNK <= len + MAX_CHUNK - 1
    BY <1>1
  <2>2. (i - 1) * MAX_CHUNK < len
    BY <1>1, <1>2, <2>1
  <2>3. len = MAX_CHUNK * (len \div MAX_CHUNK) + (len % MAX_CHUNK) /\ len % MAX_CHUNK \in 0 .. MAX_CHUNK - 1
    BY <1>1
  <2>4. len \div MAX_CHUNK \in Nat
    BY <1>1
  <2>5. ASSUME len % MAX_CHUNK = 0 PROVE FALSE
    <3> DEFINE q == len \div MAX_CHUNK
    <3>1. len = MAX_CHUNK * q /\ q \in Nat
      BY <1>1, <2>3, <2>4, <2>5
    <3> HIDE DEF q
    <3>2. i \in Nat /\ i * MAX_CHUNK > MAX_CHUNK * q
      BY <1>1, <1>2, <1>3, <3>1
    <3>3. i > q
      BY <1>1, <3>1, <3>2
    <3>4. i - 1 >= q /\ (i - 1) * MAX_CHUNK >= q * MAX_CHUNK
      BY <1>1, <3>1, <3>2, <3>3
    <3> QED
      BY <1>1, <2>2, <3>1, <3>2, <3>4
  <2> QED
    BY <1>1, <2>3, <2>5
<1>4. \A i \in 1 .. n : (IF i * MAX_CHUNK <= len THEN MAX_CHUNK ELSE len % MAX_CHUNK)
                          \in 1 .. MAX_CHUNK
  BY <1>1, <1>3
<1>5. [i \in 1 .. n |-> IF i * MAX_CHUNK <= len THEN MAX_CHUNK ELSE len % MAX_CHUNK]
        \in [1 .. n -> 1 .. MAX_CHUNK]
  BY <1>4
<1> HIDE DEF n
<1>6. chunk_lengths(len) \in [1 .. n -> 1 .. MAX_CHUNK]
  BY <1>5 DEF chunk_lengths, n
<1> QED
  BY <1>2, <1>6, SeqDef

LEMMA MessagesHaveFields ==
    ASSUME NEW msg \in PcapMsgs
    PROVE  /\ msg.engine \in PcapEngines /\ msg.len \in Nat
           /\ msg.source \in Endpoints /\ msg.dest \in Endpoints
<1>1. PICK m \in PcapMessages : msg = pcap_message(m)
  BY DEF PcapMsgs
<1>2. m.engine \in PcapEngines /\ m.client \in Endpoints /\ m.server \in Endpoints /\ m.len \in Nat
  BY PcapAssumption DEF PcapEngines, Endpoints
<1> QED
  BY <1>1, <1>2 DEF pcap_message

LEMMA PacketsAreNoHeaders == ASSUME NEW p \in PcapPacket PROVE p # PcapHeader
<1>1. DOMAIN p = {"engine", "source", "dest", "seq", "ack", "len"}
  BY DEF PcapPacket
<1>2. DOMAIN PcapHeader = {"header"}
  BY DEF PcapHeader
<1> QED
  BY <1>1, <1>2

LEMMA PcapInitially == PcapInit => PcapIInv
<1> SUFFICES ASSUME PcapInit PROVE PcapIInv
  OBVIOUS
<1> USE DEF PcapInit
<1>1. PcapTypes
  <2>1. <<>> \in Seq(PcapMsgs \cup {StopSignal}) /\ <<>> \in PcapFile /\ <<>> \in Seq(1 .. MAX_CHUNK)
        /\ <<>> \in Seq(PcapPacket) /\ <<>> \in Seq(Placements) /\ Len(packets) = 0
        /\ Len(placed) = 0
    BY DEF PcapFile
  <2>2. DOMAIN writers = {} /\ DOMAIN tcp_streams = {}
    OBVIOUS
  <2>3. today \in PcapDays /\ puts \in 0 .. MaxPcapMessages /\ pcap_runs \in 1 .. MaxPcapRuns
    BY PcapAssumption DEF PcapDays
  <2>4. pcap_files \in [PcapFileNames -> PcapFile]
    BY <2>1 DEF PcapFileNames
  <2> QED
    BY <2>1, <2>2, <2>3, <2>4 DEF PcapTypes
<1>2. FilesHaveHeaders
  <2>1. \A f \in PcapFileNames : pcap_files[f] = <<>>
    BY DEF PcapFileNames
  <2> QED
    BY <2>1 DEF FilesHaveHeaders
<1>3. DOMAIN packets = {} /\ Len(packets) = 0 /\ run_start = 0
  OBVIOUS
<1> QED
  BY <1>1, <1>2, <1>3 DEF PcapIInv, WritesToOpenFile, PacketsHavePlaces, PlacesAreInOrder,
     StreamsFollow, NextNumbers, NumbersGoOn

(* What is there is right whatever comes to the queue, and whatever the    *)
(* clock and the worker's place are.                                       *)
LEMMA PcapFrame ==
    ASSUME PcapIInv, UNCHANGED <<pcap_thread, run_start>>, today' \in PcapDays, today' >= today,
           pcap_worker' = "write" => pcap_worker = "write"
    PROVE  /\ WritesToOpenFile' /\ FilesHaveHeaders' /\ PacketsHavePlaces'
           /\ PlacesAreInOrder' /\ StreamsFollow' /\ NumbersGoOn'
<1> USE DEF pcap_thread
<1>1. WritesToOpenFile'
  BY DEF PcapIInv, WritesToOpenFile
<1>2. FilesHaveHeaders' /\ PacketsHavePlaces'
  BY DEF PcapIInv, FilesHaveHeaders, PacketsHavePlaces
<1>3. StreamsFollow'
  BY DEF PcapIInv, StreamsFollow, NextNumbers, of_connection
<1>4. NumbersGoOn'
  BY DEF PcapIInv, NumbersGoOn, goes_on, of_connection
<1>5. PlacesAreInOrder'
  <2>1. today \in Nat /\ today' \in Nat
    BY DEF PcapIInv, PcapTypes, PcapDays
  <2>2. ASSUME NEW i \in DOMAIN packets PROVE placed[i].file[2] <= today'
    <3>1. placed[i].file[2] <= today /\ placed[i] \in Placements
      BY DEF PcapIInv, PlacesAreInOrder, PcapTypes
    <3>2. placed[i].file[2] \in Nat
      BY <3>1 DEF Placements, PcapFileNames, PcapDays
    <3> QED
      BY <2>1, <3>1, <3>2
  <2>3. ASSUME NEW e \in DOMAIN writers PROVE writers[e].date <= today'
    <3>1. writers[e].date <= today /\ writers[e].date \in Nat
      BY DEF PcapIInv, PlacesAreInOrder, PcapTypes, PcapDays
    <3> QED
      BY <2>1, <3>1
  <2> QED
    BY <2>2, <2>3 DEF PcapIInv, PlacesAreInOrder
<1> QED
  BY <1>1, <1>2, <1>3, <1>4, <1>5

LEMMA PcapSurroundings ==
    ASSUME PcapIInv,
           (\E m \in PcapMessages : put_to_pcap(m)) \/ PcapMidnight \/ StopPcap \/ KillPcap
             \/ close_writers
    PROVE  PcapIInv'
<1> USE DEF pcap_bounds
<1>1. UNCHANGED <<pcap_thread, run_start>> /\ (pcap_worker' = "write" => pcap_worker = "write")
  BY DEF put_to_pcap, PcapMidnight, StopPcap, KillPcap, close_writers
<1>2. today' \in PcapDays /\ today' >= today
  BY PcapAssumption DEF put_to_pcap, PcapMidnight, StopPcap, KillPcap, close_writers, PcapIInv,
     PcapTypes, PcapDays
<1>3. puts' \in 0 .. MaxPcapMessages /\ pcap_runs' \in 1 .. MaxPcapRuns
  BY PcapAssumption DEF put_to_pcap, PcapMidnight, StopPcap, KillPcap, close_writers, PcapIInv,
     PcapTypes
<1>4. pcap_worker' \in {"get", "write", "closed", "died", "killed"}
  BY DEF put_to_pcap, PcapMidnight, StopPcap, KillPcap, close_writers, PcapIInv, PcapTypes
<1>5. pcap_queue' \in Seq(PcapMsgs \cup {StopSignal})
  <2>1. pcap_queue \in Seq(PcapMsgs \cup {StopSignal})
    BY DEF PcapIInv, PcapTypes
  <2>2. \A m \in PcapMessages : pcap_message(m) \in PcapMsgs
    BY DEF PcapMsgs
  <2>3. CASE \E m \in PcapMessages : put_to_pcap(m)
    BY <2>1, <2>2, <2>3 DEF put_to_pcap
  <2>4. CASE PcapMidnight \/ KillPcap
    BY <2>1, <2>4 DEF PcapMidnight, KillPcap
  <2>5. CASE StopPcap
    BY <2>1, <2>5 DEF StopPcap
  <2>6. CASE close_writers
    BY <2>1, <2>6 DEF close_writers
  <2> QED
    BY <2>3, <2>4, <2>5, <2>6
<1>6. PcapTypes'
  BY <1>1, <1>2, <1>3, <1>4, <1>5 DEF PcapIInv, PcapTypes, pcap_thread
<1> QED
  BY <1>1, <1>2, <1>6, PcapFrame DEF PcapIInv

LEMMA PcapStarts == ASSUME PcapIInv, StartPcap PROVE PcapIInv'
<1> USE DEF StartPcap
<1>1. DOMAIN writers' = {} /\ DOMAIN tcp_streams' = {}
  OBVIOUS
<1>2. PcapTypes'
  <2>1. <<>> \in Seq(PcapMsgs \cup {StopSignal}) /\ <<>> \in Seq(1 .. MAX_CHUNK)
    OBVIOUS
  <2>2. run_start' \in 0 .. Len(packets') /\ Len(packets) \in Nat
    BY DEF PcapIInv, PcapTypes
  <2>3. pcap_runs' \in 1 .. MaxPcapRuns
    BY PcapAssumption DEF PcapIInv, PcapTypes
  <2> QED
    BY <1>1, <2>1, <2>2, <2>3 DEF PcapIInv, PcapTypes
<1>3. run_start' + 1 .. Len(packets') = {}
  BY DEF PcapIInv, PcapTypes
<1>4. StreamsFollow' /\ NumbersGoOn'
  BY <1>1, <1>3 DEF StreamsFollow, NumbersGoOn
<1>5. FilesHaveHeaders' /\ PacketsHavePlaces' /\ PlacesAreInOrder'
  BY <1>1 DEF PcapIInv, FilesHaveHeaders, PacketsHavePlaces, PlacesAreInOrder
<1> QED
  BY <1>2, <1>4, <1>5 DEF PcapIInv, WritesToOpenFile

LEMMA PcapOpens ==
    ASSUME PcapIInv, NEW e \in PcapEngines, open_writer(e), UNCHANGED <<placed, packets, today>>
    PROVE  /\ pcap_files' \in [PcapFileNames -> PcapFile]
           /\ DOMAIN writers' = DOMAIN writers \cup {e}
           /\ \A x \in DOMAIN writers' : writers'[x] \in [date : PcapDays, header_present : BOOLEAN]
           /\ FilesHaveHeaders' /\ PacketsHavePlaces' /\ PlacesAreInOrder'
<1> DEFINE f == <<e, today>>
<1> DEFINE writer == [date |-> today, header_present |-> appends(pcap_files[f])]
<1>1. f \in PcapFileNames /\ today \in PcapDays
  BY DEF PcapIInv, PcapTypes, PcapFileNames
<1>2. pcap_files \in [PcapFileNames -> PcapFile]
  BY DEF PcapIInv, PcapTypes
<1>3. pcap_files' = pcap_files
  <2>1. CASE appends(pcap_files[f])
    BY <2>1 DEF open_writer
  <2>2. CASE ~appends(pcap_files[f])
    <3>1. pcap_files[f] = <<>> /\ pcap_files' = [pcap_files EXCEPT ![f] = <<>>]
      BY <2>2 DEF open_writer, appends
    <3> QED
      BY <1>1, <1>2, <3>1
  <2> QED
    BY <2>1, <2>2
<1>4. /\ DOMAIN writers' = DOMAIN writers \cup {e} /\ writers'[e] = writer
      /\ \A x \in DOMAIN writers : x # e => writers'[x] = writers[x]
  BY DEF open_writer
<1>5. writer \in [date : PcapDays, header_present : BOOLEAN]
  BY <1>1 DEF appends
<1>6. writer.header_present <=> pcap_files[<<e, writer.date>>] # <<>>
  BY DEF appends
<1>7. writer.date = today
  OBVIOUS
<1> HIDE DEF writer
<1>8. \A x \in DOMAIN writers' : writers'[x] \in [date : PcapDays, header_present : BOOLEAN]
  BY <1>4, <1>5 DEF PcapIInv, PcapTypes
<1>9. FilesHaveHeaders'
  <2>1. \A x \in DOMAIN writers' :
           writers'[x].header_present <=> pcap_files[<<x, writers'[x].date>>] # <<>>
    BY <1>4, <1>6 DEF PcapIInv, FilesHaveHeaders
  <2> QED
    BY <1>3, <2>1 DEF PcapIInv, FilesHaveHeaders
<1>10. PlacesAreInOrder'
  <2>1. \A x \in DOMAIN writers' :
         /\ writers'[x].date <= today
         /\ \A i \in DOMAIN packets :
              packets[i].engine = x => placed[i].file[2] <= writers'[x].date
    <3>1. today <= today
      BY <1>1 DEF PcapDays
    <3> QED
      BY <1>4, <1>7, <3>1 DEF PcapIInv, PlacesAreInOrder
  <2> QED
    BY <2>1 DEF PcapIInv, PlacesAreInOrder
<1>11. PacketsHavePlaces'
  BY <1>3 DEF PcapIInv, PacketsHavePlaces
<1> QED
  BY <1>2, <1>3, <1>4, <1>8, <1>9, <1>10, <1>11

LEMMA PcapTakes == ASSUME PcapIInv, take_message PROVE PcapIInv'
<1> DEFINE msg == Head(pcap_queue)
           e == msg.engine
           c == ends(msg)
<1>1. /\ pcap_worker = "get" /\ pcap_queue # <<>> /\ msg # StopSignal
      /\ pcap_queue' = Tail(pcap_queue) /\ pcap_msg' = msg
      /\ chunks' = chunk_lengths(msg.len)
      /\ pcap_worker' = IF chunks' = <<>> THEN "get" ELSE "write"
      /\ UNCHANGED <<today, packets, placed, puts, pcap_runs, run_start>>
  BY DEF take_message, pcap_bounds
<1>2. msg \in PcapMsgs /\ pcap_queue' \in Seq(PcapMsgs \cup {StopSignal})
  BY <1>1 DEF PcapIInv, PcapTypes
<1>3. e \in PcapEngines /\ msg.len \in Nat
  BY <1>2, MessagesHaveFields
<1>4. chunks' \in Seq(1 .. MAX_CHUNK)
  BY <1>1, <1>3, ChunksAreSmall
<1>5. \/ e \in DOMAIN writers /\ UNCHANGED <<writers, pcap_files>>
      \/ open_writer(e)
  BY DEF take_message
<1>6. tcp_streams' = IF c \in DOMAIN tcp_streams THEN tcp_streams
                     ELSE [x \in DOMAIN tcp_streams \cup {c} |->
                              IF x = c THEN [end \in x |-> 1] ELSE tcp_streams[x]]
  BY DEF take_message
<1> HIDE DEF msg, e, c
<1>7. /\ pcap_files' \in [PcapFileNames -> PcapFile]
      /\ e \in DOMAIN writers' /\ DOMAIN writers' \subseteq PcapEngines
      /\ \A x \in DOMAIN writers' : writers'[x] \in [date : PcapDays, header_present : BOOLEAN]
      /\ FilesHaveHeaders' /\ PacketsHavePlaces' /\ PlacesAreInOrder'
  <2>1. CASE e \in DOMAIN writers /\ UNCHANGED <<writers, pcap_files>>
    BY <1>1, <2>1 DEF PcapIInv, PcapTypes, FilesHaveHeaders, PacketsHavePlaces, PlacesAreInOrder
  <2>2. CASE open_writer(e)
    <3>1. DOMAIN writers \subseteq PcapEngines
      BY DEF PcapIInv, PcapTypes
    <3> QED
      BY <1>1, <1>3, <2>2, <3>1, PcapOpens
  <2> QED
    BY <1>5, <2>1, <2>2
<1>8. /\ DOMAIN tcp_streams' = DOMAIN tcp_streams \cup {c}
      /\ \A x \in DOMAIN tcp_streams : tcp_streams'[x] = tcp_streams[x]
      /\ c \notin DOMAIN tcp_streams => tcp_streams'[c] = [end \in c |-> 1]
  BY <1>6
<1>9. \A x \in DOMAIN tcp_streams' : tcp_streams'[x] \in [x -> Nat \ {0}]
  <2>1. [end \in c |-> 1] \in [c -> Nat \ {0}]
    OBVIOUS
  <2> QED
    BY <1>8, <2>1 DEF PcapIInv, PcapTypes
<1>10. PcapTypes'
  <2>1. pcap_worker' \in {"get", "write", "closed", "died", "killed"}
    BY <1>1
  <2> QED
    BY <1>1, <1>2, <1>4, <1>7, <1>9, <2>1 DEF PcapIInv, PcapTypes
<1>11. StreamsFollow'
  <2>1. ASSUME NEW x \in DOMAIN tcp_streams', NEW end \in x PROVE NextNumbers(x, end)'
    <3>1. CASE x \in DOMAIN tcp_streams
      BY <1>1, <1>8, <3>1 DEF PcapIInv, StreamsFollow, NextNumbers, of_connection
    <3>2. CASE x \notin DOMAIN tcp_streams
      <4>1. x = c /\ tcp_streams'[x][end] = 1
        BY <1>8, <3>2
      <4>2. of_connection(x, Len(packets) + 1)' = {}
        <5>1. \A i \in run_start + 1 .. Len(packets) : ends(packets[i]) # x
          BY <3>2 DEF PcapIInv, StreamsFollow
        <5>2. Len(packets) + 1 - 1 = Len(packets)
          BY DEF PcapIInv, PcapTypes
        <5> QED
          BY <1>1, <5>1, <5>2 DEF of_connection
      <4> QED
        BY <4>1, <4>2 DEF NextNumbers
    <3> QED
      BY <3>1, <3>2
  <2>2. \A i \in run_start + 1 .. Len(packets) : ends(packets[i]) \in DOMAIN tcp_streams'
    BY <1>8 DEF PcapIInv, StreamsFollow
  <2> QED
    BY <1>1, <2>1, <2>2 DEF StreamsFollow
<1>12. NumbersGoOn'
  BY <1>1 DEF PcapIInv, NumbersGoOn, goes_on, of_connection
<1>13. WritesToOpenFile'
  <2>1. c = ends(pcap_msg') /\ e = pcap_msg'.engine
    BY <1>1 DEF c, e
  <2> QED
    BY <1>1, <1>2, <1>7, <1>8, <2>1 DEF WritesToOpenFile
<1> QED
  BY <1>7, <1>10, <1>11, <1>12, <1>13 DEF PcapIInv

(* What a file holds after one more packet. *)
Headed(file) == \A k \in DOMAIN file : (file[k] = PcapHeader) <=> (k = 1)
Grown(file, packet) ==
    file \o (IF file # <<>> THEN <<>> ELSE <<PcapHeader>>) \o <<packet>>
LEMMA PcapFileGrows ==
    ASSUME NEW old \in PcapFile, NEW packet \in PcapPacket, Headed(old)
    PROVE  LET file == Grown(old, packet) IN
           /\ file \in PcapFile /\ Len(file) \in Nat /\ Len(file) > 1
           /\ DOMAIN file = 1 .. Len(file) /\ DOMAIN old \subseteq 1 .. Len(file) - 1
           /\ \A k \in DOMAIN old : file[k] = old[k]
           /\ \A k \in 2 .. Len(file) - 1 : k \in DOMAIN old
           /\ file[Len(file)] = packet /\ Headed(file)
<1> DEFINE Entries == PcapPacket \cup {PcapHeader}
           begins == old \o (IF old # <<>> THEN <<>> ELSE <<PcapHeader>>)
           file == Grown(old, packet)
<1>1. packet # PcapHeader
  BY PacketsAreNoHeaders
<1>2. old \in Seq(Entries) /\ <<PcapHeader>> \in Seq(Entries) /\ packet \in Entries
  BY DEF PcapFile
<1>3. begins = IF old # <<>> THEN old ELSE <<PcapHeader>>
  BY <1>2, ConcatEmptySeq
<1>4. begins \in Seq(Entries) /\ file = begins \o <<packet>>
  BY <1>2, <1>3 DEF Grown
<1> HIDE DEF Entries, file
<1>5. /\ Len(begins) \in Nat /\ Len(begins) > 0 /\ DOMAIN begins = 1 .. Len(begins)
      /\ Headed(begins)
      /\ \A k \in DOMAIN old : k \in DOMAIN begins /\ begins[k] = old[k]
      /\ \A k \in DOMAIN begins : k > 1 => k \in DOMAIN old
  <2>1. CASE old = <<>>
    BY <1>3, <2>1 DEF Headed
  <2>2. CASE old # <<>>
    BY <1>2, <1>3, <2>2, EmptySeq, LenProperties DEF Headed
  <2> QED
    BY <2>1, <2>2
<1> HIDE DEF begins
<1>6. file = Append(begins, packet)
  BY <1>2, <1>4, AppendIsConcat
<1>7. /\ file \in Seq(Entries) /\ Len(file) = Len(begins) + 1
      /\ \A k \in 1 .. Len(begins) : file[k] = begins[k]
      /\ file[Len(begins) + 1] = packet
  <2>1. begins \in Seq(Entries) /\ packet \in Entries
    BY <1>2, <1>4
  <2> QED
    BY <1>6, <2>1, AppendProperties
<1>8. file \in PcapFile /\ DOMAIN file = 1 .. Len(file)
  BY <1>7, LenProperties DEF PcapFile, Entries
<1>9. Headed(file)
  BY <1>1, <1>5, <1>7, <1>8 DEF Headed
<1> QED
  BY <1>5, <1>7, <1>8, <1>9 DEF file

LEMMA PcapWrites == ASSUME PcapIInv, write_chunk PROVE PcapIInv'
<1> DEFINE e == pcap_msg.engine
           c == ends(pcap_msg)
           flow == tcp_streams[c]
           packet == [engine |-> e, source |-> pcap_msg.source, dest |-> pcap_msg.dest,
                      seq |-> flow[pcap_msg.source], ack |-> flow[pcap_msg.dest],
                      len |-> Head(chunks)]
           f == <<e, writers[e].date>>
           header == IF writers[e].header_present THEN <<>> ELSE <<PcapHeader>>
           file == pcap_files[f] \o header \o <<packet>>
           n == Len(packets)
<1>0. /\ pcap_worker = "write" /\ UNCHANGED <<today, pcap_queue, puts, pcap_runs, run_start>>
  BY DEF write_chunk, pcap_bounds
<1>1. CASE packet.seq >= SeqLimit \/ packet.ack >= SeqLimit
  <2>1. pcap_worker' = "died" /\ UNCHANGED pcap_thread
    BY <1>1 DEF write_chunk
  <2>2. today' \in PcapDays /\ today' >= today
    BY <1>0 DEF PcapIInv, PcapTypes, PcapDays
  <2>3. PcapTypes'
    BY <1>0, <2>1, <2>2 DEF PcapIInv, PcapTypes, pcap_thread
  <2> QED
    BY <1>0, <2>1, <2>2, <2>3, PcapFrame DEF PcapIInv
<1>2. CASE ~(packet.seq >= SeqLimit \/ packet.ack >= SeqLimit)
  <2>1. /\ pcap_files' = [pcap_files EXCEPT ![f] = file]
        /\ writers' = [writers EXCEPT ![e].header_present = TRUE]
        /\ packets' = Append(packets, packet)
        /\ placed' = Append(placed, [file |-> f, position |-> Len(file)])
        /\ tcp_streams' = [tcp_streams EXCEPT ![c] =
                              after_chunk(flow, pcap_msg.source, Head(chunks))]
        /\ chunks' = Tail(chunks)
        /\ pcap_worker' = IF Len(chunks) = 1 THEN "get" ELSE "write"
        /\ UNCHANGED pcap_msg
    BY <1>2 DEF write_chunk
  <2>2. /\ pcap_msg \in PcapMsgs /\ chunks # <<>> /\ e \in DOMAIN writers
        /\ c \in DOMAIN tcp_streams /\ e \in PcapEngines
        /\ writers[e] \in [date : PcapDays, header_present : BOOLEAN]
        /\ flow \in [c -> Nat \ {0}] /\ chunks \in Seq(1 .. MAX_CHUNK)
    BY <1>0 DEF PcapIInv, WritesToOpenFile, PcapTypes
  <2>3. pcap_msg.source \in c /\ pcap_msg.dest \in c /\ c = {pcap_msg.source, pcap_msg.dest}
        /\ pcap_msg.source \in Endpoints /\ pcap_msg.dest \in Endpoints
    BY <2>2, MessagesHaveFields DEF ends
  <2>4. packet \in PcapPacket
    <3>1. Head(chunks) \in 1 .. MAX_CHUNK
      BY <2>2, HeadTailProperties
    <3>2. flow[pcap_msg.source] \in 1 .. SeqLimit - 1 /\ flow[pcap_msg.dest] \in 1 .. SeqLimit - 1
      BY <1>2, <2>2, <2>3, PcapAssumption
    <3> QED
      BY <2>2, <2>3, <3>1, <3>2 DEF PcapPacket
  <2>5. f \in PcapFileNames /\ pcap_files[f] \in PcapFile
    BY <2>2 DEF PcapIInv, PcapTypes, PcapFileNames
  <2>6. file = Grown(pcap_files[f], packet)
    BY <2>2 DEF PcapIInv, FilesHaveHeaders, Grown
  <2>7. Headed(pcap_files[f])
    BY <2>5 DEF PcapIInv, FilesHaveHeaders, Headed
  <2>8. packet.engine = e /\ ends(packet) = c /\ packet.source = pcap_msg.source
        /\ packet.dest = pcap_msg.dest /\ packet.seq = flow[pcap_msg.source]
        /\ packet.ack = flow[pcap_msg.dest] /\ packet.len = Head(chunks)
    BY DEF ends
  <2>9. f[1] = e /\ f[2] = writers[e].date
    OBVIOUS
  <2> HIDE DEF packet, header, file, f
  <2>10. /\ file \in PcapFile /\ Len(file) \in Nat /\ Len(file) > 1
         /\ DOMAIN file = 1 .. Len(file) /\ DOMAIN pcap_files[f] \subseteq 1 .. Len(file) - 1
         /\ \A k \in DOMAIN pcap_files[f] : file[k] = pcap_files[f][k]
         /\ \A k \in 2 .. Len(file) - 1 : k \in DOMAIN pcap_files[f]
         /\ file[Len(file)] = packet
         /\ \A k \in DOMAIN file : (file[k] = PcapHeader) <=> (k = 1)
    BY <2>4, <2>5, <2>6, <2>7, PcapFileGrows DEF Headed
  <2> DEFINE place == [file |-> f, position |-> Len(file)]
  <2>11. place \in Placements /\ place.file = f /\ place.position = Len(file)
    BY <2>5, <2>10 DEF Placements
  <2>12. /\ packets \in Seq(PcapPacket) /\ placed \in Seq(Placements) /\ Len(placed) = n
         /\ n \in Nat /\ DOMAIN packets = 1 .. n /\ DOMAIN placed = 1 .. n
    BY DEF PcapIInv, PcapTypes
  <2> HIDE DEF place
  <2>13. /\ packets' \in Seq(PcapPacket) /\ Len(packets') = n + 1
         /\ DOMAIN packets' = 1 .. n + 1 /\ packets'[n + 1] = packet
         /\ \A i \in 1 .. n : packets'[i] = packets[i]
    BY <2>1, <2>4, <2>12
  <2>14. placed' = Append(placed, place)
    BY <2>1 DEF place
  <2>15. /\ placed' \in Seq(Placements) /\ Len(placed') = n + 1
         /\ DOMAIN placed' = 1 .. n + 1 /\ placed'[n + 1] = place
         /\ \A i \in 1 .. n : placed'[i] = placed[i]
    BY <2>11, <2>12, <2>14
  <2>16. /\ pcap_files' \in [PcapFileNames -> PcapFile] /\ pcap_files'[f] = file
         /\ \A g \in PcapFileNames : g # f => pcap_files'[g] = pcap_files[g]
    BY <2>1, <2>5, <2>10 DEF PcapIInv, PcapTypes
  <2>17. /\ DOMAIN writers' = DOMAIN writers
         /\ \A x \in DOMAIN writers : /\ writers'[x] \in [date : PcapDays, header_present : BOOLEAN]
                                      /\ writers'[x].date = writers[x].date
                                      /\ x # e => writers'[x] = writers[x]
         /\ writers'[e].header_present = TRUE
    BY <2>1, <2>2 DEF PcapIInv, PcapTypes
  <2>18. /\ DOMAIN tcp_streams' = DOMAIN tcp_streams
         /\ \A x \in DOMAIN tcp_streams : x # c => tcp_streams'[x] = tcp_streams[x]
         /\ tcp_streams'[c] = after_chunk(flow, pcap_msg.source, Head(chunks))
    BY <2>1, <2>2
  <2>19. \A end \in c : tcp_streams'[c][end] = number_after(packet, end)
    BY <2>2, <2>3, <2>8, <2>18 DEF after_chunk, number_after
  <2> HIDE DEF c, flow
  <2>20. PcapTypes'
    <3>1. chunks' \in Seq(1 .. MAX_CHUNK)
      BY <2>1, <2>2
    <3>2. pcap_worker' \in {"get", "write", "closed", "died", "killed"}
      BY <2>1
    <3>3. after_chunk(flow, pcap_msg.source, Head(chunks)) \in [c -> Nat \ {0}]
      <4>1. Head(chunks) \in Nat
        BY <2>2, PcapAssumption
      <4> QED
        BY <2>2, <2>3, <4>1 DEF after_chunk
    <3>4. \A x \in DOMAIN tcp_streams' : tcp_streams'[x] \in [x -> Nat \ {0}]
      BY <2>18, <3>3 DEF PcapIInv, PcapTypes
    <3>5. run_start' \in 0 .. Len(packets')
      BY <1>0, <2>12, <2>13 DEF PcapIInv, PcapTypes
    <3> QED
      BY <1>0, <2>13, <2>15, <2>16, <2>17, <3>1, <3>2, <3>4, <3>5 DEF PcapIInv, PcapTypes
  <2>21. WritesToOpenFile'
    <3>1. ASSUME pcap_worker' = "write" PROVE chunks' # <<>>
      <4>1. Len(chunks) # 1 /\ Len(chunks) \in Nat /\ Len(chunks) # 0
        BY <2>1, <2>2, <3>1, EmptySeq
      <4>2. Len(chunks') # 0
        BY <2>1, <2>2, <4>1, HeadTailProperties
      <4> QED
        BY <4>2, EmptySeq
    <3> QED
      BY <2>1, <2>2, <2>17, <2>18, <3>1 DEF WritesToOpenFile, c
  <2>22. FilesHaveHeaders'
    <3>1. ASSUME NEW g \in PcapFileNames, NEW k \in DOMAIN pcap_files'[g]
          PROVE  /\ (pcap_files'[g][k] = PcapHeader) <=> (k = 1)
                 /\ k > 1 => \E i \in DOMAIN placed' : placed'[i] = [file |-> g, position |-> k]
      <4>1. CASE g # f
        BY <2>12, <2>15, <2>16, <4>1 DEF PcapIInv, FilesHaveHeaders
      <4>2. CASE g = f /\ k = Len(file)
        <5>1. placed'[n + 1] = [file |-> g, position |-> k] /\ n + 1 \in DOMAIN placed'
          BY <2>12, <2>15, <4>2 DEF place
        <5> QED
          BY <2>10, <2>16, <4>2, <5>1
      <4>3. CASE g = f /\ k # Len(file)
        <5>1. k \in 1 .. Len(file) /\ k < Len(file)
          BY <2>10, <2>16, <3>1, <4>3
        <5>2. ASSUME k > 1
              PROVE  \E i \in DOMAIN placed' : placed'[i] = [file |-> g, position |-> k]
          <6>1. k \in DOMAIN pcap_files[f]
            BY <2>10, <5>1, <5>2
          <6> QED
            BY <2>5, <2>12, <2>15, <4>3, <5>2, <6>1 DEF PcapIInv, FilesHaveHeaders
        <5> QED
          BY <2>10, <2>16, <4>3, <5>1, <5>2
      <4> QED
        BY <4>1, <4>2, <4>3
    <3>2. ASSUME NEW x \in DOMAIN writers'
          PROVE  writers'[x].header_present <=> pcap_files'[<<x, writers'[x].date>>] # <<>>
      <4>1. CASE x = e
        <5>1. <<x, writers'[x].date>> = f
          BY <2>17, <3>2, <4>1 DEF f
        <5>2. file # <<>>
          BY <2>10
        <5> QED
          BY <2>16, <2>17, <4>1, <5>1, <5>2
      <4>2. CASE x # e
        <5>1. <<x, writers[x].date>> # f /\ <<x, writers[x].date>> \in PcapFileNames
          BY <2>17, <3>2, <4>2 DEF f, PcapFileNames, PcapIInv, PcapTypes
        <5> QED
          BY <2>16, <2>17, <3>2, <4>2, <5>1 DEF PcapIInv, FilesHaveHeaders
      <4> QED
        BY <4>1, <4>2
    <3> QED
      BY <3>1, <3>2 DEF FilesHaveHeaders
  <2>23. PacketsHavePlaces'
    <3>1. ASSUME NEW i \in 1 .. n + 1
          PROVE  /\ placed'[i].file[1] = packets'[i].engine
                 /\ placed'[i].position \in DOMAIN pcap_files'[placed'[i].file]
                 /\ pcap_files'[placed'[i].file][placed'[i].position] = packets'[i]
      <4>1. CASE i = n + 1
        BY <2>8, <2>9, <2>10, <2>11, <2>13, <2>15, <2>16, <4>1
      <4>2. CASE i # n + 1
        <5>1. i \in 1 .. n
          BY <2>12, <4>2
        <5>2. /\ placed[i].file[1] = packets[i].engine
              /\ placed[i].position \in DOMAIN pcap_files[placed[i].file]
              /\ pcap_files[placed[i].file][placed[i].position] = packets[i]
              /\ placed[i].file \in PcapFileNames
          <6>1. placed[i] \in Placements
            BY <2>12, <5>1, SeqElements
          <6> QED
            BY <2>12, <5>1, <6>1 DEF PcapIInv, PacketsHavePlaces, Placements
        <5>3. CASE placed[i].file = f
          BY <2>10, <2>13, <2>15, <2>16, <5>1, <5>2, <5>3
        <5>4. CASE placed[i].file # f
          BY <2>13, <2>15, <2>16, <5>1, <5>2, <5>4
        <5> QED
          BY <5>3, <5>4
      <4> QED
        BY <4>1, <4>2
    <3> QED
      BY <2>13, <3>1 DEF PacketsHavePlaces
  <2>24. PlacesAreInOrder'
    <3>1. writers[e].date \in Nat /\ writers[e].date <= today
      BY <2>2 DEF PcapIInv, PlacesAreInOrder, PcapDays
    <3>2. ASSUME NEW i \in 1 .. n, packets[i].engine = e
          PROVE  comes_before(placed[i], place)
      <4>1. placed[i].file[2] <= writers[e].date
        BY <2>2, <2>12, <3>2 DEF PcapIInv, PlacesAreInOrder
      <4>2. /\ placed[i].file[1] = e /\ placed[i].position \in DOMAIN pcap_files[placed[i].file]
            /\ placed[i].file \in PcapFileNames /\ placed[i].file[2] \in Nat
        <5>1. placed[i] \in Placements
          BY <2>12, <3>2, SeqElements
        <5> QED
          BY <2>12, <3>2, <5>1 DEF PcapIInv, PacketsHavePlaces, Placements, PcapFileNames, PcapDays
      <4>3. CASE placed[i].file[2] = writers[e].date
        <5>1. placed[i].file = f
          BY <4>2, <4>3 DEF f, PcapFileNames
        <5> QED
          BY <2>10, <2>11, <4>2, <5>1 DEF comes_before
      <4>4. CASE placed[i].file[2] # writers[e].date
        BY <2>9, <2>11, <3>1, <4>1, <4>2, <4>4 DEF comes_before
      <4> QED
        BY <4>3, <4>4
    <3>3. ASSUME NEW i \in 1 .. n + 1, NEW j \in 1 .. n + 1, i < j,
                 packets'[i].engine = packets'[j].engine
          PROVE  comes_before(placed'[i], placed'[j])
      <4>1. i \in 1 .. n
        BY <2>12, <3>3
      <4>2. CASE j = n + 1
        <5>1. packets[i].engine = e /\ placed'[i] = placed[i] /\ placed'[j] = place
          BY <2>8, <2>13, <2>15, <3>3, <4>1, <4>2
        <5> QED
          BY <3>2, <4>1, <5>1
      <4>3. CASE j # n + 1
        <5>1. j \in 1 .. n
          BY <2>12, <4>3
        <5> QED
          BY <2>12, <2>13, <2>15, <3>3, <4>1, <5>1 DEF PcapIInv, PlacesAreInOrder
      <4> QED
        BY <4>2, <4>3
    <3>4. ASSUME NEW i \in 1 .. n + 1 PROVE placed'[i].file[2] <= today
      <4>1. CASE i = n + 1
        BY <2>9, <2>11, <2>15, <3>1, <4>1
      <4>2. CASE i # n + 1
        <5>1. i \in 1 .. n
          BY <2>12, <4>2
        <5> QED
          BY <2>12, <2>15, <5>1 DEF PcapIInv, PlacesAreInOrder
      <4> QED
        BY <4>1, <4>2
    <3>5. ASSUME NEW x \in DOMAIN writers, NEW i \in 1 .. n + 1, packets'[i].engine = x
          PROVE  placed'[i].file[2] <= writers[x].date
      <4>1. CASE i = n + 1
        <5>1. x = e
          BY <2>8, <2>13, <3>5, <4>1
        <5> QED
          BY <2>9, <2>11, <2>15, <3>1, <4>1, <5>1
      <4>2. CASE i # n + 1
        <5>1. i \in 1 .. n
          BY <2>12, <4>2
        <5> QED
          BY <2>12, <2>13, <2>15, <3>5, <5>1 DEF PcapIInv, PlacesAreInOrder
      <4> QED
        BY <4>1, <4>2
    <3>6. \A x \in DOMAIN writers : writers[x].date <= today
      BY DEF PcapIInv, PlacesAreInOrder
    <3> QED
      BY <1>0, <2>13, <2>17, <3>3, <3>4, <3>5, <3>6 DEF PlacesAreInOrder
  <2>25. run_start \in Nat /\ run_start <= n
    BY DEF PcapIInv, PcapTypes
  <2>26. StreamsFollow'
    <3>1. ASSUME NEW x \in DOMAIN tcp_streams, NEW end \in x PROVE NextNumbers(x, end)'
      <4>1. of_connection(x, Len(packets) + 1)' = 
               {i \in run_start + 1 .. n + 1 : ends(packets'[i]) = x}
        BY <1>0, <2>12, <2>13 DEF of_connection
      <4>2. of_connection(x, n + 1) = {i \in run_start + 1 .. n : ends(packets[i]) = x}
        BY <2>12 DEF of_connection
      <4>3. CASE x = c
        <5>1. n + 1 \in of_connection(x, Len(packets) + 1)'
          BY <2>8, <2>12, <2>13, <2>25, <4>1, <4>3
        <5>2. \A j \in of_connection(x, Len(packets) + 1)' : j <= n + 1 /\ j \in Nat
          BY <2>12, <2>25, <4>1
        <5>3. ASSUME NEW j \in of_connection(x, Len(packets) + 1)',
                     \A k \in of_connection(x, Len(packets) + 1)' : k <= j
              PROVE  tcp_streams'[x][end] = number_after(packets'[j], end)
          <6>1. j = n + 1
            BY <2>12, <5>1, <5>2, <5>3
          <6> QED
            BY <2>13, <2>19, <3>1, <4>3, <6>1
        <5> QED
          BY <5>1, <5>3 DEF NextNumbers
      <4>4. CASE x # c
        <5>1. of_connection(x, Len(packets) + 1)' = of_connection(x, n + 1)
          <6>1. ends(packets'[n + 1]) # x
            BY <2>8, <2>13, <4>4
          <6>2. \A i \in run_start + 1 .. n : i \in 1 .. n /\ packets'[i] = packets[i]
            BY <2>12, <2>13, <2>25
          <6>3. \A i \in run_start + 1 .. n + 1 : i # n + 1 => i \in run_start + 1 .. n
            BY <2>12, <2>25
          <6>4. \A i \in run_start + 1 .. n : i \in run_start + 1 .. n + 1
            BY <2>12, <2>25
          <6> QED
            BY <4>1, <4>2, <6>1, <6>2, <6>3, <6>4
        <5>2. \A j \in of_connection(x, n + 1) : packets'[j] = packets[j]
          BY <2>12, <2>13, <2>25, <4>2
        <5>3. tcp_streams'[x] = tcp_streams[x]
          BY <2>18, <4>4
        <5>4. NextNumbers(x, end)
          BY <3>1 DEF PcapIInv, StreamsFollow
        <5> QED
          BY <5>1, <5>2, <5>3, <5>4 DEF NextNumbers
      <4> QED
        BY <4>3, <4>4
    <3>2. ASSUME NEW i \in run_start + 1 .. n + 1 PROVE ends(packets'[i]) \in DOMAIN tcp_streams
      <4>1. CASE i = n + 1
        BY <2>2, <2>8, <2>13, <4>1
      <4>2. CASE i # n + 1
        <5>1. i \in run_start + 1 .. n /\ i \in 1 .. n
          BY <2>12, <2>25, <4>2
        <5> QED
          BY <2>13, <5>1 DEF PcapIInv, StreamsFollow
      <4> QED
        BY <4>1, <4>2
    <3> QED
      BY <1>0, <2>13, <2>18, <3>1, <3>2 DEF StreamsFollow
  <2>27. NumbersGoOn'
    <3>1. ASSUME NEW i \in run_start + 1 .. n + 1 PROVE goes_on(i)'
      <4>1. i \in Nat /\ i \in 1 .. n + 1
        BY <2>12, <2>25
      <4>2. \A j \in run_start + 1 .. i - 1 : packets'[j] = packets[j] /\ j \in 1 .. n
        BY <2>12, <2>13, <2>25, <4>1
      <4>3. \A x : of_connection(x, i)' = of_connection(x, i)
        BY <1>0, <4>2 DEF of_connection
      <4>4. \A x : \A j \in of_connection(x, i) : packets'[j] = packets[j]
        BY <4>2 DEF of_connection
      <4>5. CASE i = n + 1
        <5>1. packets'[i] = packet
          BY <2>13, <4>5
        <5>2. NextNumbers(c, pcap_msg.source) /\ NextNumbers(c, pcap_msg.dest)
          BY <2>2, <2>3 DEF PcapIInv, StreamsFollow
        <5>3. PICK p : p = packet
          OBVIOUS
        <5>4. PICK x : x = c
          OBVIOUS
        <5>5. NextNumbers(x, p.source) /\ NextNumbers(x, p.dest) /\ ends(p) = x
              /\ p.seq = tcp_streams[x][p.source] /\ p.ack = tcp_streams[x][p.dest]
          BY <2>8, <5>2, <5>3, <5>4 DEF flow
        <5>6. of_connection(x, i)' = of_connection(x, Len(packets) + 1)
          BY <4>3, <4>5
        <5>7. \A j \in of_connection(x, Len(packets) + 1) : packets'[j] = packets[j]
          BY <4>4, <4>5
        <5>8. /\ of_connection(x, i)' = {} => p.seq = 1 /\ p.ack = 1
              /\ \A j \in of_connection(x, i)' :
                   (\A k \in of_connection(x, i)' : k <= j) =>
                      /\ p.seq = number_after(packets'[j], p.source)
                      /\ p.ack = number_after(packets'[j], p.dest)
          BY <5>5, <5>6, <5>7 DEF NextNumbers
        <5>9. packets'[i] = p /\ ends(packets'[i]) = x
          BY <5>1, <5>3, <5>5
        <5> QED
          BY <5>8, <5>9 DEF goes_on
      <4>6. CASE i # n + 1
        <5>1. i \in run_start + 1 .. n /\ i \in 1 .. n
          BY <2>12, <4>1, <4>6
        <5>2. packets'[i] = packets[i]
          BY <2>13, <5>1
        <5>3. goes_on(i)
          BY <5>1 DEF PcapIInv, NumbersGoOn
        <5> QED
          BY <4>3, <4>4, <5>2, <5>3 DEF goes_on
      <4> QED
        BY <4>5, <4>6
    <3> QED
      BY <1>0, <2>13, <3>1 DEF NumbersGoOn
  <2> QED
    BY <2>20, <2>21, <2>22, <2>23, <2>24, <2>26, <2>27 DEF PcapIInv
<1> QED
  BY <1>1, <1>2

LEMMA PcapInductive == PcapIInv /\ [PcapNext]_pcap_vars => PcapIInv'
<1> SUFFICES ASSUME PcapIInv, [PcapNext]_pcap_vars PROVE PcapIInv'
  OBVIOUS
<1>1. CASE UNCHANGED pcap_vars
  <2>1. UNCHANGED <<pcap_thread, run_start, today, pcap_queue, pcap_worker, puts, pcap_runs>>
    BY <1>1 DEF pcap_vars, pcap_bounds
  <2>2. PcapTypes'
    BY <2>1 DEF PcapIInv, PcapTypes, pcap_thread
  <2>3. today' \in PcapDays /\ today' >= today
    BY <2>1 DEF PcapIInv, PcapTypes, PcapDays
  <2> QED
    BY <2>1, <2>2, <2>3, PcapFrame DEF PcapIInv
<1> QED
  BY <1>1, PcapSurroundings, PcapStarts, PcapTakes, PcapWrites DEF PcapNext, PcapWriterProcess

LEMMA PcapHolds == PcapIInv => PcapTypeOK /\ PcapStreamsAreCoherent
<1> SUFFICES ASSUME PcapIInv PROVE PcapTypeOK /\ PcapStreamsAreCoherent
  OBVIOUS
<1>1. DOMAIN pcap_files = PcapFileNames /\ DOMAIN placed = DOMAIN packets
      /\ DOMAIN packets = 1 .. Len(packets)
  BY DEF PcapIInv, PcapTypes
<1>2. \A i \in DOMAIN packets : placed[i].file \in DOMAIN pcap_files /\ packets[i] \in PcapPacket
  <2>1. \A i \in DOMAIN packets : placed[i] \in Placements /\ packets[i] \in PcapPacket
    BY <1>1, SeqElements DEF PcapIInv, PcapTypes
  <2> QED
    BY <1>1, <2>1 DEF Placements
<1>3. ASSUME NEW f \in DOMAIN pcap_files, NEW k \in DOMAIN pcap_files[f]
      PROVE IF k = 1 THEN pcap_files[f][k] = PcapHeader ELSE pcap_files[f][k] \in PcapPacket
  <2>1. pcap_files[f] \in PcapFile /\ ((pcap_files[f][k] = PcapHeader) <=> (k = 1))
    BY <1>1 DEF PcapIInv, PcapTypes, FilesHaveHeaders
  <2> QED
    BY <2>1 DEF PcapFile
<1>4. PcapTypeOK
  <2>1. \A i \in DOMAIN chunks : chunks[i] \in 1 .. MAX_CHUNK
    BY SeqElements DEF PcapIInv, PcapTypes
  <2>2. \A c \in DOMAIN tcp_streams : \A end \in c : tcp_streams[c][end] \in Nat \ {0}
    BY DEF PcapIInv, PcapTypes
  <2> QED
    BY <1>2, <1>3, <2>1, <2>2 DEF PcapIInv, PcapTypes, PcapTypeOK
<1>5. PacketsAreInFiles
  BY <1>1, <1>2 DEF PcapIInv, FilesHaveHeaders, PacketsHavePlaces, PlacesAreInOrder,
     PacketsAreInFiles
<1> QED
  BY <1>4, <1>5 DEF PcapIInv, PcapStreamsAreCoherent
-----------------------------------------------------------------------------
(* The rotating log file. *)
LogLine == {Header} \cup 1 .. MaxRecords
LogPlaces == {"idle", "exists", "close", "rename", "open", "schedule", "header", "write"}
RollingOver == {"exists", "close", "rename", "open", "schedule"}

LogTypes ==
    /\ LogTypeOK
    /\ listener \in LogPlaces
    /\ listener # "idle" => logged < MaxRecords

(* Without the rotation thread: a day over is not yet rolled over; the     *)
(* rotated files are those of days before the one that the file at         *)
(* baseFilename is of.                                                     *)
OneThread ==
    /\ rotator = "idle"
    /\ listener \in RollingOver => day >= rolloverAt

DaysAreOver ==
    \A d \in Days : rotated[d] # None =>
        /\ d < day
        /\ listener # "open" => d < modified
        /\ listener \notin {"open", "schedule"} => d < rolloverAt - 1

(* Where the file at baseFilename is while it is rotated. *)
OneBase ==
    /\ base = None <=> listener = "open"
    /\ stream = IF listener \in {"rename", "open"} THEN None ELSE base
    /\ \A d \in Days : rotated[d] # None => rotated[d] # base
    /\ \A d, e \in Days : rotated[d] = rotated[e] /\ rotated[d] # None => d = e

HeaderFirst(lines) == \A i \in DOMAIN lines : (lines[i] = Header) <=> (i = 1)
HeadersAreFirst ==
    /\ \A f \in on_disk : HeaderFirst(contents[f])
    /\ base # None => (contents[base] = <<>> <=> listener \in {"schedule", "header"})

Holds(f, r) == \E i \in DOMAIN contents[f] : contents[f][i] = r
RecordsAreOnDisk ==
    /\ \A f \in on_disk : \A i \in DOMAIN contents[f] : contents[f][i] <= logged
    /\ \A r \in 1 .. logged :
         \E f \in on_disk : Holds(f, r) /\ \A g \in on_disk : Holds(g, r) => g = f

OneWriter == OneThread /\ DaysAreOver /\ OneBase /\ HeadersAreFirst /\ RecordsAreOnDisk

LogIInv == LogTypes /\ (~rotate_at_rollover_time => OneWriter)
-----------------------------------------------------------------------------
LEMMA LogBounds ==
    /\ MaxDays \in Nat /\ MaxDays >= 1 /\ MaxRecords \in Nat /\ None \notin FileIds
    /\ FileIds \subseteq Nat /\ Days \subseteq Nat
  BY LogAssumption DEF None, FileIds, Days

(* There is always a number for a new file. *)
LEMMA NewFileIsThere ==
    ASSUME NEW r \in [Days -> {None} \cup FileIds], NEW b, NEW s
    PROVE  \E f \in FileIds : f \notin {b, s} \cup {r[d] : d \in Days}
<1> DEFINE R == {r[d] : d \in Days}
           U == {b, s} \cup R
<1>1. IsFiniteSet(Days) /\ Cardinality(Days) = MaxDays
  BY LogBounds, FS_Interval DEF Days
<1>2. IsFiniteSet(R) /\ Cardinality(R) <= MaxDays
  <2>1. r \in Surjection(Days, R)
    BY DEF Surjection, Days
  <2> QED
    BY <1>1, <2>1, FS_Surjection
<1>3. IsFiniteSet({b, s}) /\ Cardinality({b, s}) <= 2
  <2>1. IsFiniteSet({b}) /\ Cardinality({b}) = 1 /\ {b, s} = {b} \cup {s}
    BY FS_Singleton
  <2>2. IsFiniteSet({b} \cup {s}) /\ Cardinality({b} \cup {s}) <= 2
    BY <2>1, FS_AddElement
  <2> QED
    BY <2>1, <2>2
<1>4. IsFiniteSet(U) /\ Cardinality(U) <= MaxDays + 2
  <2>1. IsFiniteSet({b, s} \cup R)
    BY <1>2, <1>3, FS_Union
  <2>2. Cardinality({b, s} \cup R) = Cardinality({b, s}) + Cardinality(R) - Cardinality({b, s} \cap R)
    BY <1>2, <1>3, FS_Union
  <2>3. Cardinality({b, s} \cap R) \in Nat /\ Cardinality({b, s}) \in Nat /\ Cardinality(R) \in Nat
    BY <1>2, <1>3, FS_CardinalityType, FS_Intersection
  <2> HIDE DEF R
  <2> QED
    BY <1>2, <1>3, <2>1, <2>2, <2>3, LogBounds
<1>5. IsFiniteSet(FileIds) /\ Cardinality(FileIds) = MaxDays + 3
  BY LogBounds, FS_Interval DEF FileIds
<1>6. ASSUME FileIds \subseteq U PROVE FALSE
  <2>1. Cardinality(FileIds) <= Cardinality(U)
    BY <1>4, <1>6, FS_Subset
  <2>2. Cardinality(U) \in Nat
    BY <1>4, FS_CardinalityType
  <2> HIDE DEF U
  <2> QED
    BY <1>4, <1>5, <2>1, <2>2, LogBounds
<1> QED
  BY <1>6

(* The file that open(baseFilename) opens or makes. *)
LEMMA OpenedFile ==
    ASSUME LogTypeOK
    PROVE  /\ opened \in FileIds /\ opened # None
           /\ base # None => opened = base /\ held = contents
           /\ base = None =>
                 /\ opened # stream /\ \A d \in Days : rotated[d] # opened
                 /\ held = [contents EXCEPT ![opened] = <<>>]
           /\ held \in [FileIds -> Seq(LogLine)]
           /\ \A f \in FileIds : f # opened => held[f] = contents[f]
           /\ base = None => held[opened] = <<>>
<1>1. \E f \in FileIds : f \notin used
  BY NewFileIsThere DEF LogTypeOK, used
<1>2. new_file \in FileIds /\ new_file \notin used
  BY <1>1 DEF new_file
<1>3. opened \in FileIds /\ opened # None
  BY <1>2, LogBounds DEF opened, LogTypeOK
<1>4. contents \in [FileIds -> Seq(LogLine)] /\ <<>> \in Seq(LogLine)
  BY DEF LogTypeOK, LogLine
<1>5. base # None => opened = base /\ held = contents
  BY DEF opened, held
<1>6. base = None => /\ opened # stream /\ \A d \in Days : rotated[d] # opened
                     /\ held = [contents EXCEPT ![opened] = <<>>]
  BY <1>2 DEF opened, held, used
<1> QED
  BY <1>3, <1>4, <1>5, <1>6

LEMMA LogInitially == LogInit => LogIInv
<1> SUFFICES ASSUME LogInit PROVE LogIInv
  OBVIOUS
<1> USE DEF LogInit
<1>1. /\ 1 \in FileIds /\ 1 \in Days /\ 2 \in 2 .. MaxDays + 1
  BY LogBounds DEF FileIds, Days
<1>2. contents \in [FileIds -> Seq(LogLine)]
  <2>1. <<Header>> \in Seq(LogLine) /\ <<>> \in Seq(LogLine)
    BY DEF LogLine
  <2> QED
    BY <2>1
<1>3. LogTypes
  BY <1>1, <1>2, LogBounds DEF LogTypes, LogTypeOK, LogPlaces, LogLine
<1>4. contents[1] = <<Header>> /\ on_disk = {1} /\ logged = 0
  BY <1>1, LogBounds DEF on_disk, None
<1>5. HeadersAreFirst
  <2>1. HeaderFirst(<<Header>>) /\ <<Header>> # <<>>
    BY DEF HeaderFirst
  <2> QED
    BY <1>4, <2>1 DEF HeadersAreFirst
<1>6. RecordsAreOnDisk
  <2>1. \A i \in DOMAIN <<Header>> : <<Header>>[i] <= 0
    BY DEF Header
  <2> QED
    BY <1>4, <2>1 DEF RecordsAreOnDisk
<1>7. OneThread /\ DaysAreOver /\ OneBase
  BY <1>1 DEF OneThread, DaysAreOver, OneBase, RollingOver, None
<1> QED
  BY <1>3, <1>5, <1>6, <1>7 DEF LogIInv, OneWriter
-----------------------------------------------------------------------------
(* The types, with or without the second thread. *)
LEMMA AppendedTypes ==
    ASSUME LogTypeOK, NEW line \in LogLine
    PROVE  [held EXCEPT ![opened] = Append(@, line)] \in [FileIds -> Seq(LogLine)]
  BY OpenedFile, AppendProperties

LEMMA RolloverTypes ==
    ASSUME LogTypeOK, NEW at, NEW next, NEW done \in LogPlaces \cup {"remember"},
           doRollover(at, next, done), UNCHANGED <<day, logged>>
    PROVE  LogTypeOK' /\ next \in LogPlaces \cup {done}
<1> USE DEF LogTypeOK, LogLine
<1>1. CASE ro_exists(next)
  BY <1>1 DEF ro_exists, LogPlaces
<1>2. CASE ro_close(next)
  BY <1>2 DEF ro_close, LogPlaces
<1>3. CASE ro_rename(next)
  <2>1. [rotated EXCEPT ![old_day] = base] \in [Days -> {None} \cup FileIds]
    OBVIOUS
  <2> QED
    BY <1>3, <2>1 DEF ro_rename, LogPlaces
<1>4. CASE ro_open(next)
  <2>1. opened \in FileIds /\ held \in [FileIds -> Seq({Header} \cup 1 .. MaxRecords)]
    BY OpenedFile
  <2>2. modified' \in 1 .. day'
    BY <1>4, LogBounds DEF ro_open, Days
  <2>3. base' = opened /\ contents' = held /\ stream' = opened /\ next = "schedule"
        /\ UNCHANGED <<rotated, rolloverAt>>
    BY <1>4 DEF ro_open
  <2> QED
    BY <2>1, <2>2, <2>3 DEF LogPlaces
<1>5. CASE ro_schedule(next)
  <2>1. day + 1 \in 2 .. MaxDays + 1
    BY LogBounds DEF Days
  <2> QED
    BY <1>5, <2>1 DEF ro_schedule, LogPlaces
<1>6. CASE ro_header(next, done)
  <2>1. day \in 1 .. day
    BY LogBounds DEF Days
  <2>2. Header \in LogLine
    OBVIOUS
  <2>3. contents' \in [FileIds -> Seq({Header} \cup 1 .. MaxRecords)]
    BY <1>6, <2>2, AppendedTypes DEF ro_header, appended
  <2>4. opened \in FileIds
    BY OpenedFile
  <2> QED
    BY <1>6, <2>1, <2>3, <2>4 DEF ro_header, appended
<1> QED
  BY <1>1, <1>2, <1>3, <1>4, <1>5, <1>6 DEF doRollover

LEMMA LogTypesStep == ASSUME LogTypes, [LogNext]_log_vars PROVE LogTypes'
<1> USE DEF LogTypes
<1>1. CASE Midnight
  <2>1. day' \in Days /\ modified' \in 1 .. day'
    BY <1>1, LogBounds DEF Midnight, LogTypeOK, Days
  <2> QED
    BY <1>1, <2>1 DEF Midnight, LogTypeOK
<1>2. CASE record_filtered
  <2>1. Header \in LogLine /\ day \in 1 .. day
    BY LogBounds DEF LogLine, LogTypeOK, Days
  <2>2. contents' \in [FileIds -> Seq(LogLine)] /\ base' \in {None} \cup FileIds
        /\ modified' \in 1 .. day
    BY <1>2, <2>1, AppendedTypes, OpenedFile DEF record_filtered, appended, LogTypeOK, LogLine
  <2> QED
    BY <1>2, <2>2 DEF record_filtered, LogTypeOK, LogPlaces, LogLine
<1>3. CASE listener_rolls_over
  <2>1. listener # "idle" /\ UNCHANGED logged
    BY <1>3 DEF listener_rolls_over, doRollover
  <2> QED
    BY <1>3, <2>1, RolloverTypes DEF listener_rolls_over, LogPlaces
<1>4. CASE record_written
  <2>1. logged' \in 0 .. MaxRecords /\ logged' \in LogLine /\ day \in 1 .. day
    BY <1>4, LogBounds DEF record_written, LogLine, LogTypeOK, Days
  <2>2. contents' \in [FileIds -> Seq(LogLine)] /\ base' \in {None} \cup FileIds
        /\ stream' \in {None} \cup FileIds /\ modified' \in 1 .. day
    <3>1. CASE stream # None
      <4>1. contents' = [contents EXCEPT ![stream] = Append(@, logged')] /\ stream \in FileIds
            /\ contents \in [FileIds -> Seq(LogLine)]
        BY <1>4, <3>1 DEF record_written, LogTypeOK, LogLine
      <4>2. contents' \in [FileIds -> Seq(LogLine)]
        BY <2>1, <4>1, AppendProperties
      <4> QED
        BY <1>4, <2>1, <3>1, <4>2 DEF record_written, LogTypeOK
    <3>2. CASE stream = None
      BY <1>4, <2>1, <3>2, AppendedTypes, OpenedFile DEF record_written, appended
    <3> QED
      BY <3>1, <3>2
  <2> QED
    BY <1>4, <2>1, <2>2 DEF record_written, LogTypeOK, LogPlaces, LogLine
<1>5. CASE rotator_rolls_over
  BY <1>5, RolloverTypes DEF rotator_rolls_over
<1>6. CASE rotator_checks \/ rotator_remembers
  BY <1>6 DEF rotator_checks, rotator_remembers, LogTypeOK
<1>7. CASE Restart
  <2> DEFINE since == IF base = None THEN day ELSE modified
  <2>1. since \in 1 .. day /\ since + 1 \in 2 .. MaxDays + 1 /\ day \in 1 .. day
    BY LogBounds DEF LogTypeOK, Days
  <2>2. first_header(opened) \in [FileIds -> Seq(LogLine)]
    <3>1. <<Header>> \in Seq(LogLine)
      BY DEF LogLine
    <3> QED
      BY <3>1, OpenedFile DEF first_header
  <2>3. opened \in FileIds
    BY OpenedFile
  <2>4. /\ base' = opened /\ stream' = opened /\ contents' = first_header(opened)
        /\ rolloverAt' = since + 1 /\ modified' = IF held[opened] = <<>> THEN day ELSE since
        /\ listener' = "idle" /\ UNCHANGED <<day, rotated, logged>>
    BY <1>7 DEF Restart
  <2> HIDE DEF since
  <2> QED
    BY <2>1, <2>2, <2>3, <2>4 DEF LogTypeOK, LogPlaces, LogLine
<1>8. CASE UNCHANGED log_vars
  BY <1>8 DEF log_vars, LogTypeOK
<1> QED
  BY <1>1, <1>2, <1>3, <1>4, <1>5, <1>6, <1>7, <1>8 DEF LogNext, LogThreads
-----------------------------------------------------------------------------
(* One thread: the steps that change no record. *)
LEMMA SameRecords ==
    ASSUME LogTypeOK, LogTypeOK', HeadersAreFirst, RecordsAreOnDisk, UNCHANGED logged,
           on_disk \subseteq on_disk',
           \A f \in on_disk : \/ contents'[f] = contents[f]
                             \/ (contents[f] = <<>> /\ contents'[f] = << Header >>),
           \A f \in on_disk' \ on_disk : contents'[f] = <<>> \/ contents'[f] = << Header >>
    PROVE  (\A f \in on_disk' : HeaderFirst(contents'[f])) /\ RecordsAreOnDisk'
<1>1. HeaderFirst(<<>>) /\ HeaderFirst(<< Header >>)
  BY DEF HeaderFirst
<1>2. \A f \in on_disk' : HeaderFirst(contents'[f])
  BY <1>1 DEF HeadersAreFirst
<1>3. logged \in Nat /\ \A r \in 1 .. logged : r # Header
  BY LogBounds DEF LogTypeOK, Header
<1>4. \A f \in on_disk' : \A i \in DOMAIN contents'[f] : contents'[f][i] <= logged'
  <2> SUFFICES ASSUME NEW f \in on_disk', NEW i \in DOMAIN contents'[f]
               PROVE  contents'[f][i] <= logged
    OBVIOUS
  <2>1. CASE f \in on_disk /\ contents'[f] = contents[f]
    BY <2>1 DEF RecordsAreOnDisk
  <2>2. CASE contents'[f] = << Header >> \/ contents'[f] = <<>>
    BY <2>2, <1>3 DEF Header
  <2> QED
    BY <2>1, <2>2
<1>5. \A f \in on_disk' : \A r \in 1 .. logged :
        Holds(f, r)' <=> f \in on_disk /\ Holds(f, r)
  <2> SUFFICES ASSUME NEW f \in on_disk', NEW r \in 1 .. logged
               PROVE  Holds(f, r)' <=> f \in on_disk /\ Holds(f, r)
    OBVIOUS
  <2>1. CASE f \in on_disk /\ contents'[f] = contents[f]
    BY <2>1 DEF Holds
  <2>2. CASE f \in on_disk /\ contents[f] = <<>> /\ contents'[f] = << Header >>
    BY <2>2, <1>3 DEF Holds
  <2>3. CASE f \notin on_disk
    BY <2>3, <1>3 DEF Holds
  <2> QED
    BY <2>1, <2>2, <2>3
<1>6. \A r \in 1 .. logged' :
        \E f \in on_disk' : Holds(f, r)' /\ \A g \in on_disk' : Holds(g, r)' => g = f
  <2> SUFFICES ASSUME NEW r \in 1 .. logged
               PROVE  \E f \in on_disk' : Holds(f, r)' /\ \A g \in on_disk' : Holds(g, r)' => g = f
    OBVIOUS
  <2>1. PICK f \in on_disk : Holds(f, r) /\ \A g \in on_disk : Holds(g, r) => g = f
    BY DEF RecordsAreOnDisk
  <2> QED
    BY <1>5, <2>1
<1> QED
  BY <1>2, <1>4, <1>6 DEF RecordsAreOnDisk, Holds

LEMMA RestOfLog ==
    ASSUME LogTypes, OneWriter, ~rotate_at_rollover_time
    PROVE  /\ base # None => base \in on_disk
           /\ rotator = "idle"
           /\ \A d \in Days : rotated[d] # None => rotated[d] \in on_disk
           /\ old_day \in Days
           /\ listener \in {"exists", "close", "rename"} => rotated[old_day] = None
           /\ None \notin on_disk
<1>1. old_day \in Days
  BY LogBounds DEF old_day, LogTypes, LogTypeOK, Days
<1>2. listener \in {"exists", "close", "rename"} => rotated[old_day] = None
  BY <1>1, LogBounds DEF OneWriter, DaysAreOver, old_day, Days, LogTypes, LogTypeOK
<1> QED
  BY <1>1, <1>2 DEF on_disk, OneWriter, OneThread

LEMMA LogMidnightStep ==
    ASSUME LogTypes, LogTypes', OneWriter, ~rotate_at_rollover_time, Midnight
    PROVE  OneWriter'
<1>1. day' = day + 1 /\ day \in Nat /\ rolloverAt \in Nat
      /\ UNCHANGED <<contents, base, rotated, modified, stream, rolloverAt, listener,
                     rotator, logged>>
  BY LogBounds DEF Midnight, LogTypes, LogTypeOK, Days
<1>2. on_disk' = on_disk
  BY <1>1 DEF on_disk
<1>3. OneThread'
  BY <1>1 DEF OneWriter, OneThread
<1>4. DaysAreOver'
  BY <1>1, LogBounds DEF OneWriter, DaysAreOver, Days
<1>5. OneBase'
  BY <1>1 DEF OneWriter, OneBase
<1>6. HeadersAreFirst' /\ RecordsAreOnDisk'
  BY <1>1, <1>2 DEF OneWriter, HeadersAreFirst, RecordsAreOnDisk, Holds
<1> QED
  BY <1>3, <1>4, <1>5, <1>6 DEF OneWriter

LEMMA LogFilteredStep ==
    ASSUME LogTypes, LogTypes', OneWriter, ~rotate_at_rollover_time, record_filtered
    PROVE  OneWriter'
<1>1. listener = "idle" /\ base # None /\ contents[base] # <<>>
  BY DEF record_filtered, OneWriter, OneBase, HeadersAreFirst
<1>2. listener' = (IF day >= rolloverAt THEN "exists" ELSE "write")
      /\ UNCHANGED <<day, contents, base, rotated, modified, stream, rolloverAt, rotator, logged>>
  BY <1>1 DEF record_filtered, header_needed
<1>3. on_disk' = on_disk
  BY <1>2 DEF on_disk
<1>4. OneThread'
  BY <1>2 DEF OneWriter, OneThread, RollingOver
<1>5. DaysAreOver'
  BY <1>1, <1>2 DEF OneWriter, DaysAreOver
<1>6. OneBase'
  BY <1>1, <1>2 DEF OneWriter, OneBase
<1>7. HeadersAreFirst' /\ RecordsAreOnDisk'
  BY <1>1, <1>2, <1>3 DEF OneWriter, HeadersAreFirst, RecordsAreOnDisk, Holds
<1> QED
  BY <1>4, <1>5, <1>6, <1>7 DEF OneWriter

(* Opening the file: it is new exactly when there was none. *)
LEMMA AfterOpen ==
    ASSUME LogTypes, OneWriter, ~rotate_at_rollover_time, base' = opened, UNCHANGED rotated
    PROVE  /\ base' # None
           /\ on_disk' = on_disk \cup {opened}
           /\ base # None => opened = base /\ on_disk' = on_disk
           /\ base = None => opened \notin on_disk
           /\ \A d \in Days : rotated[d] # None => rotated[d] # opened
<1>1. opened \in FileIds /\ opened # None /\ (base # None => opened = base)
      /\ (base = None => \A d \in Days : rotated[d] # opened)
  BY OpenedFile DEF LogTypes
<1>2. \A d \in Days : rotated[d] # None => rotated[d] # opened
  BY <1>1 DEF OneWriter, OneBase
<1>3. on_disk = {x \in {base} \cup {rotated[d] : d \in Days} : x # None}
  BY DEF on_disk
<1>4. on_disk' = {x \in {opened} \cup {rotated[d] : d \in Days} : x # None}
  BY DEF on_disk
<1>5. on_disk' = on_disk \cup {opened}
  BY <1>1, <1>3, <1>4
<1> QED
  BY <1>1, <1>2, <1>3, <1>5

LEMMA LogRolloverStep ==
    ASSUME LogTypes, LogTypes', OneWriter, ~rotate_at_rollover_time, listener_rolls_over
    PROVE  OneWriter'
<1>1. UNCHANGED <<day, logged, rotator>> /\ doRollover(listener, listener', "write")
  BY DEF listener_rolls_over
<1>2. rotator' = "idle" /\ rotator = "idle"
  BY <1>1, RestOfLog
<1>3. LogTypeOK /\ LogTypeOK' /\ HeadersAreFirst /\ RecordsAreOnDisk
  BY DEF LogTypes, OneWriter
<1>4. CASE listener = "exists"
  <2>1. listener' = "close" /\ UNCHANGED <<contents, base, rotated, modified, stream, rolloverAt>>
    BY <1>1, <1>4, RestOfLog DEF doRollover, ro_exists
  <2>2. on_disk' = on_disk
    BY <2>1 DEF on_disk
  <2>3. OneThread'
    BY <1>1, <1>2, <1>4, <2>1 DEF OneWriter, OneThread, RollingOver
  <2>4. DaysAreOver' /\ OneBase'
    BY <1>1, <1>4, <2>1 DEF OneWriter, DaysAreOver, OneBase
  <2>5. HeadersAreFirst' /\ RecordsAreOnDisk'
    BY <1>1, <1>4, <2>1, <2>2 DEF OneWriter, HeadersAreFirst, RecordsAreOnDisk, Holds
  <2> QED
    BY <2>3, <2>4, <2>5 DEF OneWriter
<1>5. CASE listener = "close"
  <2>1. listener' = "rename" /\ stream' = None
        /\ UNCHANGED <<contents, base, rotated, modified, rolloverAt>>
    BY <1>1, <1>5 DEF doRollover, ro_close
  <2>2. on_disk' = on_disk
    BY <2>1 DEF on_disk
  <2>3. OneThread'
    BY <1>1, <1>2, <1>5, <2>1 DEF OneWriter, OneThread, RollingOver
  <2>4. DaysAreOver' /\ OneBase'
    BY <1>1, <1>5, <2>1 DEF OneWriter, DaysAreOver, OneBase
  <2>5. HeadersAreFirst' /\ RecordsAreOnDisk'
    BY <1>1, <1>5, <2>1, <2>2 DEF OneWriter, HeadersAreFirst, RecordsAreOnDisk, Holds
  <2> QED
    BY <2>3, <2>4, <2>5 DEF OneWriter
<1>6. CASE listener = "rename"
  <2>1. listener' = "open" /\ UNCHANGED <<contents, modified, stream, rolloverAt>>
        /\ rotated' = [rotated EXCEPT ![old_day] = base] /\ base' = None
    BY <1>1, <1>6 DEF doRollover, ro_rename, OneWriter, OneBase
  <2>2. base # None /\ stream = None /\ rotated[old_day] = None /\ old_day \in Days
    BY <1>6, RestOfLog DEF OneWriter, OneBase
  <2>3. \A d \in Days : rotated'[d] = IF d = old_day THEN base ELSE rotated[d]
    BY <2>1 DEF LogTypes, LogTypeOK
  <2>4. on_disk' = on_disk
    BY <2>1, <2>2, <2>3 DEF on_disk
  <2>5. OneThread'
    BY <1>1, <1>2, <1>6, <2>1 DEF OneWriter, OneThread, RollingOver
  <2>6. old_day < day /\ old_day = rolloverAt - 1
    BY <1>6, LogBounds DEF OneWriter, OneThread, RollingOver, old_day, LogTypes, LogTypeOK, Days
  <2>7. DaysAreOver'
    BY <1>1, <1>6, <2>1, <2>3, <2>6 DEF OneWriter, DaysAreOver
  <2>8. OneBase'
    BY <1>6, <2>1, <2>2, <2>3 DEF OneWriter, OneBase
  <2>9. HeadersAreFirst' /\ RecordsAreOnDisk'
    BY <1>1, <2>1, <2>4 DEF OneWriter, HeadersAreFirst, RecordsAreOnDisk, Holds
  <2> QED
    BY <2>5, <2>7, <2>8, <2>9 DEF OneWriter
<1>7. CASE listener = "open"
  <2>1. /\ listener' = "schedule" /\ base' = opened /\ stream' = opened
        /\ contents' = held /\ modified' = day /\ UNCHANGED <<rotated, rolloverAt>>
        /\ base = None
    BY <1>1, <1>7 DEF doRollover, ro_open, OneWriter, OneBase
  <2>2. /\ held[opened] = <<>> /\ \A f \in FileIds : f # opened => held[f] = contents[f]
        /\ opened \in FileIds
    BY <1>3, <2>1, OpenedFile
  <2>3. base' # None /\ on_disk' = on_disk \cup {opened} /\ opened \notin on_disk
        /\ \A d \in Days : rotated[d] # None => rotated[d] # opened
    BY <2>1, AfterOpen
  <2>4. on_disk \subseteq FileIds
    BY <1>3 DEF on_disk, LogTypeOK
  <2>5. (\A f \in on_disk' : HeaderFirst(contents'[f])) /\ RecordsAreOnDisk'
    BY <1>1, <1>3, <2>1, <2>2, <2>3, <2>4, SameRecords
  <2>6. HeadersAreFirst'
    BY <2>1, <2>2, <2>5 DEF HeadersAreFirst
  <2>7. OneThread'
    BY <1>1, <1>2, <1>7, <2>1 DEF OneWriter, OneThread, RollingOver
  <2>8. DaysAreOver' /\ OneBase'
    BY <1>1, <1>7, <2>1, <2>3 DEF OneWriter, DaysAreOver, OneBase
  <2> QED
    BY <2>5, <2>6, <2>7, <2>8 DEF OneWriter
<1>8. CASE listener = "schedule"
  <2>1. listener' = "header" /\ rolloverAt' = day + 1
        /\ UNCHANGED <<contents, base, rotated, modified, stream>>
    BY <1>1, <1>8 DEF doRollover, ro_schedule
  <2>2. on_disk' = on_disk
    BY <2>1 DEF on_disk
  <2>3. OneThread'
    BY <1>2, <2>1 DEF OneThread, RollingOver
  <2>4. \A d \in Days : rotated[d] # None => d < rolloverAt' - 1
    <3>1. day \in Nat
      BY LogBounds DEF LogTypes, LogTypeOK
    <3> QED
      BY <2>1, <3>1 DEF OneWriter, DaysAreOver
  <2>5. DaysAreOver' /\ OneBase'
    BY <1>1, <1>8, <2>1, <2>4 DEF OneWriter, DaysAreOver, OneBase
  <2>6. HeadersAreFirst' /\ RecordsAreOnDisk'
    BY <1>1, <1>8, <2>1, <2>2 DEF OneWriter, HeadersAreFirst, RecordsAreOnDisk, Holds
  <2> QED
    BY <2>3, <2>5, <2>6 DEF OneWriter
<1>9. CASE listener = "header"
  <2>1. /\ listener' = "write" /\ base' = opened /\ modified' = day
        /\ contents' = [held EXCEPT ![opened] = Append(@, Header)]
        /\ UNCHANGED <<rotated, stream, rolloverAt>>
    BY <1>1, <1>9 DEF doRollover, ro_header, appended
  <2>2. base # None /\ contents[base] = <<>>
    BY <1>9 DEF OneWriter, OneBase, HeadersAreFirst
  <2>3. opened = base /\ held = contents /\ base \in FileIds
    BY <1>3, <2>2, OpenedFile
  <2>4. contents' = [contents EXCEPT ![base] = << Header >>]
    <3>1. Append(<<>>, Header) = << Header >>
      OBVIOUS
    <3> QED
      BY <2>1, <2>2, <2>3, <3>1
  <2>5. on_disk' = on_disk /\ UNCHANGED base
    BY <2>1, <2>3 DEF on_disk
  <2>6. contents'[base] = << Header >> /\ \A f \in FileIds : f # base => contents'[f] = contents[f]
    BY <2>3, <2>4 DEF LogTypes, LogTypeOK
  <2>7. on_disk \subseteq FileIds
    BY <1>3 DEF on_disk, LogTypeOK
  <2>8. (\A f \in on_disk' : HeaderFirst(contents'[f])) /\ RecordsAreOnDisk'
    BY <1>1, <1>3, <2>2, <2>5, <2>6, <2>7, SameRecords
  <2>9. HeadersAreFirst'
    BY <2>1, <2>5, <2>6, <2>8 DEF HeadersAreFirst
  <2>10. OneThread'
    BY <1>2, <2>1 DEF OneThread, RollingOver
  <2>11. DaysAreOver' /\ OneBase'
    BY <1>1, <1>9, <2>1, <2>5 DEF OneWriter, DaysAreOver, OneBase
  <2> QED
    BY <2>8, <2>9, <2>10, <2>11 DEF OneWriter
<1> QED
  BY <1>1, <1>4, <1>5, <1>6, <1>7, <1>8, <1>9 DEF doRollover

(* One more record at the end of a file that has its header. *)
LEMMA OneMoreLine ==
    ASSUME NEW lines \in Seq(LogLine), lines # <<>>, HeaderFirst(lines),
           NEW n \in Nat, \A i \in DOMAIN lines : lines[i] <= n, n + 1 \in LogLine
    PROVE  LET more == Append(lines, n + 1)
           IN /\ more # <<>> /\ HeaderFirst(more)
              /\ \A i \in DOMAIN more : more[i] <= n + 1
              /\ \E i \in DOMAIN more : more[i] = n + 1
              /\ \A r \in 1 .. n : (\E i \in DOMAIN more : more[i] = r)
                                  <=> (\E i \in DOMAIN lines : lines[i] = r)
<1> DEFINE k == Len(lines)
           more == Append(lines, n + 1)
<1>1. k \in Nat /\ DOMAIN lines = 1 .. k /\ \A i \in DOMAIN lines : lines[i] \in LogLine
  BY SeqElements
<1>2. k # 0
  BY EmptySeq
<1>3. DOMAIN more = 1 .. k + 1 /\ (\A i \in 1 .. k : more[i] = lines[i]) /\ more[k + 1] = n + 1
      /\ more # <<>>
  BY AppendProperties, <1>1
<1> HIDE DEF k, more
<1>4. \A i \in 1 .. k + 1 : i \in 1 .. k \/ (i = k + 1 /\ i # 1)
  BY <1>1, <1>2
<1>5. n + 1 # Header /\ LogLine \subseteq Nat
  BY LogBounds DEF Header, LogLine
<1>6. HeaderFirst(more)
  BY <1>1, <1>3, <1>4, <1>5 DEF HeaderFirst
<1>7. \A i \in DOMAIN more : more[i] <= n + 1
  <2> SUFFICES ASSUME NEW i \in DOMAIN more PROVE more[i] <= n + 1
    OBVIOUS
  <2>1. CASE i \in 1 .. k
    <3>1. lines[i] <= n /\ lines[i] \in Nat /\ more[i] = lines[i]
      BY <1>1, <1>3, <1>5, <2>1
    <3> QED
      BY <3>1
  <2>2. CASE i = k + 1
    BY <2>2, <1>3
  <2> QED
    BY <1>3, <1>4, <2>1, <2>2
<1>8. \E i \in DOMAIN more : more[i] = n + 1
  <2>1. k + 1 \in 1 .. k + 1
    BY <1>1
  <2> QED
    BY <1>3, <2>1
<1>9. \A r \in 1 .. n : r # n + 1
  OBVIOUS
<1>10. \A r \in 1 .. n : (\E i \in DOMAIN more : more[i] = r)
                        <=> (\E i \in DOMAIN lines : lines[i] = r)
  <2>1. 1 .. k \subseteq 1 .. k + 1
    BY <1>1
  <2> QED
    BY <1>1, <1>3, <1>4, <1>9, <2>1
<1> QED
  BY <1>3, <1>6, <1>7, <1>8, <1>10 DEF more

LEMMA LogWrittenStep ==
    ASSUME LogTypes, LogTypes', OneWriter, ~rotate_at_rollover_time, record_written
    PROVE  OneWriter'
<1>1. base # None /\ stream = base /\ contents[base] # <<>> /\ listener = "write"
  BY DEF record_written, OneWriter, OneBase, HeadersAreFirst
<1>2. /\ logged' = logged + 1 /\ listener' = "idle" /\ modified' = day
      /\ contents' = [contents EXCEPT ![base] = Append(@, logged + 1)]
      /\ UNCHANGED <<day, base, stream, rotated, rolloverAt, rotator>>
  BY <1>1 DEF record_written
<1>3. on_disk' = on_disk /\ base \in on_disk
  BY <1>1, <1>2 DEF on_disk
<1>4. base \in FileIds /\ on_disk \subseteq FileIds /\ contents[base] \in Seq(LogLine)
      /\ logged \in Nat /\ logged + 1 \in LogLine
  BY <1>1, <1>2, LogBounds DEF LogTypes, LogTypeOK, LogLine, on_disk
<1> DEFINE more == Append(contents[base], logged + 1)
<1>5. contents'[base] = more /\ \A f \in on_disk : f # base => contents'[f] = contents[f]
  BY <1>2, <1>4 DEF LogTypes, LogTypeOK
<1>6. /\ more # <<>> /\ HeaderFirst(more)
      /\ \A i \in DOMAIN more : more[i] <= logged + 1
      /\ \E i \in DOMAIN more : more[i] = logged + 1
      /\ \A r \in 1 .. logged : (\E i \in DOMAIN more : more[i] = r) <=> Holds(base, r)
  <2>1. HeaderFirst(contents[base]) /\ \A i \in DOMAIN contents[base] : contents[base][i] <= logged
    BY <1>3 DEF OneWriter, HeadersAreFirst, RecordsAreOnDisk
  <2> QED
    BY <1>1, <1>4, <2>1, OneMoreLine DEF Holds
<1> HIDE DEF more
<1>7. OneThread'
  BY <1>2 DEF OneWriter, OneThread, RollingOver
<1>8. DaysAreOver'
  BY <1>1, <1>2, LogBounds DEF OneWriter, DaysAreOver
<1>9. OneBase'
  BY <1>1, <1>2 DEF OneWriter, OneBase
<1>10. HeadersAreFirst'
  BY <1>1, <1>2, <1>3, <1>5, <1>6 DEF OneWriter, HeadersAreFirst
<1>11. \A f \in on_disk : \A i \in DOMAIN contents[f] : contents[f][i] <= logged
  BY DEF OneWriter, RecordsAreOnDisk
<1>12. \A f \in on_disk : \A i \in DOMAIN contents[f] : contents[f][i] <= logged + 1 /\ contents[f][i] # logged + 1
  <2> SUFFICES ASSUME NEW f \in on_disk, NEW i \in DOMAIN contents[f]
               PROVE  contents[f][i] <= logged + 1 /\ contents[f][i] # logged + 1
    OBVIOUS
  <2>1. contents[f] \in Seq(LogLine)
    BY <1>4 DEF LogTypes, LogTypeOK, LogLine
  <2>2. contents[f][i] \in LogLine
    BY <2>1, SeqElements
  <2>3. contents[f][i] \in Nat
    BY <2>2, LogBounds DEF LogLine, Header
  <2>4. contents[f][i] <= logged
    BY <1>11
  <2> QED
    BY <1>4, <2>3, <2>4
<1>13. \A f \in on_disk' : \A i \in DOMAIN contents'[f] : contents'[f][i] <= logged'
  BY <1>2, <1>3, <1>5, <1>6, <1>12
<1>14. \A f \in on_disk : \A r \in 1 .. logged : Holds(f, r)' <=> Holds(f, r)
  BY <1>5, <1>6 DEF Holds
<1>16. \A r \in 1 .. logged' :
        \E f \in on_disk' : Holds(f, r)' /\ \A g \in on_disk' : Holds(g, r)' => g = f
  <2> SUFFICES ASSUME NEW r \in 1 .. logged + 1
               PROVE  \E f \in on_disk : Holds(f, r)' /\ \A g \in on_disk : Holds(g, r)' => g = f
    BY <1>2, <1>3
  <2>1. CASE r = logged + 1
    <3>1. PICK b : b = base
      OBVIOUS
    <3>2. Holds(b, r)' /\ \A f \in on_disk : Holds(f, r)' => f = b
      BY <2>1, <3>1, <1>5, <1>6, <1>12 DEF Holds
    <3> QED
      BY <1>3, <3>1, <3>2
  <2>2. CASE r \in 1 .. logged
    <3>1. PICK f \in on_disk : Holds(f, r) /\ \A g \in on_disk : Holds(g, r) => g = f
      BY <2>2 DEF OneWriter, RecordsAreOnDisk
    <3> QED
      BY <1>14, <2>2, <3>1
  <2>3. r = logged + 1 \/ r \in 1 .. logged
    BY <1>4
  <2> QED
    BY <2>1, <2>2, <2>3
<1>17. RecordsAreOnDisk'
  BY <1>13, <1>16 DEF RecordsAreOnDisk, Holds
<1> QED
  BY <1>7, <1>8, <1>9, <1>10, <1>17 DEF OneWriter

LEMMA LogRestartStep ==
    ASSUME LogTypes, LogTypes', OneWriter, ~rotate_at_rollover_time, Restart
    PROVE  OneWriter'
<1> DEFINE since == IF base = None THEN day ELSE modified
<1>1. /\ base' = opened /\ stream' = opened /\ contents' = first_header(opened)
      /\ rolloverAt' = since + 1 /\ modified' = IF held[opened] = <<>> THEN day ELSE since
      /\ listener' = "idle" /\ rotator' = "idle" /\ UNCHANGED <<day, rotated, logged>>
  BY DEF Restart
<1>2. /\ opened \in FileIds /\ held \in [FileIds -> Seq(LogLine)]
      /\ (base # None => held = contents) /\ (base = None => held[opened] = <<>>)
      /\ \A f \in FileIds : f # opened => held[f] = contents[f]
  BY OpenedFile DEF LogTypes
<1>3. /\ contents'[opened] = (IF held[opened] = <<>> THEN << Header >> ELSE held[opened])
      /\ \A f \in FileIds : f # opened => contents'[f] = contents[f]
  BY <1>1, <1>2 DEF first_header
<1>4. /\ base' # None /\ on_disk' = on_disk \cup {opened}
      /\ base # None => opened = base /\ on_disk' = on_disk
      /\ base = None => opened \notin on_disk
      /\ \A d \in Days : rotated[d] # None => rotated[d] # opened
  BY <1>1, AfterOpen
<1>5. LogTypeOK /\ LogTypeOK' /\ HeadersAreFirst /\ RecordsAreOnDisk /\ on_disk \subseteq FileIds
  BY DEF LogTypes, OneWriter, LogTypeOK, on_disk
<1>6. \A f \in on_disk : \/ contents'[f] = contents[f]
                         \/ (contents[f] = <<>> /\ contents'[f] = << Header >>)
  BY <1>2, <1>3, <1>4, <1>5
<1>7. \A f \in on_disk' \ on_disk : contents'[f] = <<>> \/ contents'[f] = << Header >>
  BY <1>2, <1>3, <1>4
<1>8. (\A f \in on_disk' : HeaderFirst(contents'[f])) /\ RecordsAreOnDisk'
  BY <1>1, <1>4, <1>5, <1>6, <1>7, SameRecords
<1>9. contents'[base'] # <<>>
  BY <1>1, <1>3
<1>10. HeadersAreFirst'
  BY <1>1, <1>8, <1>9 DEF HeadersAreFirst
<1>11. OneThread'
  BY <1>1 DEF OneThread, RollingOver
<1>12. \A d \in Days : rotated[d] # None => d < day /\ d < since /\ d < modified' /\ d < rolloverAt' - 1
  <2> SUFFICES ASSUME NEW d \in Days, rotated[d] # None
               PROVE  d < day /\ d < since /\ d < modified' /\ d < rolloverAt' - 1
    OBVIOUS
  <2>1. d < day /\ (listener # "open" => d < modified)
    BY DEF OneWriter, DaysAreOver
  <2>2. d < since
    BY <2>1 DEF OneWriter, OneBase
  <2>3. since \in Nat
    BY LogBounds DEF LogTypes, LogTypeOK
  <2>4. rolloverAt' - 1 = since
    BY <1>1, <2>3
  <2> HIDE DEF since
  <2> QED
    BY <1>1, <2>1, <2>2, <2>4
<1>13. DaysAreOver'
  BY <1>1, <1>12 DEF DaysAreOver
<1>14. OneBase'
  BY <1>1, <1>4 DEF OneWriter, OneBase
<1> QED
  BY <1>8, <1>10, <1>11, <1>13, <1>14 DEF OneWriter

LEMMA LogInductive == ASSUME LogIInv, [LogNext]_log_vars PROVE LogIInv'
<1>1. LogTypes /\ LogTypes'
  BY LogTypesStep DEF LogIInv
<1>2. UNCHANGED rotate_at_rollover_time
  BY DEF LogNext, LogThreads, log_vars, Midnight, record_filtered, listener_rolls_over,
         record_written, rotator_rolls_over, rotator_checks, rotator_remembers, Restart
<1>3. ASSUME ~rotate_at_rollover_time PROVE OneWriter'
  <2>1. OneWriter /\ rotator = "idle"
    BY <1>3 DEF LogIInv, OneWriter, OneThread
  <2>2. CASE UNCHANGED log_vars
    BY <2>1, <2>2 DEF log_vars, OneWriter, OneThread, DaysAreOver, OneBase, HeadersAreFirst,
                      RecordsAreOnDisk, Holds, on_disk
  <2>3. ~rotator_checks /\ ~rotator_rolls_over /\ ~rotator_remembers
    BY <1>3, <2>1 DEF rotator_checks, rotator_rolls_over, rotator_remembers, doRollover
  <2> QED
    BY <1>1, <1>3, <2>1, <2>2, <2>3, LogMidnightStep, LogFilteredStep, LogRolloverStep,
       LogWrittenStep, LogRestartStep DEF LogNext, LogThreads
<1> QED
  BY <1>1, <1>2, <1>3 DEF LogIInv

LEMMA LogHolds == ASSUME LogIInv PROVE LogTypeOK /\ OneHeaderAndEveryRecord
<1>1. ASSUME ~rotate_at_rollover_time, NEW r \in 1 .. logged
      PROVE  Cardinality({f \in on_disk : places(r, f) # {}}) = 1
  <2>1. PICK f \in on_disk : Holds(f, r) /\ \A g \in on_disk : Holds(g, r) => g = f
    BY <1>1 DEF LogIInv, OneWriter, RecordsAreOnDisk
  <2>2. \A g : places(r, g) # {} <=> Holds(g, r)
    BY DEF places, Holds
  <2>3. {g \in on_disk : places(r, g) # {}} = {f}
    BY <2>1, <2>2
  <2> QED
    BY <2>3, FS_Singleton
<1>2. ASSUME ~rotate_at_rollover_time, NEW f \in on_disk, contents[f] # <<>>
      PROVE  places(Header, f) = {1}
  <2>1. HeaderFirst(contents[f])
    BY <1>2 DEF LogIInv, OneWriter, HeadersAreFirst
  <2>2. contents[f] \in Seq(LogLine)
    BY DEF LogIInv, LogTypes, LogTypeOK, on_disk, LogLine
  <2>3. 1 \in DOMAIN contents[f]
    BY <1>2, <2>2, EmptySeq, LenProperties
  <2> QED
    BY <2>1, <2>3 DEF places, HeaderFirst
<1> QED
  BY <1>1, <1>2 DEF OneHeaderAndEveryRecord, LogIInv, LogTypes
-----------------------------------------------------------------------------
(* The reader of a log that rotates. *)

(* The lines of a file whose last row is number n: the header and the rows *)
(* up to n. *)
FileUpTo(lines, n) ==
    /\ Len(lines) >= 1 /\ lines[1] = HeaderRow
    /\ Len(lines) <= n + 1
    /\ \A i \in DOMAIN lines : i > 1 => lines[i] = n - Len(lines) + i

\* How many rows had been written when the present file was begun.
begun == written - (Len(current) - 1)
Newest == archived[Len(archived)]

FilesInOrder ==
    /\ written \in Nat
    /\ ~there => written = 0 /\ current = <<>> /\ archived = <<>>
    /\ there => FileUpTo(current, written)
    /\ archived # <<>> => FileUpTo(Newest, begun)
    /\ existing_lines \subseteq 0 .. written

ReaderTypes ==
    /\ ReaderTypeOK
    /\ current \in Seq(Nat) /\ archived \in Seq(Seq(Nat)) /\ Len(archived) <= MaxRotations + 1
    /\ reported \in Seq(Nat) /\ from_previous \in Seq(Nat)
    /\ reader \in {"idle", "previous", "count", "read_previous", "read_latest"}
    /\ header_read \in BOOLEAN /\ disturbed \in BOOLEAN
    /\ existing_count \in Nat /\ since_poll \in Nat /\ log_files_count \in Nat
    /\ reader = "read_previous" => previous <= Len(archived)
    /\ reader = "count" => previous <= Len(archived)
    /\ FilesInOrder

(* What was returned, and what the call in progress will return first.     *)
told == reported \o from_previous
(* The rows in it go up to number n. *)
UpTo(lines, n) ==
    \/ \A i \in DOMAIN lines : lines[i] = HeaderRow
    \/ \E i \in DOMAIN lines :
          /\ lines[i] = n /\ n # HeaderRow
          /\ \A k \in DOMAIN lines : k > i => lines[k] = HeaderRow

(* The file that the next rows are read from, and its last row. *)
rotated_since == Len(archived) + 2 > existing_count
(* The rows up to n are those already returned, of which the file's own    *)
(* are the existing lines. *)
ReadUpTo(lines, last, n) ==
    /\ n \in last - (Len(lines) - 1) .. last
    /\ \A r \in last - (Len(lines) - 1) + 1 .. last : r \in existing_lines <=> r <= n
ToldUpTo(n) ==
    /\ UpTo(told, n)
    /\ IF rotated_since THEN ReadUpTo(Newest, begun, n) ELSE ReadUpTo(current, written, n)

Undisturbed ==
    /\ InARow(told)
    /\ reader # "read_latest" => from_previous = <<>>
    /\ existing_count = 0 =>
          reader = "idle" /\ told = <<>> /\ existing_lines = {}
    /\ existing_count # 0 =>
          /\ there
          /\ Len(archived) + 2 \in {existing_count, existing_count + 1}
          /\ rotated_since => archived # <<>>
          /\ reader = "idle" => (rotated_since <=> since_poll > 0)
          /\ reader # "idle" => since_poll = 0
          /\ reader \in {"count", "read_previous"} => previous = Len(archived)
          /\ reader = "read_previous" =>
                rotated_since /\ log_files_count = Len(archived) + 2
          /\ reader = "read_latest" => ~rotated_since
          /\ \E n \in 0 .. written : ToldUpTo(n)

ReaderIInv == ReaderTypes /\ (~disturbed => Undisturbed)
-----------------------------------------------------------------------------
(* The places in a sequence can be enumerated in order. *)
Enumerates(f, S) ==
    f \in [1 .. Cardinality(S) -> S] /\ InOrder(f) /\ S = {f[k] : k \in DOMAIN f}

LEMMA EnumerationIsThere ==
    ASSUME NEW L \in Nat, NEW S \in SUBSET (1 .. L)
    PROVE  Cardinality(S) \in Nat /\ Enumerates(Enumeration(S), S)
<1> DEFINE T == {n \in Nat : \A R \in SUBSET (1 .. n) : \E f : Enumerates(f, R)}
<1>1. \A n \in Nat : \A R \in SUBSET (1 .. n) : IsFiniteSet(R) /\ Cardinality(R) \in Nat
  <2> SUFFICES ASSUME NEW n \in Nat, NEW R \in SUBSET (1 .. n)
               PROVE  IsFiniteSet(R) /\ Cardinality(R) \in Nat
    OBVIOUS
  <2>1. IsFiniteSet(1 .. n)
    BY FS_Interval
  <2> QED
    BY <2>1, FS_Subset, FS_CardinalityType
<1>2. 0 \in T
  <2> SUFFICES ASSUME NEW R \in SUBSET (1 .. 0) PROVE \E f : Enumerates(f, R)
    OBVIOUS
  <2>1. R = {}
    OBVIOUS
  <2>3. Cardinality(R) = 0
    BY <2>1, FS_EmptySet
  <2>2. Enumerates([k \in 1 .. 0 |-> k], R)
    BY <2>1, <2>3 DEF Enumerates, InOrder
  <2> QED
    BY <2>2
<1>3. ASSUME NEW n \in T PROVE n + 1 \in T
  <2> SUFFICES ASSUME NEW R \in SUBSET (1 .. n + 1) PROVE \E f : Enumerates(f, R)
    OBVIOUS
  <2>1. CASE n + 1 \notin R
    <3>1. R \in SUBSET (1 .. n)
      BY <2>1
    <3> QED
      BY <3>1
  <2>2. CASE n + 1 \in R
    <3> DEFINE Q == R \ {n + 1}
    <3>1. Q \in SUBSET (1 .. n)
      OBVIOUS
    <3>2. PICK g : Enumerates(g, Q)
      BY <3>1
    <3>3. IsFiniteSet(Q) /\ Cardinality(Q) \in Nat
      BY <1>1, <3>1
    <3>4. R = Q \cup {n + 1} /\ n + 1 \notin Q
      BY <2>2
    <3>5. Cardinality(R) = Cardinality(Q) + 1
      BY <3>3, <3>4, FS_AddElement
    <3> DEFINE c == Cardinality(Q)
               f == [k \in 1 .. c + 1 |-> IF k = c + 1 THEN n + 1 ELSE g[k]]
    <3>6. \A k \in 1 .. c : g[k] \in Q /\ g[k] <= n /\ g[k] \in Nat
      <4>1. \A k \in 1 .. c : g[k] \in Q
        BY <3>2 DEF Enumerates
      <4>2. \A q \in Q : q <= n /\ q \in Nat
        BY <3>1
      <4> QED
        BY <4>1, <4>2
    <3>7. \A k \in 1 .. c : f[k] = g[k] /\ k \in 1 .. c + 1
      BY <3>3
    <3>8. f[c + 1] = n + 1 /\ c + 1 \in 1 .. c + 1
      BY <3>3
    <3>9. \A k \in 1 .. c + 1 : k = c + 1 \/ k \in 1 .. c
      BY <3>3
    <3>10. f \in [1 .. c + 1 -> R]
      BY <3>4, <3>6, <3>7, <3>9
    <3>11. DOMAIN f = 1 .. c + 1
      OBVIOUS
    <3>12. DOMAIN g = 1 .. c /\ InOrder(g) /\ Q = {g[k] : k \in 1 .. c}
      BY <3>2 DEF Enumerates
    <3> HIDE DEF f, c, Q
    <3>13. InOrder(f)
      <4> SUFFICES ASSUME NEW k \in 1 .. c + 1, NEW l \in 1 .. c + 1, k < l
                   PROVE  f[k] < f[l]
        BY <3>11 DEF InOrder
      <4>1. k \in 1 .. c
        BY <3>3 DEF c
      <4>2. CASE l = c + 1
        BY <4>1, <4>2, <3>6, <3>7, <3>8
      <4>3. CASE l \in 1 .. c
        BY <4>1, <4>3, <3>7, <3>12 DEF InOrder
      <4> QED
        BY <3>9, <4>2, <4>3
    <3>14. R = {f[k] : k \in 1 .. c + 1}
      BY <3>4, <3>7, <3>8, <3>9, <3>10, <3>12
    <3>15. Enumerates(f, R)
      BY <3>5, <3>10, <3>11, <3>13, <3>14 DEF Enumerates, c
    <3> QED
      BY <3>15
  <2> QED
    BY <2>1, <2>2
<1>4. T = Nat
  <2> HIDE DEF T
  <2>1. T \in SUBSET Nat
    BY DEF T
  <2> QED
    BY <1>2, <1>3, <2>1, EveryNat
<1>5. \E f : Enumerates(f, S)
  BY <1>4
<1>6. \E f \in [1 .. Cardinality(S) -> S] : InOrder(f) /\ S = {f[k] : k \in DOMAIN f}
  BY <1>5 DEF Enumerates
<1>7. Enumerates(Enumeration(S), S)
  BY <1>6 DEF Enumeration, Enumerates
<1> QED
  BY <1>1, <1>7
-----------------------------------------------------------------------------
Among(x, lines) == \E i \in DOMAIN lines : lines[i] = x

LEMMA NewLines ==
    ASSUME NEW rows \in Seq(Nat)
    PROVE  /\ new_lines(rows) \in Seq(Nat)
           /\ \A x : Among(x, new_lines(rows)) <=> Among(x, rows) /\ x \notin existing_lines
           /\ InOrder(rows) => InOrder(new_lines(rows))
<1> DEFINE S == {i \in DOMAIN rows : rows[i] \notin existing_lines}
           f == Enumeration(S)
           c == Cardinality(S)
           N == [k \in 1 .. c |-> rows[f[k]]]
<1>1. Len(rows) \in Nat /\ DOMAIN rows = 1 .. Len(rows) /\ \A i \in DOMAIN rows : rows[i] \in Nat
  BY SeqElements
<1>2. c \in Nat /\ Enumerates(f, S)
  <2>1. S \in SUBSET (1 .. Len(rows))
    BY <1>1
  <2> HIDE DEF S
  <2> QED
    BY <1>1, <2>1, EnumerationIsThere
<1>3. DOMAIN f = 1 .. c /\ InOrder(f) /\ S = {f[k] : k \in 1 .. c} /\ \A k \in 1 .. c : f[k] \in S
  BY <1>2 DEF Enumerates
<1>4. new_lines(rows) = N
  BY <1>3 DEF new_lines
<1>5. S \subseteq 1 .. Len(rows) /\ (\A i \in S : rows[i] \notin existing_lines /\ rows[i] \in Nat)
      /\ \A i \in 1 .. Len(rows) : rows[i] \notin existing_lines => i \in S
  BY <1>1
<1> HIDE DEF S, f, c
<1>6. N \in [1 .. c -> Nat] /\ DOMAIN N = 1 .. c
  BY <1>3, <1>5
<1>7. N \in Seq(Nat)
  <2> HIDE DEF N
  <2> QED
    BY <1>2, <1>6
<1>8. \A x : Among(x, N) <=> Among(x, rows) /\ x \notin existing_lines
  <2>1. \A k \in 1 .. c : N[k] = rows[f[k]] /\ f[k] \in S
    BY <1>3
  <2> HIDE DEF N
  <2>2. ASSUME NEW x, Among(x, N) PROVE Among(x, rows) /\ x \notin existing_lines
    <3>1. PICK k \in 1 .. c : N[k] = x
      BY <1>6, <2>2 DEF Among
    <3>2. f[k] \in 1 .. Len(rows) /\ rows[f[k]] = x /\ x \notin existing_lines
      BY <1>5, <2>1, <3>1
    <3> QED
      BY <1>1, <3>2 DEF Among
  <2>3. ASSUME NEW x, Among(x, rows), x \notin existing_lines PROVE Among(x, N)
    <3>1. PICK i \in 1 .. Len(rows) : rows[i] = x
      BY <1>1, <2>3 DEF Among
    <3>2. i \in S
      BY <1>5, <2>3, <3>1
    <3>3. PICK k \in 1 .. c : f[k] = i
      BY <1>3, <3>2
    <3> QED
      BY <1>6, <2>1, <3>1, <3>3 DEF Among
  <2> QED
    BY <2>2, <2>3
<1>9. ASSUME InOrder(rows) PROVE InOrder(N)
  <2> SUFFICES ASSUME NEW k \in 1 .. c, NEW l \in 1 .. c, k < l PROVE rows[f[k]] < rows[f[l]]
    BY DEF InOrder
  <2>1. f[k] < f[l] /\ f[k] \in 1 .. Len(rows) /\ f[l] \in 1 .. Len(rows)
    BY <1>3, <1>5 DEF InOrder
  <2> QED
    BY <1>1, <1>9, <2>1 DEF InOrder
<1> QED
  BY <1>4, <1>7, <1>8, <1>9

(* The rows of a file up to number n. *)
LEMMA RowsOfFile ==
    ASSUME NEW lines \in Seq(Nat), NEW n \in Nat, FileUpTo(lines, n)
    PROVE  /\ rows_of(lines) \in Seq(Nat) /\ InOrder(rows_of(lines))
           /\ Len(lines) \in Nat /\ n - (Len(lines) - 1) \in Nat
           /\ \A x \in Nat : Among(x, rows_of(lines)) => x <= n
           /\ \A x \in Nat : x # HeaderRow =>
                 (Among(x, rows_of(lines)) <=> x \in n - (Len(lines) - 1) + 1 .. n)
<1> DEFINE L == Len(lines)
           rows == rows_of(lines)
           K == n - (L - 1)
<1>1. L \in Nat /\ L >= 1 /\ DOMAIN lines = 1 .. L /\ lines[1] = 0 /\ L <= n + 1
  BY SeqElements DEF FileUpTo, HeaderRow
<1>2. \A i \in 1 .. L : lines[i] = IF i = 1 THEN 0 ELSE n - L + i
  BY <1>1 DEF FileUpTo
<1>3. lines # <<>>
  BY <1>1, EmptySeq
<1>4. K \in Nat
  BY <1>1
<1>5. CASE rows = lines
  <2>1. InOrder(rows)
    <3> SUFFICES ASSUME NEW k \in 1 .. L, NEW l \in 1 .. L, k < l PROVE lines[k] < lines[l]
      BY <1>1, <1>5 DEF InOrder
    <3>1. l # 1 /\ lines[l] = n - L + l /\ n - L + l > 0
      BY <1>1, <1>2
    <3>2. CASE k = 1
      BY <1>1, <3>1, <3>2
    <3>3. CASE k # 1
      <4>1. lines[k] = n - L + k
        BY <1>2, <3>3
      <4> HIDE DEF L
      <4> QED
        BY <1>1, <3>1, <4>1
    <3> QED
      BY <3>2, <3>3
  <2>2. \A x \in Nat : Among(x, lines) => x <= n
    BY <1>1, <1>2 DEF Among
  <2>3. ASSUME NEW x \in Nat, x # 0, Among(x, lines) PROVE x \in K + 1 .. n
    BY <1>1, <1>2, <2>3 DEF Among
  <2>4. ASSUME NEW x \in Nat, x \in K + 1 .. n PROVE Among(x, lines)
    <3>1. x - n + L \in 1 .. L /\ x - n + L # 1
      BY <1>1, <2>4
    <3>2. lines[x - n + L] = x
      <4>1. lines[x - n + L] = n - L + (x - n + L)
        BY <1>2, <3>1
      <4> QED
        BY <1>1, <4>1
    <3> QED
      BY <1>1, <3>1, <3>2 DEF Among
  <2> QED
    BY <1>1, <1>4, <1>5, <2>1, <2>2, <2>3, <2>4 DEF HeaderRow
<1>6. CASE rows = Tail(lines)
  <2>1. rows \in Seq(Nat) /\ Len(rows) = L - 1 /\ \A i \in 1 .. L - 1 : rows[i] = lines[i + 1]
    BY <1>3, <1>6, HeadTailProperties
  <2>2. DOMAIN rows = 1 .. L - 1
    BY <2>1, SeqElements
  <2>3. \A i \in 1 .. L - 1 : rows[i] = n - L + 1 + i
    <3> SUFFICES ASSUME NEW i \in 1 .. L - 1 PROVE rows[i] = n - L + 1 + i
      OBVIOUS
    <3>1. i + 1 \in 1 .. L /\ i + 1 # 1
      BY <1>1
    <3>2. lines[i + 1] = n - L + (i + 1)
      BY <1>2, <3>1
    <3> QED
      BY <1>1, <2>1, <3>2
  <2> HIDE DEF rows
  <2>4. InOrder(rows)
    <3> SUFFICES ASSUME NEW k \in 1 .. L - 1, NEW l \in 1 .. L - 1, k < l PROVE rows[k] < rows[l]
      BY <2>2 DEF InOrder
    <3>1. rows[k] = n - L + 1 + k /\ rows[l] = n - L + 1 + l
      BY <2>3
    <3> QED
      BY <1>1, <3>1
  <2>5. \A x \in Nat : Among(x, rows) => x <= n
    BY <1>1, <2>2, <2>3 DEF Among
  <2>6. ASSUME NEW x \in Nat, x # 0, Among(x, rows) PROVE x \in K + 1 .. n
    BY <1>1, <2>2, <2>3, <2>6 DEF Among
  <2>7. ASSUME NEW x \in Nat, x \in K + 1 .. n PROVE Among(x, rows)
    <3>1. x - n + L - 1 \in 1 .. L - 1
      BY <1>1, <2>7
    <3>2. rows[x - n + L - 1] = x
      <4>1. rows[x - n + L - 1] = n - L + 1 + (x - n + L - 1)
        BY <2>3, <3>1
      <4> QED
        BY <1>1, <4>1
    <3> QED
      BY <2>2, <3>1, <3>2 DEF Among
  <2> QED
    BY <1>1, <1>4, <2>1, <2>4, <2>5, <2>6, <2>7 DEF HeaderRow, rows
<1> QED
  BY <1>5, <1>6 DEF rows_of

(* The rows of a file that were not returned yet. *)
NextRows(lines, n, m) ==
    /\ lines \in Seq(Nat) /\ InOrder(lines)
    /\ \A x \in Nat \ {0} : Among(x, lines) <=> n < x /\ x <= m

LEMMA NewRowsOfFile ==
    ASSUME NEW lines \in Seq(Nat), NEW m \in Nat, FileUpTo(lines, m), NEW n \in Nat,
           ReadUpTo(lines, m, n)
    PROVE  NextRows(new_lines(rows_of(lines)), n, m) /\ n <= m
<1> DEFINE rows == rows_of(lines)
           K == m - (Len(lines) - 1)
<1>1. /\ rows \in Seq(Nat) /\ InOrder(rows) /\ K \in Nat
      /\ \A x \in Nat : x # 0 => (Among(x, rows) <=> x \in K + 1 .. m)
  BY RowsOfFile DEF HeaderRow
<1>2. n \in K .. m /\ \A r \in K + 1 .. m : r \in existing_lines <=> r <= n
  BY DEF ReadUpTo
<1> HIDE DEF rows, K
<1>3. new_lines(rows) \in Seq(Nat) /\ InOrder(new_lines(rows))
  BY <1>1, NewLines
<1>4. \A x : Among(x, new_lines(rows)) <=> Among(x, rows) /\ x \notin existing_lines
  BY <1>1, NewLines
<1>5. \A x \in Nat \ {0} : Among(x, new_lines(rows)) <=> n < x /\ x <= m
  <2> SUFFICES ASSUME NEW x \in Nat \ {0}
               PROVE  Among(x, rows) /\ x \notin existing_lines <=> n < x /\ x <= m
    BY <1>4
  <2>1. Among(x, rows) <=> x \in K + 1 .. m
    BY <1>1
  <2>2. x \in K + 1 .. m => (x \in existing_lines <=> x <= n)
    BY <1>2
  <2>3. n < x /\ x <= m => x \in K + 1 .. m
    BY <1>1, <1>2
  <2> QED
    BY <1>1, <1>2, <2>1, <2>2, <2>3
<1> QED
  BY <1>2, <1>3, <1>5 DEF NextRows, rows

(* Rows that follow those returned. *)
LEMMA NextRowsFollow ==
    ASSUME NEW s \in Seq(Nat), NEW n \in Nat, NEW m \in Nat, n <= m, InARow(s), UpTo(s, n),
           NEW next, NextRows(next, n, m)
    PROVE  s \o next \in Seq(Nat) /\ InARow(s \o next) /\ UpTo(s \o next, m)
<1> DEFINE a == Len(s)
           b == Len(next)
           q == s \o next
<1>1. /\ next \in Seq(Nat) /\ InOrder(next)
      /\ \A x \in Nat \ {0} : Among(x, next) <=> n < x /\ x <= m
  BY DEF NextRows
<1>2. a \in Nat /\ b \in Nat /\ DOMAIN s = 1 .. a /\ DOMAIN next = 1 .. b
      /\ (\A i \in 1 .. a : s[i] \in Nat) /\ (\A i \in 1 .. b : next[i] \in Nat)
  BY <1>1, SeqElements
<1>3. q \in Seq(Nat) /\ Len(q) = a + b /\ (\A i \in 1 .. a + b : q[i] = IF i <= a THEN s[i] ELSE next[i - a])
  BY <1>1, ConcatProperties
<1>4. DOMAIN q = 1 .. a + b
  BY <1>3, SeqElements
<1> HIDE DEF q, a, b
<1>5. \A i \in 1 .. a : i \in 1 .. a + b /\ q[i] = s[i]
  BY <1>2, <1>3
<1>6. \A i \in 1 .. b : i + a \in 1 .. a + b /\ q[i + a] = next[i]
  <2> SUFFICES ASSUME NEW i \in 1 .. b PROVE i + a \in 1 .. a + b /\ q[i + a] = next[i]
    OBVIOUS
  <2>1. i + a \in 1 .. a + b /\ ~(i + a <= a) /\ (i + a) - a = i
    BY <1>2
  <2> QED
    BY <1>3, <2>1
<1>7. \A i \in 1 .. a + b : i \in 1 .. a \/ \E h \in 1 .. b : i = h + a
  <2> SUFFICES ASSUME NEW i \in 1 .. a + b, i \notin 1 .. a PROVE \E h \in 1 .. b : i = h + a
    OBVIOUS
  <2>1. i - a \in 1 .. b /\ i = (i - a) + a
    BY <1>2
  <2> QED
    BY <2>1
<1>8. \A h, k \in 1 .. b : h < k => next[h] < next[k]
  BY <1>1, <1>2 DEF InOrder
<1>9. \A x \in Nat : n < x /\ x <= m => \E h \in 1 .. b : next[h] = x
  BY <1>1, <1>2 DEF Among
<1>10. \A h \in 1 .. b : next[h] # 0 => n < next[h] /\ next[h] <= m
  BY <1>1, <1>2 DEF Among
<1>11. InARow(q)
  <2> SUFFICES ASSUME NEW i \in 1 .. a + b, NEW j \in 1 .. a + b, i < j, q[i] # 0, q[j] # 0,
                      \A k \in i + 1 .. j - 1 : q[k] = 0
               PROVE  q[j] = q[i] + 1
    BY <1>4 DEF InARow, HeaderRow
  <2>1. CASE j \in 1 .. a
    <3>1. i \in 1 .. a /\ \A k \in i + 1 .. j - 1 : k \in 1 .. a
      BY <1>2, <2>1
    <3>2. s[i] # 0 /\ s[j] # 0 /\ \A k \in i + 1 .. j - 1 : s[k] = 0
      BY <1>5, <2>1, <3>1
    <3>3. s[j] = s[i] + 1
      BY <1>2, <2>1, <3>1, <3>2 DEF InARow, HeaderRow
    <3> QED
      BY <1>5, <2>1, <3>1, <3>3
  <2>2. ASSUME NEW l \in 1 .. b, j = l + a PROVE q[j] = q[i] + 1
    <3>1. q[j] = next[l] /\ n < next[l] /\ next[l] <= m /\ next[l] \in Nat
      BY <1>2, <1>6, <1>10, <2>2
    <3>2. ASSUME NEW h \in 1 .. b, i < h + a, h < l PROVE next[h] = 0
      <4>1. h + a \in i + 1 .. j - 1
        BY <1>2, <2>2, <3>2
      <4> QED
        BY <1>6, <4>1
    <3>3. CASE i \in 1 .. a
      <4>1. q[i] = s[i] /\ s[i] # 0 /\ \A k \in 1 .. a : k > i => s[k] = 0
        <5>1. \A k \in 1 .. a : k > i => k \in i + 1 .. j - 1
          BY <1>2, <2>2
        <5> QED
          BY <1>5, <3>3, <5>1
      <4>2. PICK v \in 1 .. a : s[v] = n /\ n # 0 /\ \A k \in 1 .. a : k > v => s[k] = 0
        BY <1>2, <3>3, <4>1 DEF UpTo, HeaderRow
      <4>3. v = i
        BY <1>2, <3>3, <4>1, <4>2
      <4>4. ASSUME next[l] # n + 1 PROVE FALSE
        <5>1. n < n + 1 /\ n + 1 <= m /\ n + 1 \in Nat /\ n + 1 < next[l]
          BY <3>1, <4>4
        <5>2. PICK h \in 1 .. b : next[h] = n + 1
          BY <1>9, <5>1
        <5>3. h < l
          <6>1. h = l \/ l < h \/ h < l
            BY <1>2
          <6>2. ASSUME l < h PROVE FALSE
            BY <1>8, <3>1, <5>1, <5>2, <6>2
          <6> QED
            BY <5>1, <5>2, <6>1, <6>2
        <5>4. i < h + a
          BY <1>2, <3>3
        <5> QED
          BY <3>2, <5>2, <5>3, <5>4
      <4> QED
        BY <3>1, <4>1, <4>2, <4>3, <4>4
    <3>4. ASSUME NEW g \in 1 .. b, i = g + a PROVE q[j] = q[i] + 1
      <4>1. q[i] = next[g] /\ next[g] # 0 /\ g < l /\ next[g] \in Nat
        BY <1>2, <1>6, <2>2, <3>4
      <4>2. next[g] < next[l] /\ n < next[g]
        BY <1>8, <1>10, <4>1
      <4>3. ASSUME next[l] # next[g] + 1 PROVE FALSE
        <5> DEFINE x == next[g] + 1
        <5>1. n < x /\ x <= m /\ x \in Nat /\ x < next[l] /\ next[g] < x
          <6>1. PICK u \in Nat : u = next[g]
            BY <4>1
          <6>2. PICK w \in Nat : w = next[l]
            BY <3>1
          <6>3. u < w /\ w # u + 1 /\ n < u /\ w <= m
            BY <3>1, <4>2, <4>3, <6>1, <6>2
          <6>4. x = u + 1
            BY <6>1
          <6>5. n < u + 1 /\ u + 1 <= m /\ u + 1 \in Nat /\ u + 1 < w /\ u < u + 1
            BY <6>3
          <6> HIDE DEF x
          <6> QED
            BY <6>1, <6>2, <6>4, <6>5
        <5>2. PICK h \in 1 .. b : next[h] = x
          BY <1>9, <5>1
        <5> HIDE DEF x
        <5>3. h < l
          <6>1. h = l \/ l < h \/ h < l
            BY <1>2
          <6>2. ASSUME l < h PROVE FALSE
            BY <1>8, <3>1, <5>1, <5>2, <6>2
          <6> QED
            BY <3>1, <5>1, <5>2, <6>1, <6>2
        <5>4. g < h
          <6>1. h = g \/ h < g \/ g < h
            BY <1>2
          <6>2. ASSUME h < g PROVE FALSE
            BY <1>8, <4>1, <5>1, <5>2, <6>2
          <6> QED
            BY <4>1, <5>1, <5>2, <6>1, <6>2
        <5>5. i < h + a
          BY <1>2, <3>4, <5>4
        <5> QED
          BY <3>2, <5>1, <5>2, <5>3, <5>5
      <4> QED
        BY <3>1, <4>1, <4>3
    <3> QED
      BY <1>7, <3>3, <3>4
  <2> QED
    BY <1>7, <2>1, <2>2
<1>12. CASE \A h \in 1 .. b : next[h] = 0
  <2>1. n = m
    BY <1>9, <1>12
  <2>2. CASE \A i \in 1 .. a : s[i] = 0
    <3>1. \A i \in 1 .. a + b : q[i] = 0
      BY <1>5, <1>6, <1>7, <1>12, <2>2
    <3> QED
      BY <1>3, <1>4, <1>11, <3>1 DEF UpTo, HeaderRow, q
  <2>3. CASE ~\A i \in 1 .. a : s[i] = 0
    <3>1. PICK v \in 1 .. a : s[v] = n /\ n # 0 /\ \A k \in 1 .. a : k > v => s[k] = 0
      BY <1>2, <2>3 DEF UpTo, HeaderRow
    <3>2. \A k \in 1 .. a + b : k > v => q[k] = 0
      BY <1>5, <1>6, <1>7, <1>12, <3>1
    <3>3. q[v] = n /\ v \in 1 .. a + b
      BY <1>5, <3>1
    <3> QED
      BY <1>3, <1>4, <1>11, <2>1, <3>1, <3>2, <3>3 DEF UpTo, HeaderRow, q
  <2> QED
    BY <2>2, <2>3
<1>13. CASE ~\A h \in 1 .. b : next[h] = 0
  <2>1. n < m /\ m # 0
    BY <1>10, <1>13, <1>2
  <2>2. PICK h \in 1 .. b : next[h] = m
    BY <1>9, <2>1
  <2>3. ASSUME NEW k \in 1 .. b, h < k PROVE FALSE
    <3>1. next[h] < next[k] /\ next[k] \in Nat
      BY <1>2, <1>8, <2>3
    <3>2. next[k] # 0 /\ next[k] <= m
      BY <1>10, <2>2, <3>1
    <3> QED
      BY <2>2, <3>1, <3>2
  <2>4. q[h + a] = m /\ h + a \in 1 .. a + b
    BY <1>6, <2>2
  <2>5. ASSUME NEW k \in 1 .. a + b, k > h + a PROVE FALSE
    <3>1. PICK g \in 1 .. b : k = g + a
      BY <1>2, <1>7, <2>5
    <3>2. h < g
      BY <1>2, <2>5, <3>1
    <3> QED
      BY <2>3, <3>2
  <2> QED
    BY <1>3, <1>4, <1>11, <2>1, <2>4, <2>5 DEF UpTo, HeaderRow, q
<1> QED
  BY <1>12, <1>13
-----------------------------------------------------------------------------
LEMMA ReaderBounds ==
    MaxRows \in Nat /\ MaxRotations \in Nat /\ HeaderRow = 0
  BY ReaderAssumption DEF HeaderRow

LEMMA OneHeader ==
    /\ << HeaderRow >> \in Seq(Nat) /\ Len(<< HeaderRow >>) = 1
    /\ \A n \in Nat : FileUpTo(<< HeaderRow >>, n)
  BY DEF FileUpTo, HeaderRow

LEMMA OneMoreRow ==
    ASSUME NEW lines \in Seq(Nat), NEW n \in Nat, FileUpTo(lines, n)
    PROVE  FileUpTo(Append(lines, n + 1), n + 1)
<1> DEFINE L == Len(lines)
           more == Append(lines, n + 1)
<1>1. L \in Nat /\ DOMAIN lines = 1 .. L /\ L >= 1 /\ lines[1] = HeaderRow /\ L <= n + 1
      /\ \A i \in 1 .. L : i > 1 => lines[i] = n - L + i
  BY SeqElements DEF FileUpTo
<1>2. more \in Seq(Nat) /\ Len(more) = L + 1 /\ (\A i \in 1 .. L : more[i] = lines[i]) /\ more[L + 1] = n + 1
  BY AppendProperties, <1>1
<1>3. DOMAIN more = 1 .. L + 1
  BY <1>2, SeqElements
<1> HIDE DEF more, L
<1>4. more[1] = HeaderRow
  <2>1. 1 \in 1 .. L
    BY <1>1
  <2> QED
    BY <1>1, <1>2, <2>1
<1>5. ASSUME NEW i \in 1 .. L + 1, i > 1 PROVE more[i] = (n + 1) - (L + 1) + i
  <2>1. CASE i \in 1 .. L
    <3>1. more[i] = n - L + i
      BY <1>1, <1>2, <1>5, <2>1
    <3> QED
      BY <1>1, <3>1
  <2>2. CASE i = L + 1
    BY <1>1, <1>2, <2>2
  <2> QED
    BY <1>1, <2>1, <2>2
<1>6. L + 1 >= 1 /\ L + 1 <= (n + 1) + 1
  BY <1>1
<1> QED
  BY <1>2, <1>3, <1>4, <1>5, <1>6 DEF FileUpTo, more

LEMMA NumberOfFirst == 0 - (1 - 1) = 0
  OBVIOUS

LEMMA ReaderInitially == ReaderInit => ReaderIInv
<1> SUFFICES ASSUME ReaderInit PROVE ReaderIInv
  OBVIOUS
<1>1. /\ there \in BOOLEAN /\ (there => current = << HeaderRow >>) /\ (~there => current = <<>>)
      /\ archived = <<>> \/ (archived = << << HeaderRow >> >> /\ there)
      /\ written = 0 /\ reader = "idle" /\ header_read = FALSE
      /\ existing_lines = {} /\ existing_count = 0 /\ previous = 0
      /\ log_files_count = 0 /\ from_previous = <<>>
      /\ reported = <<>> /\ since_poll = 0 /\ disturbed = FALSE
  BY DEF ReaderInit
<1>2. current \in Seq(Nat)
  <2>1. <<>> \in Seq(Nat)
    OBVIOUS
  <2> QED
    BY <1>1, <2>1, OneHeader
<1>3. archived \in Seq(Seq(Nat)) /\ Len(archived) <= 1
  <2>1. \A S : \A x \in S : <<x>> \in Seq(S) /\ Len(<<x>>) = 1
    OBVIOUS
  <2>2. << << HeaderRow >> >> \in Seq(Seq(Nat)) /\ Len(<< << HeaderRow >> >>) = 1
    BY <2>1, OneHeader
  <2>3. <<>> \in Seq(Seq(Nat)) /\ Len(<<>>) = 0
    OBVIOUS
  <2>4. CASE archived = <<>>
    BY <2>3, <2>4
  <2>5. CASE archived = << << HeaderRow >> >>
    BY <2>2, <2>5
  <2> QED
    BY <1>1, <2>4, <2>5
<1>4. archived # <<>> => Newest = << HeaderRow >>
  <2> SUFFICES ASSUME archived = << << HeaderRow >> >> PROVE Newest = << HeaderRow >>
    BY <1>1
  <2> QED
    BY DEF Newest
<1>5. there => begun = 0
  <2> SUFFICES ASSUME there PROVE written - (Len(current) - 1) = 0
    BY DEF begun
  <2>1. Len(current) = 1 /\ written = 0
    BY <1>1, OneHeader
  <2> QED
    BY <2>1, NumberOfFirst
<1>6. FilesInOrder
  BY <1>1, <1>4, <1>5, OneHeader DEF FilesInOrder
<1>7. ReaderTypes
  <2>1. ReaderTypeOK
    BY <1>1, ReaderBounds DEF ReaderTypeOK
  <2>2. Len(archived) <= MaxRotations + 1
    <3>1. Len(archived) \in Nat
      BY <1>3, LenProperties
    <3> QED
      BY <1>3, <3>1, ReaderBounds
  <2>3. reported \in Seq(Nat) /\ from_previous \in Seq(Nat)
    BY <1>1, OneHeader
  <2> QED
    BY <1>1, <1>2, <1>3, <1>6, <2>1, <2>2, <2>3 DEF ReaderTypes
<1>8. told = <<>>
  BY <1>1 DEF told
<1>9. Undisturbed
  BY <1>1, <1>8 DEF Undisturbed, InARow
<1> QED
  BY <1>7, <1>9 DEF ReaderIInv

LEMMA RowsOfAny ==
    ASSUME NEW lines \in Seq(Nat)
    PROVE  rows_of(lines) \in Seq(Nat) /\ new_lines(rows_of(lines)) \in Seq(Nat)
<1>1. rows_of(lines) \in Seq(Nat)
  BY HeadTailProperties DEF rows_of
<1> QED
  BY <1>1, NewLines

(* What is read of the log file is at most what was written. *)
LEMMA ReadIsWritten ==
    ASSUME ReaderTypes, NEW x \in Nat, Among(x, new_lines(rows_of(current)))
    PROVE  x \in 0 .. written
<1>1. Among(x, rows_of(current))
  BY RowsOfAny, NewLines DEF ReaderTypes
<1>2. CASE there
  BY <1>1, <1>2, RowsOfFile DEF ReaderTypes, FilesInOrder
<1>3. CASE ~there
  BY <1>1, <1>3 DEF ReaderTypes, FilesInOrder, rows_of, Among
<1> QED
  BY <1>2, <1>3

LEMMA NewestIsAFile ==
    ASSUME ReaderTypes
    PROVE  /\ Len(archived) \in Nat
           /\ archived # <<>> => Len(archived) # 0 /\ Newest \in Seq(Nat)
           /\ previous \in 1 .. Len(archived) => archived[previous] \in Seq(Nat)
<1>1. archived \in Seq(Seq(Nat)) /\ Len(archived) \in Nat /\ DOMAIN archived = 1 .. Len(archived)
      /\ \A i \in DOMAIN archived : archived[i] \in Seq(Nat)
  BY SeqElements DEF ReaderTypes
<1>2. archived # <<>> => Len(archived) # 0
  BY <1>1, EmptySeq
<1>3. Len(archived) # 0 => Len(archived) \in 1 .. Len(archived)
  BY <1>1
<1> QED
  BY <1>1, <1>2, <1>3 DEF Newest

LEMMA ReaderTypesStep == ASSUME ReaderTypes, [ReaderNext]_read_vars PROVE ReaderTypes'
<1> USE DEF ReaderTypes
<1>1. CASE row_written
  <2>1. written \in Nat /\ written' = written + 1 /\ written' \in 0 .. MaxRows /\ there'
        /\ UNCHANGED <<archived, reader_vars, since_poll, disturbed>>
    BY <1>1, ReaderBounds DEF row_written, ReaderTypeOK
  <2> DEFINE lines == IF there THEN current ELSE << HeaderRow >>
  <2>2. lines \in Seq(Nat) /\ FileUpTo(lines, written) /\ current' = Append(lines, written + 1)
    BY <1>1, <2>1, OneHeader DEF row_written, FilesInOrder
  <2>3. Len(lines) \in Nat /\ current' \in Seq(Nat) /\ Len(current') = Len(lines) + 1
    BY <2>1, <2>2, AppendProperties, LenProperties
  <2>4. FileUpTo(current', written')
    BY <2>1, <2>2, OneMoreRow
  <2>5. archived # <<>> => lines = current /\ begun' = begun
    <3>1. archived # <<>> => lines = current
      BY DEF FilesInOrder
    <3> HIDE DEF lines
    <3> QED
      BY <2>1, <2>3, <3>1 DEF begun
  <2>6. existing_lines' \subseteq 0 .. written'
    BY <2>1 DEF FilesInOrder, reader_vars
  <2>7. FilesInOrder'
    BY <2>1, <2>4, <2>5, <2>6 DEF FilesInOrder, Newest
  <2>8. ReaderTypeOK'
    BY <2>1 DEF ReaderTypeOK, reader_vars
  <2> QED
    BY <2>1, <2>3, <2>7, <2>8 DEF reader_vars
<1>2. CASE log_rotated
  <2>1. /\ there /\ Len(archived) < MaxRotations /\ archived' = Append(archived, current)
        /\ current' = << HeaderRow >> /\ since_poll' = since_poll + 1
        /\ disturbed' = (disturbed \/ reader # "idle" \/ since_poll > 0)
        /\ UNCHANGED <<there, written, reader_vars>>
    BY <1>2 DEF log_rotated
  <2>2. archived' \in Seq(Seq(Nat)) /\ Len(archived') = Len(archived) + 1
        /\ archived'[Len(archived) + 1] = current /\ Len(archived) \in Nat
    BY <2>1, AppendProperties, LenProperties
  <2>3. Newest' = current
    BY <2>2 DEF Newest
  <2>4. begun' = written
    BY <2>1, OneHeader DEF begun, FilesInOrder
  <2>5. FilesInOrder'
    BY <2>1, <2>3, <2>4, OneHeader DEF FilesInOrder, reader_vars
  <2>6. ReaderTypeOK'
    BY <2>1 DEF ReaderTypeOK, reader_vars
  <2>7. Len(archived') <= MaxRotations + 1
    BY <2>1, <2>2, ReaderBounds
  <2>8. disturbed' \in BOOLEAN /\ since_poll' \in Nat
    BY <2>1
  <2>9. reader' \in {"read_previous", "count"} => previous' <= Len(archived')
    <3>1. previous \in Nat
      BY ReaderBounds DEF ReaderTypeOK
    <3> QED
      BY <2>1, <2>2, <3>1 DEF reader_vars
  <2> QED
    BY <2>1, <2>2, <2>5, <2>6, <2>7, <2>8, <2>9, OneHeader DEF reader_vars
<1>3. CASE get_latest_lines
  <2>1. Len(archived) \in Nat
    BY LenProperties
  <2>2. files_counted \in Nat
    BY <2>1 DEF files_counted
  <2> QED
    BY <1>3, <2>2 DEF get_latest_lines, file_vars, ReaderTypeOK, FilesInOrder, begun, Newest
<1>4. CASE previous_looked_for
  <2>1. Len(archived) \in 0 .. MaxRotations + 1
    BY ReaderBounds, LenProperties
  <2>2. ReaderTypeOK'
    BY <1>4, <2>1 DEF previous_looked_for, file_vars, ReaderTypeOK
  <2> QED
    BY <1>4, <2>1, <2>2 DEF previous_looked_for, file_vars, FilesInOrder, begun, Newest
<1>5. CASE files_are_counted
  <2>1. files_counted \in Nat
    BY LenProperties DEF files_counted
  <2> QED
    BY <1>5, <2>1 DEF files_are_counted, file_vars, ReaderTypeOK, FilesInOrder, begun, Newest
<1>6. CASE previous_read
  <2>1. CASE previous = 0
    BY <1>6, <2>1 DEF previous_read, file_vars, ReaderTypeOK, FilesInOrder, begun, Newest
  <2>2. CASE previous # 0
    <3>1. previous \in 1 .. Len(archived)
      BY <1>6, <2>2, NewestIsAFile, ReaderBounds DEF previous_read, ReaderTypeOK
    <3>2. from_previous' \in Seq(Nat)
      BY <1>6, <2>2, <3>1, NewestIsAFile, RowsOfAny DEF previous_read, left_of_previous
    <3> QED
      BY <1>6, <2>2, <3>2 DEF previous_read, file_vars, ReaderTypeOK, FilesInOrder, begun, Newest
  <2> QED
    BY <2>1, <2>2
<1>7. CASE latest_read
  <2> DEFINE N == new_lines(rows_of(current))
  <2>1. existing_lines' = existing_lines \cup {N[i] : i \in DOMAIN N}
        /\ reported' = reported \o from_previous \o N /\ header_read' = TRUE
        /\ from_previous' = <<>> /\ reader' = "idle"
        /\ UNCHANGED <<file_vars, existing_count, previous, log_files_count, polls,
                       since_poll, disturbed>>
    BY <1>7 DEF latest_read
  <2>2. N \in Seq(Nat)
    BY RowsOfAny
  <2>3. \A i \in DOMAIN N : N[i] \in Nat /\ Among(N[i], N)
    BY <2>2, SeqElements DEF Among
  <2>4. \A i \in DOMAIN N : N[i] \in 0 .. written
    BY <2>3, ReadIsWritten
  <2> HIDE DEF N
  <2>5. existing_lines' \subseteq 0 .. written /\ written \in 0 .. MaxRows
    BY <2>1, <2>4 DEF FilesInOrder, ReaderTypeOK
  <2>6. \A x \in 0 .. written : x \in 0 .. MaxRows
    BY <2>5, ReaderBounds
  <2>7. ReaderTypeOK'
    BY <2>1, <2>5, <2>6 DEF ReaderTypeOK, file_vars
  <2>8. reported' \in Seq(Nat) /\ from_previous' \in Seq(Nat)
    BY <2>1, <2>2, ConcatProperties
  <2> QED
    BY <2>1, <2>5, <2>7, <2>8 DEF file_vars, FilesInOrder, begun, Newest
<1>8. CASE UNCHANGED read_vars
  BY <1>8 DEF read_vars, file_vars, reader_vars, ReaderTypeOK, FilesInOrder, begun, Newest
<1> QED
  BY <1>1, <1>2, <1>3, <1>4, <1>5, <1>6, <1>7, <1>8 DEF ReaderNext, Reader

-----------------------------------------------------------------------------
LEMMA NothingRead ==
    ASSUME NEW lines, Len(lines) \in Nat, Len(lines) >= 1, NEW last \in Nat,
           last - (Len(lines) - 1) \in Nat, existing_lines = {}
    PROVE  ReadUpTo(lines, last, last - (Len(lines) - 1))
  BY DEF ReadUpTo

LEMMA WhenUndisturbed ==
    ASSUME ReaderTypes, Undisturbed, existing_count # 0
    PROVE  /\ there /\ FileUpTo(current, written) /\ written \in Nat /\ current \in Seq(Nat)
           /\ Len(current) \in Nat /\ Len(current) >= 1 /\ begun \in Nat /\ begun <= written
           /\ Len(archived) \in Nat /\ files_counted = Len(archived) + 2
           /\ rotated_since => /\ Len(archived) # 0 /\ Newest \in Seq(Nat)
                               /\ FileUpTo(Newest, begun)
                               /\ Len(archived) + 2 = existing_count + 1
           /\ ~rotated_since => Len(archived) + 2 = existing_count
<1>1. there /\ FileUpTo(current, written) /\ written \in Nat /\ current \in Seq(Nat)
  BY DEF Undisturbed, ReaderTypes, FilesInOrder
<1>2. Len(current) \in Nat /\ Len(current) >= 1 /\ begun \in Nat
  BY <1>1, RowsOfFile DEF FileUpTo, begun
<1>3. begun <= written
  BY <1>1, <1>2 DEF begun
<1>4. Len(archived) \in Nat /\ (archived # <<>> => Len(archived) # 0 /\ Newest \in Seq(Nat))
  BY NewestIsAFile
<1>5. files_counted = Len(archived) + 2
  BY <1>1 DEF files_counted
<1>6. rotated_since => archived # <<>> /\ FileUpTo(Newest, begun)
  BY DEF Undisturbed, ReaderTypes, FilesInOrder
<1>7. existing_count \in Nat /\ Len(archived) + 2 \in {existing_count, existing_count + 1}
  BY DEF Undisturbed, ReaderTypes
<1>8. (rotated_since => Len(archived) + 2 = existing_count + 1)
      /\ (~rotated_since => Len(archived) + 2 = existing_count)
  BY <1>4, <1>7 DEF rotated_since
<1> QED
  BY <1>1, <1>2, <1>3, <1>4, <1>5, <1>6, <1>8

LEMMA UndisturbedRow ==
    ASSUME ReaderTypes, Undisturbed, row_written
    PROVE  Undisturbed'
<1>1. /\ written' = written + 1 /\ there'
      /\ current' = Append(IF there THEN current ELSE << HeaderRow >>, written + 1)
      /\ UNCHANGED <<archived, reader_vars, since_poll, disturbed>>
  BY DEF row_written
<1>2. told' = told /\ rotated_since' = rotated_since /\ Newest' = Newest
      /\ UNCHANGED <<existing_count, existing_lines, reader, from_previous, since_poll, previous,
                     log_files_count>>
  BY <1>1 DEF told, rotated_since, Newest, reader_vars
<1>3. ASSUME existing_count # 0 PROVE \E n \in 0 .. written' : ToldUpTo(n)'
  <2>1. PICK n \in 0 .. written : ToldUpTo(n)
    BY <1>3 DEF Undisturbed
  <2>2. current' = Append(current, written + 1) /\ current \in Seq(Nat) /\ Len(current) \in Nat
        /\ written \in Nat
    BY <1>1, <1>3, WhenUndisturbed
  <2>3. Len(current') = Len(current) + 1
    BY <2>2, AppendProperties
  <2>4. begun' = begun
    <3>1. (written + 1) - ((Len(current) + 1) - 1) = written - (Len(current) - 1)
      BY <2>2
    <3> QED
      BY <1>1, <2>3, <3>1 DEF begun
  <2>5. CASE rotated_since
    <3>1. ReadUpTo(Newest, begun, n)
      BY <2>1, <2>5 DEF ToldUpTo
    <3>2. ReadUpTo(Newest, begun, n)'
      BY <1>2, <2>4, <3>1 DEF ReadUpTo
    <3>3. UpTo(told, n)'
      BY <1>2, <2>1 DEF ToldUpTo, UpTo
    <3>4. n \in 0 .. written'
      BY <1>1, <2>2
    <3> QED
      BY <1>2, <2>5, <3>2, <3>3, <3>4 DEF ToldUpTo
  <2>6. CASE ~rotated_since
    <3> DEFINE K == written - (Len(current) - 1)
    <3>1. n \in K .. written /\ \A r \in K + 1 .. written : r \in existing_lines <=> r <= n
      BY <2>1, <2>6 DEF ToldUpTo, ReadUpTo
    <3>2. written' - (Len(current') - 1) = K /\ K \in Int
      <4>1. (written + 1) - ((Len(current) + 1) - 1) = written - (Len(current) - 1)
            /\ written - (Len(current) - 1) \in Int
        BY <2>2
      <4> QED
        BY <1>1, <2>3, <4>1
    <3>3. existing_lines \subseteq 0 .. written
      BY DEF ReaderTypes, FilesInOrder
    <3> HIDE DEF K
    <3>4. \A r \in K + 1 .. written + 1 : r \in existing_lines <=> r <= n
      <4> SUFFICES ASSUME NEW r \in K + 1 .. written + 1 PROVE r \in existing_lines <=> r <= n
        OBVIOUS
      <4>1. CASE r \in K + 1 .. written
        BY <3>1, <4>1
      <4>2. CASE r = written + 1
        BY <2>1, <2>2, <3>3, <4>2
      <4> QED
        BY <2>2, <3>2, <4>1, <4>2
    <3>5. n \in K .. written + 1 /\ n \in 0 .. written + 1
      BY <2>1, <2>2, <3>1, <3>2
    <3>6. ReadUpTo(current, written, n)'
      BY <1>1, <1>2, <3>2, <3>4, <3>5 DEF ReadUpTo
    <3>7. UpTo(told, n)'
      BY <1>2, <2>1 DEF ToldUpTo, UpTo
    <3> QED
      BY <1>1, <1>2, <2>6, <3>5, <3>6, <3>7 DEF ToldUpTo
  <2> QED
    BY <2>5, <2>6
<1> QED
  BY <1>1, <1>2, <1>3 DEF Undisturbed

LEMMA UndisturbedRotation ==
    ASSUME ReaderTypes, Undisturbed, log_rotated, ~disturbed'
    PROVE  Undisturbed'
<1>1. /\ there /\ archived' = Append(archived, current)
      /\ current' = << HeaderRow >> /\ since_poll' = since_poll + 1
      /\ reader = "idle" /\ ~(since_poll > 0)
      /\ UNCHANGED <<there, written, reader_vars>>
  BY DEF log_rotated
<1>2. UNCHANGED <<existing_count, existing_lines, reader, from_previous, previous, log_files_count, told>>
  BY <1>1 DEF told, reader_vars
<1>3. Len(archived') = Len(archived) + 1 /\ archived'[Len(archived) + 1] = current /\ Len(archived) \in Nat
      /\ since_poll \in Nat /\ existing_count \in Nat
  BY <1>1, AppendProperties, LenProperties DEF ReaderTypes
<1>4. archived' # <<>>
  <2>1. archived' \in Seq(Seq(Nat)) /\ Len(archived') # 0
    BY <1>1, <1>3, AppendProperties DEF ReaderTypes
  <2> QED
    BY <2>1, EmptySeq
<1>5. Newest' = current /\ begun' = written
  <2>1. Newest' = current
    BY <1>3 DEF Newest
  <2>2. written \in Nat /\ written' = written /\ Len(current') = 1
    BY <1>1, OneHeader DEF ReaderTypes, FilesInOrder
  <2> QED
    BY <2>1, <2>2 DEF begun
<1>6. ASSUME existing_count # 0
      PROVE  /\ ~rotated_since /\ rotated_since' /\ since_poll' > 0
             /\ Len(archived') + 2 = existing_count + 1
             /\ \E n \in 0 .. written' : ToldUpTo(n)'
  <2>1. ~rotated_since
    BY <1>1, <1>6 DEF Undisturbed
  <2>2. Len(archived) + 2 = existing_count
    BY <1>6, <2>1, WhenUndisturbed
  <2>3. Len(archived') + 2 = existing_count + 1 /\ rotated_since' /\ since_poll' > 0
    BY <1>1, <1>2, <1>3, <2>2 DEF rotated_since
  <2>4. PICK n \in 0 .. written : ToldUpTo(n)
    BY <1>6 DEF Undisturbed
  <2>5. UpTo(told, n) /\ ReadUpTo(current, written, n)
    BY <2>1, <2>4 DEF ToldUpTo
  <2>6. ReadUpTo(Newest, begun, n)'
    BY <1>2, <1>5, <2>5 DEF ReadUpTo
  <2>7. UpTo(told, n)'
    BY <1>2, <2>5 DEF UpTo
  <2> QED
    BY <1>1, <2>1, <2>3, <2>4, <2>6, <2>7 DEF ToldUpTo
<1> QED
  BY <1>1, <1>2, <1>4, <1>6 DEF Undisturbed

LEMMA UndisturbedLook ==
    ASSUME ReaderTypes, Undisturbed, get_latest_lines \/ previous_looked_for \/ files_are_counted
    PROVE  Undisturbed'
<1>1. UNCHANGED <<there, current, archived, written, header_read, existing_lines, from_previous,
                 reported, disturbed>>
  BY DEF get_latest_lines, previous_looked_for, files_are_counted, file_vars
<1>2. told' = told /\ Newest' = Newest /\ begun' = begun
  BY <1>1 DEF told, Newest, begun
<1>3. CASE existing_count # 0
  <2>1. existing_count' = existing_count /\ rotated_since' = rotated_since
    BY <1>1, <1>3 DEF get_latest_lines, previous_looked_for, files_are_counted, rotated_since
  <2>2. \E n \in 0 .. written' : ToldUpTo(n)'
    <3>1. PICK n \in 0 .. written : ToldUpTo(n)
      BY <1>3 DEF Undisturbed
    <3> QED
      BY <1>1, <1>2, <2>1, <3>1 DEF ToldUpTo, UpTo, ReadUpTo
  <2>3. there /\ files_counted = Len(archived) + 2
    BY <1>3, WhenUndisturbed
  <2>4. CASE get_latest_lines
    <3>1. reader' = "previous" /\ since_poll' = 0
      BY <1>3, <2>1, <2>4 DEF get_latest_lines
    <3> QED
      BY <1>1, <1>2, <1>3, <2>1, <2>2, <2>4, <3>1 DEF Undisturbed, get_latest_lines
  <2>5. CASE previous_looked_for
    BY <1>1, <1>2, <1>3, <2>1, <2>2, <2>5 DEF Undisturbed, previous_looked_for
  <2>6. CASE files_are_counted
    <3>1. /\ log_files_count' = Len(archived) + 2 /\ UNCHANGED <<previous, since_poll>>
          /\ reader = "count" /\ reader' = IF rotated_since THEN "read_previous" ELSE "read_latest"
      BY <2>3, <2>6 DEF files_are_counted, rotated_since
    <3> QED
      BY <1>1, <1>2, <1>3, <2>1, <2>2, <3>1 DEF Undisturbed
  <2> QED
    BY <2>4, <2>5, <2>6
<1>4. CASE existing_count = 0
  <2>1. get_latest_lines /\ told = <<>> /\ existing_lines = {} /\ from_previous = <<>>
    BY <1>4 DEF Undisturbed, previous_looked_for, files_are_counted
  <2>2. /\ existing_count' = files_counted /\ since_poll' = 0
        /\ reader' = IF existing_count' = 0 THEN "idle" ELSE "previous"
    BY <1>4, <2>1 DEF get_latest_lines
  <2>3. CASE existing_count' = 0
    BY <1>1, <1>2, <2>1, <2>2, <2>3 DEF Undisturbed, InARow
  <2>4. CASE existing_count' # 0
    <3>1. there
      BY <2>2, <2>4 DEF files_counted, ReaderTypes, FilesInOrder
    <3>2. existing_count' = Len(archived) + 2 /\ Len(archived) \in Nat
      BY <2>2, <3>1, NewestIsAFile DEF files_counted
    <3>3. ~rotated_since'
      BY <1>1, <3>2 DEF rotated_since
    <3>4. /\ Len(current) \in Nat /\ Len(current) >= 1 /\ written \in Nat
          /\ written - (Len(current) - 1) \in Nat
      BY <3>1, RowsOfFile DEF ReaderTypes, FilesInOrder, FileUpTo
    <3> DEFINE K == written - (Len(current) - 1)
    <3>5. ReadUpTo(current, written, K)
      BY <2>1, <3>4, NothingRead
    <3>6. K \in 0 .. written
      BY <3>4
    <3>7. \A n \in 0 .. written : ReadUpTo(current, written, n) => ToldUpTo(n)'
      BY <1>1, <1>2, <2>1, <3>3 DEF ToldUpTo, ReadUpTo, UpTo
    <3> HIDE DEF K
    <3>8. \E n \in 0 .. written' : ToldUpTo(n)'
      BY <1>1, <3>5, <3>6, <3>7
    <3>9. Len(archived') + 2 = existing_count'
      BY <1>1, <3>2
    <3> QED
      BY <1>1, <1>2, <2>1, <2>2, <2>4, <3>1, <3>3, <3>8, <3>9 DEF Undisturbed, InARow
  <2> QED
    BY <2>3, <2>4
<1> QED
  BY <1>3, <1>4

LEMMA UndisturbedPrevious ==
    ASSUME ReaderTypes, Undisturbed, previous_read
    PROVE  Undisturbed'
<1>1. existing_count # 0 /\ reader = "read_previous" /\ rotated_since /\ previous = Len(archived)
      /\ log_files_count = Len(archived) + 2 /\ there /\ since_poll = 0
  BY DEF previous_read, Undisturbed
<1>2. /\ FileUpTo(current, written) /\ written \in Nat
      /\ Len(current) \in Nat /\ Len(current) >= 1 /\ begun \in Nat /\ begun <= written
      /\ Len(archived) \in Nat /\ Len(archived) # 0 /\ Newest \in Seq(Nat)
      /\ FileUpTo(Newest, begun)
  BY <1>1, WhenUndisturbed
<1> DEFINE N == new_lines(rows_of(Newest))
<1>3. /\ from_previous' = N /\ existing_lines' = {} /\ existing_count' = Len(archived) + 2
      /\ reader' = "read_latest"
      /\ UNCHANGED <<there, current, archived, written, previous, reported, since_poll>>
  BY <1>1, <1>2 DEF previous_read, left_of_previous, Newest, file_vars
<1>4. PICK n \in 0 .. written : ToldUpTo(n)
  BY <1>1 DEF Undisturbed
<1>5. InARow(reported) /\ UpTo(reported, n) /\ reported \in Seq(Nat)
  <2>1. told = reported
    BY <1>1, ConcatEmptySeq DEF Undisturbed, told, ReaderTypes
  <2> QED
    BY <1>4, <2>1 DEF Undisturbed, ToldUpTo, ReaderTypes
<1>6. NextRows(N, n, begun) /\ n <= begun
  <2>1. ReadUpTo(Newest, begun, n)
    BY <1>1, <1>4 DEF ToldUpTo
  <2> QED
    BY <1>2, <1>4, <2>1, NewRowsOfFile
<1> HIDE DEF N
<1>7. told' = reported \o N
  BY <1>3 DEF told
<1>8. InARow(reported \o N) /\ UpTo(reported \o N, begun)
  BY <1>2, <1>4, <1>5, <1>6, NextRowsFollow
<1>9. ~rotated_since'
  BY <1>2, <1>3 DEF rotated_since
<1>10. PICK m : m = begun
  OBVIOUS
<1>11. UpTo(told, m)' /\ InARow(told)'
  BY <1>7, <1>8, <1>10
<1>12. ReadUpTo(current, written, m)'
  BY <1>2, <1>3, <1>10, NothingRead DEF begun, ReadUpTo
<1>13. ToldUpTo(m)' /\ m \in 0 .. written'
  BY <1>2, <1>3, <1>9, <1>10, <1>11, <1>12 DEF ToldUpTo
<1>14. existing_count' # 0
  BY <1>2, <1>3
<1> QED
  BY <1>1, <1>3, <1>9, <1>11, <1>13, <1>14 DEF Undisturbed

LEMMA UndisturbedLatest ==
    ASSUME ReaderTypes, ReaderTypes', Undisturbed, latest_read
    PROVE  Undisturbed'
<1>1. existing_count # 0 /\ reader = "read_latest" /\ ~rotated_since /\ there /\ since_poll = 0
  BY DEF latest_read, Undisturbed
<1>2. /\ FileUpTo(current, written) /\ written \in Nat /\ current \in Seq(Nat)
      /\ Len(current) \in Nat /\ Len(current) >= 1 /\ begun \in Nat /\ begun <= written
  BY <1>1, WhenUndisturbed
<1> DEFINE N == new_lines(rows_of(current))
<1>3. /\ existing_lines' = existing_lines \cup {N[i] : i \in DOMAIN N}
      /\ reported' = told \o N /\ from_previous' = <<>> /\ reader' = "idle"
      /\ UNCHANGED <<there, current, archived, written, existing_count, previous, since_poll>>
  BY DEF latest_read, file_vars, told
<1>4. PICK n \in 0 .. written : ToldUpTo(n)
  BY <1>1 DEF Undisturbed
<1>5. UpTo(told, n) /\ ReadUpTo(current, written, n) /\ InARow(told) /\ told \in Seq(Nat)
  BY <1>1, <1>4, ConcatProperties DEF ToldUpTo, Undisturbed, told, ReaderTypes
<1>6. NextRows(N, n, written)
  BY <1>2, <1>4, <1>5, NewRowsOfFile
<1> HIDE DEF N
<1>7. InARow(told \o N) /\ UpTo(told \o N, written)
  BY <1>2, <1>4, <1>5, <1>6, NextRowsFollow
<1>8. told' = told \o N
  <2>1. told' = reported' \o <<>>
    BY <1>3 DEF told
  <2>2. reported' \o <<>> = reported'
    BY ConcatEmptySeq DEF ReaderTypes
  <2> QED
    BY <1>3, <2>1, <2>2
<1>9. rotated_since' = rotated_since
  BY <1>3 DEF rotated_since
<1>10. PICK m : m = written
  OBVIOUS
<1>11. UpTo(told, m)' /\ InARow(told)'
  BY <1>7, <1>8, <1>10
<1> DEFINE K == written - (Len(current) - 1)
<1>12. n \in K .. written /\ \A r \in K + 1 .. written : r \in existing_lines <=> r <= n
  BY <1>5 DEF ReadUpTo
<1>13. \A r \in K + 1 .. written : r \in existing_lines'
  <2> SUFFICES ASSUME NEW r \in K + 1 .. written, ~(r <= n) PROVE Among(r, N)
    BY <1>3, <1>12 DEF Among
  <2>1. r \in Nat \ {0} /\ n < r /\ r <= written
    BY <1>2, <1>4
  <2> QED
    BY <1>6, <2>1 DEF NextRows
<1>14. K \in Nat /\ K <= written
  BY <1>2 DEF begun
<1>15. ReadUpTo(current, written, m)'
  <2> HIDE DEF K
  <2>1. m \in K .. written /\ \A r \in K + 1 .. written : r <= m
    BY <1>2, <1>10, <1>14
  <2>2. written' - (Len(current') - 1) = K
    BY <1>3 DEF K
  <2> QED
    BY <1>3, <1>13, <2>1, <2>2 DEF ReadUpTo
<1>16. ToldUpTo(m)' /\ m \in 0 .. written'
  BY <1>1, <1>2, <1>3, <1>9, <1>10, <1>11, <1>15 DEF ToldUpTo
<1> QED
  BY <1>1, <1>3, <1>9, <1>11, <1>16 DEF Undisturbed

LEMMA ReaderInductive == ASSUME ReaderIInv, [ReaderNext]_read_vars PROVE ReaderIInv'
<1>1. ReaderTypes /\ ReaderTypes'
  BY ReaderTypesStep DEF ReaderIInv
<1>2. disturbed => disturbed'
  BY DEF ReaderNext, Reader, read_vars, row_written, log_rotated, get_latest_lines,
         previous_looked_for, files_are_counted, previous_read, latest_read
<1>3. ASSUME ~disturbed' PROVE Undisturbed'
  <2>1. Undisturbed
    BY <1>2, <1>3 DEF ReaderIInv
  <2>2. CASE UNCHANGED read_vars
    BY <2>1, <2>2 DEF read_vars, file_vars, reader_vars, Undisturbed, told, rotated_since,
                      ToldUpTo, UpTo, ReadUpTo, Newest, begun
  <2> QED
    BY <1>1, <1>3, <2>1, <2>2, UndisturbedRow, UndisturbedRotation, UndisturbedLook,
       UndisturbedPrevious, UndisturbedLatest DEF ReaderNext, Reader
<1> QED
  BY <1>1, <1>3 DEF ReaderIInv

LEMMA ReaderHolds == ASSUME ReaderIInv PROVE ReaderTypeOK /\ RowsInOrderOnce
<1> SUFFICES ASSUME ~disturbed PROVE InARow(reported)
  BY DEF RowsInOrderOnce, ReaderIInv, ReaderTypes
<1>1. InARow(told) /\ reported \in Seq(Nat) /\ from_previous \in Seq(Nat)
  BY DEF ReaderIInv, Undisturbed, ReaderTypes
<1>2. Len(reported) \in Nat /\ Len(from_previous) \in Nat /\ DOMAIN reported = 1 .. Len(reported)
  BY <1>1, SeqElements
<1>3. told \in Seq(Nat) /\ Len(told) = Len(reported) + Len(from_previous)
      /\ \A i \in 1 .. Len(told) : told[i] = IF i <= Len(reported) THEN reported[i] ELSE from_previous[i - Len(reported)]
  BY <1>1, ConcatProperties DEF told
<1>4. DOMAIN told = 1 .. Len(told)
  BY <1>3, SeqElements
<1>5. \A i \in DOMAIN reported : i \in DOMAIN told /\ told[i] = reported[i]
  BY <1>2, <1>3, <1>4
<1>6. \A i, j \in DOMAIN reported : \A k \in i + 1 .. j - 1 : k \in DOMAIN reported
  BY <1>2
<1> QED
  BY <1>1, <1>5, <1>6 DEF InARow
-----------------------------------------------------------------------------
(* The logger, its queue and its listener. *)
LogRecord == LogProcs \X (1 .. MaxLogged)
OnQueue == LogRecord \cup {Sentinel}

LoggerTypes ==
    /\ LoggerTypeOK
    /\ queue_handlers \in [LogProcs -> 0 .. 1]
    /\ feeder \in [LogProcs -> Seq(OnQueue)]
    /\ log_queue \in Seq(OnQueue) /\ log_fed \in Seq(OnQueue)

(* s has the records of p up to number k, each once and in order. *)
HasUpTo(p, k, s) ==
    /\ OnceInOrder(p, s, k)
    /\ \A n \in 1 .. k : \E i \in DOMAIN s : s[i] = <<p, n>>

CanLogToQueue(p) ==
    IF p = "main" THEN queue_handlers["main"] = 1 /\ ~cleaned_up_log ELSE log_child[p] = "up"

(* The feeder of p holds the records after number k. *)
FeederAfter(p, k) ==
    /\ \A i \in DOMAIN feeder[p] :
          \/ feeder[p][i] = <<p, k + i>> /\ k + i <= log_count[p]
          \/ feeder[p][i] = Sentinel /\ p = "main" /\ cleaned_up_log /\ i = Len(feeder[p])
    /\ k <= log_count[p]
    /\ CanLogToQueue(p) => k + Len(feeder[p]) = log_count[p]

RecordsReachTheQueue ==
    \A p \in LogProcs : \E k \in Nat : HasUpTo(p, k, log_fed) /\ FeederAfter(p, k)

(* Before the call, and before a child has a logger. *)
NothingYet ==
    /\ creator = "new" =>
          /\ log_listener = "none" /\ log_queue = <<>> /\ log_fed = <<>> /\ log_todo = <<>>
          /\ ~cleaned_up_log
          /\ \A p \in LogProcs : log_count[p] = 0 /\ feeder[p] = <<>>
          /\ \A h \in {"stream", "file"} : log_written[h] = <<>>
          /\ \A c \in LogChildren : log_child[c] = "none"
    /\ \A c \in LogChildren :
          /\ log_child[c] = "none" =>
                log_count[c] = 0 /\ feeder[c] = <<>> /\ queue_handlers[c] = 0
          /\ log_child[c] = "up" => queue_handlers[c] = 1

(* The handlers that have yet to write the head of the queue. *)
HeadIsWritten ==
    /\ log_todo # <<>> =>
          /\ log_todo = LogHandlers(lgr_call)
             \/ (LogHandlers(lgr_call) = <<"stream", "file">> /\ log_todo = <<"file">>)
          /\ listening /\ log_queue # <<>> /\ Head(log_queue) # Sentinel

(* f begins with w, then has, past n sentinels, what is on q without the   *)
(* first d.                                                                *)
Begins(w, f) == Len(w) <= Len(f) /\ \A i \in 1 .. Len(w) : w[i] = f[i]
Continues(f, w, q, n, d) ==
    /\ Len(f) = Len(w) + n + Len(q) - d
    /\ n = 1 => f[Len(w) + 1] = Sentinel
    /\ \A i \in 1 .. Len(q) : i > d => f[Len(w) + n + i - d] = q[i]

Sentinels == IF log_listener = "stopped" THEN 1 ELSE 0
Done(h) == IF has_written(h) THEN 1 ELSE 0
Written(h) == Begins(log_written[h], log_fed)
Pipeline(h) == Continues(log_fed, log_written[h], log_queue, Sentinels, Done(h))

HandlersFollow ==
    \A h \in HandlersOf(lgr_call) :
       /\ log_listener = "none" =>
             \A p \in LogProcs :
                HasUpTo(p, IF p = "main" THEN log_count[p] ELSE 0, log_written[h])
       /\ log_listener # "none" => Written(h)
       /\ log_listener \notin {"none", "killed"} => Pipeline(h)

LoggerIInv == LoggerTypes /\ NothingYet /\ RecordsReachTheQueue /\ HeadIsWritten /\ HandlersFollow
-----------------------------------------------------------------------------
LEMMA LoggerBounds ==
    /\ MaxLogged \in Nat /\ "main" \notin LogChildren /\ "main" \in LogProcs
    /\ LogChildren \subseteq LogProcs
    /\ \A p \in LogProcs : p = "main" \/ p \in LogChildren
    /\ Sentinel = <<"main", 0>> /\ Sentinel \in OnQueue /\ LogRecord \subseteq OnQueue
    /\ \A x \in OnQueue : x[1] \in LogProcs /\ x[2] \in Nat /\ x = <<x[1], x[2]>>
    /\ \A x \in OnQueue : x[2] > 0 <=> x # Sentinel
    /\ \A x \in OnQueue : x # Sentinel => x \in LogRecord
  BY LoggerAssumption DEF LogProcs, Sentinel, OnQueue, LogRecord

LEMMA HandlersAre ==
    ASSUME lgr_call \in LoggerCalls
    PROVE  /\ LogHandlers(lgr_call) \in {<<>>, <<"stream">>, <<"file">>, <<"stream", "file">>}
           /\ HandlersOf(lgr_call) \subseteq {"stream", "file"}
<1> DEFINE S == {"stream", "file"}
<1>1. <<>> \in Seq(S) /\ <<"stream">> \in Seq(S) /\ <<"file">> \in Seq(S)
  OBVIOUS
<1>2. <<>> \o <<>> = <<>> /\ <<"stream">> \o <<>> = <<"stream">> /\ <<>> \o <<"file">> = <<"file">>
  BY <1>1, ConcatEmptySeq
<1>3. <<"stream">> \o <<"file">> = <<"stream", "file">>
  <2> DEFINE u == <<"stream">> \o <<"file">>
             v == <<"stream", "file">>
  <2>1. Len(<<"stream">>) = 1 /\ Len(<<"file">>) = 1 /\ <<"stream">>[1] = "stream" /\ <<"file">>[1] = "file"
    OBVIOUS
  <2>2. u \in Seq(S) /\ Len(u) = 1 + 1
        /\ \A i \in 1 .. 1 + 1 : u[i] = IF i <= 1 THEN <<"stream">>[i] ELSE <<"file">>[i - 1]
    BY <1>1, <2>1, ConcatProperties
  <2>3. Len(u) = 2 /\ u[1] = "stream" /\ u[2] = "file"
    BY <2>1, <2>2
  <2>4. v \in Seq(S) /\ Len(v) = 2 /\ v[1] = "stream" /\ v[2] = "file"
    OBVIOUS
  <2> HIDE DEF u, v, S
  <2>5. \A i \in 1 .. 2 : u[i] = v[i]
    <3>1. \A i \in 1 .. 2 : i = 1 \/ i = 2
      OBVIOUS
    <3> QED
      BY <2>3, <2>4, <3>1
  <2>6. u = v
    BY <2>2, <2>3, <2>4, <2>5, SeqEqual
  <2> QED
    BY <2>6 DEF u, v
<1>4. LogHandlers(lgr_call) \in {<<>>, <<"stream">>, <<"file">>, <<"stream", "file">>}
  BY <1>2, <1>3 DEF LogHandlers
<1> QED
  BY <1>4 DEF HandlersOf
-----------------------------------------------------------------------------
(* Records at the end of a sequence. *)
LEMMA HasNothing ==
    ASSUME NEW p
    PROVE  HasUpTo(p, 0, <<>>)
  BY DEF HasUpTo, OnceInOrder

LEMMA HasOneMore ==
    ASSUME NEW p \in LogProcs, NEW k \in Nat, NEW s \in Seq(OnQueue), HasUpTo(p, k, s),
           NEW x \in OnQueue, x = <<p, k + 1>>
    PROVE  HasUpTo(p, k + 1, Append(s, x))
<1> DEFINE L == Len(s)
           t == Append(s, x)
<1>1. L \in Nat /\ DOMAIN s = 1 .. L /\ \A i \in 1 .. L : s[i] \in OnQueue
  BY SeqElements
<1>2. DOMAIN t = 1 .. L + 1 /\ (\A i \in 1 .. L : t[i] = s[i]) /\ t[L + 1] = x
  BY <1>1, AppendProperties
<1>3. \A i \in 1 .. L : s[i][1] \in LogProcs /\ s[i][2] \in Nat /\ s[i] = <<s[i][1], s[i][2]>>
  BY <1>1, LoggerBounds
<1>4. \A i \in 1 .. L : s[i][1] = p /\ s[i][2] > 0 =>
        /\ s[i][2] <= k /\ \A j \in 1 .. i - 1 : s[j] # s[i]
        /\ s[i][2] > 1 => \E j \in 1 .. i - 1 : s[j] = <<p, s[i][2] - 1>>
  BY <1>1 DEF HasUpTo, OnceInOrder
<1>5. \A n \in 1 .. k : \E i \in 1 .. L : s[i] = <<p, n>>
  BY <1>1 DEF HasUpTo
<1> HIDE DEF t, L
<1>6. ASSUME NEW i \in 1 .. L + 1, t[i][1] = p, t[i][2] > 0
      PROVE  /\ t[i][2] <= k + 1 /\ \A j \in 1 .. i - 1 : t[j] # t[i]
             /\ t[i][2] > 1 => \E j \in 1 .. i - 1 : t[j] = <<p, t[i][2] - 1>>
  <2>1. \A j \in 1 .. i - 1 : j \in 1 .. L /\ t[j] = s[j]
    BY <1>1, <1>2
  <2>2. CASE i \in 1 .. L
    <3>1. t[i] = s[i] /\ s[i][1] = p /\ s[i][2] > 0 /\ s[i][2] \in Nat
      BY <1>2, <1>3, <1>6, <2>2
    <3>2. /\ s[i][2] <= k /\ \A j \in 1 .. i - 1 : s[j] # s[i]
          /\ s[i][2] > 1 => \E j \in 1 .. i - 1 : s[j] = <<p, s[i][2] - 1>>
      BY <1>4, <2>2, <3>1
    <3>3. s[i][2] <= k + 1
      BY <3>1, <3>2
    <3> QED
      BY <2>1, <3>1, <3>2, <3>3
  <2>3. CASE i = L + 1
    <3>1. t[i] = <<p, k + 1>> /\ t[i][2] = k + 1 /\ i - 1 = L
      BY <1>1, <1>2, <2>3
    <3>2. ASSUME NEW j \in 1 .. L, s[j] = <<p, k + 1>> PROVE FALSE
      <4>1. s[j][1] = p /\ s[j][2] = k + 1
        BY <3>2
      <4>2. k + 1 > 0 /\ ~(k + 1 <= k)
        OBVIOUS
      <4> QED
        BY <1>4, <4>1, <4>2
    <3>3. k + 1 > 1 => \E j \in 1 .. L : s[j] = <<p, (k + 1) - 1>>
      <4>1. (k + 1) - 1 = k /\ (k + 1 > 1 => k \in 1 .. k)
        OBVIOUS
      <4> QED
        BY <1>5, <4>1
    <3> QED
      BY <2>1, <3>1, <3>2, <3>3
  <2> QED
    BY <1>1, <2>2, <2>3
<1>7. OnceInOrder(p, t, k + 1)
  BY <1>2, <1>6 DEF OnceInOrder
<1>8. \A n \in 1 .. k + 1 : \E i \in DOMAIN t : t[i] = <<p, n>>
  <2> SUFFICES ASSUME NEW n \in 1 .. k + 1 PROVE \E i \in 1 .. L + 1 : t[i] = <<p, n>>
    BY <1>2
  <2>1. CASE n \in 1 .. k
    <3>1. PICK i \in 1 .. L : s[i] = <<p, n>>
      BY <1>5, <2>1
    <3>2. i \in 1 .. L + 1
      BY <1>1
    <3> QED
      BY <1>2, <3>1, <3>2
  <2>2. CASE n = k + 1
    <3>1. L + 1 \in 1 .. L + 1
      BY <1>1
    <3> QED
      BY <1>2, <2>2, <3>1
  <2> QED
    BY <2>1, <2>2
<1> QED
  BY <1>7, <1>8 DEF HasUpTo, t

LEMMA HasNoMore ==
    ASSUME NEW p \in LogProcs, NEW k \in Nat, NEW s \in Seq(OnQueue), HasUpTo(p, k, s),
           NEW x \in OnQueue, x[1] # p \/ x = Sentinel
    PROVE  HasUpTo(p, k, Append(s, x))
<1> DEFINE L == Len(s)
           t == Append(s, x)
<1>1. L \in Nat /\ DOMAIN s = 1 .. L
  BY SeqElements
<1>2. DOMAIN t = 1 .. L + 1 /\ (\A i \in 1 .. L : t[i] = s[i]) /\ t[L + 1] = x
  BY <1>1, AppendProperties
<1>3. ~(x[1] = p /\ x[2] > 0)
  BY LoggerBounds
<1>4. \A i \in 1 .. L : s[i][1] = p /\ s[i][2] > 0 =>
        /\ s[i][2] <= k /\ \A j \in 1 .. i - 1 : s[j] # s[i]
        /\ s[i][2] > 1 => \E j \in 1 .. i - 1 : s[j] = <<p, s[i][2] - 1>>
  BY <1>1 DEF HasUpTo, OnceInOrder
<1> HIDE DEF t, L
<1>5. ASSUME NEW i \in 1 .. L + 1, t[i][1] = p, t[i][2] > 0
      PROVE  /\ t[i][2] <= k /\ \A j \in 1 .. i - 1 : t[j] # t[i]
             /\ t[i][2] > 1 => \E j \in 1 .. i - 1 : t[j] = <<p, t[i][2] - 1>>
  <2>1. i \in 1 .. L
    <3>1. i \in 1 .. L \/ i = L + 1
      BY <1>1
    <3> QED
      BY <1>2, <1>3, <1>5, <3>1
  <2>2. t[i] = s[i] /\ \A j \in 1 .. i - 1 : t[j] = s[j]
    <3>1. \A j \in 1 .. i - 1 : j \in 1 .. L
      BY <1>1, <2>1
    <3> QED
      BY <1>2, <2>1, <3>1
  <2> QED
    BY <1>4, <1>5, <2>1, <2>2
<1>6. OnceInOrder(p, t, k)
  BY <1>2, <1>5 DEF OnceInOrder
<1>7. \A n \in 1 .. k : \E i \in DOMAIN t : t[i] = <<p, n>>
  <2> SUFFICES ASSUME NEW n \in 1 .. k PROVE \E i \in 1 .. L + 1 : t[i] = <<p, n>>
    BY <1>2
  <2>1. PICK i \in 1 .. L : s[i] = <<p, n>>
    BY <1>1 DEF HasUpTo
  <2>2. i \in 1 .. L + 1
    BY <1>1
  <2> QED
    BY <1>2, <2>1, <2>2
<1> QED
  BY <1>6, <1>7 DEF HasUpTo, t

(* A beginning of such a sequence. *)
LEMMA OnceInBeginning ==
    ASSUME NEW p, NEW k \in Nat, NEW count \in Nat, k <= count, NEW s \in Seq(OnQueue),
           OnceInOrder(p, s, k), NEW w \in Seq(OnQueue), Len(w) <= Len(s),
           \A i \in DOMAIN w : w[i] = s[i]
    PROVE  OnceInOrder(p, w, count)
<1>1. Len(s) \in Nat /\ DOMAIN s = 1 .. Len(s) /\ Len(w) \in Nat /\ DOMAIN w = 1 .. Len(w)
      /\ \A i \in 1 .. Len(s) : s[i] \in OnQueue
  BY SeqElements
<1> SUFFICES ASSUME NEW i \in DOMAIN w, w[i][1] = p, w[i][2] > 0
             PROVE  /\ w[i][2] <= count /\ \A j \in 1 .. i - 1 : w[j] # w[i]
                    /\ w[i][2] > 1 => \E j \in 1 .. i - 1 : w[j] = <<p, w[i][2] - 1>>
  BY DEF OnceInOrder
<1>2. w[i] = s[i] /\ i \in DOMAIN s /\ \A j \in 1 .. i - 1 : w[j] = s[j] /\ j \in DOMAIN w
  BY <1>1
<1>3. s[i][2] \in Nat
  BY <1>1, <1>2, LoggerBounds
<1>4. /\ s[i][2] <= k /\ \A j \in 1 .. i - 1 : s[j] # s[i]
      /\ s[i][2] > 1 => \E j \in 1 .. i - 1 : s[j] = <<p, s[i][2] - 1>>
  BY <1>2 DEF OnceInOrder
<1>5. w[i][2] <= count
  BY <1>2, <1>3, <1>4
<1> QED
  BY <1>2, <1>4, <1>5
-----------------------------------------------------------------------------
LEMMA PutRecord ==
    ASSUME NEW q \in 0 .. 1, NEW f \in Seq(OnQueue), NEW r \in OnQueue
    PROVE  f \o [i \in 1 .. q |-> r] = IF q = 1 THEN Append(f, r) ELSE f
<1>1. CASE q = 1
  <2>1. [i \in 1 .. 1 |-> r] = <<r>>
    OBVIOUS
  <2>2. Append(f, r) = f \o <<r>>
    BY AppendIsConcat
  <2> QED
    BY <1>1, <2>1, <2>2
<1>2. CASE q = 0
  <2>1. [i \in 1 .. 0 |-> r] = <<>>
    OBVIOUS
  <2>2. f \o <<>> = f
    BY ConcatEmptySeq
  <2> QED
    BY <1>2, <2>1, <2>2
<1> QED
  BY <1>1, <1>2

LEMMA LoggerInitially == LoggerInit => LoggerIInv
<1> SUFFICES ASSUME LoggerInit PROVE LoggerIInv
  OBVIOUS
<1>1. <<>> \in Seq(OnQueue) /\ <<>> \in Seq(LogRecord) /\ Len(<<>>) = 0
  OBVIOUS
<1>2. LoggerTypes
  <2>1. 0 \in 0 .. MaxLogged /\ 0 \in 0 .. 1 /\ 0 \in Nat
    BY LoggerBounds
  <2>2. log_count \in [LogProcs -> 0 .. MaxLogged] /\ queue_handlers \in [LogProcs -> 0 .. 1]
        /\ queue_handlers \in [LogProcs -> Nat] /\ feeder \in [LogProcs -> Seq(OnQueue)]
        /\ log_written \in [{"stream", "file"} -> Seq(LogRecord)]
    BY <1>1, <2>1 DEF LoggerInit
  <2>3. log_queue \in Seq(OnQueue) /\ log_fed \in Seq(OnQueue)
    BY <1>1 DEF LoggerInit
  <2> QED
    BY <2>2, <2>3 DEF LoggerInit, LoggerTypes, LoggerTypeOK, LogRecord
<1>3. NothingYet
  BY LoggerBounds DEF LoggerInit, NothingYet
<1>4. RecordsReachTheQueue
  <2> SUFFICES ASSUME NEW p \in LogProcs PROVE HasUpTo(p, 0, log_fed) /\ FeederAfter(p, 0)
    BY DEF RecordsReachTheQueue
  <2>1. log_fed = <<>> /\ feeder[p] = <<>> /\ log_count[p] = 0
    BY DEF LoggerInit
  <2> QED
    BY <1>1, <2>1, HasNothing DEF FeederAfter
<1>5. HeadIsWritten
  BY DEF LoggerInit, HeadIsWritten
<1>6. HandlersFollow
  <2>1. \A h \in HandlersOf(lgr_call) : log_written[h] = <<>>
    BY HandlersAre DEF LoggerInit
  <2>2. \A p \in LogProcs : HasUpTo(p, IF p = "main" THEN log_count[p] ELSE 0, <<>>)
    BY HasNothing DEF LoggerInit
  <2> QED
    BY <2>1, <2>2 DEF HandlersFollow, LoggerInit
<1> QED
  BY <1>2, <1>3, <1>4, <1>5, <1>6 DEF LoggerIInv

LEMMA LoggerTypesStep == ASSUME LoggerIInv, [LoggerNext]_lgr_vars PROVE LoggerTypes'
<1> USE DEF LoggerTypes, LoggerTypeOK
<1>1. LoggerTypes
  BY DEF LoggerIInv
<1>2. UNCHANGED lgr_const
  BY DEF LoggerNext, LoggerThreads, lgr_vars, create_logger, listener_starts, returns_when_ready,
         listener_takes, listener_writes, feed, log_record, child_creates_logger, child_ends,
         listener_interrupted, log_cleanup, listener_terminated
<1>3. CASE create_logger
  <2>1. queue_handlers' \in [LogProcs -> 0 .. 1] /\ queue_handlers' \in [LogProcs -> Nat]
    <3>1. queue_handlers' = queue_handlers
          \/ \E q \in 0 .. 1 : queue_handlers' = [queue_handlers EXCEPT !["main"] = q]
      BY <1>3 DEF create_logger
    <3>2. \A q \in 0 .. 1 : q \in Nat
      OBVIOUS
    <3>3. \A q \in 0 .. 1 : [queue_handlers EXCEPT !["main"] = q] \in [LogProcs -> 0 .. 1]
                          /\ [queue_handlers EXCEPT !["main"] = q] \in [LogProcs -> Nat]
      BY <1>1, <3>2
    <3> QED
      BY <1>1, <3>1, <3>3
  <2>2. creator' \in {"new", "waiting", "returned", "raised"}
        /\ log_listener' \in {"none", "starting", "died", "listening", "stopping", "stopped", "killed"}
    BY <1>1, <1>3 DEF create_logger
  <2> QED
    BY <1>1, <1>2, <1>3, <2>1, <2>2 DEF create_logger, lgr_const, lgr_pipe
<1>4. CASE listener_starts
  BY <1>1, <1>2, <1>4 DEF listener_starts, lgr_const, lgr_pipe
<1>5. CASE returns_when_ready
  BY <1>1, <1>2, <1>5 DEF returns_when_ready, lgr_const, lgr_pipe, lgr_listener
<1>6. CASE listener_takes
  <2>1. log_queue # <<>> /\ log_queue \in Seq(OnQueue)
    BY <1>1, <1>6 DEF listener_takes
  <2>2. Tail(log_queue) \in Seq(OnQueue)
    BY <2>1, HeadTailProperties
  <2> QED
    BY <1>1, <1>2, <1>6, <2>2 DEF listener_takes, lgr_const
<1>7. CASE listener_writes
  <2>1. log_queue # <<>> /\ log_queue \in Seq(OnQueue) /\ Head(log_queue) # Sentinel
    BY <1>1, <1>7 DEF listener_writes, LoggerIInv, HeadIsWritten
  <2>2. Tail(log_queue) \in Seq(OnQueue) /\ Head(log_queue) \in OnQueue
    BY <2>1, HeadTailProperties
  <2>3. Head(log_queue) \in LogRecord
    BY <2>1, <2>2, LoggerBounds
  <2>4. log_written' \in [{"stream", "file"} -> Seq(LogRecord)]
    <3>1. log_written \in [{"stream", "file"} -> Seq(LogRecord)]
          /\ log_written' = [log_written EXCEPT ![Head(log_todo)] = Append(@, Head(log_queue))]
      BY <1>1, <1>7 DEF listener_writes, LogRecord
    <3>2. \A w \in Seq(LogRecord) : Append(w, Head(log_queue)) \in Seq(LogRecord)
      BY <2>3, AppendProperties
    <3> QED
      BY <3>1, <3>2
  <2> QED
    BY <1>1, <1>2, <1>7, <2>2, <2>4 DEF listener_writes, lgr_const, LogRecord
<1>8. ASSUME NEW p \in LogProcs, feed(p) PROVE LoggerTypes'
  <2>1. feeder[p] # <<>> /\ feeder[p] \in Seq(OnQueue)
    BY <1>1, <1>8 DEF feed
  <2>2. Head(feeder[p]) \in OnQueue /\ Tail(feeder[p]) \in Seq(OnQueue)
    BY <2>1, HeadTailProperties
  <2>3. log_queue' \in Seq(OnQueue) /\ log_fed' \in Seq(OnQueue)
    BY <1>1, <1>8, <2>2, AppendProperties DEF feed
  <2> QED
    BY <1>1, <1>2, <1>8, <2>2, <2>3 DEF feed, lgr_const, lgr_listener
<1>9. ASSUME NEW p \in LogProcs, log_record(p) PROVE LoggerTypes'
  <2> DEFINE record == <<p, log_count[p] + 1>>
  <2>1. log_count[p] + 1 \in 1 .. MaxLogged /\ log_count' = [log_count EXCEPT ![p] = @ + 1]
        /\ log_count'[p] = log_count[p] + 1
    BY <1>1, <1>9, LoggerBounds DEF log_record
  <2>2. record \in LogRecord /\ record \in OnQueue
    BY <2>1 DEF LogRecord, OnQueue
  <2>3. log_count' \in [LogProcs -> 0 .. MaxLogged]
    BY <1>1, <2>1, LoggerBounds
  <2> HIDE DEF record
  <2>4. feeder' = [feeder EXCEPT ![p] = @ \o [i \in 1 .. queue_handlers[p] |-> record]]
    BY <1>9, <2>1 DEF log_record, record
  <2>5. feeder[p] \o [i \in 1 .. queue_handlers[p] |-> record] \in Seq(OnQueue)
    <3>1. queue_handlers[p] \in 0 .. 1 /\ feeder[p] \in Seq(OnQueue)
      BY <1>1
    <3>2. Append(feeder[p], record) \in Seq(OnQueue)
      BY <2>2, <3>1, AppendProperties
    <3> QED
      BY <2>2, <3>1, <3>2, PutRecord
  <2>6. feeder' \in [LogProcs -> Seq(OnQueue)]
    BY <1>1, <2>4, <2>5
  <2>7. log_written' \in [{"stream", "file"} -> Seq(LogRecord)]
    <3>1. log_written' = log_written \/ log_written' = [h \in {"stream", "file"} |->
             IF h \in HandlersOf(lgr_call) THEN Append(log_written[h], record) ELSE log_written[h]]
      BY <1>1, <1>9, <2>1 DEF log_record, record
    <3>2. log_written \in [{"stream", "file"} -> Seq(LogRecord)]
      BY <1>1 DEF LogRecord
    <3>3. \A h \in {"stream", "file"} : Append(log_written[h], record) \in Seq(LogRecord)
      BY <2>2, <3>2, AppendProperties
    <3> QED
      BY <3>1, <3>2, <3>3
  <2> QED
    BY <1>1, <1>2, <1>9, <2>3, <2>6, <2>7 DEF log_record, lgr_const, LogRecord
<1>10. ASSUME NEW c \in LogChildren, child_creates_logger(c) PROVE LoggerTypes'
  <2>1. ~is_logger_exists(c) => queue_handlers[c] = 0
    BY <1>1, LoggerBounds DEF is_logger_exists
  <2>2. queue_handlers' \in [LogProcs -> 0 .. 1] /\ queue_handlers' \in [LogProcs -> Nat]
    <3>1. queue_handlers' = queue_handlers \/ queue_handlers' = [queue_handlers EXCEPT ![c] = 1]
      <4>1. is_logger_exists(c) => queue_handlers' = queue_handlers
        BY <1>10 DEF child_creates_logger
      <4>2. ~is_logger_exists(c) => queue_handlers' = [queue_handlers EXCEPT ![c] = 0 + 1]
        BY <1>10, <2>1 DEF child_creates_logger
      <4> QED
        BY <4>1, <4>2
    <3>2. 1 \in 0 .. 1 /\ 1 \in Nat
      OBVIOUS
    <3> QED
      BY <1>1, <3>1, <3>2
  <2>3. log_child' \in [LogChildren -> {"none", "up", "raised", "ended"}]
    BY <1>1, <1>10 DEF child_creates_logger
  <2> QED
    BY <1>1, <1>2, <1>10, <2>2, <2>3 DEF child_creates_logger, lgr_const, lgr_pipe, lgr_listener
<1>11. ASSUME NEW c \in LogChildren, child_ends(c) PROVE LoggerTypes'
  <2>1. feeder' \in [LogProcs -> Seq(OnQueue)]
    <3>1. <<>> \in Seq(OnQueue)
      OBVIOUS
    <3> QED
      BY <1>1, <1>11, <3>1 DEF child_ends
  <2>2. log_child' \in [LogChildren -> {"none", "up", "raised", "ended"}]
    BY <1>1, <1>11 DEF child_ends
  <2> QED
    BY <1>1, <1>2, <1>11, <2>1, <2>2 DEF child_ends, lgr_const, lgr_listener
<1>12. CASE listener_interrupted
  <2>1. log_queue' \in Seq(OnQueue) /\ log_fed' \in Seq(OnQueue)
    BY <1>1, <1>12, LoggerBounds, AppendProperties DEF listener_interrupted
  <2> QED
    BY <1>1, <1>2, <1>12, <2>1 DEF listener_interrupted, lgr_const
<1>13. CASE log_cleanup
  <2>1. feeder' \in [LogProcs -> Seq(OnQueue)]
    <3>1. feeder' = [feeder EXCEPT !["main"] = Append(@, Sentinel)]
      BY <1>13 DEF log_cleanup
    <3>2. Append(feeder["main"], Sentinel) \in Seq(OnQueue)
      BY <1>1, LoggerBounds, AppendProperties
    <3> QED
      BY <1>1, <3>1, <3>2
  <2> QED
    BY <1>1, <1>2, <1>13, <2>1 DEF log_cleanup, lgr_const, lgr_listener
<1>14. CASE listener_terminated
  BY <1>1, <1>2, <1>14 DEF listener_terminated, lgr_const, lgr_pipe
<1>15. CASE UNCHANGED lgr_vars
  BY <1>1, <1>15 DEF lgr_vars, lgr_const, lgr_pipe, lgr_listener
<1> QED
  BY <1>3, <1>4, <1>5, <1>6, <1>7, <1>8, <1>9, <1>10, <1>11, <1>12, <1>13, <1>14, <1>15, LoggerBounds
     DEF LoggerNext, LoggerThreads
-----------------------------------------------------------------------------
LEMMA NothingYetStep == ASSUME LoggerIInv, [LoggerNext]_lgr_vars PROVE NothingYet'
<1>1. LoggerTypes /\ NothingYet
  BY DEF LoggerIInv
<1>2. CASE create_logger
  <2>1. creator' # "new" /\ UNCHANGED <<log_child, log_count, feeder>>
        /\ \A c \in LogChildren : queue_handlers'[c] = queue_handlers[c]
    BY <1>1, <1>2, LoggerBounds DEF create_logger, lgr_pipe, LoggerTypes
  <2> QED
    BY <1>1, <2>1 DEF NothingYet
<1>3. CASE listener_starts \/ returns_when_ready
  <2>1. creator # "new" /\ creator' # "new"
        /\ UNCHANGED <<log_child, log_count, feeder, queue_handlers>>
    BY <1>1, <1>3 DEF listener_starts, returns_when_ready, NothingYet, lgr_pipe
  <2> QED
    BY <1>1, <2>1 DEF NothingYet
<1>4. CASE listener_takes \/ listener_writes \/ listener_interrupted \/ listener_terminated
           \/ log_cleanup
  <2>1. creator # "new" /\ creator' # "new" /\ UNCHANGED <<log_child, log_count, queue_handlers>>
        /\ \A c \in LogChildren : feeder'[c] = feeder[c]
    BY <1>1, <1>4, LoggerBounds DEF listener_takes, listener_writes, listening, listener_interrupted,
       listener_terminated, log_cleanup, NothingYet, lgr_pipe, LoggerTypes
  <2> QED
    BY <1>1, <2>1 DEF NothingYet
<1>5. ASSUME NEW p \in LogProcs, feed(p) PROVE NothingYet'
  <2>1. feeder[p] # <<>> /\ feeder' = [feeder EXCEPT ![p] = Tail(@)]
        /\ UNCHANGED <<creator, log_child, log_count, queue_handlers>>
    BY <1>5 DEF feed
  <2>2. creator # "new"
    BY <1>1, <2>1 DEF NothingYet
  <2>3. \A c \in LogChildren : log_child[c] = "none" => c # p
    BY <1>1, <2>1 DEF NothingYet
  <2>4. \A c \in LogChildren : log_child[c] = "none" => feeder'[c] = feeder[c]
    BY <1>1, <2>1, <2>3, LoggerBounds DEF LoggerTypes
  <2> QED
    BY <1>1, <2>1, <2>2, <2>4 DEF NothingYet
<1>6. ASSUME NEW p \in LogProcs, log_record(p) PROVE NothingYet'
  <2>1. /\ can_log(p) /\ log_count' = [log_count EXCEPT ![p] = @ + 1]
        /\ feeder' = [feeder EXCEPT ![p] = @ \o [i \in 1 .. queue_handlers[p] |-> <<p, log_count'[p]>>]]
        /\ UNCHANGED <<creator, log_child, queue_handlers>>
    BY <1>6 DEF log_record
  <2>2. creator # "new"
    BY <1>1, <2>1, LoggerBounds DEF NothingYet, can_log
  <2>3. \A c \in LogChildren : log_child[c] = "none" => c # p
    BY <2>1, LoggerBounds DEF can_log
  <2>4. \A c \in LogChildren : log_child[c] = "none" =>
          feeder'[c] = feeder[c] /\ log_count'[c] = log_count[c]
    BY <1>1, <2>1, <2>3, LoggerBounds DEF LoggerTypes, LoggerTypeOK
  <2> QED
    BY <1>1, <2>1, <2>2, <2>4 DEF NothingYet
<1>7. ASSUME NEW c \in LogChildren, child_creates_logger(c) PROVE NothingYet'
  <2>1. creator = "returned" /\ UNCHANGED <<creator, feeder, log_count>>
        /\ (log_child[c] = "none" \/ (log_child[c] = "up" /\ queue_handlers[c] = 1))
    BY <1>7 DEF child_creates_logger, lgr_pipe
  <2>2. CASE is_logger_exists(c)
    <3>1. log_child' = [log_child EXCEPT ![c] = "raised"] /\ UNCHANGED queue_handlers
      BY <1>7, <2>2 DEF child_creates_logger
    <3>2. \A d \in LogChildren : log_child'[d] = IF d = c THEN "raised" ELSE log_child[d]
      BY <1>1, <3>1 DEF LoggerTypes, LoggerTypeOK
    <3>3. creator' # "new" /\ \A d \in LogChildren : "raised" # "none" /\ "raised" # "up"
      BY <2>1
    <3>4. ASSUME NEW d \in LogChildren
          PROVE  /\ log_child'[d] = "none" => log_count'[d] = 0 /\ feeder'[d] = <<>> /\ queue_handlers'[d] = 0
                 /\ log_child'[d] = "up" => queue_handlers'[d] = 1
      <4>1. CASE d = c
        BY <3>2, <3>3, <4>1
      <4>2. CASE d # c
        <5>1. log_child'[d] = log_child[d]
          BY <3>2, <4>2
        <5> QED
          BY <1>1, <2>1, <3>1, <5>1 DEF NothingYet
      <4> QED
        BY <4>1, <4>2
    <3> QED
      BY <3>3, <3>4 DEF NothingYet
  <2>3. CASE ~is_logger_exists(c)
    <3>1. queue_handlers[c] = 0
      BY <1>1, <2>3, LoggerBounds DEF is_logger_exists, LoggerTypes
    <3>2. log_child' = [log_child EXCEPT ![c] = "up"]
          /\ queue_handlers' = [queue_handlers EXCEPT ![c] = 0 + 1]
      BY <1>7, <2>3, <3>1 DEF child_creates_logger
    <3>3. \A d \in LogChildren : log_child'[d] = (IF d = c THEN "up" ELSE log_child[d])
            /\ queue_handlers'[d] = (IF d = c THEN 1 ELSE queue_handlers[d])
      BY <1>1, <3>2, LoggerBounds DEF LoggerTypes, LoggerTypeOK
    <3>4. creator' # "new"
      BY <2>1
    <3>5. ASSUME NEW d \in LogChildren
          PROVE  /\ log_child'[d] = "none" => log_count'[d] = 0 /\ feeder'[d] = <<>> /\ queue_handlers'[d] = 0
                 /\ log_child'[d] = "up" => queue_handlers'[d] = 1
      <4>1. CASE d = c
        BY <3>3, <4>1
      <4>2. CASE d # c
        <5>1. log_child'[d] = log_child[d] /\ queue_handlers'[d] = queue_handlers[d]
          BY <3>3, <4>2
        <5> QED
          BY <1>1, <2>1, <5>1 DEF NothingYet
      <4> QED
        BY <4>1, <4>2
    <3> QED
      BY <3>4, <3>5 DEF NothingYet
  <2> QED
    BY <2>2, <2>3
<1>8. ASSUME NEW c \in LogChildren, child_ends(c) PROVE NothingYet'
  <2>1. /\ log_child[c] = "up" /\ log_child' = [log_child EXCEPT ![c] = "ended"]
        /\ feeder' = feeder \/ feeder' = [feeder EXCEPT ![c] = <<>>]
        /\ UNCHANGED <<creator, queue_handlers, log_count>>
    BY <1>8 DEF child_ends
  <2>2. creator # "new"
    BY <1>1, <2>1 DEF NothingYet
  <2>3. \A d \in LogChildren : log_child'[d] = (IF d = c THEN "ended" ELSE log_child[d])
          /\ (d # c => feeder'[d] = feeder[d])
    BY <1>1, <2>1, LoggerBounds DEF LoggerTypes, LoggerTypeOK
  <2> QED
    BY <1>1, <2>1, <2>2, <2>3 DEF NothingYet
<1>9. CASE UNCHANGED lgr_vars
  BY <1>1, <1>9 DEF lgr_vars, lgr_pipe, lgr_listener, NothingYet
<1> QED
  BY <1>2, <1>3, <1>4, <1>5, <1>6, <1>7, <1>8, <1>9 DEF LoggerNext, LoggerThreads

LEMMA HeadStep == ASSUME LoggerIInv, [LoggerNext]_lgr_vars PROVE HeadIsWritten'
<1>1. LoggerTypes /\ HeadIsWritten /\ NothingYet
  BY DEF LoggerIInv
<1>2. UNCHANGED lgr_call
  BY DEF LoggerNext, LoggerThreads, lgr_vars, create_logger, listener_starts, returns_when_ready,
         listener_takes, listener_writes, feed, log_record, child_creates_logger, child_ends,
         listener_interrupted, log_cleanup, listener_terminated, lgr_const
<1>3. log_queue \in Seq(OnQueue) /\ lgr_call \in LoggerCalls
  BY <1>1 DEF LoggerTypes, LoggerTypeOK
<1>4. \A x \in OnQueue : log_queue # <<>> =>
        Append(log_queue, x) # <<>> /\ Head(Append(log_queue, x)) = Head(log_queue)
  <2> SUFFICES ASSUME NEW x \in OnQueue, log_queue # <<>>
               PROVE  Append(log_queue, x) # <<>> /\ Head(Append(log_queue, x)) = Head(log_queue)
    OBVIOUS
  <2> DEFINE t == Append(log_queue, x)
  <2>1. Len(log_queue) \in Nat /\ Len(log_queue) # 0
    BY <1>3, EmptySeq, LenProperties
  <2>2. t \in Seq(OnQueue) /\ Len(t) = Len(log_queue) + 1
        /\ \A i \in 1 .. Len(log_queue) : t[i] = log_queue[i]
    BY <1>3, AppendProperties
  <2>3. 1 \in 1 .. Len(log_queue)
    BY <2>1
  <2> HIDE DEF t
  <2>4. t # <<>> /\ t[1] = log_queue[1]
    BY <2>1, <2>2, <2>3, EmptySeq
  <2>5. Head(t) = t[1] /\ Head(log_queue) = log_queue[1]
    BY <1>3, <2>2, <2>4, HeadTailProperties
  <2> QED
    BY <2>4, <2>5 DEF t
<1>5. CASE create_logger
  BY <1>1, <1>2, <1>5 DEF create_logger, NothingYet, HeadIsWritten
<1>6. CASE listener_starts \/ returns_when_ready
  BY <1>1, <1>2, <1>6 DEF listener_starts, returns_when_ready, HeadIsWritten, listening, lgr_pipe,
                          lgr_listener
<1>7. CASE listener_takes
  BY <1>1, <1>2, <1>7 DEF listener_takes, HeadIsWritten, listening
<1>8. CASE listener_writes
  <2>1. LogHandlers(lgr_call) \in {<<>>, <<"stream">>, <<"file">>, <<"stream", "file">>}
    BY <1>3, HandlersAre
  <2>2. log_todo # <<>> /\ log_todo' = Tail(log_todo) /\ UNCHANGED log_listener
        /\ log_queue' = IF Len(log_todo) = 1 THEN Tail(log_queue) ELSE log_queue
    BY <1>8 DEF listener_writes
  <2>3. log_todo \in {<<"stream">>, <<"file">>, <<"stream", "file">>}
    BY <1>1, <2>1, <2>2 DEF HeadIsWritten
  <2>4. log_todo' # <<>> => log_todo = <<"stream", "file">> /\ log_todo' = <<"file">> /\ Len(log_todo) # 1
    <3>1. Tail(<<"stream">>) = <<>> /\ Tail(<<"file">>) = <<>> /\ Tail(<<"stream", "file">>) = <<"file">>
          /\ Len(<<"stream", "file">>) = 2
      OBVIOUS
    <3>2. CASE log_todo = <<"stream", "file">>
      BY <2>2, <3>1, <3>2
    <3>3. CASE log_todo = <<"stream">> \/ log_todo = <<"file">>
      BY <2>2, <3>1, <3>3
    <3> QED
      BY <2>3, <3>2, <3>3
  <2>5. log_todo = <<"stream", "file">> => LogHandlers(lgr_call) = <<"stream", "file">>
    BY <1>1, <2>2 DEF HeadIsWritten
  <2>6. listening /\ log_queue # <<>> /\ Head(log_queue) # Sentinel
    BY <1>1, <2>2 DEF HeadIsWritten
  <2> QED
    BY <1>2, <2>2, <2>4, <2>5, <2>6 DEF HeadIsWritten, listening
<1>9. ASSUME NEW p \in LogProcs, feed(p) PROVE HeadIsWritten'
  <2>1. Head(feeder[p]) \in OnQueue
    BY <1>1, <1>9, HeadTailProperties DEF feed, LoggerTypes
  <2> QED
    BY <1>1, <1>2, <1>4, <1>9, <2>1 DEF feed, HeadIsWritten, listening, lgr_listener
<1>10. CASE listener_interrupted
  BY <1>1, <1>2, <1>4, <1>10, LoggerBounds DEF listener_interrupted, HeadIsWritten, listening
<1>11. CASE listener_terminated
  BY <1>11 DEF listener_terminated, HeadIsWritten
<1>12. ASSUME UNCHANGED <<log_todo, log_listener, log_queue>> PROVE HeadIsWritten'
  BY <1>1, <1>2, <1>12 DEF HeadIsWritten, listening
<1>13. ASSUME log_cleanup \/ UNCHANGED lgr_vars
              \/ (\E p \in LogProcs : log_record(p))
              \/ \E c \in LogChildren : child_creates_logger(c) \/ child_ends(c)
       PROVE  UNCHANGED <<log_todo, log_listener, log_queue>>
  BY <1>13 DEF log_cleanup, log_record, child_creates_logger, child_ends, lgr_vars, lgr_listener, lgr_pipe
<1> QED
  BY <1>5, <1>6, <1>7, <1>8, <1>9, <1>10, <1>11, <1>12, <1>13 DEF LoggerNext, LoggerThreads
-----------------------------------------------------------------------------
LEMMA FeederKept ==
    ASSUME NEW q \in LogProcs, NEW k \in Nat, FeederAfter(q, k), feeder'[q] = feeder[q],
           log_count'[q] = log_count[q], cleaned_up_log => cleaned_up_log',
           CanLogToQueue(q)' => CanLogToQueue(q)
    PROVE  FeederAfter(q, k)'
  BY DEF FeederAfter

LEMMA RecordsFed ==
    ASSUME LoggerIInv, NEW p \in LogProcs, feed(p)
    PROVE  RecordsReachTheQueue'
<1> DEFINE f == feeder[p]
           x == Head(f)
<1>1. LoggerTypes /\ RecordsReachTheQueue
  BY DEF LoggerIInv
<1>2. /\ f # <<>> /\ feeder' = [feeder EXCEPT ![p] = Tail(f)] /\ log_fed' = Append(log_fed, x)
      /\ UNCHANGED <<queue_handlers, log_child, log_count, cleaned_up_log>>
  BY DEF feed
<1>3. f \in Seq(OnQueue) /\ log_fed \in Seq(OnQueue) /\ log_count \in [LogProcs -> Nat]
  BY <1>1, LoggerBounds DEF LoggerTypes, LoggerTypeOK
<1>4. /\ x \in OnQueue /\ Tail(f) \in Seq(OnQueue) /\ x = f[1] /\ Len(f) \in Nat /\ Len(f) # 0
      /\ Len(Tail(f)) = Len(f) - 1 /\ \A i \in 1 .. Len(f) - 1 : Tail(f)[i] = f[i + 1]
      /\ DOMAIN f = 1 .. Len(f) /\ DOMAIN Tail(f) = 1 .. Len(f) - 1
  <2>1. x \in OnQueue /\ Tail(f) \in Seq(OnQueue) /\ x = f[1]
        /\ Len(Tail(f)) = Len(f) - 1 /\ \A i \in 1 .. Len(f) - 1 : Tail(f)[i] = f[i + 1]
    BY <1>2, <1>3, HeadTailProperties
  <2>2. Len(f) \in Nat /\ Len(f) # 0 /\ DOMAIN f = 1 .. Len(f)
    BY <1>2, <1>3, EmptySeq, LenProperties
  <2>3. DOMAIN Tail(f) = 1 .. Len(f) - 1
    BY <2>1, LenProperties
  <2> QED
    BY <2>1, <2>2, <2>3
<1>5. feeder'[p] = Tail(f) /\ \A q \in LogProcs : q # p => feeder'[q] = feeder[q]
  BY <1>1, <1>2 DEF LoggerTypes
<1>6. \A q \in LogProcs : CanLogToQueue(q)' <=> CanLogToQueue(q)
  BY <1>2 DEF CanLogToQueue
<1>7. PICK k \in Nat : HasUpTo(p, k, log_fed) /\ FeederAfter(p, k)
  BY <1>1 DEF RecordsReachTheQueue
<1>8. /\ \A i \in 1 .. Len(f) :
           \/ f[i] = <<p, k + i>> /\ k + i <= log_count[p]
           \/ f[i] = Sentinel /\ p = "main" /\ cleaned_up_log /\ i = Len(f)
      /\ k <= log_count[p]
      /\ CanLogToQueue(p) => k + Len(f) = log_count[p]
  BY <1>4, <1>7 DEF FeederAfter
<1> HIDE DEF f, x
<1>9. 1 \in 1 .. Len(f)
  BY <1>4
<1>10. x[1] = p
  <2>1. x = f[1]
    BY <1>4
  <2>2. CASE f[1] = <<p, k + 1>>
    BY <2>1, <2>2
  <2>3. CASE f[1] = Sentinel /\ p = "main"
    BY <2>1, <2>3, LoggerBounds
  <2> QED
    BY <1>8, <1>9, <2>2, <2>3
<1>11. ASSUME NEW q \in LogProcs, q # p
       PROVE  \E m \in Nat : HasUpTo(q, m, log_fed)' /\ FeederAfter(q, m)'
  <2>1. PICK m \in Nat : HasUpTo(q, m, log_fed) /\ FeederAfter(q, m)
    BY <1>1 DEF RecordsReachTheQueue
  <2>2. HasUpTo(q, m, log_fed')
    BY <1>2, <1>3, <1>4, <1>10, <1>11, <2>1, HasNoMore
  <2>3. FeederAfter(q, m)'
    BY <1>2, <1>5, <1>6, <1>11, <2>1, FeederKept
  <2> QED
    BY <2>2, <2>3
<1>12. CASE x = <<p, k + 1>> /\ k + 1 <= log_count[p]
  <2>1. HasUpTo(p, k + 1, log_fed')
    BY <1>2, <1>3, <1>4, <1>7, <1>12, HasOneMore
  <2>2. PICK m \in Nat : m = k + 1
    OBVIOUS
  <2>3. \A i \in 1 .. Len(f) - 1 :
          \/ Tail(f)[i] = <<p, m + i>> /\ m + i <= log_count[p]
          \/ Tail(f)[i] = Sentinel /\ p = "main" /\ cleaned_up_log /\ i = Len(f) - 1
    <3> SUFFICES ASSUME NEW i \in 1 .. Len(f) - 1
                 PROVE  \/ Tail(f)[i] = <<p, m + i>> /\ m + i <= log_count[p]
                        \/ Tail(f)[i] = Sentinel /\ p = "main" /\ cleaned_up_log /\ i = Len(f) - 1
      OBVIOUS
    <3>1. i + 1 \in 1 .. Len(f) /\ k + (i + 1) = m + i /\ (i + 1 = Len(f) => i = Len(f) - 1)
      <4>1. Len(f) \in Nat /\ i \in Nat
        BY <1>4
      <4>2. \A l \in Nat : i \in 1 .. l - 1 => i + 1 \in 1 .. l /\ (i + 1 = l => i = l - 1)
        OBVIOUS
      <4>3. k + (i + 1) = (k + 1) + i
        BY <4>1
      <4> QED
        BY <2>2, <4>1, <4>2, <4>3
    <3>2. Tail(f)[i] = f[i + 1]
      BY <1>4
    <3> QED
      BY <1>8, <3>1, <3>2
  <2>4. CanLogToQueue(p) => m + (Len(f) - 1) = log_count[p]
    <3>1. Len(f) \in Nat
      BY <1>4
    <3>2. \A l \in Nat : (k + 1) + (l - 1) = k + l
      OBVIOUS
    <3> QED
      BY <1>8, <2>2, <3>1, <3>2
  <2>5. FeederAfter(p, m)'
    <3> DEFINE g == Tail(f)
    <3>1. feeder'[p] = g /\ DOMAIN g = 1 .. Len(f) - 1 /\ Len(g) = Len(f) - 1
      BY <1>4, <1>5
    <3>2. log_count' = log_count /\ cleaned_up_log' = cleaned_up_log /\ m <= log_count[p]
      BY <1>2, <1>12, <2>2
    <3>3. \A i \in 1 .. Len(f) - 1 :
            \/ g[i] = <<p, m + i>> /\ m + i <= log_count[p]
            \/ g[i] = Sentinel /\ p = "main" /\ cleaned_up_log /\ i = Len(f) - 1
      BY <2>3
    <3> HIDE DEF g
    <3> QED
      BY <1>6, <2>4, <3>1, <3>2, <3>3 DEF FeederAfter
  <2>6. \E n \in Nat : HasUpTo(p, n, log_fed)' /\ FeederAfter(p, n)'
    BY <2>1, <2>2, <2>5
  <2> QED
    BY <1>11, <2>6 DEF RecordsReachTheQueue
<1>13. CASE x = Sentinel /\ p = "main" /\ cleaned_up_log /\ 1 = Len(f)
  <2>1. HasUpTo(p, k, log_fed')
    BY <1>2, <1>3, <1>4, <1>7, <1>13, HasNoMore
  <2>2. DOMAIN feeder'[p] = {}
    BY <1>4, <1>5, <1>13
  <2>3. ~CanLogToQueue(p)
    BY <1>13 DEF CanLogToQueue
  <2>4. FeederAfter(p, k)'
    BY <1>2, <1>6, <1>8, <2>2, <2>3 DEF FeederAfter
  <2> QED
    BY <1>11, <2>1, <2>4 DEF RecordsReachTheQueue
<1> QED
  BY <1>4, <1>8, <1>9, <1>12, <1>13

LEMMA RecordsLogged ==
    ASSUME LoggerIInv, NEW p \in LogProcs, log_record(p)
    PROVE  RecordsReachTheQueue'
<1> DEFINE f == feeder[p]
           c == log_count[p]
<1>1. LoggerTypes /\ RecordsReachTheQueue /\ NothingYet
  BY DEF LoggerIInv
<1>2. /\ can_log(p) /\ log_count' = [log_count EXCEPT ![p] = @ + 1]
      /\ feeder' = [feeder EXCEPT ![p] = @ \o [i \in 1 .. queue_handlers[p] |-> <<p, log_count'[p]>>]]
      /\ c < MaxLogged
      /\ UNCHANGED <<log_fed, log_child, queue_handlers, cleaned_up_log>>
  BY DEF log_record
<1>3. f \in Seq(OnQueue) /\ log_count \in [LogProcs -> 0 .. MaxLogged] /\ c \in Nat
      /\ queue_handlers[p] \in 0 .. 1 /\ feeder \in [LogProcs -> Seq(OnQueue)]
  BY <1>1, LoggerBounds DEF LoggerTypes, LoggerTypeOK
<1>4. log_count'[p] = c + 1 /\ \A q \in LogProcs : q # p => log_count'[q] = log_count[q]
  BY <1>2, <1>3
<1>5. <<p, c + 1>> \in OnQueue
  BY <1>2, <1>3, LoggerBounds DEF OnQueue, LogRecord
<1>6. feeder' = [feeder EXCEPT ![p] = f \o [i \in 1 .. queue_handlers[p] |-> <<p, c + 1>>]]
  <2> DEFINE put(n) == f \o [i \in 1 .. queue_handlers[p] |-> <<p, n>>]
  <2>1. feeder' = [feeder EXCEPT ![p] = put(log_count'[p])]
    BY <1>2
  <2>2. put(log_count'[p]) = put(c + 1)
    BY <1>4
  <2> HIDE DEF put
  <2>3. feeder' = [feeder EXCEPT ![p] = put(c + 1)]
    BY <2>1, <2>2
  <2> QED
    BY <2>3 DEF put
<1>7. feeder'[p] = (IF queue_handlers[p] = 1 THEN Append(f, <<p, c + 1>>) ELSE f)
      /\ \A q \in LogProcs : q # p => feeder'[q] = feeder[q]
  <2>1. f \o [i \in 1 .. queue_handlers[p] |-> <<p, c + 1>>]
          = IF queue_handlers[p] = 1 THEN Append(f, <<p, c + 1>>) ELSE f
    BY <1>3, <1>5, PutRecord
  <2> DEFINE g == f \o [i \in 1 .. queue_handlers[p] |-> <<p, c + 1>>]
  <2>2. feeder' = [feeder EXCEPT ![p] = g] /\ feeder \in [LogProcs -> Seq(OnQueue)]
    BY <1>3, <1>6
  <2> HIDE DEF g
  <2>3. feeder'[p] = g
    BY <2>2
  <2>4. \A q \in LogProcs : q # p => feeder'[q] = feeder[q]
    BY <2>2
  <2>5. g = IF queue_handlers[p] = 1 THEN Append(f, <<p, c + 1>>) ELSE f
    BY <2>1 DEF g
  <2> QED
    BY <2>3, <2>4, <2>5
<1>8. \A q \in LogProcs : CanLogToQueue(q)' <=> CanLogToQueue(q)
  BY <1>2 DEF CanLogToQueue
<1>9. PICK k \in Nat : HasUpTo(p, k, log_fed) /\ FeederAfter(p, k)
  BY <1>1 DEF RecordsReachTheQueue
<1>10. Len(f) \in Nat /\ DOMAIN f = 1 .. Len(f)
  BY <1>3, LenProperties
<1>11. /\ \A i \in 1 .. Len(f) :
            \/ f[i] = <<p, k + i>> /\ k + i <= c
            \/ f[i] = Sentinel /\ p = "main" /\ cleaned_up_log /\ i = Len(f)
       /\ k <= c
       /\ CanLogToQueue(p) => k + Len(f) = c
  BY <1>9, <1>10 DEF FeederAfter
<1>12. ASSUME NEW q \in LogProcs, q # p
       PROVE  \E m \in Nat : HasUpTo(q, m, log_fed)' /\ FeederAfter(q, m)'
  <2>1. PICK m \in Nat : HasUpTo(q, m, log_fed) /\ FeederAfter(q, m)
    BY <1>1 DEF RecordsReachTheQueue
  <2>2. HasUpTo(q, m, log_fed')
    BY <1>2, <2>1
  <2>3. FeederAfter(q, m)'
    BY <1>2, <1>4, <1>7, <1>8, <1>12, <2>1, FeederKept
  <2> QED
    BY <2>2, <2>3
<1> HIDE DEF f, c
<1>13. CASE queue_handlers[p] = 1
  <2>1. CanLogToQueue(p) /\ (p = "main" => ~cleaned_up_log)
    BY <1>2, <1>13 DEF CanLogToQueue, can_log
  <2>2. k + Len(f) = c
    BY <1>11, <2>1
  <2> DEFINE t == Append(f, <<p, c + 1>>)
  <2>3. Len(t) = Len(f) + 1 /\ DOMAIN t = 1 .. Len(f) + 1 /\ t[Len(f) + 1] = <<p, c + 1>>
        /\ \A i \in 1 .. Len(f) : t[i] = f[i]
    BY <1>3, <1>5, <1>10, AppendProperties DEF f
  <2> HIDE DEF t
  <2>4. \A i \in 1 .. Len(f) + 1 : t[i] = <<p, k + i>> /\ k + i <= c + 1
    <3> SUFFICES ASSUME NEW i \in 1 .. Len(f) + 1 PROVE t[i] = <<p, k + i>> /\ k + i <= c + 1
      OBVIOUS
    <3>1. CASE i \in 1 .. Len(f)
      <4>1. f[i] = <<p, k + i>> /\ k + i <= c
        BY <1>11, <2>1, <3>1
      <4>2. k + i <= c + 1
        BY <1>3, <4>1 DEF c
      <4> QED
        BY <2>3, <3>1, <4>1, <4>2
    <3>2. CASE i = Len(f) + 1
      <4>1. k + i = c + 1 /\ k + i <= c + 1
        BY <1>10, <2>2, <3>2
      <4> QED
        BY <2>3, <3>2, <4>1
    <3> QED
      BY <1>10, <3>1, <3>2
  <2>5. k <= c + 1 /\ k + (Len(f) + 1) = c + 1
    BY <1>10, <2>2
  <2>6. feeder'[p] = t
    BY <1>7, <1>13 DEF t
  <2>7. FeederAfter(p, k)'
    BY <1>4, <2>3, <2>4, <2>5, <2>6 DEF FeederAfter
  <2>8. HasUpTo(p, k, log_fed)'
    BY <1>2, <1>9
  <2> QED
    BY <1>12, <2>7, <2>8 DEF RecordsReachTheQueue
<1>14. CASE queue_handlers[p] # 1
  <2>1. ~CanLogToQueue(p)
    BY <1>1, <1>14, LoggerBounds DEF CanLogToQueue, NothingYet
  <2>2. feeder'[p] = f
    BY <1>7, <1>14
  <2>3. k <= c + 1 /\ \A i \in 1 .. Len(f) : k + i <= c => k + i <= c + 1
    <3>1. c \in Nat /\ k <= c /\ Len(f) \in Nat
      BY <1>3, <1>10, <1>11
    <3>2. \A b \in Nat, l \in Nat : k <= b =>
             k <= b + 1 /\ \A i \in 1 .. l : k + i <= b => k + i <= b + 1
      OBVIOUS
    <3> QED
      BY <3>1, <3>2
  <2>4. \A i \in DOMAIN f :
            \/ f[i] = <<p, k + i>> /\ k + i <= c + 1
            \/ f[i] = Sentinel /\ p = "main" /\ cleaned_up_log /\ i = Len(f)
    BY <1>10, <1>11, <2>3
  <2>5. FeederAfter(p, k)'
    BY <1>2, <1>4, <1>8, <2>1, <2>2, <2>3, <2>4 DEF FeederAfter
  <2>6. HasUpTo(p, k, log_fed)'
    BY <1>2, <1>9
  <2> QED
    BY <1>12, <2>5, <2>6 DEF RecordsReachTheQueue
<1> QED
  BY <1>13, <1>14

LEMMA RecordsStep == ASSUME LoggerIInv, [LoggerNext]_lgr_vars PROVE RecordsReachTheQueue'
<1>1. LoggerTypes /\ RecordsReachTheQueue /\ NothingYet
  BY DEF LoggerIInv
<1>2. log_fed \in Seq(OnQueue) /\ log_child \in [LogChildren -> {"none", "up", "raised", "ended"}]
      /\ log_count \in [LogProcs -> Nat] /\ feeder \in [LogProcs -> Seq(OnQueue)]
  BY <1>1, LoggerBounds DEF LoggerTypes, LoggerTypeOK
<1>3. ASSUME UNCHANGED <<feeder, log_fed, log_count, cleaned_up_log>>,
             \A q \in LogProcs : CanLogToQueue(q)' =>
                CanLogToQueue(q) \/ (log_count[q] = 0 /\ feeder[q] = <<>>)
      PROVE  RecordsReachTheQueue'
  <2> SUFFICES ASSUME NEW q \in LogProcs
               PROVE  \E m \in Nat : HasUpTo(q, m, log_fed)' /\ FeederAfter(q, m)'
    BY DEF RecordsReachTheQueue
  <2>1. PICK m \in Nat : HasUpTo(q, m, log_fed) /\ FeederAfter(q, m)
    BY <1>1 DEF RecordsReachTheQueue
  <2>2. HasUpTo(q, m, log_fed)'
    BY <1>3, <2>1
  <2>3. CASE CanLogToQueue(q)' => CanLogToQueue(q)
    BY <1>3, <2>1, <2>2, <2>3, FeederKept
  <2>4. CASE log_count[q] = 0 /\ feeder[q] = <<>>
    <3>1. m = 0
      BY <2>1, <2>4 DEF FeederAfter
    <3>2. DOMAIN feeder'[q] = {} /\ Len(feeder'[q]) = 0 /\ log_count'[q] = 0
      BY <1>3, <2>4
    <3>3. FeederAfter(q, m)'
      BY <3>1, <3>2 DEF FeederAfter
    <3> QED
      BY <2>2, <3>3
  <2> QED
    BY <1>3, <2>3, <2>4
<1>4. CASE create_logger
  <2>1. /\ UNCHANGED <<feeder, log_fed, log_count, cleaned_up_log, log_child>>
        /\ \A q \in LogProcs : log_count[q] = 0 /\ feeder[q] = <<>>
    BY <1>1, <1>4 DEF create_logger, lgr_pipe, NothingYet
  <2> QED
    BY <1>3, <2>1
<1>5. ASSUME NEW c \in LogChildren, child_creates_logger(c) PROVE RecordsReachTheQueue'
  <2>1. /\ UNCHANGED <<feeder, log_fed, log_count, cleaned_up_log>>
        /\ (log_child[c] = "none" \/ log_child[c] = "up")
    BY <1>5 DEF child_creates_logger, lgr_pipe
  <2>2. queue_handlers'["main"] = queue_handlers["main"]
    BY <1>1, <1>5, LoggerBounds DEF child_creates_logger, LoggerTypes
  <2>3. \A d \in LogChildren : d # c => log_child'[d] = log_child[d]
    BY <1>2, <1>5 DEF child_creates_logger
  <2>4. ASSUME NEW q \in LogProcs, CanLogToQueue(q)'
        PROVE  CanLogToQueue(q) \/ (log_count[q] = 0 /\ feeder[q] = <<>>)
    <3>1. CASE q = "main"
      BY <2>1, <2>2, <2>4, <3>1 DEF CanLogToQueue
    <3>2. CASE q = c
      BY <1>1, <2>1, <3>2, LoggerBounds DEF CanLogToQueue, NothingYet
    <3>3. CASE q # "main" /\ q # c
      BY <2>3, <2>4, <3>3, LoggerBounds DEF CanLogToQueue
    <3> QED
      BY <3>1, <3>2, <3>3
  <2> QED
    BY <1>3, <2>1, <2>4
<1>6. ASSUME NEW c \in LogChildren, child_ends(c) PROVE RecordsReachTheQueue'
  <2>1. /\ (feeder' = feeder \/ feeder' = [feeder EXCEPT ![c] = <<>>])
        /\ log_child' = [log_child EXCEPT ![c] = "ended"]
        /\ UNCHANGED <<queue_handlers, log_count, log_fed, cleaned_up_log>>
    BY <1>6 DEF child_ends
  <2> SUFFICES ASSUME NEW q \in LogProcs
               PROVE  \E m \in Nat : HasUpTo(q, m, log_fed)' /\ FeederAfter(q, m)'
    BY DEF RecordsReachTheQueue
  <2>2. PICK m \in Nat : HasUpTo(q, m, log_fed) /\ FeederAfter(q, m)
    BY <1>1 DEF RecordsReachTheQueue
  <2>3. HasUpTo(q, m, log_fed)'
    BY <2>1, <2>2
  <2>4. log_child'[c] = "ended" /\ \A d \in LogChildren : d # c => log_child'[d] = log_child[d]
    BY <1>2, <2>1
  <2>5. CanLogToQueue(q)' => CanLogToQueue(q) /\ q # c
    BY <2>1, <2>4, LoggerBounds DEF CanLogToQueue
  <2>6. CASE feeder'[q] = feeder[q]
    BY <2>1, <2>2, <2>3, <2>5, <2>6, FeederKept
  <2>7. CASE feeder'[q] # feeder[q]
    <3>1. q = c /\ feeder'[q] = <<>>
      BY <1>2, <2>1, <2>7
    <3>2. FeederAfter(q, m)'
      BY <2>1, <2>2, <2>5, <3>1 DEF FeederAfter
    <3> QED
      BY <2>3, <3>2
  <2> QED
    BY <2>6, <2>7
<1>7. CASE listener_interrupted
  <2>1. log_fed' = Append(log_fed, Sentinel)
        /\ UNCHANGED <<feeder, log_count, cleaned_up_log, log_child, queue_handlers>>
    BY <1>7 DEF listener_interrupted
  <2> SUFFICES ASSUME NEW q \in LogProcs
               PROVE  \E m \in Nat : HasUpTo(q, m, log_fed)' /\ FeederAfter(q, m)'
    BY DEF RecordsReachTheQueue
  <2>2. PICK m \in Nat : HasUpTo(q, m, log_fed) /\ FeederAfter(q, m)
    BY <1>1 DEF RecordsReachTheQueue
  <2>3. HasUpTo(q, m, log_fed)'
    BY <1>2, <2>1, <2>2, HasNoMore, LoggerBounds
  <2>4. CanLogToQueue(q)' => CanLogToQueue(q)
    BY <2>1 DEF CanLogToQueue
  <2>5. FeederAfter(q, m)'
    BY <2>1, <2>2, <2>4, FeederKept
  <2> QED
    BY <2>3, <2>5
<1>8. CASE log_cleanup
  <2>1. feeder' = [feeder EXCEPT !["main"] = Append(@, Sentinel)] /\ cleaned_up_log' /\ ~cleaned_up_log
        /\ UNCHANGED <<log_fed, log_count, log_child, queue_handlers>>
    BY <1>8 DEF log_cleanup, lgr_listener
  <2> SUFFICES ASSUME NEW q \in LogProcs
               PROVE  \E m \in Nat : HasUpTo(q, m, log_fed)' /\ FeederAfter(q, m)'
    BY DEF RecordsReachTheQueue
  <2>2. PICK m \in Nat : HasUpTo(q, m, log_fed) /\ FeederAfter(q, m)
    BY <1>1 DEF RecordsReachTheQueue
  <2>3. HasUpTo(q, m, log_fed)'
    BY <2>1, <2>2
  <2>4. CASE q # "main"
    <3>1. feeder'[q] = feeder[q]
      BY <1>2, <2>1, <2>4
    <3>2. CanLogToQueue(q)' => CanLogToQueue(q)
      BY <2>1, <2>4 DEF CanLogToQueue
    <3>3. FeederAfter(q, m)'
      BY <2>1, <2>2, <3>1, <3>2, FeederKept
    <3> QED
      BY <2>3, <3>3
  <2>5. CASE q = "main"
    <3> DEFINE f == feeder[q]
               t == Append(f, Sentinel)
    <3>1. feeder'[q] = t
      BY <1>2, <2>1, <2>5
    <3>2. f \in Seq(OnQueue) /\ Len(f) \in Nat /\ DOMAIN f = 1 .. Len(f)
      BY <1>2, LenProperties
    <3>3. Len(t) = Len(f) + 1 /\ DOMAIN t = 1 .. Len(f) + 1 /\ t[Len(f) + 1] = Sentinel
          /\ \A i \in 1 .. Len(f) : t[i] = f[i]
      BY <3>2, AppendProperties, LoggerBounds
    <3>4. \A i \in 1 .. Len(f) : f[i] = <<q, m + i>> /\ m + i <= log_count[q]
      BY <2>1, <2>2, <3>2 DEF FeederAfter
    <3> HIDE DEF t, f
    <3>5. \A i \in DOMAIN t :
            \/ t[i] = <<q, m + i>> /\ m + i <= log_count[q]
            \/ t[i] = Sentinel /\ q = "main" /\ i = Len(t)
      <4>1. \A i \in 1 .. Len(f) + 1 : i \in 1 .. Len(f) \/ i = Len(f) + 1
        BY <3>2
      <4> QED
        BY <2>5, <3>3, <3>4, <4>1
    <3>6. ~CanLogToQueue(q)'
      BY <2>1, <2>5 DEF CanLogToQueue
    <3>7. m <= log_count[q]
      BY <2>2 DEF FeederAfter
    <3>8. FeederAfter(q, m)'
      BY <2>1, <3>1, <3>5, <3>6, <3>7 DEF FeederAfter
    <3> QED
      BY <2>3, <3>8
  <2> QED
    BY <2>4, <2>5
<1>9. ASSUME listener_starts \/ returns_when_ready \/ listener_takes \/ listener_writes
             \/ listener_terminated \/ UNCHANGED lgr_vars
      PROVE  RecordsReachTheQueue'
  <2>1. UNCHANGED <<feeder, log_fed, log_count, cleaned_up_log, log_child, queue_handlers>>
    BY <1>9 DEF listener_starts, returns_when_ready, listener_takes, listener_writes,
                listener_terminated, lgr_vars, lgr_pipe, lgr_listener
  <2>2. \A q \in LogProcs : CanLogToQueue(q)' => CanLogToQueue(q)
    BY <2>1 DEF CanLogToQueue
  <2> QED
    BY <1>3, <2>1, <2>2
<1> QED
  BY <1>4, <1>5, <1>6, <1>7, <1>8, <1>9, RecordsFed, RecordsLogged DEF LoggerNext, LoggerThreads
-----------------------------------------------------------------------------
(* What the listener has written, and what is before it. *)
LEMMA QueueShrinks ==
    ASSUME NEW q \in Seq(OnQueue), q # <<>>
    PROVE  /\ Len(q) \in Nat /\ Len(q) >= 1 /\ Head(q) = q[1] /\ Head(q) \in OnQueue
           /\ Tail(q) \in Seq(OnQueue) /\ Len(Tail(q)) = Len(q) - 1
           /\ \A i \in 1 .. Len(q) - 1 : Tail(q)[i] = q[i + 1]
<1>1. Len(q) \in Nat /\ Len(q) # 0
  BY EmptySeq, LenProperties
<1> QED
  BY <1>1, HeadTailProperties

LEMMA SentinelTaken ==
    ASSUME NEW f \in Seq(OnQueue), NEW w \in Seq(OnQueue), NEW q \in Seq(OnQueue), q # <<>>,
           Continues(f, w, q, 0, 0), Head(q) = Sentinel
    PROVE  Continues(f, w, Tail(q), 1, 0)
<1> DEFINE W == Len(w)
           Q == Len(q)
           t == Tail(q)
<1>1. Q \in Nat /\ Q >= 1 /\ W \in Nat /\ q[1] = Sentinel /\ Len(t) = Q - 1
      /\ \A i \in 1 .. Q - 1 : t[i] = q[i + 1]
  BY QueueShrinks, LenProperties
<1>2. Len(f) = W + 0 + Q - 0 /\ \A i \in 1 .. Q : i > 0 => f[W + 0 + i - 0] = q[i]
  BY DEF Continues
<1> HIDE DEF W, Q, t
<1>3. Len(f) = W + 1 + (Q - 1) - 0
  BY <1>1, <1>2
<1>4. f[W + 1] = Sentinel
  <2>1. 1 \in 1 .. Q /\ W + 0 + 1 - 0 = W + 1
    BY <1>1
  <2> QED
    BY <1>1, <1>2, <2>1
<1>5. \A i \in 1 .. Q - 1 : f[W + 1 + i - 0] = t[i]
  <2> SUFFICES ASSUME NEW i \in 1 .. Q - 1 PROVE f[W + 1 + i - 0] = t[i]
    OBVIOUS
  <2>1. i + 1 \in 1 .. Q /\ i + 1 > 0 /\ W + 0 + (i + 1) - 0 = W + 1 + i - 0
    BY <1>1
  <2> QED
    BY <1>1, <1>2, <2>1
<1>6. Len(w) = W /\ Tail(q) = t
  BY DEF W, t
<1> QED
  BY <1>1, <1>3, <1>4, <1>5, <1>6 DEF Continues

LEMMA HeadWritten ==
    ASSUME NEW f \in Seq(OnQueue), NEW w \in Seq(OnQueue), NEW q \in Seq(OnQueue), q # <<>>,
           Continues(f, w, q, 0, 0), Begins(w, f)
    PROVE  /\ Begins(Append(w, Head(q)), f)
           /\ Continues(f, Append(w, Head(q)), q, 0, 1)
           /\ Continues(f, Append(w, Head(q)), Tail(q), 0, 0)
<1> DEFINE W == Len(w)
           Q == Len(q)
           t == Tail(q)
           v == Append(w, Head(q))
<1>1. Q \in Nat /\ Q >= 1 /\ Len(t) = Q - 1 /\ \A i \in 1 .. Q - 1 : t[i] = q[i + 1]
  BY QueueShrinks
<1>2. Len(f) = W + 0 + Q - 0 /\ \A i \in 1 .. Q : i > 0 => f[W + 0 + i - 0] = q[i]
  BY DEF Continues
<1>3. W \in Nat /\ Len(v) = W + 1 /\ v[W + 1] = q[1] /\ \A i \in 1 .. W : v[i] = w[i]
  <2>1. Head(q) \in OnQueue /\ Head(q) = q[1]
    BY QueueShrinks
  <2> QED
    BY <2>1, LenProperties, AppendProperties
<1>4. \A i \in 1 .. W : w[i] = f[i]
  BY DEF Begins
<1>5. Tail(q) = t /\ Append(w, Head(q)) = v /\ Len(q) = Q
  OBVIOUS
<1> HIDE DEF W, Q, t, v
<1>6. f[W + 1] = q[1]
  <2>1. 1 \in 1 .. Q /\ W + 0 + 1 - 0 = W + 1
    BY <1>1, <1>3
  <2> QED
    BY <1>2, <2>1
<1>7. Begins(v, f)
  <2>1. W + 1 <= Len(f) /\ \A i \in 1 .. W + 1 : i \in 1 .. W \/ i = W + 1
    BY <1>1, <1>2, <1>3
  <2> QED
    BY <1>3, <1>4, <1>6, <2>1 DEF Begins
<1>8. Continues(f, v, q, 0, 1)
  <2>1. Len(f) = (W + 1) + 0 + Q - 1
    BY <1>1, <1>2, <1>3
  <2>2. \A i \in 1 .. Q : i > 1 => f[(W + 1) + 0 + i - 1] = q[i]
    <3> SUFFICES ASSUME NEW i \in 1 .. Q, i > 1 PROVE f[(W + 1) + 0 + i - 1] = q[i]
      OBVIOUS
    <3>1. i > 0 /\ (W + 1) + 0 + i - 1 = W + 0 + i - 0
      BY <1>1, <1>3
    <3> QED
      BY <1>2, <3>1
  <2> QED
    BY <1>3, <1>5, <2>1, <2>2 DEF Continues
<1>9. Continues(f, v, t, 0, 0)
  <2>1. Len(f) = (W + 1) + 0 + (Q - 1) - 0
    BY <1>1, <1>2, <1>3
  <2>2. \A i \in 1 .. Q - 1 : i > 0 => f[(W + 1) + 0 + i - 0] = t[i]
    <3> SUFFICES ASSUME NEW i \in 1 .. Q - 1 PROVE f[(W + 1) + 0 + i - 0] = t[i]
      OBVIOUS
    <3>1. i + 1 > 0 /\ i + 1 \in 1 .. Q /\ (W + 1) + 0 + i - 0 = W + 0 + (i + 1) - 0
      BY <1>1, <1>3
    <3> QED
      BY <1>1, <1>2, <3>1
  <2>3. Len(t) = Q - 1 /\ Len(v) = W + 1 /\ ~(0 = 1)
    BY <1>1, <1>3
  <2> QED
    BY <2>1, <2>2, <2>3 DEF Continues
<1> QED
  BY <1>5, <1>7, <1>8, <1>9

LEMMA HeadDropped ==
    ASSUME NEW f \in Seq(OnQueue), NEW w \in Seq(OnQueue), NEW q \in Seq(OnQueue), q # <<>>,
           Continues(f, w, q, 0, 1)
    PROVE  Continues(f, w, Tail(q), 0, 0)
<1> DEFINE W == Len(w)
           Q == Len(q)
           t == Tail(q)
<1>1. Q \in Nat /\ Q >= 1 /\ W \in Nat /\ Len(t) = Q - 1 /\ \A i \in 1 .. Q - 1 : t[i] = q[i + 1]
  BY QueueShrinks, LenProperties
<1>2. Len(f) = W + 0 + Q - 1 /\ \A i \in 1 .. Q : i > 1 => f[W + 0 + i - 1] = q[i]
  BY DEF Continues
<1>3. Len(w) = W /\ Tail(q) = t
  OBVIOUS
<1> HIDE DEF W, Q, t
<1>4. Len(f) = W + 0 + (Q - 1) - 0
  BY <1>1, <1>2
<1>5. \A i \in 1 .. Q - 1 : i > 0 => f[W + 0 + i - 0] = t[i]
  <2> SUFFICES ASSUME NEW i \in 1 .. Q - 1 PROVE f[W + 0 + i - 0] = t[i]
    OBVIOUS
  <2>1. i + 1 \in 1 .. Q /\ i + 1 > 1 /\ W + 0 + i - 0 = W + 0 + (i + 1) - 1
    BY <1>1
  <2> QED
    BY <1>1, <1>2, <2>1
<1> QED
  BY <1>1, <1>3, <1>4, <1>5 DEF Continues

LEMMA QueueFed ==
    ASSUME NEW f \in Seq(OnQueue), NEW w \in Seq(OnQueue), NEW q \in Seq(OnQueue),
           NEW x \in OnQueue, NEW n \in 0 .. 1, NEW d \in 0 .. 1, Begins(w, f)
    PROVE  /\ Begins(w, Append(f, x))
           /\ (d = 1 => n = 0 /\ q # <<>>) /\ Continues(f, w, q, n, d) =>
                 Continues(Append(f, x), w, Append(q, x), n, d)
<1> DEFINE W == Len(w)
           Q == Len(q)
           F == Len(f)
           g == Append(f, x)
           t == Append(q, x)
<1>1. W \in Nat /\ Q \in Nat /\ F \in Nat
  BY LenProperties
<1>2. Len(g) = F + 1 /\ g[F + 1] = x /\ \A i \in 1 .. F : g[i] = f[i]
  BY AppendProperties
<1>3. Len(t) = Q + 1 /\ t[Q + 1] = x /\ \A i \in 1 .. Q : t[i] = q[i]
  BY AppendProperties
<1>4. W <= F /\ \A i \in 1 .. W : w[i] = f[i]
  BY DEF Begins
<1>5. Len(w) = W /\ Append(q, x) = t /\ Append(f, x) = g
  OBVIOUS
<1>6. Q = 0 => q = <<>>
  BY EmptySeq
<1>7. Continues(f, w, q, n, d) =>
        /\ F = W + n + Q - d /\ (n = 1 => f[W + 1] = Sentinel)
        /\ \A i \in 1 .. Q : i > d => f[W + n + i - d] = q[i]
  BY DEF Continues
<1> HIDE DEF W, Q, F, g, t
<1>8. Begins(w, g)
  <2>1. W <= F + 1 /\ \A i \in 1 .. W : i \in 1 .. F
    BY <1>1, <1>4
  <2> QED
    BY <1>2, <1>4, <1>5, <2>1 DEF Begins
<1>9. ASSUME d = 1 => n = 0 /\ q # <<>>, Continues(f, w, q, n, d)
      PROVE  Continues(g, w, t, n, d)
  <2>1. n \in Nat /\ d \in Nat /\ d <= Q /\ (n = 1 => d = 0)
    BY <1>1, <1>6, <1>9
  <2>2. F = W + n + Q - d
    BY <1>7, <1>9
  <2>3. F + 1 = W + n + (Q + 1) - d
    BY <1>1, <2>1, <2>2
  <2>4. n = 1 => g[W + 1] = Sentinel
    <3>1. n = 1 => W + 1 \in 1 .. F
      BY <1>1, <2>1, <2>2
    <3> QED
      BY <1>2, <1>7, <1>9, <3>1
  <2>5. \A i \in 1 .. Q + 1 : i > d => g[W + n + i - d] = t[i]
    <3> SUFFICES ASSUME NEW i \in 1 .. Q + 1, i > d PROVE g[W + n + i - d] = t[i]
      OBVIOUS
    <3>1. CASE i \in 1 .. Q
      <4>1. W + n + i - d \in 1 .. F
        BY <1>1, <2>1, <2>2, <3>1
      <4> QED
        BY <1>2, <1>3, <1>7, <1>9, <3>1, <4>1
    <3>2. CASE i = Q + 1
      <4>1. W + n + i - d = F + 1
        BY <1>1, <2>1, <2>2, <3>2
      <4> QED
        BY <1>2, <1>3, <3>2, <4>1
    <3> QED
      BY <1>1, <3>1, <3>2
  <2> QED
    BY <1>2, <1>3, <1>5, <2>3, <2>4, <2>5 DEF Continues
<1> QED
  BY <1>5, <1>8, <1>9

LEMMA ContinuesIs ==
    ASSUME NEW f \in Seq(OnQueue), NEW w \in Seq(OnQueue), NEW q \in Seq(OnQueue),
           NEW n \in 0 .. 1, NEW d \in 0 .. 1, d = 1 => q # <<>>,
           Continues(f, w, q, n, d), Begins(w, f)
    PROVE  f = w \o (IF n = 1 THEN <<Sentinel>> ELSE <<>>) \o (IF d = 1 THEN Tail(q) ELSE q)
<1> DEFINE W == Len(w)
           Q == Len(q)
           m == IF n = 1 THEN <<Sentinel>> ELSE <<>>
           t == IF d = 1 THEN Tail(q) ELSE q
<1>1. W \in Nat /\ Q \in Nat /\ n \in Nat /\ d \in Nat /\ (n = 0 \/ n = 1) /\ (d = 0 \/ d = 1)
      /\ (\A i \in 1 .. n : n = 1 /\ i = 1) /\ d <= Q
  <2>1. d = 1 => Q # 0
    BY EmptySeq
  <2> QED
    BY <2>1, LenProperties
<1>2. m \in Seq(OnQueue) /\ Len(m) = n /\ (n = 1 => m[1] = Sentinel)
  <2>1. <<Sentinel>> \in Seq(OnQueue) /\ Len(<<Sentinel>>) = 1 /\ <<Sentinel>>[1] = Sentinel
    BY LoggerBounds
  <2>2. <<>> \in Seq(OnQueue) /\ Len(<<>>) = 0
    OBVIOUS
  <2> QED
    BY <1>1, <2>1, <2>2
<1>3. t \in Seq(OnQueue) /\ Len(t) = Q - d /\ \A i \in 1 .. Q - d : t[i] = q[i + d]
  <2>1. CASE d = 1
    <3>1. t = Tail(q) /\ q # <<>>
      BY <2>1
    <3> QED
      BY <2>1, <3>1, QueueShrinks
  <2>2. CASE d = 0
    <3>1. t = q /\ Q - d = Q /\ \A i \in 1 .. Q : i + d = i
      BY <1>1, <2>2
    <3> QED
      BY <3>1
  <2> QED
    BY <1>1, <2>1, <2>2
<1> HIDE DEF m, t
<1> DEFINE u == w \o m
<1>4. u \in Seq(OnQueue) /\ Len(u) = W + n
      /\ \A i \in 1 .. W + n : u[i] = IF i <= W THEN w[i] ELSE m[i - W]
  BY <1>2, ConcatProperties
<1> HIDE DEF u
<1> DEFINE v == u \o t
<1>5. v \in Seq(OnQueue) /\ Len(v) = (W + n) + (Q - d)
      /\ \A i \in 1 .. (W + n) + (Q - d) : v[i] = IF i <= W + n THEN u[i] ELSE t[i - (W + n)]
  <2>1. /\ u \o t \in Seq(OnQueue) /\ Len(u \o t) = Len(u) + Len(t)
        /\ \A i \in 1 .. Len(u) + Len(t) : (u \o t)[i] = IF i <= Len(u) THEN u[i] ELSE t[i - Len(u)]
    BY <1>3, <1>4, ConcatProperties
  <2> QED
    BY <1>3, <1>4, <2>1
<1>6. /\ Len(f) = W + n + Q - d /\ (n = 1 => f[W + 1] = Sentinel)
      /\ \A i \in 1 .. Q : i > d => f[W + n + i - d] = q[i]
  BY DEF Continues
<1>7. \A i \in 1 .. W : w[i] = f[i]
  BY DEF Begins
<1>8. v = w \o (IF n = 1 THEN <<Sentinel>> ELSE <<>>) \o (IF d = 1 THEN Tail(q) ELSE q)
  BY DEF u, m, t
<1> HIDE DEF W, Q, v
<1>9. Len(f) = (W + n) + (Q - d)
  BY <1>1, <1>6
<1>10. \A i \in 1 .. (W + n) + (Q - d) : f[i] = v[i]
  <2> SUFFICES ASSUME NEW i \in 1 .. (W + n) + (Q - d) PROVE f[i] = v[i]
    OBVIOUS
  <2>1. CASE i <= W
    <3>1. i <= W + n /\ i \in 1 .. W /\ i \in 1 .. W + n
      BY <1>1, <2>1
    <3> QED
      BY <1>4, <1>5, <1>7, <2>1, <3>1
  <2>2. CASE ~(i <= W) /\ i <= W + n
    <3>1. n = 1 /\ i = W + 1 /\ i - W = 1 /\ i \in 1 .. W + n
      BY <1>1, <2>2
    <3> QED
      BY <1>2, <1>4, <1>5, <1>6, <2>2, <3>1
  <2>3. CASE ~(i <= W + n)
    <3>1. PICK j \in Nat : j = i - (W + n)
      BY <1>1, <2>3
    <3>2. j \in 1 .. Q - d /\ j + d \in 1 .. Q /\ j + d > d /\ W + n + (j + d) - d = i
      BY <1>1, <2>3, <3>1
    <3> QED
      BY <1>3, <1>5, <1>6, <2>3, <3>1, <3>2
  <2> QED
    BY <2>1, <2>2, <2>3
<1>11. f = v
  BY <1>5, <1>9, <1>10, SeqEqual
<1> QED
  BY <1>8, <1>11

LEMMA LogTypesOf ==
    ASSUME LoggerTypes
    PROVE  /\ lgr_call \in LoggerCalls /\ log_fed \in Seq(OnQueue) /\ log_queue \in Seq(OnQueue)
           /\ HandlersOf(lgr_call) \subseteq {"stream", "file"}
           /\ log_written \in [{"stream", "file"} -> Seq(OnQueue)]
           /\ log_count \in [LogProcs -> Nat]
<1>1. lgr_call \in LoggerCalls /\ log_fed \in Seq(OnQueue) /\ log_queue \in Seq(OnQueue)
      /\ log_written \in [{"stream", "file"} -> Seq(LogRecord)]
      /\ log_count \in [LogProcs -> 0 .. MaxLogged]
  BY DEF LoggerTypes, LoggerTypeOK, LogRecord
<1>2. \A w \in Seq(LogRecord) : w \in Seq(OnQueue)
  <2> SUFFICES ASSUME NEW w \in Seq(LogRecord) PROVE w \in Seq(OnQueue)
    OBVIOUS
  <2>1. Len(w) \in Nat /\ w \in [1 .. Len(w) -> LogRecord] /\ LogRecord \subseteq OnQueue
    BY LenProperties, LoggerBounds
  <2>2. w \in [1 .. Len(w) -> OnQueue]
    BY <2>1
  <2> QED
    BY <2>1, <2>2, SeqDef
<1>3. log_written \in [{"stream", "file"} -> Seq(OnQueue)]
  BY <1>1, <1>2
<1>4. log_count \in [LogProcs -> Nat]
  BY <1>1, LoggerBounds
<1> QED
  BY <1>1, <1>3, <1>4, HandlersAre

Follows(h) ==
    /\ log_listener = "none" =>
          \A p \in LogProcs :
             HasUpTo(p, IF p = "main" THEN log_count[p] ELSE 0, log_written[h])
    /\ log_listener # "none" => Written(h)
    /\ log_listener \notin {"none", "killed"} => Pipeline(h)

LEMMA SameCall ==
    ASSUME [LoggerNext]_lgr_vars
    PROVE  UNCHANGED lgr_call
  BY DEF LoggerNext, LoggerThreads, lgr_vars, create_logger, listener_starts, returns_when_ready,
         listener_takes, listener_writes, feed, log_record, child_creates_logger, child_ends,
         listener_interrupted, log_cleanup, listener_terminated, lgr_const

LEMMA FollowsTaken ==
    ASSUME LoggerIInv, listener_takes, NEW h \in HandlersOf(lgr_call)
    PROVE  Follows(h)'
<1>1. LoggerTypes /\ Follows(h)
  BY DEF LoggerIInv, HandlersFollow, Follows
<1>2. listening /\ log_todo = <<>> /\ log_queue # <<>>
      /\ UNCHANGED <<log_fed, log_written, log_count>>
  BY DEF listener_takes
<1>3. Written(h) /\ Pipeline(h)
  BY <1>1, <1>2 DEF listening, Follows
<1>4. Done(h) = 0 /\ Sentinels = 0
  BY <1>2 DEF Done, has_written, Sentinels, listening
<1>5. Written(h)'
  BY <1>2, <1>3 DEF Written
<1> DEFINE w == log_written[h]
<1>6. Continues(log_fed, w, log_queue, 0, 0)
  BY <1>3, <1>4 DEF Pipeline
<1>7. w \in Seq(OnQueue) /\ log_fed \in Seq(OnQueue) /\ log_queue \in Seq(OnQueue)
  BY <1>1, LogTypesOf
<1>8. LogHandlers(lgr_call) # <<>> /\ \E i \in DOMAIN LogHandlers(lgr_call) : LogHandlers(lgr_call)[i] = h
  BY DEF HandlersOf
<1>9. CASE Head(log_queue) = Sentinel
  <2>1. log_queue' = Tail(log_queue) /\ log_listener' = "stopped" /\ log_todo' = <<>>
    BY <1>2, <1>9 DEF listener_takes
  <2>2. Continues(log_fed, w, Tail(log_queue), 1, 0)
    BY <1>2, <1>6, <1>7, <1>9, SentinelTaken
  <2>3. Done(h)' = 0 /\ Sentinels' = 1
    BY <2>1 DEF Done, has_written, Sentinels
  <2>4. Pipeline(h)'
    BY <1>2, <2>1, <2>2, <2>3 DEF Pipeline
  <2> QED
    BY <1>5, <2>1, <2>4 DEF Follows
<1>10. CASE Head(log_queue) # Sentinel
  <2>1. log_queue' = log_queue /\ log_listener' = log_listener /\ log_todo' = LogHandlers(lgr_call)
    BY <1>2, <1>8, <1>10 DEF listener_takes
  <2>2. Done(h)' = 0 /\ Sentinels' = 0
    <3>1. ~has_written(h)'
      BY <1>8, <2>1 DEF has_written
    <3> QED
      BY <1>4, <2>1, <3>1 DEF Done, Sentinels
  <2>3. Pipeline(h)'
    BY <1>2, <1>6, <2>1, <2>2 DEF Pipeline
  <2> QED
    BY <1>2, <1>5, <2>1, <2>3 DEF Follows, listening
<1> QED
  BY <1>9, <1>10

LEMMA FollowsWritten ==
    ASSUME LoggerIInv, listener_writes, NEW h \in HandlersOf(lgr_call)
    PROVE  Follows(h)'
<1>1. LoggerTypes /\ Follows(h) /\ HeadIsWritten
  BY DEF LoggerIInv, HandlersFollow, Follows
<1>2. listening /\ log_todo # <<>> /\ log_todo' = Tail(log_todo)
      /\ log_queue' = (IF Len(log_todo) = 1 THEN Tail(log_queue) ELSE log_queue)
      /\ log_written' = [log_written EXCEPT ![Head(log_todo)] = Append(@, Head(log_queue))]
      /\ UNCHANGED <<log_fed, log_listener, log_count>>
  BY DEF listener_writes
<1>3. log_queue # <<>> /\ log_listener \notin {"none", "killed", "stopped"}
  BY <1>1, <1>2 DEF HeadIsWritten, listening
<1>4. Written(h) /\ Pipeline(h) /\ Sentinels = 0 /\ Sentinels' = 0
  BY <1>1, <1>2, <1>3 DEF Follows, Sentinels
<1> DEFINE w == log_written[h]
<1>5. w \in Seq(OnQueue) /\ log_fed \in Seq(OnQueue) /\ log_queue \in Seq(OnQueue)
      /\ h \in {"stream", "file"} /\ log_written \in [{"stream", "file"} -> Seq(OnQueue)]
  BY <1>1, LogTypesOf
<1>6. log_todo \in {<<"stream">>, <<"file">>, <<"stream", "file">>}
  <2>1. LogHandlers(lgr_call) \in {<<>>, <<"stream">>, <<"file">>, <<"stream", "file">>}
    BY <1>1, LogTypesOf, HandlersAre
  <2> QED
    BY <1>1, <1>2, <2>1 DEF HeadIsWritten
<1>7. SUFFICES Written(h)' /\ Pipeline(h)'
  BY <1>2, <1>3 DEF Follows
<1>8. Continues(log_fed, w, log_queue, 0, Done(h)) /\ Begins(w, log_fed)
  BY <1>4 DEF Pipeline, Written
<1>9. /\ \A i \in 1 .. 1 : i = 1
      /\ DOMAIN <<"stream">> = 1 .. 1 /\ <<"stream">>[1] = "stream"
      /\ DOMAIN <<"file">> = 1 .. 1 /\ <<"file">>[1] = "file"
      /\ DOMAIN <<"stream", "file">> = 1 .. 2 /\ <<"stream", "file">>[1] = "stream" /\ <<"stream", "file">>[2] = "file"
      /\ Head(<<"stream">>) = "stream" /\ Head(<<"file">>) = "file" /\ Head(<<"stream", "file">>) = "stream"
      /\ Tail(<<"stream">>) = <<>> /\ Tail(<<"file">>) = <<>> /\ Tail(<<"stream", "file">>) = <<"file">>
      /\ Len(<<"stream">>) = 1 /\ Len(<<"file">>) = 1 /\ Len(<<"stream", "file">>) = 2
      /\ "stream" # "file" /\ <<"file">> # <<>> /\ <<"stream">> # <<>>
  OBVIOUS
<1>10. CASE Head(log_todo) = h
  <2>1. log_written'[h] = Append(w, Head(log_queue))
    BY <1>2, <1>5, <1>10
  <2>2. Done(h) = 0
    <3>1. \E i \in DOMAIN log_todo : log_todo[i] = h
      BY <1>6, <1>9, <1>10
    <3> QED
      BY <3>1 DEF Done, has_written
  <2>3. Continues(log_fed, w, log_queue, 0, 0)
    BY <1>8, <2>2
  <2>4. /\ Begins(Append(w, Head(log_queue)), log_fed)
        /\ Continues(log_fed, Append(w, Head(log_queue)), log_queue, 0, 1)
        /\ Continues(log_fed, Append(w, Head(log_queue)), Tail(log_queue), 0, 0)
    BY <1>3, <1>5, <1>8, <2>3, HeadWritten
  <2>5. Written(h)'
    BY <1>2, <2>1, <2>4 DEF Written
  <2>6. CASE Len(log_todo) = 1
    <3>1. log_todo' = <<>>
      BY <1>2, <1>6, <1>9, <2>6
    <3>2. Done(h)' = 0
      BY <3>1 DEF Done, has_written
    <3>3. Pipeline(h)'
      BY <1>2, <1>4, <2>1, <2>4, <2>6, <3>2 DEF Pipeline
    <3> QED
      BY <2>5, <3>3
  <2>7. CASE Len(log_todo) # 1
    <3>1. log_todo = <<"stream", "file">>
      BY <1>6, <1>9, <2>7
    <3>2. log_todo' = <<"file">> /\ h = "stream"
      BY <1>2, <1>9, <1>10, <3>1
    <3>3. Done(h)' = 1
      BY <1>9, <3>2 DEF Done, has_written
    <3>4. Pipeline(h)'
      BY <1>2, <1>4, <2>1, <2>4, <2>7, <3>3 DEF Pipeline
    <3> QED
      BY <2>5, <3>4
  <2> QED
    BY <2>6, <2>7
<1>11. CASE Head(log_todo) # h
  <2>1. log_written'[h] = w
    BY <1>2, <1>5, <1>11
  <2>2. Written(h)'
    BY <1>2, <1>8, <2>1 DEF Written
  <2>3. CASE Len(log_todo) = 1
    <3>1. log_todo \in {<<"stream">>, <<"file">>}
      BY <1>6, <1>9, <2>3
    <3>2. \A i \in DOMAIN log_todo : log_todo[i] # h
      BY <1>9, <1>11, <3>1
    <3>3. Done(h) = 1
      BY <1>2, <3>2 DEF Done, has_written
    <3>4. log_todo' = <<>>
      BY <1>2, <1>9, <3>1
    <3>5. Done(h)' = 0
      BY <3>4 DEF Done, has_written
    <3>6. Continues(log_fed, w, log_queue, 0, 1)
      BY <1>8, <3>3
    <3>7. Continues(log_fed, w, Tail(log_queue), 0, 0)
      BY <1>3, <1>5, <3>6, HeadDropped
    <3>8. Pipeline(h)'
      BY <1>2, <1>4, <2>1, <2>3, <3>5, <3>7 DEF Pipeline
    <3> QED
      BY <2>2, <3>8
  <2>4. CASE Len(log_todo) # 1
    <3>1. log_todo = <<"stream", "file">>
      BY <1>6, <1>9, <2>4
    <3>2. h = "file" /\ log_todo' = <<"file">>
      BY <1>2, <1>5, <1>9, <1>11, <3>1
    <3>3. ~has_written(h) /\ ~has_written(h)'
      <4>1. log_todo[2] = h /\ 2 \in DOMAIN log_todo
        BY <1>9, <3>1, <3>2
      <4>2. log_todo'[1] = h /\ 1 \in DOMAIN log_todo'
        BY <1>9, <3>2
      <4> QED
        BY <4>1, <4>2 DEF has_written
    <3>4. Pipeline(h)'
      BY <1>2, <1>4, <1>8, <2>1, <2>4, <3>3 DEF Pipeline, Done
    <3> QED
      BY <2>2, <3>4
  <2> QED
    BY <2>3, <2>4
<1> QED
  BY <1>10, <1>11

LEMMA FollowsFed ==
    ASSUME LoggerIInv, NEW h \in HandlersOf(lgr_call), NEW x \in OnQueue,
           log_fed' = Append(log_fed, x), log_queue' = Append(log_queue, x),
           log_listener' = log_listener \/ (log_listener = "listening" /\ log_listener' = "stopping"),
           UNCHANGED <<log_written, log_todo, log_count>>
    PROVE  Follows(h)'
<1>1. LoggerTypes /\ Follows(h) /\ HeadIsWritten
  BY DEF LoggerIInv, HandlersFollow, Follows
<1> DEFINE w == log_written[h]
<1>2. w \in Seq(OnQueue) /\ log_fed \in Seq(OnQueue) /\ log_queue \in Seq(OnQueue)
  BY <1>1, LogTypesOf
<1>3. CASE log_listener = "none"
  BY <1>1, <1>3 DEF Follows
<1>4. CASE log_listener # "none"
  <2>1. Begins(w, log_fed)
    BY <1>1, <1>4 DEF Follows, Written
  <2>2. Sentinels \in 0 .. 1 /\ Done(h) \in 0 .. 1 /\ Sentinels' = Sentinels /\ Done(h)' = Done(h)
    BY DEF Sentinels, Done, has_written
  <2>3. Done(h) = 1 => Sentinels = 0 /\ log_queue # <<>>
    BY <1>1 DEF Done, has_written, Sentinels, HeadIsWritten, listening
  <2>4. /\ Begins(w, Append(log_fed, x))
        /\ Continues(log_fed, w, log_queue, Sentinels, Done(h)) =>
              Continues(Append(log_fed, x), w, Append(log_queue, x), Sentinels, Done(h))
    <3>1. PICK n \in 0 .. 1, d \in 0 .. 1 : n = Sentinels /\ d = Done(h)
      BY <2>2
    <3>2. d = 1 => n = 0 /\ log_queue # <<>>
      BY <2>3, <3>1
    <3>3. /\ Begins(w, Append(log_fed, x))
          /\ Continues(log_fed, w, log_queue, n, d) =>
                Continues(Append(log_fed, x), w, Append(log_queue, x), n, d)
      BY <1>2, <2>1, <3>2, QueueFed
    <3> QED
      BY <3>1, <3>3
  <2>5. Written(h)'
    BY <2>4 DEF Written
  <2>6. Pipeline(h) => Pipeline(h)'
    BY <2>2, <2>4 DEF Pipeline
  <2> QED
    BY <1>1, <1>4, <2>5, <2>6 DEF Follows
<1> QED
  BY <1>3, <1>4

LEMMA FollowsLogged ==
    ASSUME LoggerIInv, NEW p \in LogProcs, log_record(p), NEW h \in HandlersOf(lgr_call)
    PROVE  Follows(h)'
<1>1. LoggerTypes /\ Follows(h)
  BY DEF LoggerIInv, HandlersFollow, Follows
<1>2. h \in {"stream", "file"} /\ log_written \in [{"stream", "file"} -> Seq(OnQueue)]
      /\ log_count \in [LogProcs -> Nat]
  BY <1>1, LogTypesOf
<1>3. /\ log_count' = [log_count EXCEPT ![p] = @ + 1] /\ log_count[p] < MaxLogged
      /\ UNCHANGED <<log_fed, log_listener, log_todo, log_queue>>
  BY DEF log_record
<1>4. CASE p = "main" /\ log_listener = "none"
  <2> DEFINE w == log_written[h]
             c == log_count[p]
             x == <<p, c + 1>>
  <2>1. log_count'[p] = c + 1 /\ \A q \in LogProcs : q # p => log_count'[q] = log_count[q]
    BY <1>2, <1>3
  <2>2. log_written'[h] = Append(w, <<p, log_count'[p]>>)
    BY <1>2, <1>4 DEF log_record
  <2>3. log_written'[h] = Append(w, x)
    BY <2>1, <2>2
  <2>4. x \in OnQueue /\ w \in Seq(OnQueue) /\ c \in Nat
    <3>1. c \in Nat /\ c + 1 \in 1 .. MaxLogged
      BY <1>2, <1>3, LoggerBounds
    <3> QED
      BY <1>2, <3>1 DEF OnQueue, LogRecord
  <2>5. \A q \in LogProcs : HasUpTo(q, IF q = "main" THEN log_count[q] ELSE 0, w)
    BY <1>1, <1>4 DEF Follows
  <2>6. HasUpTo(p, c, w)
    BY <1>4, <2>5
  <2> HIDE DEF x, c, w
  <2>7. HasUpTo(p, c + 1, Append(w, x))
    BY <2>4, <2>6, HasOneMore DEF x
  <2>8. ASSUME NEW q \in LogProcs, q # p PROVE HasUpTo(q, 0, Append(w, x))
    <3>1. x[1] # q
      BY <2>8 DEF x
    <3>2. HasUpTo(q, 0, w)
      BY <1>4, <2>5, <2>8
    <3> QED
      BY <2>4, <3>1, <3>2, HasNoMore
  <2>9. ASSUME NEW q \in LogProcs
        PROVE  HasUpTo(q, IF q = "main" THEN log_count'[q] ELSE 0, log_written'[h])
    BY <1>4, <2>1, <2>3, <2>7, <2>8
  <2>10. log_listener' = "none"
    BY <1>3, <1>4
  <2> QED
    BY <2>9, <2>10 DEF Follows
<1>5. CASE ~(p = "main" /\ log_listener = "none")
  <2>1. log_written' = log_written
    BY <1>5 DEF log_record
  <2>2. CASE log_listener = "none"
    <3>1. log_count'["main"] = log_count["main"]
      BY <1>2, <1>3, <1>5, <2>2, LoggerBounds
    <3> QED
      BY <1>1, <1>3, <2>1, <2>2, <3>1 DEF Follows
  <2>3. CASE log_listener # "none"
    <3>1. (Written(h) => Written(h)') /\ (Pipeline(h) => Pipeline(h)')
      BY <1>3, <2>1 DEF Written, Pipeline, Done, has_written, Sentinels
    <3> QED
      BY <1>1, <1>3, <2>3, <3>1 DEF Follows
  <2> QED
    BY <2>2, <2>3
<1> QED
  BY <1>4, <1>5

LEMMA FollowsStep == ASSUME LoggerIInv, [LoggerNext]_lgr_vars PROVE HandlersFollow'
<1>1. LoggerTypes /\ NothingYet /\ \A h \in HandlersOf(lgr_call) : Follows(h)
  BY DEF LoggerIInv, HandlersFollow, Follows
<1>2. UNCHANGED lgr_call
  BY SameCall
<1>3. SUFFICES ASSUME NEW h \in HandlersOf(lgr_call) PROVE Follows(h)'
  <2>1. HandlersOf(lgr_call)' = HandlersOf(lgr_call)
    BY <1>2 DEF HandlersOf, LogHandlers
  <2> QED
    BY <2>1 DEF HandlersFollow, Follows
<1>4. h \in {"stream", "file"} /\ Follows(h)
  BY <1>1, LogTypesOf
<1>5. CASE create_logger
  <2>1. /\ log_queue' = <<>> /\ log_fed' = <<>> /\ log_todo' = <<>> /\ log_written'[h] = <<>>
        /\ \A p \in LogProcs : log_count'[p] = 0
    BY <1>1, <1>4, <1>5 DEF create_logger, lgr_pipe, NothingYet
  <2>2. log_listener' \in {"none", "starting", "listening"}
    BY <1>1, <1>5 DEF create_logger, NothingYet
  <2>3. \A p \in LogProcs : HasUpTo(p, 0, <<>>)
    BY HasNothing
  <2>4. \A p \in LogProcs : HasUpTo(p, IF p = "main" THEN log_count'[p] ELSE 0, log_written'[h])
    BY <2>1, <2>3
  <2>5. Begins(<<>>, <<>>) /\ Continues(<<>>, <<>>, <<>>, 0, 0)
    BY DEF Begins, Continues
  <2>6. Done(h)' = 0 /\ Sentinels' = 0
    BY <2>1, <2>2 DEF Done, has_written, Sentinels
  <2>7. Written(h)' /\ Pipeline(h)'
    BY <2>1, <2>5, <2>6 DEF Written, Pipeline
  <2> QED
    BY <2>4, <2>7 DEF Follows
<1>6. ASSUME UNCHANGED <<log_fed, log_written, log_queue, log_todo, log_count>>,
             log_listener' = log_listener \/
                (log_listener = "starting" /\ log_listener' \in {"died", "listening"})
      PROVE  Follows(h)'
  <2>1. (Written(h) => Written(h)') /\ (Pipeline(h) => Pipeline(h)')
    BY <1>6 DEF Written, Pipeline, Done, has_written, Sentinels
  <2> QED
    BY <1>4, <1>6, <2>1 DEF Follows
<1>7. CASE listener_starts \/ returns_when_ready \/ log_cleanup \/ UNCHANGED lgr_vars
           \/ (\E c \in LogChildren : child_creates_logger(c) \/ child_ends(c))
  <2>1. UNCHANGED <<log_fed, log_written, log_queue, log_todo, log_count>>
        /\ (log_listener' = log_listener \/
               (log_listener = "starting" /\ log_listener' \in {"died", "listening"}))
    BY <1>7 DEF listener_starts, returns_when_ready, log_cleanup, lgr_vars, child_creates_logger,
                child_ends, lgr_pipe, lgr_listener
  <2> QED
    BY <1>6, <2>1
<1>8. CASE listener_takes
  BY <1>8, FollowsTaken
<1>9. CASE listener_writes
  BY <1>9, FollowsWritten
<1>10. ASSUME NEW p \in LogProcs, feed(p) PROVE Follows(h)'
  <2>1. /\ log_fed' = Append(log_fed, Head(feeder[p])) /\ log_queue' = Append(log_queue, Head(feeder[p]))
        /\ UNCHANGED <<log_written, log_todo, log_count, log_listener>>
    BY <1>10 DEF feed, lgr_listener
  <2>2. Head(feeder[p]) \in OnQueue
    BY <1>1, <1>10, HeadTailProperties DEF feed, LoggerTypes
  <2> QED
    BY <2>1, <2>2, FollowsFed
<1>11. CASE listener_interrupted
  BY <1>11, FollowsFed, LoggerBounds DEF listener_interrupted
<1>12. CASE listener_terminated
  <2>1. log_listener # "none" /\ log_listener' = "killed" /\ UNCHANGED <<log_fed, log_written>>
    BY <1>12 DEF listener_terminated, lgr_pipe
  <2> QED
    BY <1>4, <2>1 DEF Follows, Written
<1> QED
  BY <1>5, <1>7, <1>8, <1>9, <1>10, <1>11, <1>12, FollowsLogged DEF LoggerNext, LoggerThreads

LEMMA LoggerInductive ==
    ASSUME LoggerIInv, [LoggerNext]_lgr_vars
    PROVE  LoggerIInv'
  BY LoggerTypesStep, NothingYetStep, RecordsStep, HeadStep, FollowsStep DEF LoggerIInv

LEMMA LoggerHolds ==
    ASSUME LoggerIInv
    PROVE  LoggerTypeOK /\ LogRecordsOnceInOrder
<1>1. LoggerTypes /\ RecordsReachTheQueue /\ HeadIsWritten /\ HandlersFollow
  BY DEF LoggerIInv
<1>2. log_fed \in Seq(OnQueue) /\ log_queue \in Seq(OnQueue)
      /\ log_written \in [{"stream", "file"} -> Seq(OnQueue)] /\ log_count \in [LogProcs -> Nat]
      /\ HandlersOf(lgr_call) \subseteq {"stream", "file"}
  BY <1>1, LogTypesOf
<1>3. \A p \in LogProcs : \E k \in Nat : k <= log_count[p] /\ OnceInOrder(p, log_fed, k)
  BY <1>1 DEF RecordsReachTheQueue, FeederAfter, HasUpTo
<1>4. \A w \in Seq(OnQueue) : Begins(w, log_fed) =>
         \A p \in LogProcs : OnceInOrder(p, w, log_count[p])
  <2> SUFFICES ASSUME NEW w \in Seq(OnQueue), Begins(w, log_fed), NEW p \in LogProcs
               PROVE  OnceInOrder(p, w, log_count[p])
    OBVIOUS
  <2>1. PICK k \in Nat : k <= log_count[p] /\ OnceInOrder(p, log_fed, k)
    BY <1>3
  <2>2. Len(w) <= Len(log_fed) /\ \A i \in DOMAIN w : w[i] = log_fed[i]
    BY LenProperties DEF Begins
  <2>3. log_count[p] \in Nat
    BY <1>2
  <2> QED
    BY <1>2, <2>1, <2>2, <2>3, OnceInBeginning
<1>5. Begins(log_fed, log_fed)
  <2>1. Len(log_fed) \in Nat
    BY <1>2, LenProperties
  <2> QED
    BY <2>1 DEF Begins
<1>6. \A p \in LogProcs : OnceInOrder(p, log_fed, log_count[p])
  BY <1>2, <1>4, <1>5
<1>7. ASSUME NEW h \in HandlersOf(lgr_call)
      PROVE  /\ \A p \in LogProcs : OnceInOrder(p, log_written[h], log_count[p])
             /\ log_listener \notin {"none", "killed"} =>
                   log_fed = log_written[h] \o taken_sentinel \o at_hand(h)
  <2>1. log_written[h] \in Seq(OnQueue)
    BY <1>2
  <2>2. Follows(h)
    BY <1>1 DEF HandlersFollow, Follows
  <2>3. CASE log_listener = "none"
    <3>1. ASSUME NEW p \in LogProcs PROVE OnceInOrder(p, log_written[h], log_count[p])
      <4>1. OnceInOrder(p, log_written[h], IF p = "main" THEN log_count[p] ELSE 0)
        BY <2>2, <2>3 DEF Follows, HasUpTo
      <4>2. PICK k \in Nat : k = (IF p = "main" THEN log_count[p] ELSE 0) /\ k <= log_count[p]
        <5>1. log_count[p] \in Nat
          BY <1>2
        <5> QED
          BY <5>1
      <4>3. Len(log_written[h]) <= Len(log_written[h]) /\ log_count[p] \in Nat
        BY <1>2, <2>1, LenProperties
      <4> QED
        BY <2>1, <4>1, <4>2, <4>3, OnceInBeginning
    <3> QED
      BY <2>3, <3>1
  <2>4. CASE log_listener # "none"
    <3>1. Begins(log_written[h], log_fed)
      BY <2>2, <2>4 DEF Follows, Written
    <3>2. \A p \in LogProcs : OnceInOrder(p, log_written[h], log_count[p])
      BY <1>4, <2>1, <3>1
    <3>3. ASSUME log_listener # "killed"
          PROVE  log_fed = log_written[h] \o taken_sentinel \o at_hand(h)
      <4>1. Continues(log_fed, log_written[h], log_queue, Sentinels, Done(h))
        BY <2>2, <2>4, <3>3 DEF Follows, Pipeline
      <4>2. PICK n \in 0 .. 1, d \in 0 .. 1 : n = Sentinels /\ d = Done(h)
        BY DEF Sentinels, Done
      <4>3. d = 1 => log_queue # <<>>
        BY <1>1, <4>2 DEF Done, has_written, HeadIsWritten
      <4>4. log_fed = log_written[h] \o (IF n = 1 THEN <<Sentinel>> ELSE <<>>)
                         \o (IF d = 1 THEN Tail(log_queue) ELSE log_queue)
        <5>1. Continues(log_fed, log_written[h], log_queue, n, d)
          BY <4>1, <4>2
        <5>2. PICK w \in Seq(OnQueue) : w = log_written[h]
          BY <2>1
        <5>3. Continues(log_fed, w, log_queue, n, d) /\ Begins(w, log_fed)
          BY <3>1, <5>1, <5>2
        <5>4. log_fed \in Seq(OnQueue) /\ log_queue \in Seq(OnQueue)
          BY <1>2
        <5>5. log_fed = w \o (IF n = 1 THEN <<Sentinel>> ELSE <<>>)
                         \o (IF d = 1 THEN Tail(log_queue) ELSE log_queue)
          BY <4>3, <5>3, <5>4, ContinuesIs
        <5> QED
          BY <5>2, <5>5
      <4>5. taken_sentinel = (IF n = 1 THEN <<Sentinel>> ELSE <<>>)
            /\ at_hand(h) = (IF d = 1 THEN Tail(log_queue) ELSE log_queue)
        BY <4>2 DEF taken_sentinel, at_hand, Sentinels, Done
      <4> QED
        BY <4>4, <4>5
    <3> QED
      BY <3>2, <3>3
  <2> QED
    BY <2>3, <2>4
<1> QED
  BY <1>1, <1>6, <1>7 DEF LogRecordsOnceInOrder, LoggerTypes
-----------------------------------------------------------------------------
(* The paths of files and directories. *)

(* A prefix, place by place. *)
LEMMA PrefixIs ==
    ASSUME NEW S, NEW p \in Seq(S), NEW q \in Seq(S)
    PROVE  IsPrefix(p, q) <=> Len(p) <= Len(q) /\ \A i \in 1 .. Len(p) : q[i] = p[i]
<1>1. Len(p) \in Nat /\ Len(q) \in Nat /\ SubSeq(p, 1, Len(p)) = p
  BY LenProperties, SubSeqFull
<1>2. SUFFICES ASSUME Len(p) <= Len(q)
               PROVE  SubSeq(q, 1, Len(p)) = p <=> \A i \in 1 .. Len(p) : q[i] = p[i]
  BY <1>1 DEF IsPrefix
<1>3. \A i \in 1 .. Len(p) : i \in 1 .. Len(q) /\ q[i] \in S
  <2>1. \A l, n \in Nat : l <= n => \A i \in 1 .. l : i \in 1 .. n
    OBVIOUS
  <2> QED
    BY <1>1, <1>2, <2>1, ElementOfSeq
<1>4. /\ SubSeq(q, 1, Len(p)) \in Seq(S) /\ Len(SubSeq(q, 1, Len(p))) = Len(p)
      /\ \A i \in 1 .. Len(p) : SubSeq(q, 1, Len(p))[i] = q[i]
  <2>1. \A n \in Nat : n - 1 + 1 = n /\ (1 > n => n = 0) /\ n \in Int
    OBVIOUS
  <2>2. \A i \in 1 .. Len(p) : 1 + i - 1 = i
    BY <1>1
  <2>3. /\ SubSeq(q, 1, Len(p)) \in Seq(S)
        /\ Len(SubSeq(q, 1, Len(p))) = IF 1 <= Len(p) THEN Len(p) - 1 + 1 ELSE 0
        /\ \A i \in 1 .. Len(p) - 1 + 1 : SubSeq(q, 1, Len(p))[i] = q[1 + i - 1]
    BY <1>1, <1>3, <2>1, SubSeqProperties
  <2> QED
    BY <1>1, <2>1, <2>2, <2>3
<1>5. CASE \A i \in 1 .. Len(p) : q[i] = p[i]
  <2>1. SubSeq(q, 1, Len(p)) = p
    BY <1>4, <1>5, SeqEqual
  <2> QED
    BY <1>5, <2>1
<1>6. CASE SubSeq(q, 1, Len(p)) = p
  BY <1>4, <1>6
<1> QED
  BY <1>5, <1>6

LEMMA PrefixLengths ==
    ASSUME NEW S, NEW p \in Seq(S), NEW q \in Seq(S)
    PROVE  /\ IsPrefix(p, p)
           /\ IsPrefix(p, q) /\ Len(p) = Len(q) => p = q
           /\ IsPrefix(p, q) /\ p # q => Len(p) < Len(q)
<1>1. Len(p) \in Nat /\ Len(q) \in Nat
  BY LenProperties
<1>2. IsPrefix(p, p)
  BY <1>1, PrefixIs
<1>3. IsPrefix(p, q) /\ Len(p) = Len(q) => p = q
  <2> SUFFICES ASSUME IsPrefix(p, q), Len(p) = Len(q) PROVE p = q
    OBVIOUS
  <2>1. \A i \in 1 .. Len(p) : p[i] = q[i]
    BY PrefixIs
  <2> QED
    BY <2>1, SeqEqual
<1>4. IsPrefix(p, q) => Len(p) <= Len(q)
  BY DEF IsPrefix
<1> QED
  BY <1>1, <1>2, <1>3, <1>4

LEMMA PrefixesChain ==
    ASSUME NEW S, NEW p \in Seq(S), NEW q \in Seq(S), NEW r \in Seq(S)
    PROVE  /\ IsPrefix(p, q) /\ IsPrefix(q, r) => IsPrefix(p, r)
           /\ IsPrefix(p, r) /\ IsPrefix(q, r) => IsPrefix(p, q) \/ IsPrefix(q, p)
<1>1. Len(p) \in Nat /\ Len(q) \in Nat /\ Len(r) \in Nat
  BY LenProperties
<1>2. \A l, n \in Nat : l <= n => \A i \in 1 .. l : i \in 1 .. n
  OBVIOUS
<1>3. IsPrefix(p, q) /\ IsPrefix(q, r) => IsPrefix(p, r)
  <2> SUFFICES ASSUME IsPrefix(p, q), IsPrefix(q, r) PROVE IsPrefix(p, r)
    OBVIOUS
  <2>1. Len(p) <= Len(q) /\ \A i \in 1 .. Len(p) : q[i] = p[i]
    BY PrefixIs
  <2>2. Len(q) <= Len(r) /\ \A i \in 1 .. Len(q) : r[i] = q[i]
    BY PrefixIs
  <2>3. Len(p) <= Len(r)
    BY <1>1, <2>1, <2>2
  <2>4. \A i \in 1 .. Len(p) : r[i] = p[i]
    BY <1>1, <1>2, <2>1, <2>2
  <2> QED
    BY <2>3, <2>4, PrefixIs
<1>4. IsPrefix(p, r) /\ IsPrefix(q, r) => IsPrefix(p, q) \/ IsPrefix(q, p)
  <2> SUFFICES ASSUME IsPrefix(p, r), IsPrefix(q, r) PROVE IsPrefix(p, q) \/ IsPrefix(q, p)
    OBVIOUS
  <2>1. \A i \in 1 .. Len(p) : r[i] = p[i]
    BY PrefixIs
  <2>2. \A i \in 1 .. Len(q) : r[i] = q[i]
    BY PrefixIs
  <2>3. CASE Len(p) <= Len(q)
    <3>1. \A i \in 1 .. Len(p) : q[i] = p[i]
      BY <1>1, <1>2, <2>1, <2>2, <2>3
    <3> QED
      BY <2>3, <3>1, PrefixIs
  <2>4. CASE Len(q) <= Len(p)
    <3>1. \A i \in 1 .. Len(q) : p[i] = q[i]
      BY <1>1, <1>2, <2>1, <2>2, <2>4
    <3> QED
      BY <2>4, <3>1, PrefixIs
  <2> QED
    BY <1>1, <2>3, <2>4
<1> QED
  BY <1>3, <1>4

(* The path of the directory that a path is in. *)
LEMMA FrontIs ==
    ASSUME NEW S, NEW p \in Seq(S), p # <<>>
    PROVE  /\ Front(p) \in Seq(S) /\ Len(p) \in Nat \ {0} /\ Len(Front(p)) = Len(p) - 1
           /\ \A i \in 1 .. Len(p) - 1 : Front(p)[i] = p[i]
           /\ Last(p) \in S
<1>1. Len(p) \in Nat /\ Len(p) # 0
  BY LenProperties, EmptySeq
<1>2. PICK n \in Nat : n = Len(p) - 1
  BY <1>1
<1>3. \A i \in 1 .. n : i \in 1 .. Len(p) /\ p[i] \in S
  <2>1. \A i \in 1 .. n : i \in 1 .. Len(p)
    BY <1>1, <1>2
  <2> QED
    BY <2>1, ElementOfSeq
<1>4. /\ SubSeq(p, 1, n) \in Seq(S)
      /\ Len(SubSeq(p, 1, n)) = IF 1 <= n THEN n - 1 + 1 ELSE 0
      /\ \A i \in 1 .. n - 1 + 1 : SubSeq(p, 1, n)[i] = p[1 + i - 1]
  BY <1>3, SubSeqProperties
<1>5. n - 1 + 1 = n /\ (~(1 <= n) => n = 0) /\ \A i \in 1 .. n : 1 + i - 1 = i
  OBVIOUS
<1>6. Front(p) = SubSeq(p, 1, n)
  BY <1>2 DEF Front
<1>7. Last(p) \in S
  <2>1. Len(p) \in 1 .. Len(p)
    BY <1>1
  <2> QED
    BY <2>1, ElementOfSeq DEF Last
<1>8. Len(Front(p)) = n /\ \A i \in 1 .. n : Front(p)[i] = p[i]
  BY <1>4, <1>5, <1>6
<1> QED
  BY <1>1, <1>2, <1>4, <1>6, <1>7, <1>8

LEMMA PrefixOfFront ==
    ASSUME NEW S, NEW d \in Seq(S), NEW p \in Seq(S), p # <<>>
    PROVE  /\ IsPrefix(d, p) /\ d # p <=> IsPrefix(d, Front(p))
           /\ IsPrefix(Front(p), p) /\ Front(p) # p
<1>1. /\ Front(p) \in Seq(S) /\ Len(p) \in Nat \ {0} /\ Len(Front(p)) = Len(p) - 1
      /\ \A i \in 1 .. Len(p) - 1 : Front(p)[i] = p[i]
  BY FrontIs
<1>2. Len(d) \in Nat
  BY LenProperties
<1>3. \A l, n \in Nat : l < n => \A i \in 1 .. l : i \in 1 .. n - 1 /\ i \in 1 .. n
  OBVIOUS
<1>4. ASSUME IsPrefix(d, p), d # p PROVE IsPrefix(d, Front(p))
  <2>1. Len(d) < Len(p)
    BY <1>4, PrefixLengths
  <2>2. \A i \in 1 .. Len(d) : p[i] = d[i]
    BY <1>4, PrefixIs
  <2>3. \A i \in 1 .. Len(d) : Front(p)[i] = d[i]
    BY <1>1, <1>2, <1>3, <2>1, <2>2
  <2>4. Len(d) <= Len(Front(p))
    BY <1>1, <1>2, <2>1
  <2> QED
    BY <1>1, <2>3, <2>4, PrefixIs
<1>5. ASSUME IsPrefix(d, Front(p)) PROVE IsPrefix(d, p) /\ d # p
  <2>1. Len(d) <= Len(p) - 1 /\ \A i \in 1 .. Len(d) : Front(p)[i] = d[i]
    BY <1>1, <1>5, PrefixIs
  <2>2. Len(d) < Len(p) /\ Len(d) <= Len(p)
    BY <1>1, <1>2, <2>1
  <2>3. \A i \in 1 .. Len(d) : p[i] = d[i]
    BY <1>1, <1>2, <1>3, <2>1, <2>2
  <2> QED
    BY <1>1, <2>2, <2>3, PrefixIs
<1>6. IsPrefix(Front(p), p) /\ Front(p) # p
  <2>1. Len(Front(p)) <= Len(p) /\ Len(Front(p)) # Len(p)
    BY <1>1
  <2>2. \A i \in 1 .. Len(Front(p)) : p[i] = Front(p)[i]
    BY <1>1
  <2> QED
    BY <1>1, <2>1, <2>2, PrefixIs
<1> QED
  BY <1>4, <1>5, <1>6
-----------------------------------------------------------------------------
(* A path below d, as one below e. *)
LEMMA RebasedIs ==
    ASSUME NEW S, NEW p \in Seq(S), NEW d \in Seq(S), NEW e \in Seq(S), IsPrefix(d, p)
    PROVE  /\ Rebased(p, d, e) \in Seq(S)
           /\ Len(Rebased(p, d, e)) = Len(e) + (Len(p) - Len(d))
           /\ \A i \in 1 .. Len(e) : Rebased(p, d, e)[i] = e[i]
           /\ \A i \in 1 .. Len(p) - Len(d) : Rebased(p, d, e)[Len(e) + i] = p[Len(d) + i]
           /\ IsPrefix(e, Rebased(p, d, e))
<1> DEFINE rest == SubSeq(p, Len(d) + 1, Len(p))
<1>1. Len(p) \in Nat /\ Len(d) \in Nat /\ Len(e) \in Nat /\ Len(d) <= Len(p)
  BY LenProperties DEF IsPrefix
<1>2. \A i \in Len(d) + 1 .. Len(p) : p[i] \in S
  <2>1. \A i \in Len(d) + 1 .. Len(p) : i \in 1 .. Len(p)
    BY <1>1
  <2> QED
    BY <2>1, ElementOfSeq
<1>3. /\ rest \in Seq(S)
      /\ Len(rest) = IF Len(d) + 1 <= Len(p) THEN Len(p) - (Len(d) + 1) + 1 ELSE 0
      /\ \A i \in 1 .. Len(p) - (Len(d) + 1) + 1 : rest[i] = p[(Len(d) + 1) + i - 1]
  <2>1. Len(d) + 1 \in Int /\ Len(p) \in Int
    BY <1>1
  <2> QED
    BY <1>2, <2>1, SubSeqProperties
<1>4. Len(rest) = Len(p) - Len(d) /\ \A i \in 1 .. Len(p) - Len(d) : rest[i] = p[Len(d) + i]
  <2>1. \A l, n \in Nat : l <= n => /\ n - (l + 1) + 1 = n - l
                                    /\ ~(l + 1 <= n) => n - l = 0
                                    /\ \A i \in 1 .. n - l : (l + 1) + i - 1 = l + i
    OBVIOUS
  <2>2. \A i \in 1 .. Len(p) - Len(d) : (Len(d) + 1) + i - 1 = Len(d) + i
    BY <1>1, <2>1
  <2>3. Len(p) - (Len(d) + 1) + 1 = Len(p) - Len(d)
    BY <1>1, <2>1
  <2>4. Len(rest) = Len(p) - Len(d)
    BY <1>1, <1>3, <2>1
  <2> HIDE DEF rest
  <2> QED
    BY <1>3, <2>2, <2>3, <2>4
<1> HIDE DEF rest
<1>5. /\ e \o rest \in Seq(S) /\ Len(e \o rest) = Len(e) + Len(rest)
      /\ \A i \in 1 .. Len(e) + Len(rest) :
           (e \o rest)[i] = IF i <= Len(e) THEN e[i] ELSE rest[i - Len(e)]
  BY <1>3, ConcatProperties
<1>6. Rebased(p, d, e) = e \o rest
  BY DEF Rebased, rest
<1> DEFINE w == Rebased(p, d, e)
<1>7. w \in Seq(S) /\ Len(w) = Len(e) + (Len(p) - Len(d))
  BY <1>4, <1>5, <1>6
<1>8. \A i \in 1 .. Len(e) : w[i] = e[i]
  <2> SUFFICES ASSUME NEW i \in 1 .. Len(e) PROVE w[i] = e[i]
    OBVIOUS
  <2>1. i \in 1 .. Len(e) + Len(rest) /\ i <= Len(e)
    BY <1>1, <1>4
  <2> QED
    BY <1>5, <1>6, <2>1
<1>9. \A i \in 1 .. Len(p) - Len(d) : w[Len(e) + i] = p[Len(d) + i]
  <2> SUFFICES ASSUME NEW i \in 1 .. Len(p) - Len(d) PROVE w[Len(e) + i] = p[Len(d) + i]
    OBVIOUS
  <2>1. Len(e) + i \in 1 .. Len(e) + Len(rest) /\ ~(Len(e) + i <= Len(e)) /\ (Len(e) + i) - Len(e) = i
    BY <1>1, <1>4
  <2>2. w[Len(e) + i] = rest[i]
    BY <1>5, <1>6, <2>1
  <2> QED
    BY <1>4, <2>2
<1>10. IsPrefix(e, w)
  <2>1. Len(e) <= Len(w)
    BY <1>1, <1>7
  <2> HIDE DEF w
  <2> QED
    BY <1>7, <1>8, <2>1, PrefixIs
<1> QED
  BY <1>7, <1>8, <1>9, <1>10

(* It is the only one that agrees with e, and behind it with p. *)
Alike(w, e, p, d) ==
    /\ IsPrefix(d, p) /\ IsPrefix(e, w) /\ Len(w) = Len(e) + (Len(p) - Len(d))
    /\ \A i \in 1 .. Len(p) - Len(d) : w[Len(e) + i] = p[Len(d) + i]

LEMMA RebasedIsThe ==
    ASSUME NEW S, NEW p \in Seq(S), NEW d \in Seq(S), NEW e \in Seq(S), NEW w \in Seq(S),
           Alike(w, e, p, d)
    PROVE  w = Rebased(p, d, e)
<1> USE DEF Alike
<1>1. Len(p) \in Nat /\ Len(d) \in Nat /\ Len(e) \in Nat /\ Len(d) <= Len(p)
  BY LenProperties DEF IsPrefix
<1>2. PICK v : v = Rebased(p, d, e)
  OBVIOUS
<1>5. /\ v \in Seq(S) /\ Len(v) = Len(e) + (Len(p) - Len(d))
      /\ \A i \in 1 .. Len(e) : v[i] = e[i]
      /\ \A i \in 1 .. Len(p) - Len(d) : v[Len(e) + i] = p[Len(d) + i]
  <2>1. /\ Rebased(p, d, e) \in Seq(S)
        /\ Len(Rebased(p, d, e)) = Len(e) + (Len(p) - Len(d))
        /\ \A i \in 1 .. Len(e) : Rebased(p, d, e)[i] = e[i]
        /\ \A i \in 1 .. Len(p) - Len(d) : Rebased(p, d, e)[Len(e) + i] = p[Len(d) + i]
    <3>1. Rebased(p, d, e) \in Seq(S)
      BY RebasedIs
    <3>2. Len(Rebased(p, d, e)) = Len(e) + (Len(p) - Len(d))
      BY RebasedIs
    <3>3. \A i \in 1 .. Len(e) : Rebased(p, d, e)[i] = e[i]
      BY RebasedIs
    <3>4. \A i \in 1 .. Len(p) - Len(d) : Rebased(p, d, e)[Len(e) + i] = p[Len(d) + i]
      BY RebasedIs
    <3> QED
      BY <3>1, <3>2, <3>3, <3>4
  <2> QED
    BY <1>2, <2>1
<1>3. \A i \in 1 .. Len(e) : w[i] = e[i]
  BY PrefixIs
<1>4. \A i \in 1 .. Len(w) : w[i] = v[i]
  <2> SUFFICES ASSUME NEW i \in 1 .. Len(w) PROVE w[i] = v[i]
    OBVIOUS
  <2>1. CASE i <= Len(e)
    <3>1. i \in 1 .. Len(e)
      BY <1>1, <2>1
    <3> QED
      BY <1>5, <1>3, <3>1
  <2>2. CASE i > Len(e)
    <3>1. PICK j \in 1 .. Len(p) - Len(d) : i = Len(e) + j
      <4>1. i - Len(e) \in 1 .. Len(p) - Len(d) /\ i = Len(e) + (i - Len(e))
        BY <1>1, <2>2
      <4> QED
        BY <4>1
    <3> QED
      BY <1>5, <3>1
  <2> QED
    BY <1>1, <2>1, <2>2
<1>6. w = v
  BY <1>4, <1>5, SeqEqual
<1> QED
  BY <1>2, <1>6

LEMMA RebasedBack ==
    ASSUME NEW S, NEW p \in Seq(S), NEW d \in Seq(S), NEW e \in Seq(S), IsPrefix(d, p)
    PROVE  Rebased(Rebased(p, d, e), e, d) = p
<1>1. PICK w \in Seq(S) :
         /\ w = Rebased(p, d, e) /\ Len(w) = Len(e) + (Len(p) - Len(d))
         /\ \A i \in 1 .. Len(p) - Len(d) : w[Len(e) + i] = p[Len(d) + i]
         /\ IsPrefix(e, w)
  BY RebasedIs
<1>2. Len(p) \in Nat /\ Len(d) \in Nat /\ Len(e) \in Nat /\ Len(d) <= Len(p)
  BY LenProperties DEF IsPrefix
<1>3. Len(w) - Len(e) = Len(p) - Len(d) /\ Len(p) = Len(d) + (Len(w) - Len(e))
  BY <1>1, <1>2
<1>4. \A i \in 1 .. Len(w) - Len(e) : p[Len(d) + i] = w[Len(e) + i]
  BY <1>1, <1>3
<1>5. p = Rebased(w, e, d)
  <2>1. w \in Seq(S) /\ IsPrefix(e, w)
    BY <1>1
  <2> QED
    BY <1>3, <1>4, <2>1, RebasedIsThe DEF Alike
<1> QED
  BY <1>1, <1>5

LEMMA RebasedSelf ==
    ASSUME NEW S, NEW d \in Seq(S), NEW e \in Seq(S)
    PROVE  Rebased(d, d, e) = e
<1>1. Len(d) \in Nat /\ Len(e) \in Nat /\ IsPrefix(d, d) /\ IsPrefix(e, e)
  BY LenProperties, PrefixLengths
<1>2. Len(e) = Len(e) + (Len(d) - Len(d)) /\ 1 .. Len(d) - Len(d) = {}
  BY <1>1
<1>3. Alike(e, e, d, d)
  BY <1>1, <1>2 DEF Alike
<1> QED
  BY <1>3, RebasedIsThe

LEMMA RebasedFront ==
    ASSUME NEW S, NEW p \in Seq(S), NEW d \in Seq(S), NEW e \in Seq(S), IsPrefix(d, p), p # d
    PROVE  /\ p # <<>> /\ IsPrefix(d, Front(p)) /\ Rebased(p, d, e) # <<>>
           /\ Front(Rebased(p, d, e)) = Rebased(Front(p), d, e)
<1>1. Len(p) \in Nat /\ Len(d) \in Nat /\ Len(e) \in Nat /\ Len(d) < Len(p)
  BY LenProperties, PrefixLengths
<1>2. p # <<>>
  BY <1>1, EmptySeq
<1>3. IsPrefix(d, Front(p))
  BY <1>2, PrefixOfFront
<1>4. PICK w \in Seq(S) :
         /\ w = Rebased(p, d, e) /\ Len(w) = Len(e) + (Len(p) - Len(d))
         /\ \A i \in 1 .. Len(p) - Len(d) : w[Len(e) + i] = p[Len(d) + i]
         /\ IsPrefix(e, w)
  BY RebasedIs
<1>5. w # <<>> /\ w # e
  BY <1>1, <1>4, EmptySeq
<1>6. /\ Front(w) \in Seq(S) /\ Len(Front(w)) = Len(w) - 1
      /\ \A i \in 1 .. Len(w) - 1 : Front(w)[i] = w[i]
  BY <1>5, FrontIs
<1>7. IsPrefix(e, Front(w))
  BY <1>4, <1>5, PrefixOfFront
<1>8. /\ Front(p) \in Seq(S) /\ Len(Front(p)) = Len(p) - 1
      /\ \A i \in 1 .. Len(p) - 1 : Front(p)[i] = p[i]
  BY <1>2, FrontIs
<1>9. Len(Front(w)) = Len(e) + (Len(Front(p)) - Len(d))
  BY <1>1, <1>4, <1>6, <1>8
<1>10. \A i \in 1 .. Len(Front(p)) - Len(d) : Front(w)[Len(e) + i] = Front(p)[Len(d) + i]
  <2> SUFFICES ASSUME NEW i \in 1 .. Len(Front(p)) - Len(d)
               PROVE  Front(w)[Len(e) + i] = Front(p)[Len(d) + i]
    OBVIOUS
  <2>1. /\ Len(e) + i \in 1 .. Len(w) - 1 /\ Len(d) + i \in 1 .. Len(p) - 1
        /\ i \in 1 .. Len(p) - Len(d)
    BY <1>1, <1>4, <1>8
  <2>2. Front(w)[Len(e) + i] = w[Len(e) + i] /\ Front(p)[Len(d) + i] = p[Len(d) + i]
    BY <1>6, <1>8, <2>1
  <2> QED
    BY <1>4, <2>1, <2>2
<1>11. Front(w) = Rebased(Front(p), d, e)
  <2>1. Alike(Front(w), e, Front(p), d)
    BY <1>3, <1>7, <1>9, <1>10 DEF Alike
  <2> QED
    BY <1>6, <1>8, <2>1, RebasedIsThe
<1> QED
  BY <1>2, <1>3, <1>4, <1>5, <1>11
-----------------------------------------------------------------------------
(* Trees of directories. *)
IsTree(t, S) ==
    /\ IsFiniteSet(DOMAIN t) /\ t \in [DOMAIN t -> Nat]
    /\ \A p \in DOMAIN t : /\ p \in Seq(S) /\ p # <<>>
                           /\ Len(p) > 1 => is_directory_exists(t, Front(p))

LEMMA TreePaths ==
    ASSUME NEW S, NEW t, IsTree(t, S)
    PROVE  /\ DOMAIN t \subseteq Seq(S)
           /\ \A p \in DOMAIN t : p # <<>> /\ t[p] \in Nat /\ (t[p] > 0 <=> t[p] # 0)
           /\ \A p : Under(t, p) \subseteq DOMAIN t
           /\ \A p \in DOMAIN t : p \in Under(t, p)
<1>1. /\ DOMAIN t \subseteq Seq(S)
      /\ \A p \in DOMAIN t : p # <<>> /\ t[p] \in Nat
  BY DEF IsTree
<1>2. \A p \in DOMAIN t : IsPrefix(p, p)
  BY <1>1, PrefixLengths
<1>3. \A n \in Nat : n > 0 <=> n # 0
  OBVIOUS
<1> QED
  BY <1>1, <1>2, <1>3 DEF Under

(* What is below a path of the tree is in directories. *)
LEMMA Ancestors ==
    ASSUME NEW S, NEW t, IsTree(t, S), NEW r \in DOMAIN t, NEW d \in Seq(S), d # <<>>,
           IsPrefix(d, r), d # r
    PROVE  is_directory_exists(t, d)
<1> DEFINE Apart(n) == \A q \in DOMAIN t :
                          Len(q) = n /\ IsPrefix(d, q) /\ d # q => is_directory_exists(t, d)
           T == {n \in Nat : Apart(n)}
<1>1. \A q \in DOMAIN t : q \in Seq(S) /\ q # <<>> /\ Len(q) \in Nat \ {0}
  BY TreePaths, FrontIs
<1>2. Len(d) \in Nat \ {0}
  BY FrontIs
<1>3. 0 \in T
  BY <1>1
<1>4. ASSUME NEW n \in T PROVE n + 1 \in T
  <2>1. n \in Nat /\ n + 1 \in Nat /\ n + 1 - 1 = n
    OBVIOUS
  <2>2. Apart(n)
    OBVIOUS
  <2> HIDE DEF T
  <2>3. ASSUME NEW q \in DOMAIN t, Len(q) = n + 1, IsPrefix(d, q), d # q
        PROVE  is_directory_exists(t, d)
    <3>1. IsPrefix(d, Front(q)) /\ Front(q) \in Seq(S) /\ Len(Front(q)) = n
      <4>1. q \in Seq(S) /\ q # <<>>
        BY <1>1
      <4>2. Front(q) \in Seq(S) /\ Len(Front(q)) = Len(q) - 1
        BY <4>1, FrontIs
      <4>3. IsPrefix(d, Front(q))
        BY <2>3, <4>1, PrefixOfFront
      <4> QED
        BY <2>1, <2>3, <4>2, <4>3
    <3>2. Len(d) < Len(q)
      BY <1>1, <2>3, PrefixLengths
    <3>3. Len(q) > 1
      BY <1>1, <1>2, <3>2
    <3>4. is_directory_exists(t, Front(q))
      BY <3>3 DEF IsTree
    <3>5. CASE d = Front(q)
      BY <3>4, <3>5
    <3>6. CASE d # Front(q)
      BY <2>2, <3>1, <3>4, <3>6 DEF is_directory_exists
    <3> QED
      BY <3>5, <3>6
  <2>4. Apart(n + 1)
    BY <2>3
  <2> QED
    BY <2>1, <2>4 DEF T
<1>5. T \in SUBSET Nat
  OBVIOUS
<1> HIDE DEF T
<1>6. T = Nat
  BY <1>3, <1>4, <1>5, EveryNat
<1>7. Len(r) \in T
  BY <1>1, <1>6
<1> QED
  BY <1>7 DEF T

LEMMA NothingBelowFiles ==
    ASSUME NEW S, NEW t, IsTree(t, S), NEW p, is_file_exists(t, p)
    PROVE  Under(t, p) = {p}
<1>1. p \in DOMAIN t /\ t[p] # 0 /\ p \in Seq(S) /\ p # <<>> /\ p \in Under(t, p)
  BY TreePaths DEF is_file_exists
<1>2. ASSUME NEW r \in Under(t, p), r # p PROVE FALSE
  <2>1. is_directory_exists(t, p)
    BY <1>1, <1>2, Ancestors DEF Under
  <2> QED
    BY <1>1, <2>1 DEF is_directory_exists
<1> QED
  BY <1>1, <1>2

(* The same with more names. *)
LEMMA TreeOfMoreNames ==
    ASSUME NEW S, NEW T, S \subseteq T, NEW t, IsTree(t, S)
    PROVE  IsTree(t, T)
<1>1. Seq(S) \subseteq Seq(T)
  <2> SUFFICES ASSUME NEW s \in Seq(S) PROVE s \in Seq(T)
    OBVIOUS
  <2>1. Len(s) \in Nat /\ DOMAIN s = 1 .. Len(s) /\ s = [i \in 1 .. Len(s) |-> s[i]]
    BY LenProperties, SeqDef
  <2>2. \A i \in 1 .. Len(s) : s[i] \in T
    BY ElementOfSeq
  <2> QED
    BY <2>1, <2>2, SeqDef
<1> QED
  BY <1>1 DEF IsTree

(* What goes with all that is below it leaves a tree. *)
LEMMA WithoutIsTree ==
    ASSUME NEW S, NEW t, IsTree(t, S), NEW gone,
           \A r \in DOMAIN t : Len(r) > 1 /\ Front(r) \in gone => r \in gone
    PROVE  /\ IsTree(Without(t, gone), S)
           /\ DOMAIN Without(t, gone) = DOMAIN t \ gone
           /\ \A r \in DOMAIN t \ gone : Without(t, gone)[r] = t[r]
<1> DEFINE u == Without(t, gone)
<1>1. /\ u = [r \in DOMAIN t \ gone |-> t[r]]
      /\ DOMAIN u = DOMAIN t \ gone /\ \A r \in DOMAIN t \ gone : u[r] = t[r]
  BY DEF Without, Restrict
<1>2. IsFiniteSet(DOMAIN u)
  <2>1. IsFiniteSet(DOMAIN t) /\ DOMAIN u \in SUBSET DOMAIN t
    BY <1>1 DEF IsTree
  <2> HIDE DEF u
  <2> QED
    BY <2>1, FS_Subset
<1>3. u \in [DOMAIN u -> Nat]
  BY <1>1, TreePaths
<1>4. \A p \in DOMAIN u : Len(p) > 1 => is_directory_exists(u, Front(p))
  BY <1>1 DEF IsTree, is_directory_exists
<1>5. \A p \in DOMAIN u : p \in Seq(S) /\ p # <<>>
  BY <1>1 DEF IsTree
<1> HIDE DEF u
<1> QED
  <2>1. IsTree(u, S)
    BY <1>2, <1>3, <1>4, <1>5 DEF IsTree
  <2> QED
    BY <1>1, <2>1 DEF u
-----------------------------------------------------------------------------
(* Copies of a part of a tree. *)
Copies(t, d, e) == {Rebased(q, d, e) : q \in Under(t, d)}

IsCopy(c, t, d, e, S) ==
    /\ c \in [DOMAIN t \cup Copies(t, d, e) -> Nat]
    /\ \A q \in Under(t, d) :
         Rebased(q, d, e) \in Copies(t, d, e) /\ c[Rebased(q, d, e)] = t[q]
    /\ \A r \in DOMAIN t \ Copies(t, d, e) : c[r] = t[r]
    /\ \A r \in Copies(t, d, e) : r \in Seq(S) /\ IsPrefix(e, r)

LEMMA CopiedIs ==
    ASSUME NEW S, NEW t, IsTree(t, S), NEW d \in Seq(S), NEW e \in Seq(S)
    PROVE  IsCopy(Copied(t, d, e), t, d, e, S)
<1> DEFINE c == Copied(t, d, e)
           K == Copies(t, d, e)
<1>1. c = [p \in DOMAIN t \cup K |-> IF p \in K THEN t[Rebased(p, e, d)] ELSE t[p]]
  BY DEF Copied, Copies
<1>2. \A q \in Under(t, d) : q \in Seq(S) /\ q \in DOMAIN t /\ IsPrefix(d, q)
  BY TreePaths DEF Under
<1>3. \A r \in K : \E q \in Under(t, d) : r = Rebased(q, d, e)
  BY DEF Copies
<1>4. \A q \in Under(t, d) : Rebased(q, d, e) \in K
  BY DEF Copies
<1>5. ASSUME NEW q \in Under(t, d)
      PROVE  /\ Rebased(q, d, e) \in Seq(S) /\ IsPrefix(e, Rebased(q, d, e))
             /\ Rebased(Rebased(q, d, e), e, d) = q
  <2>1. q \in Seq(S) /\ IsPrefix(d, q)
    BY <1>2
  <2>2. Rebased(q, d, e) \in Seq(S) /\ IsPrefix(e, Rebased(q, d, e))
    BY <2>1, RebasedIs
  <2>3. Rebased(Rebased(q, d, e), e, d) = q
    BY <2>1, RebasedBack
  <2> QED
    BY <2>2, <2>3
<1> HIDE DEF c, K
<1>6. \A r \in K : t[Rebased(r, e, d)] \in Nat
  <2> SUFFICES ASSUME NEW r \in K PROVE t[Rebased(r, e, d)] \in Nat
    OBVIOUS
  <2>1. PICK q \in Under(t, d) : r = Rebased(q, d, e)
    BY <1>3
  <2>2. Rebased(r, e, d) = q
    BY <1>5, <2>1
  <2> QED
    BY <1>2, <2>2, TreePaths
<1>7. \A r \in DOMAIN t : t[r] \in Nat
  BY TreePaths
<1>8. c \in [DOMAIN t \cup K -> Nat]
  BY <1>1, <1>6, <1>7
<1>9. \A q \in Under(t, d) : c[Rebased(q, d, e)] = t[q]
  <2> SUFFICES ASSUME NEW q \in Under(t, d) PROVE c[Rebased(q, d, e)] = t[q]
    OBVIOUS
  <2>1. c[Rebased(q, d, e)] = t[Rebased(Rebased(q, d, e), e, d)]
    BY <1>1, <1>4
  <2> QED
    BY <1>5, <2>1
<1>10. \A r \in DOMAIN t \ K : c[r] = t[r]
  BY <1>1
<1>11. \A r \in K : r \in Seq(S) /\ IsPrefix(e, r)
  BY <1>3, <1>5
<1> QED
  BY <1>4, <1>8, <1>9, <1>10, <1>11 DEF c, K, IsCopy

(* What is below d may be copied to e: a directory is met by a directory,  *)
(* a file by a file. *)
Fits(t, d, e) ==
    /\ e # <<>> /\ (Len(e) > 1 => is_directory_exists(t, Front(e)))
    /\ \A q \in Under(t, d) :
         Rebased(q, d, e) \in DOMAIN t => (t[Rebased(q, d, e)] = 0 <=> t[q] = 0)
SameKinds(t, u) == \A r \in DOMAIN t : r \in DOMAIN u => (u[r] = 0 <=> t[r] = 0)

LEMMA CopiedIsTree ==
    ASSUME NEW S, NEW t, IsTree(t, S), NEW d \in DOMAIN t, NEW e \in Seq(S), Fits(t, d, e)
    PROVE  /\ IsTree(Copied(t, d, e), S)
           /\ DOMAIN Copied(t, d, e) = DOMAIN t \cup Copies(t, d, e)
           /\ e \in Copies(t, d, e)
           /\ SameKinds(t, Copied(t, d, e))
<1> DEFINE c == Copied(t, d, e)
           K == Copies(t, d, e)
<1>1. d \in Seq(S) /\ d # <<>> /\ d \in Under(t, d)
  BY TreePaths
<1>2. /\ c \in [DOMAIN t \cup K -> Nat] /\ DOMAIN c = DOMAIN t \cup K
      /\ \A q \in Under(t, d) : Rebased(q, d, e) \in K /\ c[Rebased(q, d, e)] = t[q]
      /\ \A r \in DOMAIN t \ K : c[r] = t[r]
      /\ \A r \in K : r \in Seq(S) /\ IsPrefix(e, r)
  <2>1. IsCopy(c, t, d, e, S)
    BY <1>1, CopiedIs
  <2> HIDE DEF c, K
  <2> QED
    BY <2>1 DEF IsCopy, K
<1>3. \A r \in K : \E q \in Under(t, d) : r = Rebased(q, d, e)
  BY DEF Copies
<1>4. \A q \in Under(t, d) : q \in Seq(S) /\ q \in DOMAIN t /\ IsPrefix(d, q) /\ q # <<>>
  BY TreePaths DEF Under
<1>5. IsFiniteSet(DOMAIN c)
  <2>1. IsFiniteSet(DOMAIN t) /\ Under(t, d) \in SUBSET DOMAIN t
    BY DEF IsTree, Under
  <2>2. IsFiniteSet(Under(t, d))
    BY <2>1, FS_Subset
  <2> DEFINE f == [q \in Under(t, d) |-> Rebased(q, d, e)]
  <2>3. f \in Surjection(Under(t, d), K)
    BY <1>2, <1>3 DEF Surjection
  <2> HIDE DEF f
  <2>4. IsFiniteSet(K)
    BY <2>2, <2>3, FS_Surjection
  <2> HIDE DEF K, c
  <2> QED
    BY <1>2, <2>1, <2>4, FS_Union
<1> HIDE DEF c, K
<1>6. SameKinds(t, c)
  <2> SUFFICES ASSUME NEW r \in DOMAIN t PROVE c[r] = 0 <=> t[r] = 0
    BY DEF SameKinds
  <2>1. CASE r \notin K
    BY <1>2, <2>1
  <2>2. CASE r \in K
    <3>1. PICK q \in Under(t, d) : r = Rebased(q, d, e)
      BY <1>3, <2>2
    <3> QED
      BY <1>2, <3>1 DEF Fits
  <2> QED
    BY <2>1, <2>2
<1>7. \A r \in DOMAIN t : Len(r) > 1 => is_directory_exists(c, Front(r))
  <2> SUFFICES ASSUME NEW r \in DOMAIN t, Len(r) > 1 PROVE is_directory_exists(c, Front(r))
    OBVIOUS
  <2>1. Front(r) \in DOMAIN t /\ t[Front(r)] = 0
    BY DEF IsTree, is_directory_exists
  <2> QED
    BY <1>2, <1>6, <2>1 DEF SameKinds, is_directory_exists
<1>8. ASSUME NEW q \in Under(t, d), q # d PROVE is_directory_exists(c, Front(Rebased(q, d, e)))
  <2>1. q \in Seq(S) /\ IsPrefix(d, q) /\ q \in DOMAIN t
    BY <1>4
  <2>2. IsPrefix(d, Front(q)) /\ Front(Rebased(q, d, e)) = Rebased(Front(q), d, e)
    BY <1>1, <1>8, <2>1, RebasedFront
  <2>3. Len(q) > 1
    <3>1. Len(d) \in Nat \ {0} /\ Len(q) \in Nat /\ Len(d) < Len(q)
      BY <1>1, <1>4, <1>8, FrontIs, PrefixLengths
    <3> QED
      BY <3>1
  <2>4. Front(q) \in DOMAIN t /\ t[Front(q)] = 0
    BY <2>1, <2>3 DEF IsTree, is_directory_exists
  <2>5. Front(q) \in Under(t, d)
    BY <2>2, <2>4 DEF Under
  <2> QED
    BY <1>2, <2>2, <2>4, <2>5 DEF is_directory_exists
<1>9. Rebased(d, d, e) = e
  BY <1>1, RebasedSelf
<1>10. Len(e) > 1 => is_directory_exists(c, Front(e))
  BY <1>2, <1>6 DEF Fits, SameKinds, is_directory_exists
<1>11. ASSUME NEW r \in K PROVE r # <<>> /\ (Len(r) > 1 => is_directory_exists(c, Front(r)))
  <2>1. PICK q \in Under(t, d) : r = Rebased(q, d, e)
    BY <1>3
  <2>2. CASE q = d
    BY <1>9, <1>10, <2>1, <2>2 DEF Fits
  <2>3. CASE q # d
    <3>1. q \in Seq(S) /\ IsPrefix(d, q)
      BY <1>4
    <3>2. Rebased(q, d, e) # <<>>
      BY <1>1, <2>3, <3>1, RebasedFront
    <3> QED
      BY <1>8, <2>1, <2>3, <3>2
  <2> QED
    BY <2>2, <2>3
<1>12. \A r \in DOMAIN t : r \in Seq(S) /\ r # <<>>
  BY TreePaths
<1>13. IsTree(c, S)
  <2>1. \A r \in DOMAIN c : /\ r \in Seq(S) /\ r # <<>>
                            /\ Len(r) > 1 => is_directory_exists(c, Front(r))
    BY <1>2, <1>7, <1>11, <1>12
  <2>2. c \in [DOMAIN c -> Nat]
    BY <1>2
  <2> QED
    BY <1>5, <2>1, <2>2 DEF IsTree
<1>14. e \in K
  BY <1>1, <1>2, <1>9
<1> QED
  BY <1>2, <1>6, <1>13, <1>14 DEF c, K
-----------------------------------------------------------------------------
(* Renaming. *)

(* p may be put at q, which is free, a file or an empty directory. *)
MayBePutAt(t, p, q) ==
    /\ p # q /\ ~IsPrefix(p, q)
    /\ q # <<>> /\ (Len(q) > 1 => is_directory_exists(t, Front(q)))
    /\ Exists(t, q) => Under(t, q) \subseteq {q} /\ (t[q] = 0 <=> t[p] = 0)

LEMMA RenamedIsApart ==
    ASSUME NEW S, NEW t, IsTree(t, S), NEW p \in DOMAIN t, NEW q \in Seq(S), MayBePutAt(t, p, q)
    PROVE  /\ ~IsPrefix(q, p) /\ Fits(t, p, q)
           /\ \A r \in DOMAIN t : IsPrefix(q, r) => r = q
           /\ \A r : ~(IsPrefix(p, r) /\ IsPrefix(q, r) /\ r \in Seq(S))
           /\ \A r \in Copies(t, p, q) : r \in Seq(S) /\ IsPrefix(q, r)
<1>1. p # q /\ ~IsPrefix(p, q) /\ q # <<>> /\ p \in Seq(S) /\ p # <<>> /\ DOMAIN t \subseteq Seq(S)
  BY TreePaths DEF MayBePutAt
<1>2. ASSUME NEW r \in DOMAIN t, IsPrefix(q, r) PROVE r = q
  <2>1. Exists(t, q)
    <3>1. CASE r = q
      BY <3>1 DEF Exists
    <3>2. CASE r # q
      BY <1>1, <1>2, <3>2, Ancestors DEF is_directory_exists, Exists
    <3> QED
      BY <3>1, <3>2
  <2>2. r \in Under(t, q)
    BY <1>2 DEF Under
  <2> QED
    BY <2>1, <2>2 DEF MayBePutAt
<1>3. ~IsPrefix(q, p)
  BY <1>1, <1>2
<1>4. ASSUME NEW u \in Under(t, p), Rebased(u, p, q) \in DOMAIN t
      PROVE  t[Rebased(u, p, q)] = 0 <=> t[u] = 0
  <2>1. u \in Seq(S) /\ IsPrefix(p, u)
    BY <1>1 DEF Under
  <2>2. IsPrefix(q, Rebased(u, p, q))
    BY <1>1, <2>1, RebasedIs
  <2>3. Rebased(u, p, q) = q
    BY <1>2, <1>4, <2>2
  <2>4. Rebased(Rebased(u, p, q), q, p) = u
    BY <1>1, <2>1, RebasedBack
  <2>5. u = p
    BY <1>1, <2>3, <2>4, RebasedSelf
  <2> QED
    BY <1>4, <2>3, <2>5 DEF MayBePutAt, Exists
<1>5. Fits(t, p, q)
  BY <1>4 DEF Fits, MayBePutAt
<1>6. \A r : ~(IsPrefix(p, r) /\ IsPrefix(q, r) /\ r \in Seq(S))
  BY <1>1, <1>3, PrefixesChain
<1>7. \A r \in Copies(t, p, q) : r \in Seq(S) /\ IsPrefix(q, r)
  BY <1>1, CopiedIs DEF IsCopy
<1> QED
  BY <1>2, <1>3, <1>5, <1>6, <1>7

IsRenaming(u, t, p, q, S) ==
    /\ IsTree(u, S) /\ SameKinds(t, u)
    /\ DOMAIN u = (DOMAIN t \ Under(t, p)) \cup Copies(t, p, q)
    /\ \A r \in Under(t, p) : Rebased(r, p, q) \in DOMAIN u /\ u[Rebased(r, p, q)] = t[r]
    /\ \A r \in DOMAIN t \ Under(t, p) : r # q => u[r] = t[r]
    /\ q \in DOMAIN u /\ p \notin DOMAIN u

LEMMA RenamedIs ==
    ASSUME NEW S, NEW t, IsTree(t, S), NEW p \in DOMAIN t, NEW q \in Seq(S), MayBePutAt(t, p, q)
    PROVE  IsRenaming(Renamed(t, p, q), t, p, q, S)
<1> DEFINE c == Copied(t, p, q)
           K == Copies(t, p, q)
           U == Under(t, p)
           u == Renamed(t, p, q)
<1>1. /\ ~IsPrefix(q, p) /\ Fits(t, p, q) /\ p # q /\ p \in Seq(S) /\ p \in U
      /\ \A r \in DOMAIN t : r \in Seq(S) /\ (IsPrefix(q, r) => r = q)
      /\ \A r : ~(IsPrefix(p, r) /\ IsPrefix(q, r) /\ r \in Seq(S))
      /\ \A r \in K : r \in Seq(S) /\ IsPrefix(q, r)
  BY RenamedIsApart, TreePaths DEF MayBePutAt
<1>2. IsTree(c, S) /\ DOMAIN c = DOMAIN t \cup K /\ q \in K /\ SameKinds(t, c)
  BY <1>1, CopiedIsTree
<1>3. IsCopy(c, t, p, q, S)
  BY <1>1, CopiedIs
<1>4. \A r \in U : r \in DOMAIN t /\ IsPrefix(p, r)
  BY DEF Under
<1>5. u = Without(c, U)
  BY <1>1 DEF Renamed
<1> HIDE DEF c, K, U, u
<1>6. ASSUME NEW r \in DOMAIN c, Len(r) > 1, Front(r) \in U PROVE r \in U
  <2>1. r \in Seq(S) /\ r # <<>>
    BY <1>2, TreePaths
  <2>2. IsPrefix(p, r)
    BY <1>1, <1>4, <1>6, <2>1, PrefixOfFront
  <2>3. r \notin K
    BY <1>1, <2>2
  <2> QED
    BY <1>2, <2>2, <2>3 DEF U, Under
<1>7. /\ IsTree(u, S) /\ DOMAIN u = (DOMAIN t \cup K) \ U
      /\ \A r \in (DOMAIN t \cup K) \ U : u[r] = c[r]
  <2>1. IsTree(c, S) /\ \A r \in DOMAIN c : Len(r) > 1 /\ Front(r) \in U => r \in U
    BY <1>2, <1>6
  <2>2. IsTree(Without(c, U), S)
    BY <2>1, WithoutIsTree
  <2>3. DOMAIN Without(c, U) = DOMAIN c \ U
    BY <2>1, WithoutIsTree
  <2>4. \A r \in DOMAIN c \ U : Without(c, U)[r] = c[r]
    BY <2>1, WithoutIsTree
  <2> QED
    BY <1>2, <1>5, <2>2, <2>3, <2>4
<1>8. K \cap U = {}
  BY <1>1, <1>4
<1>9. ASSUME NEW r \in U PROVE Rebased(r, p, q) \in DOMAIN u /\ u[Rebased(r, p, q)] = t[r]
  <2>1. Rebased(r, p, q) \in K /\ c[Rebased(r, p, q)] = t[r]
    BY <1>3 DEF IsCopy, K, U
  <2> QED
    BY <1>7, <1>8, <2>1
<1>10. ASSUME NEW r \in DOMAIN t \ U, r # q PROVE u[r] = t[r]
  <2>1. r \notin K
    BY <1>1, <1>10
  <2>2. c[r] = t[r]
    BY <1>3, <2>1 DEF IsCopy, K
  <2> QED
    BY <1>7, <2>2
<1>11. SameKinds(t, u)
  BY <1>2, <1>7 DEF SameKinds
<1>12. q \in DOMAIN u /\ p \notin DOMAIN u
  BY <1>1, <1>2, <1>7, <1>8
<1>13. DOMAIN u = (DOMAIN t \ U) \cup K
  BY <1>7, <1>8
<1> QED
  BY <1>7, <1>9, <1>10, <1>11, <1>12, <1>13 DEF IsRenaming, K, U, u

(* A content is lost only with a file that is replaced. *)
LEMMA RenamedKeeps ==
    ASSUME NEW S, NEW t, IsTree(t, S), NEW p \in DOMAIN t, NEW q \in Seq(S), MayBePutAt(t, p, q),
           ~is_file_exists(t, q)
    PROVE  ContentsOf(t) \subseteq ContentsOf(Renamed(t, p, q))
<1>1. PICK u : u = Renamed(t, p, q)
  OBVIOUS
<1>2. IsRenaming(u, t, p, q, S)
  BY <1>1, RenamedIs
<1> SUFFICES ASSUME NEW r \in FilesOf(t) PROVE \E s \in FilesOf(u) : u[s] = t[r]
  BY <1>1 DEF ContentsOf
<1>3. r \in DOMAIN t /\ t[r] > 0 /\ r # q
  BY DEF FilesOf, is_file_exists
<1>4. CASE r \in Under(t, p)
  <2>1. Rebased(r, p, q) \in DOMAIN u /\ u[Rebased(r, p, q)] = t[r]
    BY <1>2, <1>4 DEF IsRenaming
  <2> QED
    BY <1>3, <2>1 DEF FilesOf
<1>5. CASE r \notin Under(t, p)
  <2>1. r \in DOMAIN u /\ u[r] = t[r]
    BY <1>2, <1>3, <1>5 DEF IsRenaming
  <2> QED
    BY <1>3, <2>1 DEF FilesOf
<1> QED
  BY <1>4, <1>5

(* Renaming back. *)
LEMMA RenamedBack ==
    ASSUME NEW S, NEW t, IsTree(t, S), NEW p \in DOMAIN t, NEW q \in Seq(S), MayBePutAt(t, p, q)
    PROVE  /\ MayBePutAt(Renamed(t, p, q), q, p)
           /\ ~Exists(t, q) => Renamed(Renamed(t, p, q), q, p) = t
<1>1. PICK u : u = Renamed(t, p, q)
  OBVIOUS
<1>2. IsRenaming(u, t, p, q, S) /\ IsTree(u, S)
  <2>1. IsRenaming(u, t, p, q, S)
    BY <1>1, RenamedIs
  <2> QED
    BY <2>1 DEF IsRenaming
<1>3. /\ ~IsPrefix(q, p) /\ p # q /\ p \in Seq(S) /\ p # <<>> /\ p \in Under(t, p)
      /\ \A r \in DOMAIN t : r \in Seq(S) /\ (IsPrefix(q, r) => r = q)
      /\ \A r \in Copies(t, p, q) : r \in Seq(S) /\ IsPrefix(q, r)
  BY RenamedIsApart, TreePaths DEF MayBePutAt
<1>4. p \notin DOMAIN u /\ q \in DOMAIN u
  BY <1>2 DEF IsRenaming
<1>5. ASSUME Len(p) > 1 PROVE is_directory_exists(u, Front(p))
  <2>1. Front(p) \in DOMAIN t /\ t[Front(p)] = 0
    BY <1>5 DEF IsTree, is_directory_exists
  <2>2. Front(p) \in Seq(S) /\ ~IsPrefix(p, Front(p))
    BY <1>3, FrontIs, PrefixOfFront
  <2>3. Front(p) \in DOMAIN u
    BY <1>2, <2>1, <2>2 DEF IsRenaming, Under
  <2> QED
    BY <1>2, <2>1, <2>3 DEF IsRenaming, SameKinds, is_directory_exists
<1>6. MayBePutAt(u, q, p)
  BY <1>3, <1>4, <1>5 DEF MayBePutAt, Exists
<1>7. ASSUME ~Exists(t, q) PROVE Renamed(u, q, p) = t
  <2>1. PICK v : v = Renamed(u, q, p)
    OBVIOUS
  <2>2. IsRenaming(v, u, q, p, S)
    BY <1>2, <1>3, <1>4, <1>6, <2>1, RenamedIs
  <2>3. Copies(t, p, q) \cap DOMAIN t = {}
    BY <1>3, <1>7 DEF Exists
  <2>4. \A r : r \in Under(u, q) <=> r \in Copies(t, p, q)
    <3>1. ASSUME NEW r \in Under(u, q) PROVE r \in Copies(t, p, q)
      <4>1. r \in DOMAIN u /\ IsPrefix(q, r)
        BY <3>1 DEF Under
      <4>2. r \notin DOMAIN t
        BY <1>3, <1>7, <4>1 DEF Exists
      <4> QED
        BY <1>2, <4>1, <4>2 DEF IsRenaming
    <3>2. ASSUME NEW r \in Copies(t, p, q) PROVE r \in Under(u, q)
      BY <1>2, <1>3, <3>2 DEF IsRenaming, Under
    <3> QED
      BY <3>1, <3>2
  <2>5. \A r \in Under(t, p) : /\ Rebased(r, p, q) \in Copies(t, p, q)
                               /\ Rebased(Rebased(r, p, q), q, p) = r
    <3> SUFFICES ASSUME NEW r \in Under(t, p)
                 PROVE  /\ Rebased(r, p, q) \in Copies(t, p, q)
                        /\ Rebased(Rebased(r, p, q), q, p) = r
      OBVIOUS
    <3>1. r \in Seq(S) /\ IsPrefix(p, r)
      BY <1>3 DEF Under
    <3> QED
      BY <1>3, <3>1, RebasedBack DEF Copies
  <2>6. Copies(u, q, p) = Under(t, p)
    <3>1. ASSUME NEW s \in Copies(u, q, p) PROVE s \in Under(t, p)
      <4>1. PICK r \in Under(u, q) : s = Rebased(r, q, p)
        BY <3>1 DEF Copies
      <4>2. PICK w \in Under(t, p) : r = Rebased(w, p, q)
        BY <2>4, <4>1 DEF Copies
      <4> QED
        BY <2>5, <4>1, <4>2
    <3>2. ASSUME NEW s \in Under(t, p) PROVE s \in Copies(u, q, p)
      BY <2>4, <2>5, <3>2 DEF Copies
    <3> QED
      BY <3>1, <3>2
  <2>7. Under(t, p) \subseteq DOMAIN t
    BY DEF Under
  <2>8. DOMAIN u = (DOMAIN t \ Under(t, p)) \cup Copies(t, p, q)
    BY <1>2 DEF IsRenaming
  <2>9. DOMAIN v = (DOMAIN u \ Under(u, q)) \cup Copies(u, q, p)
    BY <2>2 DEF IsRenaming
  <2>10. DOMAIN v = DOMAIN t
    BY <2>3, <2>4, <2>6, <2>7, <2>8, <2>9
  <2>11. ASSUME NEW s \in DOMAIN t PROVE v[s] = t[s]
    <3>1. CASE s \in Under(t, p)
      <4>1. PICK r : r = Rebased(s, p, q)
        OBVIOUS
      <4>2. r \in Under(u, q) /\ Rebased(r, q, p) = s
        BY <2>4, <2>5, <3>1, <4>1
      <4>3. u[r] = t[s]
        BY <1>2, <3>1, <4>1 DEF IsRenaming
      <4>4. v[Rebased(r, q, p)] = u[r]
        BY <2>2, <4>2 DEF IsRenaming
      <4> QED
        BY <4>2, <4>3, <4>4
    <3>2. CASE s \notin Under(t, p)
      <4>1. s # p /\ s # q
        BY <1>3, <1>7, <3>2 DEF Exists
      <4>2. s \in DOMAIN u /\ s \notin Under(u, q)
        BY <2>3, <2>4, <2>8, <3>2
      <4>3. u[s] = t[s]
        BY <1>2, <3>2, <4>1 DEF IsRenaming
      <4>4. v[s] = u[s]
        BY <2>2, <4>1, <4>2 DEF IsRenaming
      <4> QED
        BY <4>3, <4>4
    <3> QED
      BY <3>1, <3>2
  <2>12. v \in [DOMAIN v -> Nat] /\ t \in [DOMAIN t -> Nat]
    BY <2>2 DEF IsRenaming, IsTree
  <2>13. v = t
    BY <2>10, <2>11, <2>12
  <2> QED
    BY <2>1, <2>13
<1> QED
  BY <1>1, <1>6, <1>7
-----------------------------------------------------------------------------
(* What the operations do to a tree. *)

(* The directory of a path in the tree. *)
LEMMA InADirectory ==
    ASSUME NEW S, NEW t, IsTree(t, S), NEW q, is_directory_exists(t, Front(q))
    PROVE  q # <<>>
<1> SUFFICES ASSUME q = <<>> PROVE FALSE
  OBVIOUS
<1>1. Len(<<>>) = 0 /\ 0 - 1 \in Int /\ 1 \in Int /\ 0 - 1 < 1
  OBVIOUS
<1>2. SubSeq(<<>>, 1, 0 - 1) = <<>>
  BY <1>1, SubSeqEmpty
<1>3. Front(q) = <<>>
  BY <1>1, <1>2 DEF Front
<1> QED
  BY <1>3, TreePaths DEF is_directory_exists

LEMMA AppendIs ==
    ASSUME NEW S, NEW d \in Seq(S), NEW x \in S
    PROVE  /\ Append(d, x) \in Seq(S) /\ Append(d, x) # <<>> /\ Append(d, x) # d
           /\ Front(Append(d, x)) = d /\ Last(Append(d, x)) = x
<1> DEFINE w == Append(d, x)
<1>1. /\ w \in Seq(S) /\ w # <<>> /\ Len(w) = Len(d) + 1
      /\ \A i \in 1 .. Len(d) : w[i] = d[i]
      /\ w[Len(d) + 1] = x
  BY AppendProperties
<1> HIDE DEF w
<1>2. Len(d) \in Nat
  BY LenProperties
<1>3. /\ Front(w) \in Seq(S) /\ Len(Front(w)) = Len(w) - 1
      /\ \A i \in 1 .. Len(w) - 1 : Front(w)[i] = w[i]
  BY <1>1, FrontIs
<1>4. Len(w) - 1 = Len(d) /\ Len(w) # Len(d)
  BY <1>1, <1>2
<1>5. Front(w) = d
  <2>1. \A i \in 1 .. Len(d) : Front(w)[i] = d[i]
    BY <1>1, <1>3, <1>4
  <2> QED
    BY <1>3, <1>4, <2>1, SeqEqual
<1>6. Last(w) = x
  BY <1>1 DEF Last
<1> QED
  BY <1>1, <1>4, <1>5, <1>6 DEF w

LEMMA NothingBelowAFreePath ==
    ASSUME NEW S, NEW t, IsTree(t, S), NEW q \in Seq(S), q # <<>>, ~Exists(t, q), NEW r \in DOMAIN t
    PROVE  ~IsPrefix(q, r)
<1> SUFFICES ASSUME IsPrefix(q, r) PROVE FALSE
  OBVIOUS
<1>1. q # r
  BY DEF Exists
<1> QED
  BY <1>1, Ancestors DEF is_directory_exists, Exists

(* A directory that nothing is directly in has nothing below it. *)
LEMMA EmptyDirectory ==
    ASSUME NEW S, NEW t, IsTree(t, S), NEW q \in DOMAIN t, listdir(t, q) = {}
    PROVE  Under(t, q) \subseteq {q}
<1> SUFFICES ASSUME NEW r \in Under(t, q), r # q PROVE FALSE
  OBVIOUS
<1>1. q \in Seq(S) /\ q # <<>> /\ r \in Seq(S) /\ r \in DOMAIN t /\ IsPrefix(q, r)
  BY TreePaths DEF Under
<1>2. Len(q) \in Nat \ {0} /\ Len(r) \in Nat /\ Len(q) < Len(r)
  BY <1>1, FrontIs, LenProperties, PrefixLengths
<1> DEFINE n == Len(q) + 1
           c == SubSeq(r, 1, n)
<1>3. n \in Nat /\ 1 <= n /\ n <= Len(r) /\ n - 1 + 1 = n /\ \A i \in 1 .. n : 1 + i - 1 = i
  BY <1>2
<1>4. \A i \in 1 .. n : i \in 1 .. Len(r) /\ r[i] \in S
  <2>1. \A i \in 1 .. n : i \in 1 .. Len(r)
    BY <1>2, <1>3
  <2> QED
    BY <1>1, <2>1, ElementOfSeq
<1>5. c \in Seq(S) /\ Len(c) = n /\ \A i \in 1 .. n : c[i] = r[i]
  <2> HIDE DEF n
  <2>1. /\ c \in Seq(S) /\ Len(c) = (IF 1 <= n THEN n - 1 + 1 ELSE 0)
        /\ \A i \in 1 .. n - 1 + 1 : c[i] = r[1 + i - 1]
    BY <1>3, <1>4, SubSeqProperties
  <2> HIDE DEF c
  <2> QED
    BY <1>3, <2>1
<1> HIDE DEF c
<1>6. IsPrefix(c, r)
  BY <1>1, <1>3, <1>5, PrefixIs
<1>7. IsPrefix(q, c)
  <2>1. \A i \in 1 .. Len(q) : r[i] = q[i] /\ i \in 1 .. n
    BY <1>1, <1>2, PrefixIs
  <2>2. \A i \in 1 .. Len(q) : c[i] = q[i]
    BY <1>5, <2>1
  <2>3. Len(q) <= Len(c)
    BY <1>2, <1>5
  <2> QED
    BY <1>1, <1>5, <2>2, <2>3, PrefixIs
<1>8. c # <<>>
  BY <1>3, <1>5, EmptySeq
<1>9. c \in DOMAIN t
  BY <1>1, <1>5, <1>6, <1>8, Ancestors DEF is_directory_exists
<1>10. c \in listdir(t, q)
  BY <1>5, <1>7, <1>9 DEF listdir, Under
<1> QED
  BY <1>10

(* Renaming and moving, when they are possible. *)
LEMMA PutKeepsTree ==
    ASSUME NEW S, NEW t, IsTree(t, S), NEW p \in DOMAIN t, NEW q \in Seq(S),
           p = q \/ MayBePutAt(t, p, q)
    PROVE  /\ IsTree(Renamed(t, p, q), S)
           /\ DOMAIN t \ Under(t, p) \subseteq DOMAIN Renamed(t, p, q)
           /\ p = q \/ ~is_file_exists(t, q) => ContentsOf(t) \subseteq ContentsOf(Renamed(t, p, q))
<1>1. CASE p = q
  <2>1. Renamed(t, p, q) = t
    BY <1>1 DEF Renamed
  <2> QED
    BY <2>1
<1>2. CASE MayBePutAt(t, p, q)
  <2>1. IsRenaming(Renamed(t, p, q), t, p, q, S)
    BY <1>2, RenamedIs
  <2>2. p # q
    BY <1>2 DEF MayBePutAt
  <2> QED
    BY <1>2, <2>1, <2>2, RenamedKeeps DEF IsRenaming
<1> QED
  BY <1>1, <1>2

LEMMA RenameIsPut ==
    ASSUME NEW S, NEW t, IsTree(t, S), NEW p, NEW q \in Seq(S), MayRename(t, p, q)
    PROVE  p \in DOMAIN t /\ (p = q \/ MayBePutAt(t, p, q))
<1>1. p \in DOMAIN t
  BY DEF MayRename, Exists
<1>2. is_directory_exists(t, Front(q)) /\ q # <<>>
  BY InADirectory DEF MayRename
<1> SUFFICES ASSUME p # q PROVE MayBePutAt(t, p, q)
  BY <1>1
<1>3. ~IsPrefix(p, q)
  BY DEF MayRename, IsStrictPrefix
<1>4. ASSUME Exists(t, q) PROVE Under(t, q) \subseteq {q} /\ (t[q] = 0 <=> t[p] = 0)
  <2>1. CASE is_file_exists(t, p) /\ is_file_exists(t, q)
    <3>1. Under(t, q) = {q}
      BY <2>1, NothingBelowFiles
    <3>2. t[p] # 0 /\ t[q] # 0
      BY <2>1, TreePaths DEF is_file_exists
    <3> QED
      BY <3>1, <3>2
  <2>2. CASE is_directory_exists(t, p) /\ is_directory_exists(t, q) /\ listdir(t, q) = {}
    BY <2>2, EmptyDirectory DEF is_directory_exists
  <2> QED
    BY <1>4, <2>1, <2>2 DEF MayRename
<1> QED
  BY <1>2, <1>3, <1>4 DEF MayBePutAt

LEMMA MoveIsPut ==
    ASSUME NEW S, NEW t, IsTree(t, S), NEW p, NEW q \in Seq(S), MayMove(t, p, q),
           NEW target, target = MoveTarget(t, p, q)
    PROVE  /\ p \in DOMAIN t /\ target \in Seq(S) /\ (p = target \/ MayBePutAt(t, p, target))
           /\ ~is_file_exists(t, q) => ~is_file_exists(t, target)
<1>1. p \in DOMAIN t /\ p \in Seq(S) /\ p # <<>> /\ Last(p) \in S
  <2>1. p \in DOMAIN t
    BY DEF MayMove, Exists
  <2> QED
    BY <2>1, TreePaths, FrontIs
<1>2. /\ ~IsStrictPrefix(p, target) /\ is_directory_exists(t, Front(target))
      /\ target # q => ~Exists(t, target)
      /\ Exists(t, target) => p = target \/ t[p] > 0
  BY DEF MayMove
<1>3. target = IF is_directory_exists(t, q) /\ p # q THEN Append(q, Last(p)) ELSE q
  BY DEF MoveTarget
<1>4. Append(q, Last(p)) \in Seq(S) /\ Append(q, Last(p)) # q
  BY <1>1, AppendIs
<1>5. target \in Seq(S)
  BY <1>3, <1>4
<1>6. ~is_file_exists(t, q) => ~is_file_exists(t, target)
  BY <1>2 DEF is_file_exists, Exists
<1>7. ASSUME p # target PROVE MayBePutAt(t, p, target)
  <2>1. target # <<>>
    BY <1>2, InADirectory
  <2>2. ~IsPrefix(p, target)
    BY <1>2, <1>7 DEF IsStrictPrefix
  <2>3. ASSUME Exists(t, target)
        PROVE  Under(t, target) \subseteq {target} /\ (t[target] = 0 <=> t[p] = 0)
    <3>1. target = q /\ t[p] > 0 /\ t[p] # 0
      BY <1>1, <1>2, <1>7, <2>3, TreePaths
    <3>2. ~is_directory_exists(t, q)
      BY <1>3, <1>4, <1>7, <3>1
    <3>3. is_file_exists(t, target) /\ t[target] # 0
      BY <2>3, <3>1, <3>2, TreePaths DEF is_file_exists, is_directory_exists, Exists
    <3> QED
      BY <3>1, <3>3, NothingBelowFiles
  <2> QED
    BY <1>2, <1>7, <2>1, <2>2, <2>3 DEF MayBePutAt
<1> QED
  BY <1>1, <1>5, <1>6, <1>7
-----------------------------------------------------------------------------
(* Copying. *)
LEMMA CopyKeeps ==
    ASSUME NEW S, NEW t, IsTree(t, S), NEW d \in DOMAIN t, NEW e \in Seq(S), e # <<>>, ~Exists(t, e)
    PROVE  /\ \A r \in DOMAIN t : r \notin Copies(t, d, e) /\ Copied(t, d, e)[r] = t[r]
           /\ ContentsOf(t) \subseteq ContentsOf(Copied(t, d, e))
<1>1. d \in Seq(S)
  BY TreePaths
<1>2. IsCopy(Copied(t, d, e), t, d, e, S)
  BY <1>1, CopiedIs
<1>3. \A r \in DOMAIN t : r \notin Copies(t, d, e)
  BY <1>2, NothingBelowAFreePath DEF IsCopy
<1>4. \A r \in DOMAIN t : Copied(t, d, e)[r] = t[r]
  BY <1>2, <1>3 DEF IsCopy
<1>5. DOMAIN t \subseteq DOMAIN Copied(t, d, e)
  BY <1>2 DEF IsCopy
<1>6. ContentsOf(t) \subseteq ContentsOf(Copied(t, d, e))
  BY <1>4, <1>5 DEF ContentsOf, FilesOf
<1> QED
  BY <1>3, <1>4, <1>6

LEMMA FreePathFits ==
    ASSUME NEW S, NEW t, IsTree(t, S), NEW d \in DOMAIN t, NEW e \in Seq(S),
           is_directory_exists(t, Front(e)), ~Exists(t, e)
    PROVE  Fits(t, d, e) /\ e # <<>>
<1>1. e # <<>>
  BY InADirectory
<1>2. ASSUME NEW q \in Under(t, d) PROVE Rebased(q, d, e) \notin DOMAIN t
  <2>1. d \in Seq(S) /\ q \in Seq(S) /\ IsPrefix(d, q)
    BY TreePaths DEF Under
  <2>2. IsPrefix(e, Rebased(q, d, e))
    BY <2>1, RebasedIs
  <2> QED
    BY <1>1, <2>2, NothingBelowAFreePath
<1> QED
  BY <1>1, <1>2 DEF Fits

(* A file, to a file or a free path. *)
LEMMA CopyOfFile ==
    ASSUME NEW S, NEW t, IsTree(t, S), NEW p, NEW q \in Seq(S), MayCopy(t, p, q)
    PROVE  /\ p \in DOMAIN t /\ Fits(t, p, q) /\ q # <<>>
           /\ is_file_exists(Copied(t, p, q), q)
           /\ ~Exists(t, q) => Without(Copied(t, p, q), {q}) = t
<1>1. /\ p \in DOMAIN t /\ p \in Seq(S) /\ t[p] # 0 /\ Under(t, p) = {p} /\ q # <<>>
      /\ is_directory_exists(t, Front(q))
  BY TreePaths, NothingBelowFiles, InADirectory DEF MayCopy, is_file_exists
<1>2. Rebased(p, p, q) = q
  BY <1>1, RebasedSelf
<1>3. q \in DOMAIN t => t[q] # 0
  BY DEF MayCopy, is_directory_exists
<1>4. Fits(t, p, q)
  BY <1>1, <1>2, <1>3 DEF Fits
<1>5. Copies(t, p, q) = {q}
  BY <1>1, <1>2 DEF Copies
<1>6. IsCopy(Copied(t, p, q), t, p, q, S)
  BY <1>1, CopiedIs
<1>7. /\ Copied(t, p, q) \in [DOMAIN t \cup {q} -> Nat] /\ Copied(t, p, q)[q] = t[p]
      /\ \A r \in DOMAIN t \ {q} : Copied(t, p, q)[r] = t[r]
  BY <1>1, <1>2, <1>5, <1>6 DEF IsCopy
<1>8. is_file_exists(Copied(t, p, q), q)
  BY <1>1, <1>7, TreePaths DEF is_file_exists
<1>9. ASSUME ~Exists(t, q) PROVE Without(Copied(t, p, q), {q}) = t
  <2>1. (DOMAIN t \cup {q}) \ {q} = DOMAIN t
    BY <1>9 DEF Exists
  <2>2. Without(Copied(t, p, q), {q}) = [r \in DOMAIN t |-> Copied(t, p, q)[r]]
    BY <1>7, <2>1 DEF Without, Restrict
  <2>3. \A r \in DOMAIN t : Copied(t, p, q)[r] = t[r]
    BY <1>7, <1>9 DEF Exists
  <2>4. t = [r \in DOMAIN t |-> t[r]]
    BY DEF IsTree
  <2> QED
    BY <2>2, <2>3, <2>4
<1> QED
  BY <1>1, <1>4, <1>8, <1>9

(* Removing. *)
LEMMA WithoutFile ==
    ASSUME NEW S, NEW t, IsTree(t, S), NEW q, ~is_directory_exists(t, q)
    PROVE  IsTree(Without(t, {q}), S)
<1>1. \A r \in DOMAIN t : Len(r) > 1 /\ Front(r) \in {q} => r \in {q}
  BY DEF IsTree
<1> QED
  BY <1>1, WithoutIsTree

LEMMA WithoutDirectory ==
    ASSUME NEW S, NEW t, IsTree(t, S), NEW d \in Seq(S)
    PROVE  IsTree(Without(t, Under(t, d)), S) /\ IsTree(Without(t, Under(t, d) \ {d}), S)
<1>1. ASSUME NEW r \in DOMAIN t, Len(r) > 1, Front(r) \in Under(t, d)
      PROVE  r \in Under(t, d) \ {d}
  <2>1. r \in Seq(S) /\ r # <<>> /\ IsPrefix(d, Front(r))
    BY <1>1, TreePaths DEF Under
  <2>2. IsPrefix(d, r) /\ d # r
    BY <2>1, PrefixOfFront
  <2> QED
    BY <2>2 DEF Under
<1> QED
  BY <1>1, WithoutIsTree

LEMMA WithoutEmpty ==
    ASSUME NEW S, NEW t, IsTree(t, S), NEW d \in Seq(S)
    PROVE  /\ IsTree(Without(t, EmptyDirectories(t, d)), S)
           /\ ContentsOf(t) \subseteq ContentsOf(Without(t, EmptyDirectories(t, d)))
<1> DEFINE gone == EmptyDirectories(t, d)
<1>1. \A e \in gone : e \in DOMAIN t /\ t[e] = 0
  BY DEF EmptyDirectories, Under
<1>2. ASSUME NEW r \in DOMAIN t, Len(r) > 1, Front(r) \in gone PROVE r \in gone
  <2>1. /\ r \in Seq(S) /\ r # <<>> /\ Front(r) \in Seq(S) /\ Front(r) \in DOMAIN t
        /\ IsPrefix(d, Front(r)) /\ Under(t, Front(r)) \cap FilesOf(t) = {}
    BY <1>2, TreePaths DEF EmptyDirectories, Under
  <2>2. IsPrefix(d, r) /\ IsPrefix(Front(r), r)
    BY <2>1, PrefixOfFront
  <2>3. \A s \in Under(t, r) : s \in Under(t, Front(r))
    <3> SUFFICES ASSUME NEW s \in Under(t, r) PROVE s \in Under(t, Front(r))
      OBVIOUS
    <3>1. s \in DOMAIN t /\ s \in Seq(S) /\ IsPrefix(r, s)
      BY TreePaths DEF Under
    <3> QED
      BY <2>1, <2>2, <3>1, PrefixesChain DEF Under
  <2>4. r \in Under(t, Front(r))
    BY <2>2 DEF Under
  <2>5. t[r] = 0
    BY <2>1, <2>4, TreePaths DEF FilesOf
  <2> QED
    BY <2>1, <2>2, <2>3, <2>5 DEF EmptyDirectories, Under
<1> HIDE DEF gone
<1>3. /\ IsTree(Without(t, gone), S) /\ DOMAIN Without(t, gone) = DOMAIN t \ gone
      /\ \A r \in DOMAIN t \ gone : Without(t, gone)[r] = t[r]
  BY <1>2, WithoutIsTree
<1>4. FilesOf(t) \cap gone = {}
  BY <1>1 DEF FilesOf
<1>5. ContentsOf(t) \subseteq ContentsOf(Without(t, gone))
  BY <1>3, <1>4 DEF ContentsOf, FilesOf
<1> QED
  BY <1>3, <1>5 DEF gone

(* Making a directory with its parents. *)
LEMMA ParentsAre ==
    ASSUME NEW S, NEW d \in Seq(S), d # <<>>
    PROVE  /\ d \in Parents(d) /\ IsFiniteSet(Parents(d))
           /\ \A e \in Parents(d) : /\ e \in Seq(S) /\ e # <<>>
                                    /\ Len(e) > 1 => Front(e) \in Parents(d)
<1> DEFINE P(i) == SubSeq(d, 1, i)
<1>1. Len(d) \in Nat \ {0}
  BY FrontIs
<1>2. \A i \in 1 .. Len(d) : P(i) \in Seq(S) /\ Len(P(i)) = i /\ \A k \in 1 .. i : P(i)[k] = d[k]
  <2> SUFFICES ASSUME NEW i \in 1 .. Len(d)
               PROVE  P(i) \in Seq(S) /\ Len(P(i)) = i /\ \A k \in 1 .. i : P(i)[k] = d[k]
    OBVIOUS
  <2>1. i \in Int /\ 1 <= i /\ i - 1 + 1 = i /\ \A k \in 1 .. i : k \in 1 .. Len(d) /\ 1 + k - 1 = k
    BY <1>1
  <2>2. \A k \in 1 .. i : d[k] \in S
    BY <2>1, ElementOfSeq
  <2>3. /\ P(i) \in Seq(S) /\ Len(P(i)) = (IF 1 <= i THEN i - 1 + 1 ELSE 0)
        /\ \A k \in 1 .. i - 1 + 1 : P(i)[k] = d[1 + k - 1]
    BY <2>1, <2>2, SubSeqProperties
  <2> HIDE DEF P
  <2> QED
    BY <2>1, <2>3
<1>3. Parents(d) = {P(i) : i \in 1 .. Len(d)}
  BY DEF Parents
<1>4. P(Len(d)) = d
  BY SubSeqFull
<1>5. IsFiniteSet(Parents(d))
  <2> DEFINE f == [i \in 1 .. Len(d) |-> P(i)]
  <2>1. f \in Surjection(1 .. Len(d), Parents(d))
    BY <1>3 DEF Surjection
  <2>2. IsFiniteSet(1 .. Len(d))
    BY <1>1, FS_Interval
  <2> HIDE DEF f
  <2> QED
    BY <2>1, <2>2, FS_Surjection
<1> HIDE DEF P
<1>6. d \in Parents(d)
  <2>1. Len(d) \in 1 .. Len(d)
    BY <1>1
  <2> QED
    BY <1>3, <1>4, <2>1
<1>7. ASSUME NEW e \in Parents(d)
      PROVE  e \in Seq(S) /\ e # <<>> /\ (Len(e) > 1 => Front(e) \in Parents(d))
  <2>1. PICK i \in 1 .. Len(d) : e = P(i)
    BY <1>3
  <2>2. e \in Seq(S) /\ Len(e) = i /\ (\A k \in 1 .. i : e[k] = d[k]) /\ i # 0
    BY <1>1, <1>2, <2>1
  <2>3. e # <<>>
    BY <2>2, EmptySeq
  <2>4. ASSUME i > 1 PROVE Front(e) \in Parents(d)
    <3>1. PICK j \in 1 .. Len(d) : j = i - 1
      BY <1>1, <2>4
    <3>2. Front(e) \in Seq(S) /\ Len(Front(e)) = j /\ \A k \in 1 .. j : Front(e)[k] = e[k]
      BY <2>2, <2>3, <3>1, FrontIs
    <3>3. \A k \in 1 .. j : k \in 1 .. i
      BY <1>1, <3>1
    <3>4. P(j) \in Seq(S) /\ Len(P(j)) = j /\ \A k \in 1 .. j : P(j)[k] = Front(e)[k]
      BY <1>2, <2>2, <3>2, <3>3
    <3>5. P(j) = Front(e)
      BY <3>2, <3>4, SeqEqual
    <3> QED
      BY <1>3, <3>5
  <2> QED
    BY <2>2, <2>3, <2>4
<1> QED
  BY <1>5, <1>6, <1>7

LEMMA MadeIsTree ==
    ASSUME NEW S, NEW t, IsTree(t, S), NEW d \in Seq(S), d # <<>>, MayMake(t, d)
    PROVE  /\ IsTree(Made(t, d), S) /\ DOMAIN t \subseteq DOMAIN Made(t, d)
           /\ is_directory_exists(Made(t, d), d)
           /\ ContentsOf(t) \subseteq ContentsOf(Made(t, d))
<1> DEFINE m == Made(t, d)
<1>1. /\ d \in Parents(d) /\ IsFiniteSet(Parents(d))
      /\ \A e \in Parents(d) : e \in Seq(S) /\ e # <<>> /\ (Len(e) > 1 => Front(e) \in Parents(d))
  BY ParentsAre
<1>2. m = [p \in DOMAIN t \cup Parents(d) |-> IF p \in DOMAIN t THEN t[p] ELSE 0]
  BY DEF Made
<1>3. \A p \in DOMAIN t : t[p] \in Nat /\ p \in Seq(S) /\ p # <<>>
  BY TreePaths
<1> HIDE DEF m
<1>4. /\ m \in [DOMAIN t \cup Parents(d) -> Nat] /\ DOMAIN m = DOMAIN t \cup Parents(d)
      /\ \A p \in DOMAIN t : m[p] = t[p]
  BY <1>2, <1>3
<1>5. \A e \in Parents(d) : m[e] = 0
  <2> SUFFICES ASSUME NEW e \in Parents(d) PROVE m[e] = 0
    OBVIOUS
  <2>1. ~is_file_exists(t, e)
    BY DEF MayMake
  <2> QED
    BY <1>2, <2>1, TreePaths DEF is_file_exists
<1>6. IsFiniteSet(DOMAIN m)
  <2>1. IsFiniteSet(DOMAIN t)
    BY DEF IsTree
  <2> QED
    BY <1>1, <1>4, <2>1, FS_Union
<1>7. \A p \in DOMAIN t : Len(p) > 1 => is_directory_exists(m, Front(p))
  BY <1>4 DEF IsTree, is_directory_exists
<1>8. \A p \in Parents(d) : Len(p) > 1 => is_directory_exists(m, Front(p))
  BY <1>1, <1>4, <1>5 DEF is_directory_exists
<1>9. IsTree(m, S)
  BY <1>1, <1>3, <1>4, <1>6, <1>7, <1>8 DEF IsTree
<1>10. is_directory_exists(m, d)
  BY <1>1, <1>4, <1>5 DEF is_directory_exists
<1>11. ContentsOf(t) \subseteq ContentsOf(m)
  BY <1>4 DEF ContentsOf, FilesOf
<1> QED
  BY <1>4, <1>9, <1>10, <1>11 DEF m
-----------------------------------------------------------------------------
(* Names. *)
LEMMA FsBounds ==
    /\ MaxFsCalls \in Nat
    /\ \A p \in FsPaths \cup FsDirs : p \in Seq(Names(0)) /\ p # <<>>
    /\ \A t \in FirstTrees : IsTree(t, Names(0))
  BY FsAssumption DEF IsTree, is_directory_exists

LEMMA MoreNames ==
    ASSUME NEW m \in Nat, NEW n \in Nat, m <= n
    PROVE  /\ Names(m) \subseteq Names(n)
           /\ Seq(Names(m)) \subseteq Seq(Names(n))
<1>1. 0 .. m \subseteq 0 .. n
  OBVIOUS
<1>2. Names(m) \subseteq Names(n)
  BY <1>1 DEF Names
<1>3. ASSUME NEW s \in Seq(Names(m)) PROVE s \in Seq(Names(n))
  <2>1. Len(s) \in Nat /\ s = [i \in 1 .. Len(s) |-> s[i]]
    BY LenProperties, SeqDef
  <2>2. \A i \in 1 .. Len(s) : s[i] \in Names(n)
    BY <1>2, ElementOfSeq
  <2> QED
    BY <2>1, <2>2, SeqDef
<1> QED
  BY <1>2, <1>3

LEMMA SanitizedIs ==
    ASSUME NEW n \in Nat, NEW p \in Seq(Names(n)), p # <<>>
    PROVE  Sanitized(p) \in Seq(Names(n)) /\ Sanitized(p) # <<>>
<1> DEFINE x == [Last(p) EXCEPT !.stem = CleanStem[@]]
<1>1. Front(p) \in Seq(Names(n)) /\ Last(p) \in Names(n)
  BY FrontIs
<1>2. x \in Names(n)
  BY <1>1, FsAssumption DEF Names
<1> HIDE DEF x
<1>3. Append(Front(p), x) \in Seq(Names(n)) /\ Append(Front(p), x) # <<>>
  BY <1>1, <1>2, AppendIs
<1> QED
  BY <1>3 DEF Sanitized, x

CountedName(p, k) == IF k = 0 THEN p ELSE WithCounter(p, [i \in 1 .. k |-> i])

LEMMA CountedNameIs ==
    ASSUME NEW n \in Nat, NEW p \in Seq(Names(n)), p # <<>>, NEW k \in Nat
    PROVE  /\ CountedName(p, k) \in Seq(Names(n)) /\ CountedName(p, k) # <<>>
           /\ Len(Last(p).counters) \in Nat
           /\ Len(Last(CountedName(p, k)).counters) = Len(Last(p).counters) + k
<1>1. Front(p) \in Seq(Names(n)) /\ Last(p) \in Names(n)
  BY FrontIs
<1>2. Last(p).counters \in Seq(Nat) /\ Len(Last(p).counters) \in Nat
  <2>1. Last(p).counters \in Seq(Nat)
    BY <1>1 DEF Names
  <2> QED
    BY <2>1, LenProperties
<1>3. CASE k = 0
  BY <1>2, <1>3 DEF CountedName
<1>4. CASE k # 0
  <2> DEFINE c == [i \in 1 .. k |-> i]
             x == [Last(p) EXCEPT !.counters = @ \o c]
  <2>1. c \in Seq(Nat) /\ Len(c) = k
    <3>1. c \in [1 .. k -> Nat]
      OBVIOUS
    <3>2. c \in Seq(Nat)
      BY <3>1, SeqDef
    <3>3. DOMAIN c = 1 .. k
      OBVIOUS
    <3> HIDE DEF c
    <3>4. DOMAIN c = 1 .. Len(c) /\ Len(c) \in Nat
      BY <3>2, LenProperties
    <3>5. \A a, b \in Nat : 1 .. a = 1 .. b => a = b
      OBVIOUS
    <3> QED
      BY <3>2, <3>3, <3>4, <3>5
  <2> HIDE DEF c
  <2>2. PICK s : s = Last(p).counters \o c
    OBVIOUS
  <2>3. s \in Seq(Nat) /\ Len(s) = Len(Last(p).counters) + k
    BY <1>2, <2>1, <2>2, ConcatProperties
  <2>4. x = [Last(p) EXCEPT !.counters = s]
    BY <2>2
  <2>5. x \in Names(n) /\ x.counters = s
    BY <1>1, <2>3, <2>4 DEF Names
  <2> HIDE DEF x
  <2>6. CountedName(p, k) = Append(Front(p), x)
    BY <1>4 DEF CountedName, WithCounter, x, c
  <2>7. /\ Append(Front(p), x) \in Seq(Names(n)) /\ Append(Front(p), x) # <<>>
        /\ Last(Append(Front(p), x)) = x
    BY <1>1, <2>5, AppendIs
  <2> QED
    BY <1>2, <2>3, <2>5, <2>6, <2>7
<1> QED
  BY <1>3, <1>4

(* The name found has no file: there are more names to try than files.     *)
LEMMA FreeNameIsFree ==
    ASSUME NEW n \in Nat, NEW t, IsTree(t, Names(n)), NEW p \in Seq(Names(n)), p # <<>>
    PROVE  FreeName(t, p) \in Seq(Names(n)) /\ ~is_file_exists(t, FreeName(t, p))
<1> DEFINE new == Sanitized(p)
           C == Cardinality(FilesOf(t))
           free == {k \in 0 .. C : ~is_file_exists(t, CountedName(new, k))}
<1>1. new \in Seq(Names(n)) /\ new # <<>>
  BY SanitizedIs
<1>2. IsFiniteSet(FilesOf(t)) /\ C \in Nat
  <2>1. IsFiniteSet(DOMAIN t) /\ FilesOf(t) \in SUBSET DOMAIN t
    BY DEF IsTree, FilesOf
  <2>2. IsFiniteSet(FilesOf(t))
    BY <2>1, FS_Subset
  <2> QED
    BY <2>2, FS_CardinalityType
<1> HIDE DEF new
<1>3. free # {}
  <2> SUFFICES ASSUME \A k \in 0 .. C : is_file_exists(t, CountedName(new, k)) PROVE FALSE
    OBVIOUS
  <2> DEFINE f == [k \in 0 .. C |-> CountedName(new, k)]
  <2>1. \A k \in 0 .. C : CountedName(new, k) \in FilesOf(t)
    BY DEF is_file_exists, FilesOf
  <2>2. ASSUME NEW i \in 0 .. C, NEW k \in 0 .. C, CountedName(new, i) = CountedName(new, k)
        PROVE  i = k
    <3>1. i \in Nat /\ k \in Nat
      BY <1>2
    <3>2. PICK l \in Nat : l = Len(Last(new).counters)
      BY <1>1, CountedNameIs
    <3>3. Len(Last(CountedName(new, i)).counters) = l + i
      BY <1>1, <3>1, <3>2, CountedNameIs
    <3>4. Len(Last(CountedName(new, k)).counters) = l + k
      BY <1>1, <3>1, <3>2, CountedNameIs
    <3> QED
      BY <2>2, <3>1, <3>3, <3>4
  <2>3. f \in Injection(0 .. C, FilesOf(t))
    <3> HIDE DEF C
    <3>1. \A i \in 0 .. C : f[i] = CountedName(new, i)
      OBVIOUS
    <3>2. f \in [0 .. C -> FilesOf(t)]
      BY <2>1
    <3> HIDE DEF f
    <3>3. \A i, k \in 0 .. C : f[i] = f[k] => i = k
      BY <2>2, <3>1
    <3> QED
      BY <3>2, <3>3 DEF Injection, IsInjective
  <2> HIDE DEF f, C
  <2>4. Cardinality(0 .. C) <= Cardinality(FilesOf(t))
    BY <1>2, <2>3, FS_Injection
  <2>5. Cardinality(0 .. C) = C + 1
    <3>1. 0 \in Int /\ C \in Int /\ ~(0 > C) /\ C - 0 + 1 = C + 1
      BY <1>2
    <3> QED
      BY <3>1, FS_Interval
  <2>6. C + 1 <= C
    BY <2>4, <2>5 DEF C
  <2> QED
    BY <1>2, <2>6
<1>4. free \in SUBSET Nat
  BY <1>2
<1>5. FreeName(t, p) = CountedName(new, CHOOSE k \in free : \A i \in free : k <= i)
  BY DEF FreeName, CountedName, new
<1>6. PICK k \in free : k = CHOOSE i \in free : \A j \in free : i <= j
  <2> HIDE DEF free
  <2>1. \E i \in free : \A j \in free : i <= j
    BY <1>3, <1>4, LeastNat
  <2> QED
    BY <2>1
<1>7. k \in Nat /\ ~is_file_exists(t, CountedName(new, k))
  BY <1>2
<1> QED
  BY <1>1, <1>5, <1>6, <1>7, CountedNameIs
-----------------------------------------------------------------------------
(* The operations, one after another. *)

FsTypes ==
    /\ fsCalls \in Nat
    /\ IsTree(tree, Names(fsCalls)) /\ IsTree(before, Names(fsCalls))
    /\ outcome \in {"idle", "runs", "body", "returned", "raised"}
    /\ fsTodo \subseteq DOMAIN tree

(* The operations that take the entries of one directory. *)
EntryLoops == {"move_top_level_files", "move_folder_contents", "copy_files_from_folder"}
LoopsAre ==
    outcome = "runs" =>
        \/ call.op = "rename_files_and_directories" /\ call.overwrite
        \/ /\ call.op \in EntryLoops /\ call.to \in Seq(Names(fsCalls))
           /\ \A p, q \in fsTodo : Len(p) = Len(q)
           /\ call.op = "copy_files_from_folder" => is_directory_exists(tree, call.to)

(* In a with block the tree is what the with statement made of the one before. *)
BodyIs ==
    outcome = "body" =>
        /\ call.overwrite /\ call.to \in Seq(Names(fsCalls))
        /\ \/ /\ call.op = "temporary_copy" /\ MayCopy(before, call.from, call.to)
              /\ tree = Copied(before, call.from, call.to)
           \/ /\ call.op = "temporary_rename" /\ MayRename(before, call.from, call.to)
              /\ tree = Renamed(before, call.from, call.to)

FsIInv == FsTypes /\ LoopsAre /\ BodyIs /\ FilesAreKept

LEMMA FsNames ==
    ASSUME FsTypes
    PROVE  /\ fsCalls \in Nat /\ fsCalls + 1 \in Nat
           /\ IsTree(tree, Names(fsCalls + 1))
           /\ \A p \in FsPaths \cup FsDirs : p \in Seq(Names(fsCalls + 1)) /\ p # <<>>
           /\ \A p \in DOMAIN tree : p \in Seq(Names(fsCalls)) /\ p \in Seq(Names(fsCalls + 1))
<1>1. fsCalls \in Nat /\ fsCalls + 1 \in Nat /\ fsCalls <= fsCalls + 1 /\ 0 <= fsCalls + 1
  BY DEF FsTypes
<1>2. IsTree(tree, Names(fsCalls + 1)) /\ IsTree(tree, Names(fsCalls))
  BY <1>1, MoreNames, TreeOfMoreNames DEF FsTypes
<1>3. \A p \in FsPaths \cup FsDirs : p \in Seq(Names(fsCalls + 1)) /\ p # <<>>
  <2>1. Seq(Names(0)) \subseteq Seq(Names(fsCalls + 1))
    BY <1>1, MoreNames
  <2> QED
    BY <2>1, FsBounds
<1> QED
  BY <1>1, <1>2, <1>3, TreePaths

(* A call that ends at once. *)
LEMMA CallEnds ==
    ASSUME FsIInv, NEW op, NEW from, NEW to, NEW overwrite, Calls(op, from, to, overwrite),
           IsTree(tree', Names(fsCalls + 1)),
           outcome' \in {"returned", "raised"}, fsTodo' = {},
           overwrite \/ ContentsOf(tree) \subseteq ContentsOf(tree'),
           op \in {"temporary_rename", "temporary_copy"} /\ ~Exists(tree, to) => tree' = tree
    PROVE  FsIInv'
<1>1. /\ fsCalls' = fsCalls + 1 /\ before' = tree
      /\ call'.op = op /\ call'.to = to /\ call'.overwrite = overwrite
  BY DEF Calls
<1>2. fsCalls' \in Nat /\ IsTree(tree', Names(fsCalls')) /\ IsTree(before', Names(fsCalls'))
  BY <1>1, FsNames DEF FsIInv
<1>3. FsTypes'
  BY <1>2 DEF FsTypes
<1>4. outcome' # "runs" /\ outcome' # "body"
  OBVIOUS
<1>5. LoopsAre' /\ BodyIs'
  BY <1>4 DEF LoopsAre, BodyIs
<1>6. NoContentIsLost'
  BY <1>1 DEF NoContentIsLost
<1>7. TemporaryIsUndone'
  BY <1>1 DEF TemporaryIsUndone
<1> QED
  BY <1>3, <1>5, <1>6, <1>7 DEF FsIInv, FilesAreKept

LEMMA CallReturnsOrRaises ==
    ASSUME FsIInv, NEW op, NEW from, NEW to, NEW overwrite, Calls(op, from, to, overwrite),
           op \notin {"temporary_rename", "temporary_copy"},
           NEW may, NEW t, NEW path, ReturnsIf(may, t, path),
           may => /\ IsTree(t, Names(fsCalls + 1))
                  /\ overwrite \/ ContentsOf(tree) \subseteq ContentsOf(t)
    PROVE  FsIInv'
<1>1. IsTree(tree, Names(fsCalls + 1))
  BY FsNames DEF FsIInv
<1>2. CASE may
  <2>1. tree' = t /\ outcome' = "returned" /\ fsTodo' = {}
    BY <1>2 DEF ReturnsIf, Returns
  <2> QED
    BY <1>2, <2>1, CallEnds
<1>3. CASE ~may
  <2>1. tree' = tree /\ outcome' = "raised" /\ fsTodo' = {}
    BY <1>3 DEF ReturnsIf, Raises
  <2> QED
    BY <1>1, <2>1, CallEnds
<1> QED
  BY <1>2, <1>3

(* A call that goes on, over entries or in a with block. *)
LEMMA CallGoesOn ==
    ASSUME FsIInv, NEW op, NEW from, NEW to, NEW overwrite, Calls(op, from, to, overwrite),
           IsTree(tree', Names(fsCalls + 1)), outcome' \in {"runs", "body"},
           fsTodo' \subseteq DOMAIN tree', LoopsAre', BodyIs',
           overwrite \/ ContentsOf(tree) \subseteq ContentsOf(tree')
    PROVE  FsIInv'
<1>1. /\ fsCalls' = fsCalls + 1 /\ before' = tree /\ call'.overwrite = overwrite
  BY DEF Calls
<1>2. fsCalls' \in Nat /\ IsTree(tree', Names(fsCalls')) /\ IsTree(before', Names(fsCalls'))
  BY <1>1, FsNames DEF FsIInv
<1>3. FsTypes'
  BY <1>2 DEF FsTypes
<1>4. NoContentIsLost'
  BY <1>1 DEF NoContentIsLost
<1>5. TemporaryIsUndone'
  BY DEF TemporaryIsUndone
<1> QED
  BY <1>3, <1>4, <1>5 DEF FsIInv, FilesAreKept

(* A call takes the next of its entries, or raises. *)
LEMMA EntryTaken ==
    ASSUME FsIInv, NEW p, NEW may, NEW t, LoopStep(p, may, t), call.op \in EntryLoops,
           may => /\ IsTree(t, Names(fsCalls))
                  /\ DOMAIN tree \ Under(tree, p) \subseteq DOMAIN t
                  /\ call.overwrite \/ ContentsOf(tree) \subseteq ContentsOf(t)
                  /\ call.op = "copy_files_from_folder" => is_directory_exists(t, call.to)
    PROVE  FsIInv'
<1>1. /\ outcome = "runs" /\ p \in fsTodo /\ p \in DOMAIN tree
      /\ call' = call /\ before' = before /\ fsCalls' = fsCalls
  BY DEF LoopStep, FsIInv, FsTypes
<1>2. /\ call.to \in Seq(Names(fsCalls)) /\ \A q, r \in fsTodo : Len(q) = Len(r)
      /\ call.op = "copy_files_from_folder" => is_directory_exists(tree, call.to)
  BY <1>1 DEF FsIInv, LoopsAre, EntryLoops
<1>3. NoContentIsLost /\ FsTypes
  BY DEF FsIInv, FilesAreKept
<1>4. call.op \notin {"temporary_rename", "temporary_copy"}
  BY DEF EntryLoops
<1>5. TemporaryIsUndone'
  BY <1>1, <1>4 DEF TemporaryIsUndone
<1>6. CASE may
  <2>1. tree' = t /\ fsTodo' = fsTodo \ {p} /\ outcome' = "runs"
    BY <1>1, <1>6 DEF LoopStep
  <2>2. fsTodo' \subseteq DOMAIN t
    <3> SUFFICES ASSUME NEW q \in fsTodo, q # p PROVE q \in DOMAIN t
      BY <2>1
    <3>1. q \in DOMAIN tree /\ q \in Seq(Names(fsCalls)) /\ p \in Seq(Names(fsCalls))
      BY <1>1, <1>3, FsNames DEF FsTypes
    <3>2. Len(p) = Len(q)
      BY <1>1, <1>2
    <3>3. ~IsPrefix(p, q)
      BY <3>1, <3>2, PrefixLengths
    <3> QED
      BY <1>6, <3>1, <3>3 DEF Under
  <2>3. FsTypes'
    BY <1>1, <1>3, <1>6, <2>1, <2>2 DEF FsTypes
  <2>4. \A q, r \in fsTodo' : Len(q) = Len(r)
    BY <1>2, <2>1
  <2>5. LoopsAre' /\ BodyIs'
    BY <1>1, <1>2, <1>6, <2>1, <2>4 DEF LoopsAre, BodyIs
  <2>6. NoContentIsLost'
    BY <1>1, <1>3, <1>6, <2>1 DEF NoContentIsLost
  <2> QED
    BY <1>5, <2>3, <2>5, <2>6 DEF FsIInv, FilesAreKept
<1>7. CASE ~may
  <2>1. tree' = tree /\ fsTodo' = {} /\ outcome' = "raised"
    BY <1>7 DEF LoopStep, Raises
  <2>2. FsTypes'
    BY <1>1, <1>3, <2>1 DEF FsTypes
  <2>3. LoopsAre' /\ BodyIs'
    BY <2>1 DEF LoopsAre, BodyIs
  <2>4. NoContentIsLost'
    BY <1>1, <1>3, <2>1 DEF NoContentIsLost
  <2> QED
    BY <1>5, <2>2, <2>3, <2>4 DEF FsIInv, FilesAreKept
<1> QED
  BY <1>6, <1>7
-----------------------------------------------------------------------------
LEMMA RemovingStep ==
    ASSUME FsIInv, NEW p \in FsPaths \cup FsDirs,
           \/ remove_file(p) \/ remove_directory(p) \/ clear_directory(p)
           \/ remove_empty_directories(p) \/ create_directory(p)
    PROVE  FsIInv'
<1> DEFINE S == Names(fsCalls + 1)
<1>1. IsTree(tree, S) /\ p \in Seq(S) /\ p # <<>>
  BY FsNames DEF FsIInv
<1> HIDE DEF S
<1>2. CASE remove_file(p)
  <2>1. /\ Calls("remove_file", p, p, TRUE)
        /\ ReturnsIf(~is_directory_exists(tree, p), Without(tree, {p}), <<>>)
    BY <1>2 DEF remove_file
  <2>2. ~is_directory_exists(tree, p) => IsTree(Without(tree, {p}), S)
    BY <1>1, WithoutFile
  <2> QED
    BY <2>1, <2>2, CallReturnsOrRaises DEF S
<1>3. CASE remove_directory(p)
  <2>1. /\ Calls("remove_directory", p, p, TRUE)
        /\ ReturnsIf(~is_file_exists(tree, p), Without(tree, Under(tree, p)), <<>>)
    BY <1>3 DEF remove_directory
  <2>2. IsTree(Without(tree, Under(tree, p)), S)
    BY <1>1, WithoutDirectory
  <2> QED
    BY <2>1, <2>2, CallReturnsOrRaises DEF S
<1>4. CASE clear_directory(p)
  <2>1. /\ Calls("clear_directory", p, p, TRUE)
        /\ ReturnsIf(is_directory_exists(tree, p), Without(tree, Under(tree, p) \ {p}), <<>>)
    BY <1>4 DEF clear_directory
  <2>2. IsTree(Without(tree, Under(tree, p) \ {p}), S)
    BY <1>1, WithoutDirectory
  <2> QED
    BY <2>1, <2>2, CallReturnsOrRaises DEF S
<1>5. CASE remove_empty_directories(p)
  <2>1. PICK t : t = IF is_directory_exists(tree, p)
                     THEN Without(tree, EmptyDirectories(tree, p)) ELSE tree
    OBVIOUS
  <2>2. Calls("remove_empty_directories", p, p, FALSE) /\ Returns(t, <<>>)
    BY <1>5, <2>1 DEF remove_empty_directories
  <2>3. ReturnsIf(TRUE, t, <<>>)
    BY <2>2 DEF ReturnsIf
  <2>4. IsTree(t, S) /\ ContentsOf(tree) \subseteq ContentsOf(t)
    BY <1>1, <2>1, WithoutEmpty
  <2> QED
    BY <2>2, <2>3, <2>4, CallReturnsOrRaises DEF S
<1>6. CASE create_directory(p)
  <2>1. /\ Calls("create_directory", p, p, FALSE)
        /\ ReturnsIf(MayMake(tree, p), Made(tree, p), <<>>)
    BY <1>6 DEF create_directory
  <2>2. MayMake(tree, p) =>
           IsTree(Made(tree, p), S) /\ ContentsOf(tree) \subseteq ContentsOf(Made(tree, p))
    BY <1>1, MadeIsTree
  <2> QED
    BY <2>1, <2>2, CallReturnsOrRaises DEF S
<1> QED
  BY <1>2, <1>3, <1>4, <1>5, <1>6

LEMMA RenamingStep ==
    ASSUME FsIInv,
           \/ \E p \in FsPaths : \/ rename_file_with_special_characters(p)
                                 \/ \E s \in Stems : rename_file(p, Name(s))
           \/ \E d \in FsDirs : rename_files_and_directories_with_special_characters(d)
           \/ \E p \in fsTodo : rename_next(p)
    PROVE  FsIInv'
<1> DEFINE S == Names(fsCalls + 1)
<1>1. /\ IsTree(tree, S) /\ fsCalls \in Nat /\ fsCalls + 1 \in Nat /\ FsTypes
      /\ \A p \in FsPaths : p \in Seq(S) /\ p # <<>>
  BY FsNames DEF FsIInv
<1> HIDE DEF S
<1>2. ASSUME NEW p \in FsPaths, rename_file_with_special_characters(p) PROVE FsIInv'
  <2>1. PICK new : new = FreeName(tree, p)
    OBVIOUS
  <2>2. /\ Calls("rename_file_with_special_characters", p, new, FALSE)
        /\ ReturnsIf(MayRename(tree, p, new), Renamed(tree, p, new), new)
    BY <1>2, <2>1 DEF rename_file_with_special_characters
  <2>3. new \in Seq(S) /\ ~is_file_exists(tree, new)
    BY <1>1, <2>1, FreeNameIsFree DEF S
  <2>4. MayRename(tree, p, new) => /\ IsTree(Renamed(tree, p, new), S)
                                   /\ ContentsOf(tree) \subseteq ContentsOf(Renamed(tree, p, new))
    BY <1>1, <2>3, RenameIsPut, PutKeepsTree
  <2> QED
    BY <2>2, <2>4, CallReturnsOrRaises DEF S
<1>3. ASSUME NEW p \in FsPaths, NEW s \in Stems, rename_file(p, Name(s)) PROVE FsIInv'
  <2>1. PICK new : new = Append(Front(p), Name(s))
    OBVIOUS
  <2>2. /\ Calls("rename_file", p, new, TRUE)
        /\ ReturnsIf(MayRename(tree, p, new), Renamed(tree, p, new), <<>>)
    BY <1>3, <2>1 DEF rename_file
  <2>3. Name(s) \in S
    <3>1. s \in DOMAIN CleanStem /\ 0 \in 0 .. fsCalls + 1 /\ <<>> \in Seq(Nat)
      BY <1>1, FsAssumption, EmptySeq
    <3> QED
      BY <3>1 DEF Name, Names, S
  <2>4. new \in Seq(S)
    <3>1. Front(p) \in Seq(S)
      BY <1>1, FrontIs
    <3> QED
      BY <2>1, <2>3, <3>1, AppendIs
  <2>5. MayRename(tree, p, new) => IsTree(Renamed(tree, p, new), S)
    BY <1>1, <2>4, RenameIsPut, PutKeepsTree
  <2> QED
    BY <2>2, <2>5, CallReturnsOrRaises DEF S
<1>4. ASSUME NEW d \in FsDirs, rename_files_and_directories_with_special_characters(d)
      PROVE  FsIInv'
  <2>1. /\ Calls("rename_files_and_directories", d, d, TRUE)
        /\ outcome' = "runs" /\ fsTodo' = Under(tree, d) \ {d} /\ tree' = tree
    BY <1>4 DEF rename_files_and_directories_with_special_characters
  <2>2. call'.op = "rename_files_and_directories" /\ call'.overwrite
    BY <2>1 DEF Calls
  <2>3. LoopsAre' /\ BodyIs'
    BY <2>1, <2>2 DEF LoopsAre, BodyIs
  <2>4. fsTodo' \subseteq DOMAIN tree' /\ IsTree(tree', Names(fsCalls + 1))
    BY <1>1, <2>1 DEF Under, S
  <2> QED
    BY <2>1, <2>3, <2>4, CallGoesOn
<1>5. ASSUME NEW p \in fsTodo, rename_next(p) PROVE FsIInv'
  <2> DEFINE q == Sanitized(p)
  <2>1. /\ outcome = "runs" /\ call.op = "rename_files_and_directories" /\ p \in DOMAIN tree
        /\ \A r \in fsTodo \ {p} : ~IsPrefix(p, r)
        /\ call' = call /\ before' = before /\ fsCalls' = fsCalls
    BY <1>1, <1>5 DEF rename_next, FsTypes
  <2>2. call.overwrite
    BY <2>1 DEF FsIInv, LoopsAre, EntryLoops
  <2>3. p \in Seq(Names(fsCalls)) /\ p # <<>> /\ IsTree(tree, Names(fsCalls))
    BY <1>1, <2>1, FsNames, TreePaths DEF FsTypes
  <2>4. q \in Seq(Names(fsCalls))
    BY <1>1, <2>3, SanitizedIs
  <2> HIDE DEF q
  <2>5. /\ IsTree(tree', Names(fsCalls)) /\ fsTodo' \subseteq DOMAIN tree'
        /\ outcome' \in {"runs", "raised"}
    <3>1. CASE Last(q) = Last(p)
      <4>1. fsTodo' = fsTodo \ {p} /\ tree' = tree /\ outcome' = outcome
        BY <1>5, <3>1 DEF rename_next, q
      <4> QED
        BY <1>1, <2>1, <2>3, <4>1 DEF FsTypes
    <3>2. CASE Last(q) # Last(p) /\ MayRename(tree, p, q)
      <4>1. tree' = Renamed(tree, p, q) /\ fsTodo' = fsTodo \ {p} /\ outcome' = outcome
        BY <1>5, <3>2 DEF rename_next, q
      <4>2. /\ IsTree(Renamed(tree, p, q), Names(fsCalls))
            /\ DOMAIN tree \ Under(tree, p) \subseteq DOMAIN Renamed(tree, p, q)
        BY <2>3, <2>4, <3>2, RenameIsPut, PutKeepsTree
      <4>3. \A r \in fsTodo \ {p} : r \in DOMAIN tree \ Under(tree, p)
        BY <1>1, <2>1 DEF FsTypes, Under
      <4> QED
        BY <2>1, <4>1, <4>2, <4>3
    <3>3. CASE Last(q) # Last(p) /\ ~MayRename(tree, p, q)
      <4>1. fsTodo' = {} /\ tree' = tree /\ outcome' = "raised"
        BY <1>5, <3>3 DEF rename_next, q, Raises
      <4> QED
        BY <2>3, <4>1
    <3> QED
      BY <3>1, <3>2, <3>3
  <2>6. FsTypes'
    BY <1>1, <2>1, <2>5 DEF FsTypes
  <2>7. LoopsAre' /\ BodyIs'
    BY <2>1, <2>2, <2>5 DEF LoopsAre, BodyIs
  <2>8. FilesAreKept'
    BY <2>1, <2>2 DEF FilesAreKept, NoContentIsLost, TemporaryIsUndone
  <2> QED
    BY <2>6, <2>7, <2>8 DEF FsIInv
<1> QED
  BY <1>2, <1>3, <1>4, <1>5

(* The with statements. *)
LEMMA TemporaryStep ==
    ASSUME FsIInv, NEW p \in FsPaths, NEW q \in FsPaths,
           temporary_rename(p, q) \/ temporary_copy(p, q)
    PROVE  FsIInv'
<1> DEFINE S == Names(fsCalls + 1)
<1>1. IsTree(tree, S) /\ p \in Seq(S) /\ q \in Seq(S)
  BY FsNames DEF FsIInv
<1>2. CASE temporary_rename(p, q)
  <2>1. Calls("temporary_rename", p, q, TRUE)
    BY <1>2 DEF temporary_rename
  <2>2. /\ call'.op = "temporary_rename" /\ call'.from = p /\ call'.to = q /\ call'.overwrite
        /\ before' = tree /\ fsCalls' = fsCalls + 1
    BY <2>1 DEF Calls
  <2>3. CASE MayRename(tree, p, q)
    <3>1. tree' = Renamed(tree, p, q) /\ outcome' = "body" /\ fsTodo' = {}
      BY <1>2, <2>3 DEF temporary_rename
    <3>2. IsTree(tree', S)
      BY <1>1, <2>3, <3>1, RenameIsPut, PutKeepsTree
    <3>3. LoopsAre' /\ BodyIs'
      BY <1>1, <2>2, <2>3, <3>1 DEF LoopsAre, BodyIs
    <3> QED
      BY <2>1, <3>1, <3>2, <3>3, CallGoesOn
  <2>4. CASE ~MayRename(tree, p, q)
    <3>1. /\ tree' = IF MayRename(tree, q, p) THEN Renamed(tree, q, p) ELSE tree
          /\ outcome' = "raised" /\ fsTodo' = {}
      BY <1>2, <2>4 DEF temporary_rename
    <3>2. IsTree(tree', S)
      BY <1>1, <3>1, RenameIsPut, PutKeepsTree
    <3>3. ~Exists(tree, q) => tree' = tree
      BY <3>1 DEF MayRename
    <3> QED
      BY <2>1, <3>1, <3>2, <3>3, CallEnds
  <2> QED
    BY <2>3, <2>4
<1>3. CASE temporary_copy(p, q)
  <2>1. Calls("temporary_copy", p, q, TRUE)
    BY <1>3 DEF temporary_copy
  <2>2. /\ call'.op = "temporary_copy" /\ call'.from = p /\ call'.to = q /\ call'.overwrite
        /\ before' = tree /\ fsCalls' = fsCalls + 1
    BY <2>1 DEF Calls
  <2>3. CASE MayCopy(tree, p, q)
    <3>1. tree' = Copied(tree, p, q) /\ outcome' = "body" /\ fsTodo' = {}
      BY <1>3, <2>3 DEF temporary_copy
    <3>2. IsTree(tree', S)
      BY <1>1, <2>3, <3>1, CopyOfFile, CopiedIsTree
    <3>3. LoopsAre' /\ BodyIs'
      BY <1>1, <2>2, <2>3, <3>1 DEF LoopsAre, BodyIs
    <3> QED
      BY <2>1, <3>1, <3>2, <3>3, CallGoesOn
  <2>4. CASE ~MayCopy(tree, p, q)
    <3>1. /\ tree' = IF is_file_exists(tree, q) THEN Without(tree, {q}) ELSE tree
          /\ outcome' = "raised" /\ fsTodo' = {}
      BY <1>3, <2>4 DEF temporary_copy
    <3>2. IsTree(tree', S)
      <4>1. is_file_exists(tree, q) => ~is_directory_exists(tree, q)
        BY <1>1, TreePaths DEF is_file_exists, is_directory_exists
      <4> QED
        BY <1>1, <3>1, <4>1, WithoutFile
    <3>3. ~Exists(tree, q) => tree' = tree
      BY <3>1 DEF is_file_exists, Exists
    <3> QED
      BY <2>1, <3>1, <3>2, <3>3, CallEnds
  <2> QED
    BY <2>3, <2>4
<1> QED
  BY <1>2, <1>3

LEMMA BodyEndsStep ==
    ASSUME FsIInv, with_block_ends
    PROVE  FsIInv'
<1> DEFINE S == Names(fsCalls)
           p == call.from
           q == call.to
<1>1. /\ outcome = "body" /\ call.overwrite /\ q \in Seq(S)
      /\ tree' = Finally(tree) /\ outcome' = "returned" /\ fsTodo' = {}
      /\ call' = call /\ before' = before /\ fsCalls' = fsCalls
  BY DEF with_block_ends, Returns, FsIInv, BodyIs
<1>2. IsTree(tree, S) /\ IsTree(before, S) /\ fsCalls \in Nat
  BY DEF FsIInv, FsTypes
<1>3. IsTree(tree', S) /\ (~Exists(before, q) => tree' = before)
  <2>1. CASE /\ call.op = "temporary_copy" /\ MayCopy(before, p, q)
             /\ tree = Copied(before, p, q)
    <3>1. tree' = Without(tree, {q})
      BY <1>1, <2>1 DEF Finally
    <3>2. is_file_exists(tree, q) /\ (~Exists(before, q) => Without(tree, {q}) = before)
      <4>1. is_file_exists(Copied(before, p, q), q)
        BY <1>1, <1>2, <2>1, CopyOfFile
      <4>2. ~Exists(before, q) => Without(Copied(before, p, q), {q}) = before
        BY <1>1, <1>2, <2>1, CopyOfFile
      <4> QED
        BY <2>1, <4>1, <4>2
    <3>3. ~is_directory_exists(tree, q)
      BY <1>2, <3>2, TreePaths DEF is_file_exists, is_directory_exists
    <3> QED
      BY <1>2, <3>1, <3>2, <3>3, WithoutFile
  <2>2. CASE /\ call.op = "temporary_rename" /\ MayRename(before, p, q)
             /\ tree = Renamed(before, p, q)
    <3>1. tree' = Renamed(tree, q, p)
      BY <1>1, <2>2 DEF Finally
    <3>2. p \in DOMAIN before /\ p \in Seq(S) /\ (p = q \/ MayBePutAt(before, p, q))
      BY <1>1, <1>2, <2>2, RenameIsPut, TreePaths
    <3>3. CASE p = q
      BY <1>2, <2>2, <3>1, <3>3 DEF Renamed
    <3>4. CASE MayBePutAt(before, p, q)
      <4>1. /\ MayBePutAt(tree, q, p)
            /\ ~Exists(before, q) => Renamed(tree, q, p) = before
        BY <1>1, <1>2, <2>2, <3>2, <3>4, RenamedBack
      <4>2. q \in DOMAIN tree
        BY <1>1, <1>2, <2>2, <3>2, <3>4, RenamedIs DEF IsRenaming
      <4>3. IsTree(Renamed(tree, q, p), S)
        BY <1>2, <3>2, <4>1, <4>2, PutKeepsTree
      <4> QED
        BY <3>1, <4>1, <4>3
    <3> QED
      BY <3>2, <3>3, <3>4
  <2> QED
    BY <1>1, <2>1, <2>2 DEF FsIInv, BodyIs
<1>4. FsTypes'
  BY <1>1, <1>2, <1>3 DEF FsTypes
<1>5. LoopsAre' /\ BodyIs'
  BY <1>1 DEF LoopsAre, BodyIs
<1>6. FilesAreKept'
  BY <1>1, <1>3 DEF FilesAreKept, NoContentIsLost, TemporaryIsUndone
<1> QED
  BY <1>4, <1>5, <1>6 DEF FsIInv

(* Moving and copying. *)
LEMMA MovedKeeps ==
    ASSUME NEW S, NEW t, IsTree(t, S), NEW p, NEW q \in Seq(S), MayMove(t, p, q)
    PROVE  /\ p \in DOMAIN t /\ IsTree(Moved(t, p, q), S)
           /\ DOMAIN t \ Under(t, p) \subseteq DOMAIN Moved(t, p, q)
           /\ p = q \/ ~is_file_exists(t, q) => ContentsOf(t) \subseteq ContentsOf(Moved(t, p, q))
<1>1. PICK target : target = MoveTarget(t, p, q)
  OBVIOUS
<1>2. /\ p \in DOMAIN t /\ target \in Seq(S) /\ (p = target \/ MayBePutAt(t, p, target))
      /\ ~is_file_exists(t, q) => ~is_file_exists(t, target)
  BY <1>1, MoveIsPut
<1>3. Moved(t, p, q) = Renamed(t, p, target)
  BY <1>1 DEF Moved
<1>4. p = q => p = target
  BY <1>1 DEF MoveTarget
<1> QED
  BY <1>2, <1>3, <1>4, PutKeepsTree

LEMMA MovingStep ==
    ASSUME FsIInv,
           \/ \E p \in FsPaths, d \in FsDirs, overwrite \in BOOLEAN : move_file(p, d, overwrite)
           \/ \E s, d \in FsDirs, overwrite \in BOOLEAN : move_folder(s, d, overwrite)
    PROVE  FsIInv'
<1> DEFINE S == Names(fsCalls + 1)
<1>1. IsTree(tree, S) /\ \A p \in FsPaths \cup FsDirs : p \in Seq(S) /\ p # <<>>
  BY FsNames DEF FsIInv
<1> HIDE DEF S
<1>2. ASSUME NEW p \in FsPaths, NEW d \in FsDirs, NEW overwrite \in BOOLEAN,
             move_file(p, d, overwrite)
      PROVE  FsIInv'
  <2>1. PICK target : target = TargetPath(p, d)
    OBVIOUS
  <2>2. /\ Calls("move_file", p, target, overwrite)
        /\ ReturnsIf(~Refused(tree, target, overwrite) /\ MayMove(tree, p, target),
                     Moved(tree, p, target), target)
    BY <1>2, <2>1 DEF move_file
  <2>3. target \in Seq(S)
    <3>1. d \in Seq(S) /\ Last(p) \in S
      BY <1>1, FrontIs
    <3> QED
      BY <2>1, <3>1, AppendIs DEF TargetPath
  <2>4. ~Refused(tree, target, overwrite) /\ MayMove(tree, p, target) =>
           /\ IsTree(Moved(tree, p, target), S)
           /\ overwrite \/ ContentsOf(tree) \subseteq ContentsOf(Moved(tree, p, target))
    BY <1>1, <2>3, MovedKeeps DEF Refused
  <2> QED
    BY <2>2, <2>4, CallReturnsOrRaises DEF S
<1>3. ASSUME NEW s \in FsDirs, NEW d \in FsDirs, NEW overwrite \in BOOLEAN,
             move_folder(s, d, overwrite)
      PROVE  FsIInv'
  <2>1. /\ Calls("move_folder", s, d, overwrite) /\ ~is_file_exists(tree, s)
        /\ ReturnsIf(~(~overwrite /\ is_directory_exists(tree, d)) /\ MayMove(tree, s, d),
                     Moved(tree, s, d), <<>>)
    BY <1>3 DEF move_folder
  <2>2. ASSUME MayMove(tree, s, d)
        PROVE  /\ IsTree(Moved(tree, s, d), S)
               /\ ContentsOf(tree) \subseteq ContentsOf(Moved(tree, s, d))
    <3>1. s = d \/ ~is_file_exists(tree, d)
      <4> SUFFICES ASSUME s # d, is_file_exists(tree, d) PROVE FALSE
        OBVIOUS
      <4>1. ~is_directory_exists(tree, d)
        BY <1>1, TreePaths DEF is_file_exists, is_directory_exists
      <4>2. MoveTarget(tree, s, d) = d
        BY <4>1 DEF MoveTarget
      <4>3. s \in DOMAIN tree /\ tree[s] > 0
        BY <2>2, <4>2 DEF MayMove, is_file_exists, Exists
      <4> QED
        BY <2>1, <4>3 DEF is_file_exists
    <3> QED
      BY <1>1, <2>2, <3>1, MovedKeeps
  <2> QED
    BY <2>1, <2>2, CallReturnsOrRaises DEF S
<1> QED
  BY <1>2, <1>3

LEMMA CopyingStep ==
    ASSUME FsIInv,
           \/ \E p, q \in FsPaths, overwrite \in BOOLEAN : copy_file(p, q, overwrite)
           \/ \E s, d \in FsDirs, overwrite \in BOOLEAN : copy_directory(s, d, overwrite)
    PROVE  FsIInv'
<1> DEFINE S == Names(fsCalls + 1)
<1>1. IsTree(tree, S) /\ \A p \in FsPaths \cup FsDirs : p \in Seq(S) /\ p # <<>>
  BY FsNames DEF FsIInv
<1> HIDE DEF S
<1>2. ASSUME NEW p \in FsPaths, NEW q \in FsPaths, NEW overwrite \in BOOLEAN,
             copy_file(p, q, overwrite)
      PROVE  FsIInv'
  <2>1. /\ Calls("copy_file", p, q, overwrite)
        /\ ReturnsIf(~Refused(tree, q, overwrite) /\ MayCopy(tree, p, q),
                     Copied(tree, p, q), <<>>)
    BY <1>2 DEF copy_file
  <2>2. ASSUME MayCopy(tree, p, q), overwrite \/ ~is_file_exists(tree, q)
        PROVE  /\ IsTree(Copied(tree, p, q), S)
               /\ overwrite \/ ContentsOf(tree) \subseteq ContentsOf(Copied(tree, p, q))
    <3>1. p \in DOMAIN tree /\ Fits(tree, p, q) /\ q # <<>> /\ q \in Seq(S)
      BY <1>1, <2>2, CopyOfFile
    <3>2. ~is_file_exists(tree, q) => ~Exists(tree, q)
      BY <1>1, <2>2, TreePaths DEF MayCopy, is_file_exists, is_directory_exists, Exists
    <3>3. IsTree(Copied(tree, p, q), S)
      BY <1>1, <3>1, CopiedIsTree
    <3> QED
      BY <1>1, <2>2, <3>1, <3>2, <3>3, CopyKeeps
  <2> QED
    BY <2>1, <2>2, CallReturnsOrRaises DEF S, Refused
<1>3. ASSUME NEW s \in FsDirs, NEW d \in FsDirs, NEW overwrite \in BOOLEAN,
             copy_directory(s, d, overwrite)
      PROVE  FsIInv'
  <2>1. PICK cleared : cleared = IF overwrite /\ is_directory_exists(tree, d)
                                 THEN Without(tree, Under(tree, d)) ELSE tree
    OBVIOUS
  <2> DEFINE may == /\ is_directory_exists(cleared, s) /\ ~Exists(cleared, d)
                    /\ ~IsPrefix(s, d) /\ is_directory_exists(cleared, Front(d))
  <2>2. /\ Calls("copy_directory", s, d, overwrite) /\ fsTodo' = {}
        /\ tree' = IF may THEN Copied(cleared, s, d) ELSE cleared
        /\ outcome' = IF may THEN "returned" ELSE "raised"
    BY <1>3, <2>1 DEF copy_directory
  <2>3. IsTree(cleared, S)
    BY <1>1, <2>1, WithoutDirectory
  <2>4. ASSUME may PROVE /\ IsTree(Copied(cleared, s, d), S)
                         /\ ContentsOf(cleared) \subseteq ContentsOf(Copied(cleared, s, d))
    <3>1. s \in DOMAIN cleared /\ d \in Seq(S) /\ ~Exists(cleared, d)
          /\ is_directory_exists(cleared, Front(d))
      BY <1>1, <2>4 DEF is_directory_exists
    <3>2. Fits(cleared, s, d) /\ d # <<>>
      BY <2>3, <3>1, FreePathFits
    <3> QED
      BY <2>3, <3>1, <3>2, CopiedIsTree, CopyKeeps
  <2> HIDE DEF may
  <2>5. IsTree(tree', S) /\ outcome' \in {"returned", "raised"}
    BY <2>2, <2>3, <2>4
  <2>6. overwrite \/ ContentsOf(tree) \subseteq ContentsOf(tree')
    BY <2>1, <2>2, <2>4
  <2> QED
    BY <2>2, <2>5, <2>6, CallEnds DEF S
<1> QED
  BY <1>2, <1>3

LEMMA BackupStep ==
    ASSUME FsIInv,
           \/ \E p \in FsPaths, d \in FsDirs : backup_file(p, d)
           \/ \E s, d \in FsDirs : backup_folder(s, d)
    PROVE  FsIInv'
<1> DEFINE S == Names(fsCalls + 1)
<1>1. /\ IsTree(tree, S) /\ fsCalls \in Nat
      /\ \A p \in FsPaths \cup FsDirs : p \in Seq(S) /\ p # <<>>
      /\ \A p \in DOMAIN tree : p \in Seq(Names(fsCalls))
  BY FsNames DEF FsIInv
<1>2. ASSUME NEW p \in FsPaths \cup FsDirs
      PROVE  Stamped(p) \in S /\ Stamped(p) \notin Names(fsCalls)
  <2>1. Last(p) \in S
    BY <1>1, FrontIs
  <2>2. fsCalls + 1 \in 0 .. fsCalls + 1 /\ fsCalls + 1 \notin 0 .. fsCalls
    BY <1>1
  <2>3. Stamped(p) = [Last(p) EXCEPT !.stamp = fsCalls + 1]
    BY DEF Stamped
  <2> QED
    BY <2>1, <2>2, <2>3 DEF Names
<1> HIDE DEF S
<1>3. ASSUME NEW p \in FsPaths, NEW d \in FsDirs, backup_file(p, d) PROVE FsIInv'
  <2>1. PICK new : new = Append(Front(p), Stamped(p))
    OBVIOUS
  <2>2. PICK t : t = IF is_file_exists(tree, p) THEN Renamed(tree, p, new) ELSE tree
    OBVIOUS
  <2>3. /\ Calls("backup_file", p, d, FALSE)
        /\ tree' = t /\ outcome' = "returned" /\ fsTodo' = {}
    BY <1>3, <2>1, <2>2 DEF backup_file, Returns
  <2>4. /\ p \in Seq(S) /\ p # <<>> /\ Front(p) \in Seq(S) /\ new \in Seq(S) /\ new # <<>>
        /\ Front(new) = Front(p) /\ Last(new) = Stamped(p)
    <3>1. p \in Seq(S) /\ p # <<>> /\ Front(p) \in Seq(S) /\ Stamped(p) \in S
      BY <1>1, <1>2, FrontIs
    <3> QED
      BY <2>1, <3>1, AppendIs
  <2>5. ~Exists(tree, new)
    <3> SUFFICES ASSUME new \in DOMAIN tree PROVE FALSE
      BY DEF Exists
    <3>1. new \in Seq(Names(fsCalls))
      BY <1>1
    <3>2. Last(new) \in Names(fsCalls)
      BY <2>4, <3>1, FrontIs
    <3> QED
      BY <1>2, <2>4, <3>2
  <2>6. ASSUME is_file_exists(tree, p) PROVE p \in DOMAIN tree /\ MayBePutAt(tree, p, new)
    <3>1. p \in DOMAIN tree /\ p # new
      BY <2>5, <2>6 DEF is_file_exists, Exists
    <3>2. ~IsPrefix(p, new)
      <4> SUFFICES ASSUME IsPrefix(p, new) PROVE FALSE
        OBVIOUS
      <4>1. IsPrefix(p, Front(p))
        BY <2>4, <3>1, PrefixOfFront
      <4> QED
        BY <2>4, <4>1, PrefixOfFront
    <3>3. Len(new) > 1 => is_directory_exists(tree, Front(new))
      <4>1. Len(new) = Len(p)
        <5>1. /\ Len(p) \in Nat /\ Len(new) \in Nat
              /\ Len(Front(p)) = Len(p) - 1 /\ Len(Front(new)) = Len(new) - 1
          BY <2>4, FrontIs
        <5> QED
          BY <2>4, <5>1
      <4> QED
        BY <1>1, <2>4, <3>1, <4>1 DEF IsTree
    <3> QED
      BY <2>4, <2>5, <3>1, <3>2, <3>3 DEF MayBePutAt
  <2>7. IsTree(t, S) /\ ContentsOf(tree) \subseteq ContentsOf(t)
    <3>1. ~is_file_exists(tree, new)
      BY <2>5 DEF is_file_exists, Exists
    <3> QED
      BY <1>1, <2>2, <2>4, <2>6, <3>1, PutKeepsTree
  <2> QED
    BY <2>3, <2>7, CallEnds DEF S
<1>4. ASSUME NEW s \in FsDirs, NEW d \in FsDirs, backup_folder(s, d) PROVE FsIInv'
  <2>1. PICK new : new = Append(d, Stamped(s))
    OBVIOUS
  <2>2. Calls("backup_folder", s, d, FALSE)
    BY <1>4 DEF backup_folder
  <2>3. new \in Seq(S) /\ new # <<>>
    <3>1. d \in Seq(S) /\ Stamped(s) \in S
      BY <1>1, <1>2
    <3> QED
      BY <2>1, <3>1, AppendIs
  <2>4. CASE ~is_directory_exists(tree, s)
    <3>1. tree' = tree /\ outcome' = "returned" /\ fsTodo' = {}
      BY <1>4, <2>4 DEF backup_folder, Returns
    <3> QED
      BY <1>1, <2>2, <3>1, CallEnds DEF S
  <2>5. CASE is_directory_exists(tree, s) /\ ~MayMake(tree, new)
    <3>1. tree' = tree /\ outcome' = "raised" /\ fsTodo' = {}
      BY <1>4, <2>1, <2>5 DEF backup_folder, Raises
    <3> QED
      BY <1>1, <2>2, <3>1, CallEnds DEF S
  <2>6. CASE is_directory_exists(tree, s) /\ MayMake(tree, new)
    <3>1. PICK made : made = Made(tree, new)
      OBVIOUS
    <3>2. /\ fsTodo' = {}
          /\ tree' = IF MayMove(made, s, new) THEN Moved(made, s, new) ELSE made
          /\ outcome' = IF MayMove(made, s, new) THEN "returned" ELSE "raised"
      BY <1>4, <2>1, <2>6, <3>1 DEF backup_folder
    <3>3. IsTree(made, S) /\ is_directory_exists(made, new)
          /\ ContentsOf(tree) \subseteq ContentsOf(made)
      BY <1>1, <2>3, <2>6, <3>1, MadeIsTree
    <3>4. ~is_file_exists(made, new)
      BY <3>3, TreePaths DEF is_file_exists, is_directory_exists
    <3>5. MayMove(made, s, new) => /\ IsTree(Moved(made, s, new), S)
                                   /\ ContentsOf(made) \subseteq ContentsOf(Moved(made, s, new))
      BY <2>3, <3>3, <3>4, MovedKeeps
    <3>6. /\ IsTree(tree', S) /\ ContentsOf(tree) \subseteq ContentsOf(tree')
          /\ outcome' \in {"returned", "raised"}
      BY <3>2, <3>3, <3>5
    <3> QED
      BY <2>2, <3>2, <3>6, CallEnds DEF S
  <2> QED
    BY <2>4, <2>5, <2>6
<1> QED
  BY <1>3, <1>4

(* The operations that take the entries of a directory one by one. *)
LEMMA LoopStartsStep ==
    ASSUME FsIInv, NEW op \in EntryLoops, NEW s \in FsDirs, NEW d \in FsDirs,
           NEW overwrite \in BOOLEAN, starts_loop(op, s, d, overwrite)
    PROVE  FsIInv'
<1> DEFINE S == Names(fsCalls + 1)
<1>1. /\ IsTree(tree, S) /\ fsCalls + 1 \in Nat
      /\ s \in Seq(S) /\ d \in Seq(S) /\ d # <<>>
  BY FsNames DEF FsIInv
<1>2. Calls(op, s, d, overwrite)
  BY DEF starts_loop
<1>3. /\ call'.op = op /\ call'.to = d /\ fsCalls' = fsCalls + 1
  BY <1>2 DEF Calls
<1>4. op \notin {"temporary_rename", "temporary_copy"}
  BY DEF EntryLoops
<1>5. CASE op # "move_top_level_files" /\ ~MayMake(tree, d)
  <2>1. tree' = tree /\ outcome' = "raised" /\ fsTodo' = {}
    BY <1>5 DEF starts_loop, Raises
  <2> QED
    BY <1>1, <1>2, <1>4, <2>1, CallEnds
<1>6. CASE ~(op # "move_top_level_files" /\ ~MayMake(tree, d))
  <2>1. PICK t : t = IF op = "move_top_level_files" THEN tree ELSE Made(tree, d)
    OBVIOUS
  <2>2. /\ tree' = t /\ outcome' = "runs"
        /\ fsTodo' = IF op = "move_top_level_files"
                     THEN listdir(tree, s) \cap FilesOf(tree) ELSE listdir(t, s)
    BY <1>6, <2>1 DEF starts_loop, listdir, Under
  <2>3. /\ IsTree(t, S) /\ ContentsOf(tree) \subseteq ContentsOf(t)
        /\ op = "copy_files_from_folder" => is_directory_exists(t, d)
    BY <1>1, <1>6, <2>1, MadeIsTree
  <2>4. fsTodo' \subseteq listdir(t, s)
    BY <2>1, <2>2
  <2>5. \A p \in listdir(t, s) : p \in DOMAIN t /\ Len(p) = Len(s) + 1
    BY DEF listdir, Under
  <2>6. fsTodo' \subseteq DOMAIN tree'
    BY <2>2, <2>4, <2>5
  <2>7. \A p, q \in fsTodo' : Len(p) = Len(q)
    BY <2>4, <2>5
  <2>8. LoopsAre'
    BY <1>1, <1>3, <2>2, <2>3, <2>7 DEF LoopsAre
  <2>9. BodyIs'
    BY <2>2 DEF BodyIs
  <2> QED
    BY <1>2, <2>2, <2>3, <2>6, <2>8, <2>9, CallGoesOn
<1> QED
  BY <1>5, <1>6

(* The path an entry gets in the target directory. *)
LEMMA TargetIs ==
    ASSUME FsIInv, outcome = "runs", call.op \in EntryLoops, NEW p \in fsTodo
    PROVE  /\ p \in DOMAIN tree /\ p \in Seq(Names(fsCalls)) /\ p # <<>>
           /\ IsTree(tree, Names(fsCalls)) /\ fsCalls \in Nat
           /\ call.to \in Seq(Names(fsCalls))
           /\ call.op = "copy_files_from_folder" => is_directory_exists(tree, call.to)
           /\ TargetPath(p, call.to) \in Seq(Names(fsCalls))
           /\ TargetPath(p, call.to) # <<>> /\ Front(TargetPath(p, call.to)) = call.to
<1>1. /\ IsTree(tree, Names(fsCalls)) /\ fsCalls \in Nat /\ p \in DOMAIN tree
      /\ call.to \in Seq(Names(fsCalls))
      /\ call.op = "copy_files_from_folder" => is_directory_exists(tree, call.to)
  BY DEF FsIInv, FsTypes, LoopsAre, EntryLoops
<1>2. p \in Seq(Names(fsCalls)) /\ p # <<>>
  BY <1>1, TreePaths
<1>3. Last(p) \in Names(fsCalls)
  BY <1>2, FrontIs
<1> QED
  BY <1>1, <1>2, <1>3, AppendIs DEF TargetPath

LEMMA EntriesStep ==
    ASSUME FsIInv, NEW p \in fsTodo,
           move_next_file(p) \/ move_next_entry(p) \/ copy_next_entry(p)
    PROVE  FsIInv'
<1> DEFINE S == Names(fsCalls)
<1>1. outcome = "runs" /\ call.op \in EntryLoops
  BY DEF move_next_file, move_next_entry, copy_next_entry, LoopStep, EntryLoops
<1>2. PICK target : target = TargetPath(p, call.to)
  OBVIOUS
<1>3. /\ p \in DOMAIN tree /\ IsTree(tree, S) /\ call.to \in Seq(S)
      /\ call.op = "copy_files_from_folder" => is_directory_exists(tree, call.to)
      /\ target \in Seq(S) /\ target # <<>> /\ Front(target) = call.to
  BY <1>1, <1>2, TargetIs
<1> HIDE DEF S
<1>4. CASE move_next_file(p)
  <2>1. /\ call.op = "move_top_level_files"
        /\ LoopStep(p, ~Refused(tree, target, call.overwrite) /\ MayMove(tree, p, target),
                    Moved(tree, p, target))
    BY <1>2, <1>4 DEF move_next_file
  <2>2. ~Refused(tree, target, call.overwrite) /\ MayMove(tree, p, target) =>
           /\ IsTree(Moved(tree, p, target), S)
           /\ DOMAIN tree \ Under(tree, p) \subseteq DOMAIN Moved(tree, p, target)
           /\ call.overwrite \/ ContentsOf(tree) \subseteq ContentsOf(Moved(tree, p, target))
    BY <1>3, MovedKeeps DEF Refused
  <2> QED
    BY <1>1, <2>1, <2>2, EntryTaken DEF S
<1>5. CASE move_next_entry(p)
  <2>1. PICK skipped : skipped = IsPrefix(p, call.to)
    OBVIOUS
  <2>2. PICK may : may = (skipped \/ (~Occupied(tree, target, call.overwrite) /\ MayMove(tree, p, target)))
    OBVIOUS
  <2>3. PICK t : t = IF skipped THEN tree ELSE Moved(tree, p, target)
    OBVIOUS
  <2>4. call.op = "move_folder_contents" /\ LoopStep(p, may, t)
    BY <1>2, <1>5, <2>1, <2>2, <2>3 DEF move_next_entry
  <2>5. ASSUME MayMove(tree, p, target), ~Occupied(tree, target, call.overwrite)
        PROVE  /\ IsTree(Moved(tree, p, target), S)
               /\ DOMAIN tree \ Under(tree, p) \subseteq DOMAIN Moved(tree, p, target)
               /\ call.overwrite \/ ContentsOf(tree) \subseteq ContentsOf(Moved(tree, p, target))
    <3>1. call.overwrite \/ ~is_file_exists(tree, target)
      BY <2>5 DEF Occupied, Exists, is_file_exists
    <3> QED
      BY <1>3, <2>5, <3>1, MovedKeeps
  <2>6. may => /\ IsTree(t, S)
               /\ DOMAIN tree \ Under(tree, p) \subseteq DOMAIN t
               /\ call.overwrite \/ ContentsOf(tree) \subseteq ContentsOf(t)
    <3>1. CASE skipped
      <4>1. t = tree
        BY <2>3, <3>1
      <4> QED
        BY <1>3, <4>1
    <3>2. CASE ~skipped
      <4>1. t = Moved(tree, p, target)
        BY <2>3, <3>2
      <4>2. may => MayMove(tree, p, target) /\ ~Occupied(tree, target, call.overwrite)
        BY <2>2, <3>2
      <4> QED
        BY <2>5, <4>1, <4>2
    <3> QED
      BY <3>1, <3>2
  <2> QED
    BY <1>1, <2>4, <2>6, EntryTaken DEF S
<1>6. CASE copy_next_entry(p)
  <2>1. call.op = "copy_files_from_folder" /\ is_directory_exists(tree, call.to)
    BY <1>3, <1>6 DEF copy_next_entry
  <2>2. CASE ~call.overwrite /\ Exists(tree, target)
    <3>1. LoopStep(p, TRUE, tree)
      BY <1>2, <1>6, <2>2 DEF copy_next_entry
    <3> QED
      BY <1>1, <1>3, <2>1, <3>1, EntryTaken DEF S
  <2>3. CASE ~(~call.overwrite /\ Exists(tree, target))
    <3> DEFINE may == /\ ~IsPrefix(p, target)
                      /\ \A q \in Under(tree, p) :
                            Exists(tree, Rebased(q, p, target)) =>
                                (tree[Rebased(q, p, target)] = 0) = (tree[q] = 0)
    <3>1. LoopStep(p, may, Copied(tree, p, target))
      BY <1>2, <1>6, <2>3 DEF copy_next_entry
    <3>2. ASSUME may
          PROVE  /\ IsTree(Copied(tree, p, target), S)
                 /\ DOMAIN tree \ Under(tree, p) \subseteq DOMAIN Copied(tree, p, target)
                 /\ call.overwrite \/ ContentsOf(tree) \subseteq ContentsOf(Copied(tree, p, target))
                 /\ is_directory_exists(Copied(tree, p, target), call.to)
      <4>1. Fits(tree, p, target)
        BY <1>3, <2>1, <3>2 DEF Fits, Exists
      <4>2. /\ IsTree(Copied(tree, p, target), S)
            /\ DOMAIN Copied(tree, p, target) = DOMAIN tree \cup Copies(tree, p, target)
            /\ SameKinds(tree, Copied(tree, p, target))
        BY <1>3, <4>1, CopiedIsTree
      <4>3. is_directory_exists(Copied(tree, p, target), call.to)
        BY <2>1, <4>2 DEF SameKinds, is_directory_exists
      <4>4. ~call.overwrite => ContentsOf(tree) \subseteq ContentsOf(Copied(tree, p, target))
        BY <1>3, <2>3, CopyKeeps
      <4> QED
        BY <4>2, <4>3, <4>4
    <3> HIDE DEF may
    <3> QED
      BY <1>1, <2>1, <3>1, <3>2, EntryTaken DEF S
  <2> QED
    BY <2>2, <2>3
<1> QED
  BY <1>4, <1>5, <1>6

LEMMA LoopEndsStep ==
    ASSUME FsIInv, loop_ends
    PROVE  FsIInv'
<1>1. /\ outcome = "runs" /\ tree' = tree /\ outcome' = "returned" /\ fsTodo' = {}
      /\ call' = call /\ before' = before /\ fsCalls' = fsCalls
  BY DEF loop_ends, Returns
<1>2. FsTypes'
  BY <1>1 DEF FsIInv, FsTypes
<1>3. LoopsAre' /\ BodyIs'
  BY <1>1 DEF LoopsAre, BodyIs
<1>4. NoContentIsLost'
  BY <1>1 DEF FsIInv, FilesAreKept, NoContentIsLost
<1>5. TemporaryIsUndone'
  <2>1. call.op \notin {"temporary_rename", "temporary_copy"}
    BY <1>1 DEF FsIInv, LoopsAre, EntryLoops
  <2> QED
    BY <1>1, <2>1 DEF TemporaryIsUndone
<1> QED
  BY <1>2, <1>3, <1>4, <1>5 DEF FsIInv, FilesAreKept

LEMMA FsInitially == FsInit => FsIInv
<1> SUFFICES ASSUME FsInit PROVE FsIInv
  OBVIOUS
<1>1. /\ IsTree(tree, Names(0)) /\ before = tree /\ fsCalls = 0
      /\ outcome = "idle" /\ fsTodo = {}
  BY FsBounds DEF FsInit
<1>2. FsTypes
  BY <1>1 DEF FsTypes
<1>3. LoopsAre /\ BodyIs
  BY <1>1 DEF LoopsAre, BodyIs
<1>4. FilesAreKept
  BY <1>1 DEF FilesAreKept, NoContentIsLost, TemporaryIsUndone
<1> QED
  BY <1>2, <1>3, <1>4 DEF FsIInv

LEMMA FsInductive == FsIInv /\ [FsNext]_fs_vars => FsIInv'
<1> SUFFICES ASSUME FsIInv, [FsNext]_fs_vars PROVE FsIInv'
  OBVIOUS
<1>1. CASE UNCHANGED fs_vars
  BY <1>1 DEF fs_vars, FsIInv, FsTypes, LoopsAre, BodyIs, FilesAreKept, NoContentIsLost,
              TemporaryIsUndone
<1>2. CASE FsLoop
  <2>1. \/ \E p \in fsTodo : rename_next(p)
        \/ \E p \in fsTodo : move_next_file(p) \/ move_next_entry(p) \/ copy_next_entry(p)
        \/ loop_ends \/ with_block_ends
    BY <1>2 DEF FsLoop
  <2> QED
    BY <2>1, RenamingStep, EntriesStep, LoopEndsStep, BodyEndsStep
<1>3. CASE FsCall
  <2>1. ASSUME NEW p \in FsPaths,
               \/ remove_file(p) \/ rename_file_with_special_characters(p)
               \/ \E s \in Stems : rename_file(p, Name(s))
               \/ \E d \in FsDirs : backup_file(p, d)
               \/ \E d \in FsDirs, overwrite \in BOOLEAN : move_file(p, d, overwrite)
               \/ \E q \in FsPaths : temporary_rename(p, q) \/ temporary_copy(p, q)
               \/ \E q \in FsPaths, overwrite \in BOOLEAN : copy_file(p, q, overwrite)
        PROVE  FsIInv'
    BY <2>1, RemovingStep, RenamingStep, BackupStep, MovingStep, TemporaryStep, CopyingStep
  <2>2. ASSUME NEW d \in FsDirs,
               \/ remove_directory(d) \/ clear_directory(d) \/ remove_empty_directories(d)
               \/ create_directory(d) \/ rename_files_and_directories_with_special_characters(d)
        PROVE  FsIInv'
    BY <2>2, RemovingStep, RenamingStep
  <2>3. ASSUME NEW d \in FsDirs, NEW e \in FsDirs,
               \/ backup_folder(d, e)
               \/ \E overwrite \in BOOLEAN : move_folder(d, e, overwrite)
               \/ \E overwrite \in BOOLEAN : copy_directory(d, e, overwrite)
        PROVE  FsIInv'
    BY <2>3, BackupStep, MovingStep, CopyingStep
  <2>4. ASSUME NEW d \in FsDirs, NEW e \in FsDirs, NEW overwrite \in BOOLEAN,
               \E op \in EntryLoops : starts_loop(op, d, e, overwrite)
        PROVE  FsIInv'
    BY <2>4, LoopStartsStep
  <2> QED
    BY <1>3, <2>1, <2>2, <2>3, <2>4 DEF FsCall, EntryLoops
<1> QED
  BY <1>1, <1>2, <1>3 DEF FsNext

LEMMA FsHolds == FsIInv => FsTypeOK /\ FilesAreKept
<1> SUFFICES ASSUME FsIInv PROVE FsTypeOK
  BY DEF FsIInv
<1>1. FsTypes
  BY DEF FsIInv
<1> QED
  BY <1>1, TreePaths DEF FsTypes, FsTypeOK, IsTree
-----------------------------------------------------------------------------
(* The components together.                                                *)

(* Each component is at its start at first. *)
LEMMA PartsAtFirst ==
    MCInit =>
        /\ LogInit /\ ReaderInit /\ LoggerInit /\ PcapInit /\ FsInit
        /\ CsvInit /\ StatInit /\ TomlInit
  BY DEF MCInit

(* A step of the whole, as each component sees it. *)
LEMMA PartsStep ==
    [MCNext]_mc_vars =>
        /\ [LogNext]_log_vars /\ [ReaderNext]_read_vars /\ [LoggerNext]_lgr_vars
        /\ [PcapNext]_pcap_vars /\ [FsNext]_fs_vars /\ [CsvNext]_csv_vars
        /\ [StatNext]_stat_vars /\ [TomlNext]_toml_vars
<1>1. CASE MCNext
  BY <1>1 DEF MCNext
<1>2. CASE UNCHANGED mc_vars
  BY <1>2 DEF mc_vars
<1> QED
  BY <1>1, <1>2

(* What is logged is in the files, whole, once and in order, and so is     *)
(* what a reader of the files gets: each file begins with its header and   *)
(* has each record, however a rollover at midnight, a restart and a second *)
(* handler meet; a reader that keeps up gets the rows once each; and each  *)
(* handler of a queue has written a process's records in their order,      *)
(* whatever the listener is interrupted by (loggingw.py, handlers.py,      *)
(* reading.py).                                                            *)
THEOREM WhatIsLoggedIsKept == MCSpec => []LogsAreComplete
<1> DEFINE IInv == LogIInv /\ ReaderIInv /\ LoggerIInv
<1>1. MCInit => IInv
  BY PartsAtFirst, LogInitially, ReaderInitially, LoggerInitially
<1>2. IInv /\ [MCNext]_mc_vars => IInv'
  BY PartsStep, LogInductive, ReaderInductive, LoggerInductive
<1>3. IInv => LogsAreComplete
  BY LogHolds, ReaderHolds, LoggerHolds DEF LogsAreComplete
<1> QED
  BY <1>1, <1>2, <1>3, PTL DEF MCSpec

(* In every file the sequence numbers of each side of a connection go on   *)
(* where the last packet's data ended, and every packet is in the file of  *)
(* its day and engine, in the order written (pcap_worker.py).               *)
THEOREM PacketsMakeStreams == MCSpec => []PcapStreamsAreCoherent
<1>1. MCInit => PcapIInv
  BY PartsAtFirst, PcapInitially
<1>2. PcapIInv /\ [MCNext]_mc_vars => PcapIInv'
  BY PartsStep, PcapInductive
<1>3. PcapIInv => PcapStreamsAreCoherent
  BY PcapHolds
<1> QED
  BY <1>1, <1>2, <1>3, PTL DEF MCSpec

(* A call that is not to overwrite or remove loses no file's content, also *)
(* when it stopped at an exception half way through a directory, and after *)
(* a with statement whose temporary path was free the tree is what it was, *)
(* for all trees, paths and calls (filesystem.py).                         *)
THEOREM NoFileIsLostUnasked == MCSpec => []FilesAreKept
<1>1. MCInit => FsIInv
  BY PartsAtFirst, FsInitially
<1>2. FsIInv /\ [MCNext]_mc_vars => FsIInv'
  BY PartsStep, FsInductive
<1>3. FsIInv => FilesAreKept
  BY FsHolds
<1> QED
  BY <1>1, <1>2, <1>3, PTL DEF MCSpec

(* What is computed for one day alone is what is computed for it among all *)
(* the days, and in a report the counts of the days, and of the rows with  *)
(* and without an error, add up to the count of the whole; a report is not *)
(* made only of rows that are out of the order of their times              *)
(* (statistic_analyzer.py, analyzer_helper.py, moving_average_helper.py).  *)
THEOREM StatisticsAddUp == MCSpec => []StatisticsAgree
<1>1. MCInit => StatIInv
  BY PartsAtFirst, StatInitially
<1>2. StatIInv /\ [MCNext]_mc_vars => StatIInv'
  BY PartsStep, StatInductive
<1>3. StatIInv => StatisticsAgree
  BY StatHolds
<1> QED
  BY <1>1, <1>2, <1>3, PTL DEF MCSpec

(* An update of a TOML file leaves it legal and changes the value of each  *)
(* key it is given to the one it is given, and no other key, comment or    *)
(* order (tomls.py).                                                       *)
THEOREM OnlyTheChangesAreWritten == MCSpec => []OnlyTheChangesAreMade
<1>1. MCInit => TomlIInv
  BY PartsAtFirst, TomlInitially
<1>2. TomlIInv /\ [MCNext]_mc_vars => TomlIInv'
  BY PartsStep, TomlInductive
<1>3. TomlIInv => OnlyTheChangesAreMade
  BY TomlHolds
<1> QED
  BY <1>1, <1>2, <1>3, PTL DEF MCSpec

(* The variables of all components keep their types.                       *)
THEOREM StorageTypesAreCorrect == MCSpec => []StorageTypeOK
<1> DEFINE IInv ==
    /\ part \in Parts /\ LogIInv /\ ReaderIInv /\ LoggerIInv /\ PcapIInv /\ FsIInv
    /\ CsvTypeOK /\ StatIInv /\ TomlIInv
<1>1. MCInit => IInv
  <2>1. MCInit => part \in Parts
    BY DEF MCInit
  <2> QED
    BY <2>1, PartsAtFirst, LogInitially, ReaderInitially, LoggerInitially, PcapInitially,
       FsInitially, CsvInitially, StatInitially, TomlInitially
<1>2. IInv /\ [MCNext]_mc_vars => IInv'
  <2>1. part \in Parts /\ [MCNext]_mc_vars => part' \in Parts
    BY DEF MCNext, mc_vars
  <2> QED
    BY <2>1, PartsStep, LogInductive, ReaderInductive, LoggerInductive, PcapInductive,
       FsInductive, CsvInductive, StatInductive, TomlInductive
<1>3. IInv => StorageTypeOK
  BY LogHolds, ReaderHolds, LoggerHolds, PcapHolds, FsHolds, StatHolds, TomlHolds
  DEF StorageTypeOK
<1> QED
  BY <1>1, <1>2, <1>3, PTL DEF MCSpec
=============================================================================
