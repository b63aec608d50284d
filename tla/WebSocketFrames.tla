--------------------------- MODULE WebSocketFrames ----------------------------
(***************************************************************************)
(* websocket_parse.py: the parser of frames that a connection's two worker *)
(* threads share.  Each call gets the bytes of one receive, parses the     *)
(* frame they begin with and keeps nothing but two decompression contexts, *)
(* of masked frames (requests) and of unmasked ones (responses); an error  *)
(* is None to the caller (connection_thread_worker.py:172-177).            *)
(*                                                                         *)
(* The two peers compress with a context each (permessage-deflate), and    *)
(* TCP decides how frames fall into receives.  A context is the sequence   *)
(* of the frames that went through it; a frame can be read only with the   *)
(* context it was compressed with.                                         *)
(***************************************************************************)
EXTENDS Naturals, Sequences

CONSTANT MaxFrames    \* bound: frames of a direction
ASSUME FramesAssumption == MaxFrames \in Nat

Directions == {"masked", "unmasked"}

VARIABLES handshake,   \* what the offline handshake came to
          sent,        \* per direction: the number of frames sent
          fragmented,  \* the kind of message being sent in parts, or "no"
          sender,      \* the sender's compression context
          wire,        \* the frames sent and not received
          cut,         \* the first frame of wire has been received in part
          contexts,    \* permessage_deflate_masked, permessage_deflate_unmasked
          one_by_one,  \* history: each receive was one frame of one message
          parsed       \* history: the frames parsed and what they were read as

ws_vars == <<handshake, sent, fragmented, sender, wire, cut, contexts,
             one_by_one, parsed>>

Garbage == 0

WsInit ==
    /\ handshake = "none"
    /\ sent = [d \in Directions |-> 0]
    /\ fragmented = [d \in Directions |-> "no"]
    /\ sender = [d \in Directions |-> <<>>]
    /\ wire = [d \in Directions |-> <<>>]
    /\ cut = [d \in Directions |-> FALSE]
    /\ contexts = [d \in Directions |-> <<>>]
    /\ one_by_one = [d \in Directions |-> TRUE]
    /\ parsed = [d \in Directions |-> <<>>]

(* create_byte_http_response, offline: of the first request of the client. *)
(* One that came in part has no event, and the first of none is an error.  *)
create_byte_http_response(whole) ==
    /\ handshake = "none"
    /\ handshake' = IF whole THEN "accepted" ELSE "raised"
    /\ UNCHANGED <<sent, fragmented, sender, wire, cut, contexts, one_by_one, parsed>>

(* A peer sends a frame: of a whole message, the first or a later one of a *)
(* message in parts, or a control frame, which is never compressed.        *)
WsKinds(d) ==
    {"control"} \cup IF fragmented[d] = "no" THEN {"message", "first"}
                     ELSE {"rest", "last"}

compression(deflated) == IF deflated THEN "deflated" ELSE "plain"

PeerSends(d, kind, deflated) ==
    /\ handshake = "accepted" /\ sent[d] < MaxFrames
    /\ kind \in WsKinds(d) /\ (kind = "control" => ~deflated)
    /\ kind \in {"rest", "last"} => fragmented[d] = compression(deflated)
    /\ sent' = [sent EXCEPT ![d] = @ + 1]
    /\ wire' = [wire EXCEPT ![d] = Append(@,
          [id |-> sent'[d], kind |-> kind, deflated |-> deflated, ctx |-> sender[d]])]
    /\ sender' = IF deflated THEN [sender EXCEPT ![d] = Append(@, sent'[d])] ELSE sender
    /\ fragmented' = [fragmented EXCEPT ![d] =
          IF kind = "first" THEN compression(deflated)
          ELSE IF kind = "last" THEN "no" ELSE @]
    /\ UNCHANGED <<handshake, cut, contexts, one_by_one, parsed>>

-----------------------------------------------------------------------------
(* is_frame_deflated: RSV1 is set on the first frame of a message only.    *)
is_frame_deflated(f) == f.deflated /\ f.kind \notin {"rest", "last"}

Mutant_context_of(d) == "masked"

\* One context for each direction, whichever thread calls.
context_of(d) == d

\* process_frame: a continuation is WebsocketParseWrongOpcode.
read_as(d, f) ==
    IF f.kind \in {"rest", "last"} THEN <<>>
    ELSE IF is_frame_deflated(f) /\ f.ctx # contexts[context_of(d)]
    THEN << <<f.id, Garbage>> >>
    ELSE << <<f.id, f.id>> >>

(* parse_frame_bytes: the bytes begin with a frame; what follows it stays  *)
(* in the reader, which is dropped.                                        *)
parses(d, n) ==
    /\ ~cut[d] /\ n <= Len(wire[d])
    /\ LET f == Head(wire[d]) IN
       /\ parsed' = [parsed EXCEPT ![d] = @ \o read_as(d, f)]
       /\ contexts' = IF is_frame_deflated(f)
                      THEN [contexts EXCEPT ![context_of(d)] = Append(@, f.id)]
                      ELSE contexts
       /\ one_by_one' = [one_by_one EXCEPT ![d] =
                           @ /\ n = 1 /\ f.kind \in {"message", "control"}]
    /\ wire' = [wire EXCEPT ![d] = SubSeq(@, n + 1, Len(@))]
    /\ UNCHANGED <<handshake, sent, fragmented, sender, cut>>

\* EOFError, or ValueError on less than two bytes: the caller gets None.
parse_raises(d) ==
    /\ ~cut[d] /\ wire[d] # <<>>
    /\ cut' = [cut EXCEPT ![d] = TRUE]
    /\ one_by_one' = [one_by_one EXCEPT ![d] = FALSE]
    /\ UNCHANGED <<handshake, sent, fragmented, sender, wire, contexts, parsed>>

(* The bytes begin in the middle of a frame and are taken for a header:    *)
(* an error, or something that was never sent; the direction, and so the   *)
(* context that is lost, is a bit of these bytes.                          *)
parses_the_middle(d, n) ==
    /\ cut[d] /\ n <= Len(wire[d])
    /\ \/ UNCHANGED <<contexts, parsed>>
       \/ /\ parsed' = [parsed EXCEPT ![d] = Append(@, <<Garbage, Garbage>>)]
          /\ UNCHANGED contexts
       \/ \E e \in Directions :
            /\ contexts' = [contexts EXCEPT ![e] = Append(@, Garbage)]
            /\ UNCHANGED parsed
    /\ cut' = [cut EXCEPT ![d] = FALSE]
    /\ one_by_one' = [e \in Directions |-> FALSE]
    /\ wire' = [wire EXCEPT ![d] = SubSeq(@, n + 1, Len(@))]
    /\ UNCHANGED <<handshake, sent, fragmented, sender>>

WsNext ==
    \/ \E whole \in BOOLEAN : create_byte_http_response(whole)
    \/ \E d \in Directions :
         \/ \E k \in {"message", "first", "rest", "last", "control"}, z \in BOOLEAN :
              PeerSends(d, k, z)
         \/ \E n \in 1 .. 2 : parses(d, n) \/ parses_the_middle(d, n)
         \/ parse_raises(d)

-----------------------------------------------------------------------------
WsTypeOK ==
    /\ handshake \in {"none", "accepted", "raised"}
    /\ \A d \in Directions :
         /\ sent[d] \in 0 .. MaxFrames
         /\ sender[d] \in Seq(1 .. sent[d])
         /\ contexts[d] \in Seq(0 .. MaxFrames)
         /\ Len(wire[d]) <= sent[d]
         /\ cut[d] => wire[d] # <<>>

\* The frames of a direction that the peer has sent and TCP delivered.
delivered(d) == sent[d] - Len(wire[d])

(* As long as every receive of a direction was one frame of one message,   *)
(* each of its frames is parsed once, in order and as it was sent: the     *)
(* frames of the other direction, compressed or not and whichever thread   *)
(* they come from, do not disturb its context (websocket_parse.py:62-81).  *)
(* Whatever falls into the receives, a frame that was not compressed is    *)
(* never read as another one.                                              *)
FramesAsSent ==
    \A d \in Directions :
       /\ one_by_one[d] => parsed[d] = [i \in 1 .. delivered(d) |-> <<i, i>>]
       /\ \A i \in DOMAIN parsed[d] : parsed[d][i][2] \in {parsed[d][i][1], Garbage}
       /\ \A i, j \in DOMAIN parsed[d] :
            i < j /\ parsed[d][j][1] # Garbage => parsed[d][i][1] < parsed[d][j][1]
=============================================================================
