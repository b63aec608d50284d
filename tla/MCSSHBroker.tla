---------------------------- MODULE MCSSHBroker ----------------------------
(* SSHBroker with three connections, of which two ask: first c1, and then  *)
(* c2, from another computer to the same TCP server process, or c3, from   *)
(* the same computer to another process.                                   *)
EXTENDS SSHBroker

CONSTANTS c1, c2, c3, w1, w2, h1, h2

MCWorkerOf == [c \in Callers |-> IF c = c3 THEN w2 ELSE w1]

MCInit == Init /\ host = [c \in Callers |-> IF c = c2 THEN h2 ELSE h1]
MCNext ==
    /\ Next
    /\ cpc'[c2] = "idle" \/ cpc'[c3] = "idle"
    /\ cpc'[c1] = "idle" => cpc'[c2] = "idle" /\ cpc'[c3] = "idle"
MCSpec == MCInit /\ [][MCNext]_vars /\ Fairness

=============================================================================
