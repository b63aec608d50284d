--------------------------- MODULE LookupService ---------------------------
(***************************************************************************)
(* What a connection thread may rely on when it asks which process opened  *)
(* its connection (SSHLookupClient.lookup, mitm/ssh_broker.py): the call   *)
(* always returns, and returns either what was found for this very         *)
(* connection or a string that says why nothing was.  How requests travel  *)
(* between processes, who shares an SSH connection, and what is late,      *)
(* lost or killed on the way is not visible here.                          *)
(***************************************************************************)
CONSTANT Callers       \* connection threads; each makes one lookup

VARIABLES
    status,            \* per caller: "idle", "asking" or "returned"
    result             \* per caller: what lookup() returned

vars == <<status, result>>

NoOne == "no one"
NoResult == [kind |-> "none", of |-> NoOne]

(* What the broker found out about a connection, and what the caller makes *)
(* up itself when it has not heard from the broker.                        *)
Found(c) == {[kind |-> k, of |-> c] : k \in {"command_line", "error"}}
Excuses  == {[kind |-> k, of |-> NoOne] : k \in {"timeout", "client_error"}}

Init ==
    /\ status = [c \in Callers |-> "idle"]
    /\ result = [c \in Callers |-> NoResult]

Ask(c) ==
    /\ status[c] = "idle"
    /\ status' = [status EXCEPT ![c] = "asking"]
    /\ UNCHANGED result

Return(c) ==
    /\ status[c] = "asking"
    /\ status' = [status EXCEPT ![c] = "returned"]
    /\ \E r \in Found(c) \cup Excuses : result' = [result EXCEPT ![c] = r]

Next == \E c \in Callers : Ask(c) \/ Return(c)

(* A caller that asked is answered; nobody has to ask.                     *)
Spec == Init /\ [][Next]_vars /\ \A c \in Callers : WF_vars(Return(c))

=============================================================================
