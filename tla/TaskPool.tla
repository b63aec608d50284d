------------------------------- MODULE TaskPool -------------------------------
(***************************************************************************)
(* What a recursive pool of basics/multiprocesses.py promises: the results *)
(* of a task are tasks again, and run_process comes back when there is no  *)
(* task left, or with the exception of a task.  A pool may be `hasty`: the *)
(* one built on multiprocessing.Pool counts its tasks while they finish,   *)
(* and may find the count at zero too early.                               *)
(***************************************************************************)
CONSTANTS Tasks, ChildrenOf

VARIABLES open,   \* tasks that are known and whose result was not taken yet
          back,   \* has run_process come back
          hasty

Come(t, spawned) ==
    /\ t \in open
    /\ spawned \in {{}, ChildrenOf[t]}
    /\ open' = (open \ {t}) \cup spawned
    /\ back' = back

TaskPoolInit == open \in SUBSET Tasks /\ back = FALSE /\ hasty \in BOOLEAN
TaskPoolNext ==
    /\ hasty' = hasty
    /\ \/ \E t \in Tasks, spawned \in SUBSET Tasks : Come(t, spawned)
       \/ /\ open = {} \/ hasty
          /\ back' = TRUE /\ open' = open
       \/ \E t \in open : back' = TRUE /\ open' = open \ {t}   \* an exception
TaskPoolSpec == TaskPoolInit /\ [][TaskPoolNext]_<<open, back, hasty>>
=============================================================================
