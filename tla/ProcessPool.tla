----------------------------- MODULE ProcessPool -----------------------------
(***************************************************************************)
(* The pool of process names of process_poller/simple_process_pool.py: one *)
(* thread adds the processes that the event log reports, one thread per    *)
(* ended process removes it after a wait, every one of them queues a copy  *)
(* of the dictionary, and a fourth thread writes the copies, in the order  *)
(* of the queue, to the dictionary that other operating system processes   *)
(* read through PidProcessConverter.                                       *)
(*                                                                         *)
(* Windows is the environment: creation and termination events are read    *)
(* from the log by two subscribers, so the end of a process may be seen    *)
(* before its start.  A process id is used once (the code does not tell    *)
(* two processes with one id apart).                                       *)
(***************************************************************************)
EXTENDS Naturals, Sequences

CONSTANTS Pids,         \* the process ids
          OldPids,      \* those that run when the pool starts
          PidWaits      \* looks for a pid before a thread gives up (30)

ASSUME PoolAssumption == OldPids \subseteq Pids /\ PidWaits \in Nat \ {0}

VARIABLES alive, born,              \* the processes of the computer
          creations, terminations,  \* events not read yet
          pool,                     \* _processes; "absent": no entry
          pool_running,             \* _running
          creator, removers,        \* the threads that change the pool
          empty_cmdline_queue, update_queue,
          updater, shared,          \* the writer and the shared dictionary
          asker                     \* one caller of get_process_by_pid

world_vars == <<alive, born, creations, terminations>>
pool_vars == <<world_vars, pool, pool_running, creator, removers,
               empty_cmdline_queue, update_queue, updater, shared, asker>>

Lines == {"", "line"}
NobodyIn == [p \in Pids |-> "absent"]

\* _parse_event_xml: an empty <Data> element is read as None.
parsed(line) == IF line = "" THEN "None" ELSE line

\* start(): a snapshot of psutil, then the four threads.
PoolInit ==
    /\ alive = OldPids /\ born = OldPids
    /\ creations = <<>> /\ terminations = <<>>
    /\ pool \in [Pids -> {"absent"} \cup Lines]
    /\ \A p \in Pids : pool[p] = "absent" <=> p \notin OldPids
    /\ pool_running = TRUE
    /\ creator = [at |-> "emit", copy |-> NobodyIn]
    /\ removers = [p \in Pids |-> [at |-> "none", counter |-> 0, copy |-> NobodyIn]]
    /\ empty_cmdline_queue = <<>> /\ update_queue = <<>>
    /\ updater = [at |-> "get", dict |-> NobodyIn]
    /\ shared = NobodyIn
    /\ asker = [at |-> "idle"]

-----------------------------------------------------------------------------
(* Windows.                                                                *)
ProcessStarts(p, line) ==
    /\ p \notin born
    /\ alive' = alive \cup {p} /\ born' = born \cup {p}
    /\ creations' = Append(creations, [pid |-> p, line |-> line])
    /\ UNCHANGED <<terminations, pool, pool_running, creator, removers,
                   empty_cmdline_queue, update_queue, updater, shared, asker>>

ProcessEnds(p) ==
    /\ p \in alive
    /\ alive' = alive \ {p}
    /\ terminations' = Append(terminations, p)
    /\ UNCHANGED <<born, creations, pool, pool_running, creator, removers,
                   empty_cmdline_queue, update_queue, updater, shared, asker>>

-----------------------------------------------------------------------------
(* _start_main_thread: an event becomes an entry; the copy of the          *)
(* dictionary and its put are two steps.  The queue of missing command     *)
(* lines is fed before the entry exists; see MissingLinesAreFetched.       *)
creator_inserts ==
    /\ creator.at = "emit" /\ creations # <<>>
    /\ LET event == Head(creations)
           line == parsed(event.line)
       IN /\ empty_cmdline_queue' = IF line = ""
                                    THEN Append(empty_cmdline_queue, event.pid)
                                    ELSE empty_cmdline_queue
          /\ pool' = [pool EXCEPT ![event.pid] = line]
    /\ creations' = Tail(creations)
    /\ creator' = [creator EXCEPT !.at = "copy"]
    /\ UNCHANGED <<alive, born, terminations, pool_running, removers,
                   update_queue, updater, shared, asker>>

creator_copies ==
    /\ creator.at = "copy"
    /\ creator' = [at |-> "put", copy |-> pool]
    /\ UNCHANGED <<world_vars, pool, pool_running, removers,
                   empty_cmdline_queue, update_queue, updater, shared, asker>>

creator_puts ==
    /\ creator.at = "put"
    /\ update_queue' = Append(update_queue, creator.copy)
    /\ creator' = [at |-> IF pool_running THEN "emit" ELSE "ended", copy |-> NobodyIn]
    /\ UNCHANGED <<world_vars, pool, pool_running, removers,
                   empty_cmdline_queue, updater, shared, asker>>

(* _thread_process_termination: a removal thread for each event.           *)
termination_emits ==
    /\ pool_running /\ terminations # <<>>
    /\ removers' = [removers EXCEPT ![Head(terminations)].at = "look"]
    /\ terminations' = Tail(terminations)
    /\ UNCHANGED <<alive, born, creations, pool, pool_running, creator,
                   empty_cmdline_queue, update_queue, updater, shared, asker>>

(* _remove_pid: the entry may not be there yet; look PidWaits times, then  *)
(* give up.  Found, it is removed after another sleep.                     *)
Mutant_looked_once(p) == [removers[p] EXCEPT !.at = "pop"]

Mutant_looked_too_long(p) ==
    LET r == removers[p] IN
    IF pool[p] # "absent" THEN [r EXCEPT !.at = "pop"]
    ELSE [r EXCEPT !.counter = @ + 1,
                   !.at = IF r.counter = PidWaits THEN "gave_up" ELSE "look"]
looked(p) ==
    LET r == removers[p] IN
    IF pool[p] # "absent" THEN [r EXCEPT !.at = "pop"]
    ELSE [r EXCEPT !.counter = @ + 1,
                   !.at = IF r.counter + 1 = PidWaits THEN "gave_up" ELSE "look"]

remover_looks(p) ==
    /\ removers[p].at = "look"
    /\ removers' = [removers EXCEPT ![p] = looked(p)]
    /\ UNCHANGED <<world_vars, pool, pool_running, creator,
                   empty_cmdline_queue, update_queue, updater, shared, asker>>

remover_pops(p) ==
    /\ removers[p].at = "pop"
    /\ pool' = [pool EXCEPT ![p] = "absent"]
    /\ removers' = [removers EXCEPT ![p].at = "copy"]
    /\ UNCHANGED <<world_vars, pool_running, creator, empty_cmdline_queue,
                   update_queue, updater, shared, asker>>

remover_copies(p) ==
    /\ removers[p].at = "copy"
    /\ removers' = [removers EXCEPT ![p].at = "put", ![p].copy = pool]
    /\ UNCHANGED <<world_vars, pool, pool_running, creator,
                   empty_cmdline_queue, update_queue, updater, shared, asker>>

remover_puts(p) ==
    /\ removers[p].at = "put"
    /\ update_queue' = Append(update_queue, removers[p].copy)
    /\ removers' = [removers EXCEPT ![p].at = "removed", ![p].copy = NobodyIn]
    /\ UNCHANGED <<world_vars, pool, pool_running, creator,
                   empty_cmdline_queue, updater, shared, asker>>

(* _update_shared_dict: clear and update are two calls to the manager.     *)
updater_clears ==
    /\ updater.at = "get" /\ update_queue # <<>>
    /\ updater' = [at |-> "update", dict |-> Head(update_queue)]
    /\ update_queue' = Tail(update_queue)
    /\ shared' = NobodyIn
    /\ UNCHANGED <<world_vars, pool, pool_running, creator, removers,
                   empty_cmdline_queue, asker>>

updater_updates ==
    /\ updater.at = "update"
    /\ shared' = updater.dict
    /\ updater' = [at |-> IF pool_running THEN "get" ELSE "ended", dict |-> NobodyIn]
    /\ UNCHANGED <<world_vars, pool, pool_running, creator, removers,
                   empty_cmdline_queue, update_queue, asker>>

\* stop(): the threads end when they look at the flag again.
PoolStop ==
    /\ pool_running
    /\ pool_running' = FALSE
    /\ UNCHANGED <<world_vars, pool, creator, removers, empty_cmdline_queue,
                   update_queue, updater, shared, asker>>

-----------------------------------------------------------------------------
(* PidProcessConverter.get_process_by_pid: the keys of the shared          *)
(* dictionary, then the value of each key, PidWaits times; then psutil.    *)
asks(p) ==
    /\ asker.at = "idle" /\ p \in alive
    /\ asker' = [at |-> "keys", pid |-> p, counter |-> 0, found |-> "absent"]
    /\ UNCHANGED <<world_vars, pool, pool_running, creator, removers,
                   empty_cmdline_queue, update_queue, updater, shared>>

\* convert_proxy_dict_to_dict: a key that goes away in between is skipped.
another_look(a) ==
    [a EXCEPT !.counter = @ + 1,
              !.at = IF a.counter + 1 = PidWaits THEN "psutil" ELSE "keys"]

asker_lists_keys ==
    /\ asker.at = "keys"
    /\ asker' = IF shared[asker.pid] = "absent" THEN another_look(asker)
                ELSE [asker EXCEPT !.at = "value"]
    /\ UNCHANGED <<world_vars, pool, pool_running, creator, removers,
                   empty_cmdline_queue, update_queue, updater, shared>>

asker_reads_value ==
    /\ asker.at = "value"
    /\ asker' = IF shared[asker.pid] = "absent" THEN another_look(asker)
                ELSE [asker EXCEPT !.at = "answered", !.found = "details"]
    /\ UNCHANGED <<world_vars, pool, pool_running, creator, removers,
                   empty_cmdline_queue, update_queue, updater, shared>>

Mutant_last_resort(p) == "number"

\* The last resort: a new snapshot, or the number instead of the name.
last_resort(p) == IF p \in alive THEN "details" ELSE "number"
asker_uses_psutil ==
    /\ asker.at = "psutil"
    /\ asker' = [asker EXCEPT !.at = "answered", !.found = last_resort(asker.pid)]
    /\ UNCHANGED <<world_vars, pool, pool_running, creator, removers,
                   empty_cmdline_queue, update_queue, updater, shared>>

-----------------------------------------------------------------------------
PoolThreads ==
    \/ creator_inserts \/ creator_copies \/ creator_puts
    \/ termination_emits
    \/ \E p \in Pids : \/ remover_looks(p) \/ remover_pops(p)
                       \/ remover_copies(p) \/ remover_puts(p)
    \/ updater_clears \/ updater_updates

PoolNext ==
    \/ \E p \in Pids, line \in Lines : ProcessStarts(p, line)
    \/ \E p \in Pids : ProcessEnds(p)
    \/ PoolThreads
    \/ PoolStop
    \/ \E p \in Pids : asks(p)
    \/ asker_lists_keys \/ asker_reads_value \/ asker_uses_psutil

PoolSpec == PoolInit /\ [][PoolNext]_pool_vars

-----------------------------------------------------------------------------
PoolTypeOK ==
    /\ alive \subseteq born /\ born \subseteq Pids
    /\ pool \in [Pids -> {"absent", "None"} \cup Lines]
    /\ shared \in [Pids -> {"absent", "None"} \cup Lines]
    /\ removers \in [Pids -> [at : {"none", "look", "pop", "copy", "put",
                                    "removed", "gave_up"},
                              counter : 0 .. PidWaits,
                              copy : [Pids -> {"absent", "None"} \cup Lines]]]
    /\ creator.at \in {"emit", "copy", "put", "ended"}
    /\ updater.at \in {"get", "update", "ended"}

(* A process that runs is always named: whatever part of the dictionary is *)
(* cleared, late or out of order while get_process_by_pid polls it, a      *)
(* process that still runs at the answer was answered with its details.    *)
LiveIsNamed ==
    asker.at = "answered" /\ asker.found = "number" => asker.pid \notin alive

(* An entry that was removed does not come back, whatever the order in    *)
(* which a process's start and end are read (_remove_pid).                 *)
GoneForGood ==
    \A p \in Pids : removers[p].at \in {"copy", "put", "removed"} => pool[p] = "absent"

(* The pool tells of the living what they are, and of the dead nothing     *)
(* again (get_process_by_pid, _remove_pid).                                *)
PoolTellsTheTruth == LiveIsNamed /\ GoneForGood

(* The entry of an ended process goes away for good, also when its end is  *)
(* reported before its start, unless its thread gave up waiting for it     *)
(* or the pool was stopped (simple_process_pool.py:202-229).               *)
DeadLeaveThePool ==
    \A p \in Pids : <>[] \/ p \notin born \/ p \in alive
                         \/ pool[p] = "absent"
                         \/ removers[p].at = "gave_up"
                         \/ ~pool_running

(* "The event log tracing method doesn't always give the command line,     *)
(* unlike the psutil method.  So, we'll get the command line from the      *)
(* current psutil snapshot separately." (:158-159)  The parser gives None  *)
(* for an empty command line and the code compares with ''.                *)
MissingLinesAreFetched ==
    \A p \in alive : pool[p] = "None" =>
        \E i \in DOMAIN empty_cmdline_queue : empty_cmdline_queue[i] = p
=============================================================================
