---------------------------- MODULE RecursivePool ----------------------------
(***************************************************************************)
(* The recursive pools of basics/multiprocesses.py: MultiProcessorRecursive*)
(* ("multi"), the same on a ProcessPoolExecutor ("executor") and           *)
(* ConcurrentProcessorRecursive ("concurrent"), one call of run_process    *)
(* and the shutdown after it.  A task is an input, its result the inputs   *)
(* it spawns.  In "multi" the results are taken by the pool's own thread,  *)
(* which runs while the main thread still submits; it counts tasks.  The   *)
(* updates of the count are single bytecodes apart from calls, so they are *)
(* taken as indivisible; what is between them is not.                      *)
(***************************************************************************)
EXTENDS Naturals, Sequences, FiniteSets, SequencesExt

CONSTANTS Tasks, ChildrenOf,  \* the inputs, and what the result of each spawns
          FirstTasks,         \* the possible input_list of the call
          PoolKinds,
          PoolWorkers         \* max_workers

ASSUME RecAssumption ==
    /\ IsFiniteSet(Tasks) /\ ChildrenOf \in [Tasks -> SUBSET Tasks]
    /\ FirstTasks \subseteq SUBSET Tasks
    /\ PoolKinds \subseteq {"multi", "executor", "concurrent"}
    /\ PoolWorkers \in Nat \ {0}

(* A task with everything it may spawn, directly or not.  An input that is *)
(* given twice is two tasks, so that every task comes from one place.      *)
Closed(S) == \A u \in S : ChildrenOf[u] \subseteq S
Family(t) == {u \in Tasks : \A S \in SUBSET Tasks : t \in S /\ Closed(S) => u \in S}
Apart(S) == \A t, u \in S : t # u => Family(t) \cap Family(u) = {}

ASSUME ForestAssumption ==
    /\ \A t \in Tasks : /\ Apart(ChildrenOf[t])
                        /\ \A c \in ChildrenOf[t] : t \notin Family(c)
    /\ \A first \in FirstTasks : Apart(first)

VARIABLES recKind,
          recMain,        \* main thread: "submit", "wait", "returned", "raised", "shut"
          recInput,       \* input_list, or work_q: not submitted yet
          recRunning,     \* submitted, not finished
          recResults,     \* finished: task |-> did it succeed
          recSpawn,       \* the result thread: children it still has to submit
          recThread,      \* the result thread: "idle", "spawning", "dead"
          recOutstanding, \* outstanding
          recDoneEvent,   \* done_event
          recFailed       \* a task raised

recVars == <<recKind, recMain, recInput, recRunning, recResults, recSpawn, recThread,
             recOutstanding, recDoneEvent, recFailed>>
recCounting == <<recSpawn, recThread, recOutstanding, recDoneEvent>>

Unfinished == recRunning \cup DOMAIN recResults
-----------------------------------------------------------------------------
RecInit ==
    /\ recKind \in PoolKinds
    /\ recMain = "submit"
    /\ recInput \in FirstTasks
    /\ recRunning = {}
    /\ recResults = <<>>
    /\ recSpawn = {}
    /\ recThread = "idle"
    /\ recOutstanding = 0
    /\ recDoneEvent = FALSE
    /\ recFailed = FALSE

(* A worker process ends a task, with a result or with an exception. *)
finish(t) ==
    /\ t \in recRunning
    /\ recRunning' = recRunning \ {t}
    /\ \E ok \in BOOLEAN :
          /\ recResults' = [u \in DOMAIN recResults \cup {t} |->
                               IF u = t THEN ok ELSE recResults[u]]
          /\ recFailed' = (recFailed \/ ~ok)
    /\ UNCHANGED <<recKind, recMain, recInput, recCounting>>

Taken(t) == [u \in DOMAIN recResults \ {t} |-> recResults[u]]
Spawned(t) == IF recResults[t] THEN ChildrenOf[t] ELSE {}
-----------------------------------------------------------------------------
(* MultiProcessorRecursive *)

multi_submit(t) ==
    /\ recKind = "multi" /\ recMain = "submit" /\ t \in recInput
    /\ recInput' = recInput \ {t}
    /\ recOutstanding' = recOutstanding + 1
    /\ recRunning' = recRunning \cup {t}
    /\ UNCHANGED <<recKind, recMain, recResults, recSpawn, recThread, recDoneEvent,
                   recFailed>>

(* input_list.clear(), then done_event.wait() *)
multi_wait ==
    /\ recKind = "multi" /\ recMain = "submit" /\ recInput = {}
    /\ recMain' = "wait"
    /\ UNCHANGED <<recKind, recInput, recRunning, recResults, recCounting, recFailed>>
multi_return ==
    /\ recKind = "multi" /\ recMain = "wait" /\ recDoneEvent
    /\ recMain' = "returned"
    /\ UNCHANGED <<recKind, recInput, recRunning, recResults, recCounting, recFailed>>

(* _on_finish: the count goes down, the children are submitted one by one, *)
(* then the count is looked at.                                            *)
multi_on_finish(t) ==
    /\ recKind = "multi" /\ recThread = "idle"
    /\ t \in DOMAIN recResults /\ recResults[t]
    /\ recResults' = Taken(t)
    /\ recOutstanding' = recOutstanding - 1
    /\ recSpawn' = ChildrenOf[t]
    /\ recThread' = "spawning"
    /\ UNCHANGED <<recKind, recMain, recInput, recRunning, recDoneEvent, recFailed>>
multi_spawn(t) ==
    /\ recThread = "spawning" /\ t \in recSpawn
    /\ recSpawn' = recSpawn \ {t}
    /\ recOutstanding' = recOutstanding + 1
    /\ recRunning' = recRunning \cup {t}
    /\ UNCHANGED <<recKind, recMain, recInput, recResults, recThread, recDoneEvent, recFailed>>
Mutant_multi_finished ==
    /\ recThread = "spawning" /\ recSpawn = {}
    /\ recThread' = "idle"
    /\ recDoneEvent' = (recDoneEvent \/ (recOutstanding = 0 /\ recMain = "wait"))
    /\ UNCHANGED <<recKind, recMain, recInput, recRunning, recResults, recSpawn,
                   recOutstanding, recFailed>>
multi_finished ==
    /\ recThread = "spawning" /\ recSpawn = {}
    /\ recThread' = "idle"
    /\ recDoneEvent' = (recDoneEvent \/ recOutstanding = 0)
    /\ UNCHANGED <<recKind, recMain, recInput, recRunning, recResults, recSpawn,
                   recOutstanding, recFailed>>

(* _on_error: the event is set, and the exception it raises ends the       *)
(* pool's result thread; the result stays in the pool's cache.             *)
multi_on_error(t) ==
    /\ recKind = "multi" /\ recThread = "idle"
    /\ t \in DOMAIN recResults /\ ~recResults[t]
    /\ recDoneEvent' = TRUE
    /\ recThread' = "dead"
    /\ UNCHANGED <<recKind, recMain, recInput, recRunning, recResults, recSpawn,
                   recOutstanding, recFailed>>
-----------------------------------------------------------------------------
(* _fill of the executor: up to max_workers futures; the other class       *)
(* submits everything it has.                                              *)
Fill(queue, futures) ==
    LET free == PoolWorkers - Cardinality(futures)
    IN  IF recKind = "executor"
        THEN {more \in SUBSET queue : Cardinality(more) = Min({free, Cardinality(queue)})}
        ELSE {queue}
SubmitFrom(queue, futures) ==
    \E more \in Fill(queue, futures) :
        /\ recInput' = queue \ more
        /\ recRunning' = recRunning \cup more

first_wave ==
    /\ recKind # "multi" /\ recMain = "submit"
    /\ SubmitFrom(recInput, {})
    /\ recMain' = "wait"
    /\ UNCHANGED <<recKind, recResults, recCounting, recFailed>>

(* A completed future: its children join the queue, free places are        *)
(* filled.  An exception leaves run_process of the executor; the other     *)
(* class prints it.                                                        *)
Mutant_take_result(t) ==
    /\ recKind # "multi" /\ recMain = "wait" /\ t \in DOMAIN recResults
    /\ recResults' = Taken(t)
    /\ recMain' = IF recKind = "executor" /\ ~recResults[t] THEN "raised"
                  ELSE IF recRunning = {} THEN "returned" ELSE "wait"
    /\ IF recMain' = "raised" THEN UNCHANGED <<recInput, recRunning>>
       ELSE SubmitFrom(recInput \cup Spawned(t), Unfinished \ {t})
    /\ UNCHANGED <<recKind, recCounting, recFailed>>
take_result(t) ==
    /\ recKind # "multi" /\ recMain = "wait" /\ t \in DOMAIN recResults
    /\ recResults' = Taken(t)
    /\ IF recKind = "executor" /\ ~recResults[t]
       THEN recMain' = "raised" /\ UNCHANGED <<recInput, recRunning>>
       ELSE /\ SubmitFrom(recInput \cup Spawned(t), Unfinished \ {t})
            /\ UNCHANGED recMain
    /\ UNCHANGED <<recKind, recCounting, recFailed>>

(* `while futures` *)
no_futures ==
    /\ recKind # "multi" /\ recMain = "wait" /\ Unfinished = {}
    /\ recMain' = "returned"
    /\ UNCHANGED <<recKind, recInput, recRunning, recResults, recCounting, recFailed>>

(* shutdown: the executor waits for what runs; pool.join() waits until the *)
(* pool's cache is empty.                                                  *)
shutdown ==
    /\ recMain \in {"returned", "raised"}
    /\ IF recKind = "multi" THEN Unfinished = {} /\ recThread = "idle" ELSE recRunning = {}
    /\ recMain' = "shut"
    /\ UNCHANGED <<recKind, recInput, recRunning, recResults, recCounting, recFailed>>

RecStep ==
    \/ \E t \in Tasks :
          \/ finish(t) \/ multi_submit(t) \/ multi_on_finish(t) \/ multi_spawn(t)
          \/ multi_on_error(t) \/ take_result(t)
    \/ multi_wait \/ multi_return \/ multi_finished
    \/ first_wave \/ no_futures \/ shutdown

RecSpec == RecInit /\ [][RecStep]_recVars /\ WF_recVars(RecStep)
-----------------------------------------------------------------------------
RecTypeOK ==
    /\ recMain \in {"submit", "wait", "returned", "raised", "shut"}
    /\ recInput \subseteq Tasks /\ recRunning \subseteq Tasks /\ recSpawn \subseteq Tasks
    /\ DOMAIN recResults \subseteq Tasks
    /\ recOutstanding \in 0 .. Cardinality(Tasks)
    /\ recThread \in {"idle", "spawning", "dead"}

(* Every pool is a TaskPool: no task is lost or taken twice, the spawned   *)
(* ones join the open ones, and the two pools on executors come back only  *)
(* when no task is open or with an exception.                              *)
Abstract == INSTANCE TaskPool WITH
    open <- recInput \cup Unfinished \cup recSpawn,
    back <- recMain \in {"returned", "raised", "shut"},
    hasty <- recKind = "multi"
PoolImplementsTaskPool == Abstract!TaskPoolSpec

(* run_process comes back and the pool can be shut down, unless a task     *)
(* raised in "multi" or its list of inputs was empty: then nothing sets    *)
(* the event, and no thread takes the results.                             *)
PoolShutsDown ==
    (recMain = "submit" /\ (recKind = "multi" => recInput # {}))
        ~> (recMain = "shut" \/ (recKind = "multi" /\ recFailed))
=============================================================================
