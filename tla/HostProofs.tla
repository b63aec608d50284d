------------------------------ MODULE HostProofs ------------------------------
(***************************************************************************)
(* Theorems about the components of MCHost, for every value of their       *)
(* constants.  First the pools by themselves: every pool of RecursivePool  *)
(* is a TaskPool, for any forest of tasks, any first tasks and any number  *)
(* of workers, and what ProcessPool promises holds for any process ids and *)
(* any number of looks.  Then the event log, the tracing, the monitors and *)
(* a behaviour in which any one of the components runs.                    *)
(***************************************************************************)
EXTENDS MCHost, FiniteSetTheorems, SequenceTheorems, TLAPS

(* What is still to be done by a recursive pool.                          *)
Open == recInput \cup Unfinished \cup recSpawn

(* Where a task can be.                                                    *)
Placed ==
    /\ recInput \subseteq Tasks /\ recRunning \subseteq Tasks /\ recSpawn \subseteq Tasks
    /\ recResults \in [DOMAIN recResults -> BOOLEAN] /\ DOMAIN recResults \subseteq Tasks
    /\ recKind \in {"multi", "executor", "concurrent"}

(* A task is in one place only.                                            *)
OnePlace ==
    /\ recInput \cap recRunning = {} /\ recInput \cap DOMAIN recResults = {}
    /\ recInput \cap recSpawn = {} /\ recRunning \cap DOMAIN recResults = {}
    /\ recRunning \cap recSpawn = {} /\ DOMAIN recResults \cap recSpawn = {}

(* Only the result thread of "multi" has children in hand.                 *)
InHand ==
    /\ recThread # "spawning" => recSpawn = {}
    /\ recKind # "multi" => recThread = "idle"

(* The pools on executors leave nothing in the queue while a worker is     *)
(* free.                                                                   *)
NoneLeftBehind ==
    recKind # "multi" /\ recMain = "wait" /\ Unfinished = {} => recInput = {}

RecInv == Placed /\ OnePlace /\ Apart(Open) /\ InHand /\ NoneLeftBehind
-----------------------------------------------------------------------------
(* Families: a task is of its own, and its children's are within it.       *)
LEMMA OfItself == ASSUME NEW t \in Tasks PROVE t \in Family(t)
BY DEF Family

(* The family of a child is within its parent's.                           *)
LEMMA FamilyGrows ==
    ASSUME NEW t \in Tasks, NEW c \in ChildrenOf[t]
    PROVE  c \in Tasks /\ Family(c) \subseteq Family(t)
<1>1. c \in Tasks
  BY RecAssumption
<1>2. ASSUME NEW u \in Family(c) PROVE u \in Family(t)
  <2>1. ASSUME NEW S \in SUBSET Tasks, t \in S, Closed(S) PROVE u \in S
    <3>1. c \in S
      BY <2>1 DEF Closed
    <3> QED BY <2>1, <3>1, <1>2 DEF Family
  <2> QED BY <2>1, <1>2 DEF Family
<1> QED BY <1>1, <1>2

(* A task that is replaced by its children, or by nothing: the families of *)
(* the open tasks stay apart, and no child is open already.                *)
LEMMA ReplacedByChildren ==
    ASSUME NEW S \in SUBSET Tasks, Apart(S), NEW t \in S,
           NEW spawned \in {{}, ChildrenOf[t]}
    PROVE  /\ spawned \subseteq Tasks /\ spawned \cap S = {}
           /\ Apart((S \ {t}) \cup spawned)
<1>1. \A c \in spawned : /\ c \in Tasks /\ Family(c) \subseteq Family(t)
                         /\ t \notin Family(c) /\ c \in Family(c)
  BY FamilyGrows, OfItself, ForestAssumption
<1>2. spawned \cap S = {}
  BY <1>1, OfItself DEF Apart
<1>3. Apart(spawned)
  BY ForestAssumption DEF Apart
<1>4. \A c \in spawned, u \in S \ {t} : Family(c) \cap Family(u) = {}
  BY <1>1 DEF Apart
<1> QED BY <1>1, <1>2, <1>3, <1>4 DEF Apart

(* The smaller of two numbers is zero only if one of them is.              *)
LEMMA LeastOfTwo ==
    ASSUME NEW a \in Nat, NEW b \in Nat, Min({a, b}) = 0 PROVE a = 0 \/ b = 0
<1>1. \E x \in {a, b} : \A y \in {a, b} : x <= y
  OBVIOUS
<1>2. Min({a, b}) \in {a, b}
  BY <1>1 DEF Min
<1> QED BY <1>2

(* What Fill submits is of the queue; a pool with nothing running leaves   *)
(* nothing of it behind only if there is nothing.                          *)
LEMMA FillTakes ==
    ASSUME NEW queue \in SUBSET Tasks, NEW more \in Fill(queue, {})
    PROVE  more = {} => queue = {}
<1> SUFFICES ASSUME more = {} PROVE queue = {}
  OBVIOUS
<1>1. CASE recKind = "executor"
  <2>1. IsFiniteSet(queue) /\ Cardinality(queue) \in Nat
    BY RecAssumption, FS_Subset, FS_CardinalityType
  <2>2. Cardinality({}) = 0
    BY FS_EmptySet
  <2>3. Min({PoolWorkers - 0, Cardinality(queue)}) = 0
    BY <1>1, <2>2 DEF Fill
  <2>4. PoolWorkers - 0 \in Nat /\ PoolWorkers - 0 # 0
    BY RecAssumption
  <2>5. Cardinality(queue) = 0
    BY <2>1, <2>3, <2>4, LeastOfTwo
  <2> QED BY <2>1, <2>5, FS_EmptySet
<1>2. CASE recKind # "executor"
  BY <1>2 DEF Fill
<1> QED BY <1>1, <1>2

(* All that Fill submits is of the queue.                                  *)
LEMMA FillIsOfQueue ==
    ASSUME NEW queue, NEW futures, NEW more \in Fill(queue, futures)
    PROVE  more \subseteq queue /\ (recKind # "executor" => more = queue)
BY DEF Fill
-----------------------------------------------------------------------------
(* The invariant holds when run_process begins.                            *)
LEMMA RecInvInit == RecInit => RecInv
BY RecAssumption, ForestAssumption
   DEF RecInit, RecInv, Placed, OnePlace, Open, Unfinished, InHand, NoneLeftBehind

Back == recMain \in {"returned", "raised", "shut"}

(* A step keeps the invariant and is a step of TaskPool, or none.          *)
Keeps == RecInv' /\ [Abstract!TaskPoolNext]_<<Open, Back, recKind = "multi">>

(* A step that only moves tasks between places, or ends the call.          *)
LEMMA TasksMove ==
    ASSUME RecInv, Placed', OnePlace', InHand', NoneLeftBehind',
           Open' = Open, recKind' = recKind,
           Back' = Back \/ (Back' /\ (Open = {} \/ recKind = "multi"))
    PROVE  Keeps
<1>1. RecInv'
  <2>1. Apart(Open)'
    BY DEF RecInv, Apart
  <2> QED BY <2>1 DEF RecInv
<1>2. Abstract!TaskPoolNext \/ UNCHANGED <<Open, Back, recKind = "multi">>
  <2>1. CASE Back' = Back
    BY <2>1
  <2>2. CASE Back' /\ (Open = {} \/ recKind = "multi")
    BY <2>2 DEF Abstract!TaskPoolNext, Open, Back
  <2> QED BY <2>1, <2>2
<1> QED BY <1>1, <1>2 DEF Keeps, Back

(* The result of t is taken.                                               *)
LEMMA TaskComes ==
    ASSUME RecInv, Placed', OnePlace', InHand', NoneLeftBehind', recKind' = recKind,
           NEW t \in Open, NEW spawned \in {{}, ChildrenOf[t]},
           Open' = (Open \ {t}) \cup spawned,
           Back' = Back \/ (Back' /\ spawned = {})
    PROVE  Keeps
<1>1. Open \in SUBSET Tasks
  BY DEF RecInv, Placed, Open, Unfinished
<1>2. Apart(Open)'
  BY <1>1, ReplacedByChildren DEF RecInv, Apart
<1>3. spawned \subseteq Tasks
  BY <1>1, RecAssumption
<1>4. Abstract!TaskPoolNext
  <2>1. CASE Back' = Back
    <3>1. Abstract!Come(t, spawned)
      BY <2>1 DEF Abstract!Come, Open, Back
    <3> QED BY <1>1, <1>3, <3>1 DEF Abstract!TaskPoolNext
  <2>2. CASE Back' /\ spawned = {}
    BY <2>2 DEF Abstract!TaskPoolNext, Open, Back
  <2> QED BY <2>1, <2>2
<1> QED BY <1>2, <1>4 DEF Keeps, RecInv
-----------------------------------------------------------------------------
(* A task of the queue is where the type and the places say.               *)
LEMMA TakenResult ==
    ASSUME Placed, NEW t \in DOMAIN recResults
    PROVE  /\ DOMAIN Taken(t) = DOMAIN recResults \ {t}
           /\ Taken(t) \in [DOMAIN recResults \ {t} -> BOOLEAN]
           /\ Spawned(t) \in {{}, ChildrenOf[t]}
BY DEF Taken, Placed, Spawned

(* Every step of every pool keeps the invariant and is allowed by TaskPool. *)
LEMMA StepKeeps == RecInv /\ RecStep => Keeps
<1> SUFFICES ASSUME RecInv, RecStep PROVE Keeps
  OBVIOUS
<1>a. Placed /\ OnePlace /\ Apart(Open) /\ InHand /\ NoneLeftBehind
  BY DEF RecInv
<1> DEFINE places == <<recKind, recInput, recRunning, recResults, recSpawn>>
(* Only the main thread goes on, or the count and the event change.        *)
<1>b. ASSUME UNCHANGED places, InHand', NoneLeftBehind',
             Back' = Back \/ (Back' /\ (Open = {} \/ recKind = "multi"))
      PROVE  Keeps
  <2>1. Placed' /\ OnePlace' /\ Open' = Open /\ recKind' = recKind
    BY <1>a, <1>b DEF Placed, OnePlace, Open, Unfinished
  <2> QED BY <1>b, <2>1, TasksMove
<1>1. ASSUME NEW t \in Tasks, finish(t) PROVE Keeps
  <2>1. /\ recRunning' = recRunning \ {t} /\ t \in recRunning
        /\ DOMAIN recResults' = DOMAIN recResults \cup {t}
        /\ UNCHANGED <<recKind, recMain, recInput, recCounting>>
    BY <1>1 DEF finish
  <2>2. recResults' \in [DOMAIN recResults \cup {t} -> BOOLEAN]
    BY <1>1, <1>a DEF finish, Placed
  <2>3. Placed'
    BY <2>1, <2>2, <1>a DEF Placed, recCounting
  <2>4. OnePlace' /\ InHand' /\ NoneLeftBehind' /\ Open' = Open /\ Back' = Back
    BY <2>1, <1>a DEF OnePlace, InHand, NoneLeftBehind, Open, Unfinished, Back, recCounting
  <2> QED BY <2>1, <2>3, <2>4, TasksMove
<1>2. ASSUME NEW t \in Tasks, multi_submit(t) PROVE Keeps
  <2>1. Placed' /\ OnePlace' /\ InHand' /\ NoneLeftBehind' /\ Open' = Open /\ Back' = Back
    BY <1>2, <1>a DEF multi_submit, Placed, OnePlace, InHand, NoneLeftBehind, Open,
       Unfinished, Back
  <2> QED BY <1>2, <2>1, TasksMove DEF multi_submit
<1>3. CASE multi_wait
  BY <1>3, <1>a, <1>b DEF multi_wait, InHand, NoneLeftBehind, Back, recCounting
<1>4. CASE multi_return
  BY <1>4, <1>a, <1>b DEF multi_return, InHand, NoneLeftBehind, Back, recCounting
<1>5. ASSUME NEW t \in Tasks, multi_on_finish(t) PROVE Keeps
  <2>1. /\ t \in DOMAIN recResults /\ recResults' = Taken(t) /\ recSpawn = {}
        /\ recSpawn' = ChildrenOf[t] /\ recThread' = "spawning" /\ recKind = "multi"
        /\ UNCHANGED <<recKind, recMain, recInput, recRunning>>
    BY <1>5, <1>a DEF multi_on_finish, InHand
  <2>2. /\ DOMAIN recResults' = DOMAIN recResults \ {t}
        /\ recResults' \in [DOMAIN recResults' -> BOOLEAN]
    BY <2>1, <1>a, TakenResult
  <2>3. Open \subseteq Tasks /\ t \in Open
    BY <2>1, <1>a DEF Open, Unfinished, Placed
  <2>4. ChildrenOf[t] \subseteq Tasks /\ ChildrenOf[t] \cap Open = {}
    BY <2>3, <1>a, ReplacedByChildren
  <2>5. Placed' /\ OnePlace'
    BY <2>1, <2>2, <2>4, <1>a DEF Placed, OnePlace, Open, Unfinished
  <2>6. Open' = (Open \ {t}) \cup ChildrenOf[t]
    BY <2>1, <2>2, <1>a DEF OnePlace, Open, Unfinished
  <2>7. InHand' /\ NoneLeftBehind' /\ Back' = Back
    BY <2>1 DEF InHand, NoneLeftBehind, Back
  <2> QED BY <2>1, <2>3, <2>5, <2>6, <2>7, TaskComes
<1>6. ASSUME NEW t \in Tasks, multi_spawn(t) PROVE Keeps
  <2>1. recKind = "multi"
    BY <1>6, <1>a DEF multi_spawn, InHand
  <2>2. Placed' /\ OnePlace' /\ InHand' /\ NoneLeftBehind' /\ Open' = Open /\ Back' = Back
    BY <1>6, <2>1, <1>a DEF multi_spawn, Placed, OnePlace, InHand, NoneLeftBehind, Open,
       Unfinished, Back
  <2> QED BY <1>6, <2>2, TasksMove DEF multi_spawn
<1>7. CASE multi_finished
  BY <1>7, <1>a, <1>b DEF multi_finished, InHand, NoneLeftBehind, Back, Unfinished
<1>8. ASSUME NEW t \in Tasks, multi_on_error(t) PROVE Keeps
  BY <1>8, <1>a, <1>b DEF multi_on_error, InHand, NoneLeftBehind, Back
<1>9. CASE first_wave
  <2>1. PICK more \in Fill(recInput, {}) :
            /\ recInput' = recInput \ more /\ recRunning' = recRunning \cup more
    BY <1>9 DEF first_wave, SubmitFrom
  <2>2. more \subseteq recInput /\ (more = {} => recInput = {})
    BY FillIsOfQueue, FillTakes, <1>a DEF Placed
  <2>3. UNCHANGED <<recKind, recResults, recCounting>> /\ recMain = "submit" /\ recMain' = "wait"
    BY <1>9 DEF first_wave
  <2>4. Placed' /\ OnePlace' /\ InHand' /\ Open' = Open
    BY <2>1, <2>2, <2>3, <1>a DEF Placed, OnePlace, InHand, Open, Unfinished, recCounting
  <2>5. NoneLeftBehind' /\ Back' = Back
    BY <2>1, <2>2, <2>3 DEF NoneLeftBehind, Unfinished, Back
  <2> QED BY <2>3, <2>4, <2>5, TasksMove
<1>10. ASSUME NEW t \in Tasks, take_result(t) PROVE Keeps
  <2>1. /\ t \in DOMAIN recResults /\ recResults' = Taken(t) /\ recSpawn = {}
        /\ recKind # "multi" /\ recMain = "wait" /\ UNCHANGED <<recKind, recCounting>>
    BY <1>10, <1>a DEF take_result, InHand
  <2>2. /\ DOMAIN recResults' = DOMAIN recResults \ {t}
        /\ recResults' \in [DOMAIN recResults' -> BOOLEAN]
        /\ Spawned(t) \in {{}, ChildrenOf[t]}
    BY <2>1, <1>a, TakenResult
  <2>3. Open \subseteq Tasks /\ t \in Open
    BY <2>1, <1>a DEF Open, Unfinished, Placed
  <2>4. Spawned(t) \subseteq Tasks /\ Spawned(t) \cap Open = {}
    <3>1. ChildrenOf[t] \subseteq Tasks /\ ChildrenOf[t] \cap Open = {}
      BY <2>3, <1>a, ReplacedByChildren
    <3> QED BY <2>2, <3>1
  <2>5. CASE recKind = "executor" /\ ~recResults[t]
    <3>1. recMain' = "raised" /\ UNCHANGED <<recInput, recRunning>>
      BY <1>10, <2>5 DEF take_result
    <3>2. Placed' /\ OnePlace' /\ InHand' /\ NoneLeftBehind' /\ Back'
      BY <2>1, <2>2, <3>1, <1>a DEF Placed, OnePlace, InHand, NoneLeftBehind, Back, recCounting
    <3>3. Open' = (Open \ {t}) \cup {}
      BY <2>1, <2>2, <3>1, <1>a DEF OnePlace, Open, Unfinished, recCounting
    <3> QED BY <2>1, <2>3, <3>2, <3>3, TaskComes
  <2>6. CASE ~(recKind = "executor" /\ ~recResults[t])
    <3> DEFINE queue == recInput \cup Spawned(t)
    <3>1. PICK more \in Fill(queue, Unfinished \ {t}) :
              /\ recInput' = queue \ more /\ recRunning' = recRunning \cup more
      BY <1>10, <2>6 DEF take_result, SubmitFrom
    <3>2. recMain' = recMain
      BY <1>10, <2>6 DEF take_result
    <3>3. more \subseteq queue /\ queue \in SUBSET Tasks
      BY FillIsOfQueue, <2>4, <1>a DEF Placed
    <3>4. Placed'
      BY <2>1, <2>2, <3>1, <3>3, <1>a DEF Placed, recCounting
    <3>5. OnePlace' /\ InHand'
      BY <2>1, <2>2, <2>4, <3>1, <3>3, <1>a DEF OnePlace, InHand, Open, Unfinished, recCounting
    <3>6. Open' = (Open \ {t}) \cup Spawned(t)
      BY <2>1, <2>2, <3>1, <3>3, <1>a DEF OnePlace, Open, Unfinished, recCounting
    <3>7. NoneLeftBehind'
      <4> SUFFICES ASSUME Unfinished' = {} PROVE recInput' = {}
        BY DEF NoneLeftBehind
      <4>1. Unfinished \ {t} = {} /\ more = {}
        BY <2>1, <2>2, <3>1, <1>a DEF Unfinished, OnePlace
      <4>2. queue = {}
        BY <3>1, <3>3, <4>1, FillTakes
      <4> QED BY <3>1, <4>2
    <3>8. Back' = Back
      BY <3>2 DEF Back
    <3> QED BY <2>1, <2>2, <2>3, <3>4, <3>5, <3>6, <3>7, <3>8, TaskComes
  <2> QED BY <2>5, <2>6
<1>11. CASE no_futures
  <2>1. Open = {}
    BY <1>11, <1>a DEF no_futures, NoneLeftBehind, InHand, Open
  <2> QED BY <1>11, <2>1, <1>a, <1>b DEF no_futures, InHand, NoneLeftBehind, Back, recCounting
<1>12. CASE shutdown
  BY <1>12, <1>a, <1>b DEF shutdown, InHand, NoneLeftBehind, Back, recCounting
<1> HIDE DEF places
<1> QED BY <1>1, <1>2, <1>3, <1>4, <1>5, <1>6, <1>7, <1>8, <1>9, <1>10, <1>11, <1>12 DEF RecStep

(* Nothing happens, and nothing is lost.                                   *)
LEMMA StutterKeeps == RecInv /\ UNCHANGED recVars => Keeps
<1> SUFFICES ASSUME RecInv, UNCHANGED recVars PROVE Keeps
  OBVIOUS
<1>1. Placed' /\ OnePlace' /\ InHand' /\ NoneLeftBehind' /\ Open' = Open /\ Back' = Back
  BY DEF RecInv, Placed, OnePlace, InHand, NoneLeftBehind, Open, Unfinished, Back, recVars
<1> QED BY <1>1, TasksMove DEF recVars

(* Each pool takes the result of a task it has not taken before, adds its  *)
(* children, and comes back when nothing is left or a task raised, "multi" *)
(* perhaps too early (run_process of the three classes): for any forest of *)
(* tasks, first tasks and number of workers.                               *)
THEOREM PoolsRunEachTaskOnce == RecSpec => PoolImplementsTaskPool
<1>1. RecInit => Abstract!TaskPoolInit
  BY RecAssumption DEF RecInit, Abstract!TaskPoolInit, Unfinished
<1>2. RecInv /\ [RecStep]_recVars => RecInv' /\ [Abstract!TaskPoolNext]_<<Open, Back, recKind = "multi">>
  BY StepKeeps, StutterKeeps DEF Keeps
<1> QED BY <1>1, <1>2, RecInvInit, PTL
        DEF RecSpec, PoolImplementsTaskPool, Abstract!TaskPoolSpec, Open, Back
-----------------------------------------------------------------------------
Places == {"keys", "value", "psutil", "answered"}
Found == {"absent", "details", "number"}
Asked == [at : Places, pid : Pids, counter : Nat, found : Found]

(* The caller of get_process_by_pid, and that it asked about a process     *)
(* that has been started.                                                  *)
AskerOK == asker = [at |-> "idle"] \/ (asker \in Asked /\ asker.pid \in born)

(* What a caller's step changes of its record.                             *)
LEMMA AskedLooksAgain ==
    ASSUME NEW a \in Asked, NEW at \in Places, NEW n \in Nat
    PROVE  /\ [a EXCEPT !.counter = n, !.at = at] \in Asked
           /\ [a EXCEPT !.counter = n, !.at = at].pid = a.pid
           /\ [a EXCEPT !.counter = n, !.at = at].at = at
BY DEF Asked, Places

(* ... when it has its answer.                                            *)
LEMMA AskedIsAnswered ==
    ASSUME NEW a \in Asked, NEW found \in Found
    PROVE  /\ [a EXCEPT !.at = "answered", !.found = found] \in Asked
           /\ [a EXCEPT !.at = "answered", !.found = found].pid = a.pid
           /\ [a EXCEPT !.at = "answered", !.found = found].found = found
BY DEF Asked, Places, Found

(* A number is an answer about a process that has ended, and stays so: its *)
(* id is not used again.                                                   *)
NumberMeansEnded ==
    /\ AskerOK
    /\ alive \subseteq born /\ born \subseteq Pids
    /\ asker.at = "answered" /\ asker.found = "number" => asker.pid \notin alive

(* NumberMeansEnded holds at the start.                                    *)
LEMMA NumberInit == PoolInit => NumberMeansEnded
BY PoolAssumption DEF PoolInit, NumberMeansEnded, AskerOK

(* Every step keeps NumberMeansEnded: only the end of a process, its start *)
(* and the four steps of the caller change anything it speaks about.       *)
LEMMA NumberStep == NumberMeansEnded /\ [PoolNext]_pool_vars => NumberMeansEnded'
<1> SUFFICES ASSUME NumberMeansEnded, [PoolNext]_pool_vars PROVE NumberMeansEnded'
    OBVIOUS
<1> USE DEF NumberMeansEnded, AskerOK
<1>1. CASE UNCHANGED <<alive, born, asker>>
    BY <1>1
<1>2. ASSUME NEW p \in Pids, NEW line \in Lines, ProcessStarts(p, line)
      PROVE  NumberMeansEnded'
    BY <1>2 DEF ProcessStarts
<1>3. ASSUME NEW p \in Pids, ProcessEnds(p) PROVE NumberMeansEnded'
    BY <1>3 DEF ProcessEnds
<1>4. ASSUME NEW p \in Pids, asks(p) PROVE NumberMeansEnded'
  <2>1. /\ asker' = [at |-> "keys", pid |-> p, counter |-> 0, found |-> "absent"]
        /\ p \in alive /\ alive' = alive /\ born' = born
    BY <1>4 DEF asks, world_vars
  <2> QED BY <2>1 DEF Asked, Places, Found
<1>a. asker.at # "idle" => asker \in Asked /\ asker.pid \in born
    OBVIOUS
<1>b. ASSUME asker' = another_look(asker), asker.at # "idle", alive' = alive, born' = born
      PROVE  NumberMeansEnded'
  <2> DEFINE next == IF asker.counter + 1 = PidWaits THEN "psutil" ELSE "keys"
  <2>1. asker' = [asker EXCEPT !.counter = asker.counter + 1, !.at = next]
    BY <1>b DEF another_look
  <2>2. next \in Places /\ next # "answered"
    BY DEF Places
  <2> HIDE DEF next
  <2>3. asker.counter + 1 \in Nat
    BY <1>a, <1>b DEF Asked
  <2>4. asker' \in Asked /\ asker'.pid = asker.pid /\ asker'.at = next
    <3>1. asker \in Asked
      BY <1>a, <1>b
    <3> HIDE DEF NumberMeansEnded, AskerOK
    <3> QED BY ONLY <2>1, <2>2, <2>3, <3>1, AskedLooksAgain
  <2> QED BY <2>2, <2>4, <1>a, <1>b
<1>5. CASE asker_lists_keys
  <2>1. CASE shared[asker.pid] = "absent"
    BY <2>1, <1>5, <1>b DEF asker_lists_keys, world_vars
  <2>2. CASE shared[asker.pid] # "absent"
    BY <2>2, <1>5 DEF asker_lists_keys, world_vars, Asked, Places
  <2> QED BY <2>1, <2>2
<1>6. CASE asker_reads_value
  <2>1. CASE shared[asker.pid] = "absent"
    BY <2>1, <1>6, <1>b DEF asker_reads_value, world_vars
  <2>2. CASE shared[asker.pid] # "absent"
    <3>1. asker' \in Asked /\ asker'.pid = asker.pid /\ asker'.found = "details"
      BY <1>6, <2>2, <1>a, AskedIsAnswered DEF asker_reads_value, Found
    <3> QED BY <3>1, <1>6, <1>a DEF asker_reads_value, world_vars
  <2> QED BY <2>1, <2>2
<1>7. CASE asker_uses_psutil
  <2>1. last_resort(asker.pid) \in Found
    BY DEF last_resort, Found
  <2>2. /\ asker' \in Asked /\ asker'.pid = asker.pid
        /\ asker'.found = last_resort(asker.pid)
    BY <1>7, <1>a, <2>1, AskedIsAnswered DEF asker_uses_psutil
  <2> QED BY <2>2, <1>7, <1>a DEF asker_uses_psutil, last_resort, world_vars
<1>8. ASSUME PoolThreads \/ PoolStop PROVE UNCHANGED <<alive, born, asker>>
    BY <1>8 DEF PoolThreads, PoolStop, creator_inserts, creator_copies, creator_puts,
        termination_emits, remover_looks, remover_pops, remover_copies, remover_puts,
        updater_clears, updater_updates, world_vars
<1>9. ASSUME UNCHANGED pool_vars PROVE UNCHANGED <<alive, born, asker>>
    BY <1>9 DEF pool_vars, world_vars
<1> QED BY <1>1, <1>2, <1>3, <1>4, <1>5, <1>6, <1>7, <1>8, <1>9 DEF PoolNext

(* A process that runs when it is asked for, and still at the answer, is   *)
(* answered by its details (get_process_by_pid), for any ids and any       *)
(* interleaving of the pool's threads.                                     *)
THEOREM LiveProcessesAreNamed == PoolSpec => []LiveIsNamed
<1>1. NumberMeansEnded => LiveIsNamed
    BY DEF NumberMeansEnded, LiveIsNamed
<1> QED BY <1>1, NumberInit, NumberStep, PTL DEF PoolSpec

-----------------------------------------------------------------------------
Dicts == [Pids -> {"absent", "None"} \cup Lines]
Creation == [pid : Pids, line : Lines]
Remover == [at : {"none", "look", "pop", "copy", "put", "removed", "gave_up"},
            counter : 0 .. PidWaits, copy : Dicts]

Typed ==
    /\ alive \subseteq born /\ born \subseteq Pids
    /\ creations \in Seq(Creation) /\ terminations \in Seq(Pids)
    /\ pool \in Dicts /\ shared \in Dicts
    /\ removers \in [Pids -> Remover]
    /\ creator \in [at : {"emit", "copy", "put", "ended"}, copy : Dicts]
    /\ updater \in [at : {"get", "update", "ended"}, dict : Dicts]
    /\ update_queue \in Seq(Dicts)

(* A thread that still looks has looks left.                               *)
Looking ==
    \A p \in Pids : /\ removers[p].at = "look" => removers[p].counter < PidWaits
                    /\ removers[p].at = "none" => removers[p].counter = 0

(* The end of a process is reported once, and starts one thread.           *)
EndsOnce ==
    /\ \A i \in DOMAIN terminations :
          /\ terminations[i] \in born \ alive
          /\ removers[terminations[i]].at = "none"
    /\ \A i, j \in DOMAIN terminations : terminations[i] = terminations[j] => i = j
    /\ \A p \in Pids : removers[p].at # "none" => p \in born \ alive

(* Its start is reported once, and makes the only entry.                   *)
StartsOnce ==
    /\ \A i \in DOMAIN creations :
          /\ creations[i].pid \in born
          /\ pool[creations[i].pid] = "absent"
          /\ removers[creations[i].pid].at \notin {"pop", "copy", "put", "removed"}
    /\ \A i, j \in DOMAIN creations : creations[i].pid = creations[j].pid => i = j
    /\ \A p \in Pids : pool[p] # "absent" => p \in born

PoolInv == Typed /\ Looking /\ EndsOnce /\ StartsOnce /\ GoneForGood

(* An event that is not read yet is about an id of the computer.           *)
LEMMA CreatedPid == ASSUME NEW s \in Seq(Creation), NEW i \in DOMAIN s PROVE s[i].pid \in Pids
<1>1. s[i] \in Creation
  OBVIOUS
<1> QED BY <1>1 DEF Creation

(* The empty dictionary is one.                                            *)
LEMMA EmptyDict == NobodyIn \in Dicts
BY DEF NobodyIn, Dicts

(* PoolInv holds when the pool is started (start()).                       *)
LEMMA PoolInvInit == PoolInit => PoolInv
<1> SUFFICES ASSUME PoolInit PROVE PoolInv
    OBVIOUS
<1> USE PoolAssumption DEF PoolInit
<1>1. Typed
  <2>1. pool \in Dicts /\ NobodyIn \in Dicts
    BY EmptyDict DEF Dicts
  <2>2. removers \in [Pids -> Remover]
    BY <2>1 DEF Remover
  <2> QED BY <2>1, <2>2 DEF Typed
<1> QED BY <1>1 DEF PoolInv, Looking, EndsOnce, StartsOnce, GoneForGood

(* What parsed makes of a command line is an entry.                        *)
LEMMA ParsedIsEntry ==
    ASSUME NEW line \in Lines PROVE parsed(line) \in {"None"} \cup Lines /\ parsed(line) # "absent"
BY DEF parsed, Lines

(* Every step keeps PoolInv: only the world, the reader of new processes   *)
(* and the removing threads touch what Looking, EndsOnce, StartsOnce and   *)
(* GoneForGood speak about.                                                *)
LEMMA PoolInvStep == PoolInv /\ [PoolNext]_pool_vars => PoolInv'
<1> SUFFICES ASSUME PoolInv, [PoolNext]_pool_vars PROVE PoolInv'
    OBVIOUS
<1> USE PoolAssumption, EmptyDict
<1> DEFINE rest == <<alive, born, creations, terminations, pool, removers>>
<1>a. Typed /\ Looking /\ EndsOnce /\ StartsOnce /\ GoneForGood
    BY DEF PoolInv
<1>r. ASSUME UNCHANGED rest, Typed' PROVE PoolInv'
    BY <1>r, <1>a DEF PoolInv, Looking, EndsOnce, StartsOnce, GoneForGood
<1>1. ASSUME NEW p \in Pids, NEW line \in Lines, ProcessStarts(p, line)
      PROVE  PoolInv'
  <2> DEFINE new == [pid |-> p, line |-> line]
  <2>1. /\ creations' = Append(creations, new) /\ new \in Creation
        /\ born' = born \cup {p} /\ alive' = alive \cup {p} /\ p \notin born
        /\ UNCHANGED <<terminations, pool, removers, creator, update_queue, updater, shared>>
    BY <1>1 DEF ProcessStarts, Creation
  <2> HIDE DEF new
  <2>2. Typed'
    BY <2>1, <1>a DEF Typed
  <2>3. Looking' /\ GoneForGood' /\ EndsOnce'
    BY <2>1, <1>a DEF Looking, GoneForGood, EndsOnce, Typed
  <2>4. /\ DOMAIN creations' = 1 .. Len(creations) + 1
        /\ DOMAIN creations = 1 .. Len(creations) /\ Len(creations) \in Nat
        /\ \A i \in 1 .. Len(creations) : creations'[i] = creations[i]
        /\ creations'[Len(creations) + 1].pid = p
    BY <2>1, <1>a DEF Typed, new
  <2>5. StartsOnce'
    <3>1. pool[p] = "absent" /\ removers[p].at = "none"
      BY <2>1, <1>a DEF StartsOnce, EndsOnce
    <3>2. \A i \in 1 .. Len(creations) : creations[i].pid \in born
      BY <2>4, <1>a DEF StartsOnce
    <3>3. \A i \in DOMAIN creations' : i = Len(creations) + 1 \/ i \in DOMAIN creations
      BY <2>4
    <3>4. \A i, j \in DOMAIN creations' : creations'[i].pid = creations'[j].pid => i = j
      BY <2>1, <2>4, <3>2, <3>3, <1>a DEF StartsOnce
    <3> QED BY <2>1, <2>4, <3>1, <3>2, <3>3, <3>4, <1>a DEF StartsOnce
  <2> QED BY <2>2, <2>3, <2>5 DEF PoolInv
<1>2. ASSUME NEW p \in Pids, ProcessEnds(p) PROVE PoolInv'
  <2>1. /\ terminations' = Append(terminations, p) /\ p \in alive
        /\ alive' = alive \ {p}
        /\ UNCHANGED <<born, creations, pool, removers, creator, update_queue, updater, shared>>
    BY <1>2 DEF ProcessEnds
  <2>2. Typed'
    BY <2>1, <1>a DEF Typed
  <2>3. Looking' /\ GoneForGood' /\ StartsOnce'
    BY <2>1, <1>a DEF Looking, GoneForGood, StartsOnce
  <2>4. /\ DOMAIN terminations' = 1 .. Len(terminations) + 1
        /\ DOMAIN terminations = 1 .. Len(terminations) /\ Len(terminations) \in Nat
        /\ \A i \in 1 .. Len(terminations) : terminations'[i] = terminations[i]
        /\ terminations'[Len(terminations) + 1] = p
    BY <2>1, <1>a DEF Typed
  <2>5. EndsOnce'
    <3>1. removers[p].at = "none" /\ p \in born
      BY <2>1, <1>a DEF EndsOnce, Typed
    <3>2. \A i \in 1 .. Len(terminations) : terminations[i] # p
      BY <2>1, <2>4, <1>a DEF EndsOnce
    <3>3. \A i \in DOMAIN terminations' :
              i = Len(terminations) + 1 \/ i \in DOMAIN terminations
      BY <2>4
    <3> QED BY <2>1, <2>4, <3>1, <3>2, <3>3, <1>a DEF EndsOnce
  <2> QED BY <2>2, <2>3, <2>5 DEF PoolInv
<1>3. CASE creator_inserts
  <2> DEFINE entry == Head(creations)
  <2>1. /\ creations # <<>> /\ creations' = Tail(creations)
        /\ pool' = [pool EXCEPT ![entry.pid] = parsed(entry.line)]
        /\ creator' = [creator EXCEPT !.at = "copy"]
        /\ UNCHANGED <<alive, born, terminations, removers, update_queue, updater, shared>>
    BY <1>3 DEF creator_inserts
  <2>2. /\ entry \in Creation /\ entry = creations[1] /\ 1 \in DOMAIN creations
        /\ DOMAIN creations = 1 .. Len(creations) /\ Len(creations) \in Nat \ {0}
        /\ creations' \in Seq(Creation) /\ DOMAIN creations' = 1 .. Len(creations) - 1
        /\ \A i \in DOMAIN creations' : creations'[i] = creations[i + 1]
    BY <2>1, <1>a DEF Typed
  <2>3. entry.pid \in Pids /\ entry.line \in Lines
    BY <2>2 DEF Creation
  <2> HIDE DEF entry
  <2>4. pool' \in Dicts /\ pool'[entry.pid] # "absent"
    BY <2>1, <2>3, ParsedIsEntry, <1>a DEF Dicts, Typed
  <2>5. Typed'
    BY <2>1, <2>2, <2>4, <1>a DEF Typed
  <2>6. \A i \in DOMAIN creations' : /\ i + 1 \in DOMAIN creations
                                     /\ creations'[i].pid # entry.pid
    BY <2>2, <1>a DEF StartsOnce
  <2>7. \A p \in Pids \ {entry.pid} : pool'[p] = pool[p]
    BY <2>1, <2>3, <1>a DEF Typed, Dicts
  <2>8. StartsOnce'
    <3>1. \A i \in DOMAIN creations' : creations'[i].pid \in Pids
      BY <2>2, CreatedPid
    <3>2. entry.pid \in born
      BY <2>2, <1>a DEF StartsOnce
    <3>3. \A i \in DOMAIN creations' :
             /\ creations'[i].pid \in born /\ pool'[creations'[i].pid] = "absent"
             /\ removers[creations'[i].pid].at \notin {"pop", "copy", "put", "removed"}
      BY <2>2, <2>6, <2>7, <3>1, <1>a DEF StartsOnce
    <3>4. \A i, j \in DOMAIN creations' : creations'[i].pid = creations'[j].pid => i = j
      <4> SUFFICES ASSUME NEW i \in DOMAIN creations', NEW j \in DOMAIN creations',
                          creations'[i].pid = creations'[j].pid
                   PROVE  i = j
        OBVIOUS
      <4>1. i + 1 = j + 1
        BY <2>2, <2>6, <1>a DEF StartsOnce
      <4> QED BY <4>1, <2>2
    <3>5. \A p \in Pids : pool'[p] # "absent" => p \in born
      BY <2>7, <3>2, <1>a DEF StartsOnce
    <3> QED BY <2>1, <3>3, <3>4, <3>5 DEF StartsOnce
  <2>9. Looking' /\ GoneForGood' /\ EndsOnce'
    <3>1. removers[entry.pid].at \notin {"copy", "put", "removed"}
      BY <2>2, <1>a DEF StartsOnce
    <3> QED BY <2>1, <2>7, <3>1, <1>a DEF Looking, GoneForGood, EndsOnce
  <2> QED BY <2>5, <2>8, <2>9 DEF PoolInv
<1>4. CASE creator_copies
    BY <1>4, <1>a, <1>r DEF creator_copies, Typed, world_vars
<1>5. CASE creator_puts
    BY <1>5, <1>a, <1>r DEF creator_puts, Typed, world_vars
<1>6. CASE termination_emits
  <2> DEFINE p == Head(terminations)
  <2>1. /\ terminations # <<>> /\ terminations' = Tail(terminations)
        /\ removers' = [removers EXCEPT ![p].at = "look"]
        /\ UNCHANGED <<alive, born, creations, pool, creator, update_queue, updater, shared>>
    BY <1>6 DEF termination_emits
  <2>2. /\ p \in Pids /\ p = terminations[1] /\ 1 \in DOMAIN terminations
        /\ DOMAIN terminations = 1 .. Len(terminations) /\ Len(terminations) \in Nat \ {0}
        /\ terminations' \in Seq(Pids) /\ DOMAIN terminations' = 1 .. Len(terminations) - 1
        /\ \A i \in DOMAIN terminations' : terminations'[i] = terminations[i + 1]
    BY <2>1, <1>a DEF Typed
  <2> HIDE DEF p
  <2>3. removers[p].at = "none" /\ p \in born \ alive /\ removers[p].counter = 0
    BY <2>2, <1>a DEF EndsOnce, Looking
  <2>4. /\ removers' \in [Pids -> Remover]
        /\ removers'[p].at = "look" /\ removers'[p].counter = removers[p].counter
        /\ \A o \in Pids \ {p} : removers'[o] = removers[o]
    <3> DEFINE r == [removers[p] EXCEPT !.at = "look"]
    <3>1. removers[p] \in Remover /\ removers \in [Pids -> Remover]
      BY <2>2, <1>a DEF Typed
    <3>2. r \in Remover /\ r.at = "look" /\ r.counter = removers[p].counter
      BY <3>1 DEF Remover
    <3>3. removers' = [removers EXCEPT ![p] = r]
      BY <2>1
    <3> HIDE DEF r
    <3> QED BY <2>2, <3>1, <3>2, <3>3
  <2>5. Typed'
    BY <2>1, <2>2, <2>4, <1>a DEF Typed
  <2>6. Looking' /\ GoneForGood'
    BY <2>1, <2>3, <2>4, <1>a DEF Looking, GoneForGood
  <2>7. StartsOnce'
    <3>1. \A i \in DOMAIN creations : creations[i].pid \in Pids
      BY <1>a, CreatedPid DEF Typed
    <3> QED BY <2>1, <2>4, <3>1, <1>a DEF StartsOnce
  <2>8. EndsOnce'
    <3>1. \A i \in DOMAIN terminations' : /\ i + 1 \in DOMAIN terminations
                                          /\ terminations'[i] # p /\ terminations'[i] \in Pids
      BY <2>2, <1>a DEF EndsOnce
    <3>2. \A i, j \in DOMAIN terminations' : terminations'[i] = terminations'[j] => i = j
      <4> SUFFICES ASSUME NEW i \in DOMAIN terminations', NEW j \in DOMAIN terminations',
                          terminations'[i] = terminations'[j]
                   PROVE  i = j
        OBVIOUS
      <4>1. i + 1 = j + 1
        BY <2>2, <3>1, <1>a DEF EndsOnce
      <4> QED BY <4>1, <2>2
    <3> QED BY <2>1, <2>2, <2>3, <2>4, <3>1, <3>2, <1>a DEF EndsOnce
  <2> QED BY <2>5, <2>6, <2>7, <2>8 DEF PoolInv
<1>7. ASSUME NEW p \in Pids, NEW r \in Remover, removers' = [removers EXCEPT ![p] = r],
             UNCHANGED <<alive, born, creations, terminations, creator, updater, shared>>,
             update_queue' \in Seq(Dicts), pool' \in Dicts,
             \A o \in Pids \ {p} : pool'[o] = pool[o],
             removers[p].at \in {"look", "pop", "copy", "put"}, r.at # "none",
             r.at = "look" => r.counter < PidWaits,
             r.at = "pop" => pool[p] # "absent",
             r.at \in {"copy", "put", "removed"} =>
                 /\ pool'[p] = "absent"
                 /\ removers[p].at \in {"pop", "copy", "put"},
             r.at \in {"look", "pop", "gave_up"} => pool'[p] = pool[p]
      PROVE  PoolInv'
  <2>1. /\ removers' \in [Pids -> Remover] /\ removers'[p] = r
        /\ \A o \in Pids \ {p} : removers'[o] = removers[o]
    BY <1>7, <1>a DEF Typed
  <2>2. Typed'
    BY <1>7, <2>1, <1>a DEF Typed
  <2>3. Looking'
    BY <1>7, <2>1, <1>a DEF Looking
  <2>4. \A i \in DOMAIN terminations : terminations[i] \in Pids /\ terminations[i] # p
    BY <1>7, <1>a DEF EndsOnce, Typed
  <2>5. EndsOnce'
    BY <1>7, <2>1, <2>4, <1>a DEF EndsOnce
  <2>6. GoneForGood'
    BY <1>7, <2>1, <1>a DEF GoneForGood
  <2>7. r.at \in {"look", "pop", "copy", "put", "removed", "gave_up"}
    BY <1>7 DEF Remover
  <2>8. StartsOnce'
    <3>1. \A i \in DOMAIN creations : creations[i].pid \in Pids
      BY <1>a, CreatedPid DEF Typed
    <3>2. \A i \in DOMAIN creations : creations[i].pid = p =>
              r.at \in {"look", "gave_up"} /\ pool'[p] = "absent"
      BY <1>7, <2>7, <1>a DEF StartsOnce
    <3>3. pool'[p] # "absent" => p \in born
      BY <1>7, <1>a DEF EndsOnce
    <3> QED BY <1>7, <2>1, <3>1, <3>2, <3>3, <1>a DEF StartsOnce
  <2> QED BY <2>2, <2>3, <2>5, <2>6, <2>8 DEF PoolInv
<1>8. ASSUME NEW p \in Pids, remover_looks(p) PROVE PoolInv'
  <2>1. /\ removers[p] \in Remover /\ removers[p].at = "look"
        /\ removers[p].counter < PidWaits /\ removers[p].counter \in Nat
    BY <1>8, <1>a DEF remover_looks, Typed, Looking, Remover
  <2>2. CASE pool[p] # "absent"
    <3>1. looked(p) = [removers[p] EXCEPT !.at = "pop"]
      BY <2>2 DEF looked
    <3>2. looked(p) \in Remover /\ looked(p).at = "pop"
      BY <2>1, <3>1 DEF Remover
    <3> QED BY <1>7, <1>8, <2>1, <2>2, <3>2, <1>a DEF remover_looks, Typed, world_vars
  <2>3. CASE pool[p] = "absent"
    <3> DEFINE next == IF removers[p].counter + 1 = PidWaits THEN "gave_up" ELSE "look"
    <3>1. looked(p) = [removers[p] EXCEPT !.counter = removers[p].counter + 1, !.at = next]
      BY <2>3 DEF looked
    <3>2. removers[p].counter + 1 \in 0 .. PidWaits /\ next \in {"gave_up", "look"}
      BY <2>1
    <3>3. next = "look" => removers[p].counter + 1 < PidWaits
      BY <2>1
    <3> HIDE DEF next
    <3>4. /\ looked(p) \in Remover /\ looked(p).at = next
          /\ looked(p).counter = removers[p].counter + 1
      BY <2>1, <3>1, <3>2 DEF Remover
    <3> QED BY <1>7, <1>8, <2>1, <3>2, <3>3, <3>4, <1>a DEF remover_looks, Typed, world_vars
  <2> QED BY <2>2, <2>3
<1>9. ASSUME NEW p \in Pids, remover_pops(p) PROVE PoolInv'
  <2> DEFINE r == [removers[p] EXCEPT !.at = "copy"]
  <2>1. removers[p] \in Remover /\ removers[p].at = "pop"
    BY <1>9, <1>a DEF remover_pops, Typed
  <2>2. r \in Remover /\ r.at = "copy"
    BY <2>1 DEF Remover
  <2>3. /\ removers' = [removers EXCEPT ![p] = r]
        /\ UNCHANGED <<alive, born, creations, terminations, creator, updater, shared,
                       update_queue>>
        /\ pool' = [pool EXCEPT ![p] = "absent"]
    BY <1>9 DEF remover_pops, world_vars
  <2>4. /\ pool' \in Dicts /\ pool'[p] = "absent"
        /\ \A o \in Pids \ {p} : pool'[o] = pool[o]
    BY <2>3, <1>a DEF Typed, Dicts
  <2> HIDE DEF r
  <2>5. update_queue' \in Seq(Dicts)
    BY <2>3, <1>a DEF Typed
  <2> QED BY <1>7, <2>1, <2>2, <2>3, <2>4, <2>5
<1>10. ASSUME NEW p \in Pids, remover_copies(p) PROVE PoolInv'
  <2> DEFINE r == [removers[p] EXCEPT !.at = "put", !.copy = pool]
  <2>1. removers[p] \in Remover /\ removers[p].at = "copy" /\ pool \in Dicts
    BY <1>10, <1>a DEF remover_copies, Typed
  <2>2. r \in Remover /\ r.at = "put"
    BY <2>1 DEF Remover
  <2>3. /\ removers' = [removers EXCEPT ![p] = r]
        /\ UNCHANGED <<alive, born, creations, terminations, creator, updater, shared,
                       update_queue, pool>>
    BY <1>10, <2>1, <1>a DEF remover_copies, world_vars, Typed, Remover
  <2> HIDE DEF r
  <2>4. update_queue' \in Seq(Dicts) /\ pool[p] = "absent"
    BY <2>1, <2>3, <1>a DEF Typed, GoneForGood
  <2> QED BY <1>7, <2>1, <2>2, <2>3, <2>4
<1>11. ASSUME NEW p \in Pids, remover_puts(p) PROVE PoolInv'
  <2> DEFINE r == [removers[p] EXCEPT !.at = "removed", !.copy = NobodyIn]
  <2>1. removers[p] \in Remover /\ removers[p].at = "put"
    BY <1>11, <1>a DEF remover_puts, Typed
  <2>2. r \in Remover /\ r.at = "removed"
    BY <2>1 DEF Remover
  <2>3. /\ removers' = [removers EXCEPT ![p] = r]
        /\ UNCHANGED <<alive, born, creations, terminations, creator, updater, shared, pool>>
    BY <1>11, <2>1, <1>a DEF remover_puts, world_vars, Typed, Remover
  <2> HIDE DEF r
  <2>4. removers[p].copy \in Dicts /\ pool[p] = "absent"
    BY <2>1, <1>a DEF Remover, GoneForGood
  <2>5. update_queue' \in Seq(Dicts) /\ pool \in Dicts
    BY <1>11, <2>4, <1>a DEF remover_puts, Typed
  <2> QED BY <1>7, <2>1, <2>2, <2>3, <2>4, <2>5
<1>12. CASE updater_clears
    BY <1>12, <1>a, <1>r DEF updater_clears, Typed, world_vars
<1>13. CASE updater_updates
    BY <1>13, <1>a, <1>r DEF updater_updates, Typed, world_vars
<1>14. ASSUME UNCHANGED <<rest, creator, update_queue, updater, shared>> PROVE PoolInv'
    BY <1>14, <1>a, <1>r DEF Typed
<1>15. CASE PoolStop
    BY <1>14, <1>15 DEF PoolStop, world_vars
<1>16. ASSUME NEW p \in Pids, asks(p) PROVE PoolInv'
    BY <1>14, <1>16 DEF asks, world_vars
<1>17. CASE asker_lists_keys \/ asker_reads_value \/ asker_uses_psutil
    BY <1>14, <1>17 DEF asker_lists_keys, asker_reads_value, asker_uses_psutil, world_vars
<1>18. CASE UNCHANGED pool_vars
    BY <1>14, <1>18 DEF pool_vars, world_vars
<1> HIDE DEF rest
<1> QED BY <1>1, <1>2, <1>3, <1>4, <1>5, <1>6, <1>8, <1>9, <1>10, <1>11, <1>12, <1>13,
           <1>15, <1>16, <1>17, <1>18 DEF PoolNext, PoolThreads

(* Every variable of the pool keeps its type, for any ids, processes that  *)
(* run at the start and number of looks.                                   *)
THEOREM PoolTypeCorrect == PoolSpec => []PoolTypeOK
<1>1. PoolInv => PoolTypeOK
    BY DEF PoolInv, Typed, PoolTypeOK, Dicts, Remover
<1> QED BY <1>1, PoolInvInit, PoolInvStep, PTL DEF PoolSpec

(* What _remove_pid removed stays away: the entry of an ended process does *)
(* not come back, in whatever order its start and its end are read.        *)
THEOREM RemovedStayAway == PoolSpec => []GoneForGood
<1>1. PoolInv => GoneForGood
    BY DEF PoolInv
<1> QED BY <1>1, PoolInvInit, PoolInvStep, PTL DEF PoolSpec

(* Both together: what a run of the pool shows for two ids holds for any   *)
(* number of them (simple_process_pool.py).                                *)
THEOREM PoolIsTruthful == PoolSpec => []PoolTellsTheTruth
BY LiveProcessesAreNamed, RemovedStayAway, PTL DEF PoolTellsTheTruth

---------------------------------------------------------------------------
(* The event log.                                                          *)

(* The events up to x that were read, from after one, and were not put on  *)
(* the queue.                                                              *)
Lost(from, x, got) == {e \in Events : from < e /\ e <= x} \ got
Losses(x) == Cardinality(Lost(resumed_from, x, queued))

(* The last event before the batch that is being handled. *)
At == next_event - Len(events)

EvtTypes ==
    /\ channel \in 0 .. MaxEvents /\ next_event \in 0 .. channel
    /\ resumed_from \in 0 .. channel
    /\ file \in 0 .. channel \cup {NoFile} /\ bookmark \in 0 .. channel
    /\ worker \in {"none", "ended", "poll", "event", "put", "mark"}
    /\ stopper \in {"out", "join", "forced"}
    /\ queued \subseteq Events /\ events \in Seq(Nat)
    /\ maxsize \in Nat /\ q \in Nat /\ (maxsize # 0 => q <= maxsize)
    /\ stops \in Nat
    /\ connected \in BOOLEAN /\ stop_event \in BOOLEAN

(* The batch is what came last from the subscription, in order. *)
Batch ==
    /\ Len(events) <= next_event
    /\ \A i \in 1 .. Len(events) : events[i] = At + i
    /\ worker \in {"none", "ended", "poll"} => events = <<>>
    /\ worker \in {"put", "mark"} => events # <<>>

(* A thread that reads is connected; without a bookmark there is no file,  *)
(* and from the oldest event none is before the first.                     *)
Reading ==
    /\ thread_alive => connected
    /\ evt_settings.from_oldest => resumed_from = 0
    /\ ~evt_settings.bookmark_path => file = NoFile

(* No more is lost before each position than stop() was called. *)
LossesAreStops ==
    /\ file # NoFile => Losses(file) <= stops
    /\ connected => Losses(bookmark) <= stops
    /\ connected /\ ~thread_alive => Losses(At) <= stops
    /\ worker \in {"poll", "event"} /\ ~stop_event => Losses(At) <= stops
    /\ worker = "put" => Losses(At) + (IF stop_event THEN 1 ELSE 0) <= stops
    /\ worker = "mark" => Losses(At + 1) <= stops

EvtInv == EvtTypes /\ Batch /\ Reading /\ LossesAreStops

(* Losses are counted. *)
LEMMA LossesAreCounted ==
    ASSUME NEW from, NEW x, NEW got
    PROVE  /\ IsFiniteSet(Lost(from, x, got))
           /\ Cardinality(Lost(from, x, got)) \in Nat
<1>1. IsFiniteSet(Events)
  BY EvtAssumption, FS_Interval DEF Events
<1>2. IsFiniteSet(Lost(from, x, got))
  BY <1>1, FS_Subset DEF Lost
<1> QED
  BY <1>2, FS_CardinalityType

(* Nothing is lost where nothing was read. *)
LEMMA NothingLost ==
    ASSUME NEW from \in Nat, NEW x \in Int, x <= from, NEW got
    PROVE  Cardinality(Lost(from, x, got)) = 0
<1>1. Lost(from, x, got) = {}
  BY EvtAssumption DEF Lost, Events
<1> QED
  BY <1>1, FS_EmptySet

(* One more event read is at most one more lost, and not if it was put. *)
LEMMA OneMore ==
    ASSUME NEW from \in Nat, NEW x \in Int, NEW got
    PROVE  /\ Cardinality(Lost(from, x + 1, got)) <= Cardinality(Lost(from, x, got)) + 1
           /\ Cardinality(Lost(from, x + 1, got \cup {x + 1})) <=
                Cardinality(Lost(from, x, got))
           /\ \A y \in Int : Cardinality(Lost(from, y, got \cup {x + 1})) <=
                Cardinality(Lost(from, y, got))
<1> DEFINE S == Lost(from, x, got)
           T == Lost(from, x + 1, got)
           U == Lost(from, x + 1, got \cup {x + 1})
<1>1. IsFiniteSet(S) /\ Cardinality(S) \in Nat /\ IsFiniteSet(T) /\ Cardinality(T) \in Nat
  BY LossesAreCounted
<1>2. T \subseteq S \cup {x + 1} /\ U \subseteq S
  BY EvtAssumption DEF Lost, Events
<1>3. Cardinality(U) <= Cardinality(S)
  BY <1>1, <1>2, FS_Subset
<1>4. IsFiniteSet(S \cup {x + 1}) /\ Cardinality(S \cup {x + 1}) <= Cardinality(S) + 1
  <2>1. IsFiniteSet(S \cup {x + 1})
    BY <1>1, FS_AddElement
  <2>2. Cardinality(S \cup {x + 1}) \in {Cardinality(S), Cardinality(S) + 1}
    <3> HIDE DEF S
    <3> QED
      BY <1>1, FS_AddElement
  <2> QED
    BY <1>1, <2>1, <2>2
<1>5. Cardinality(T) <= Cardinality(S \cup {x + 1}) /\ Cardinality(S \cup {x + 1}) \in Nat
  BY <1>2, <1>4, FS_Subset, FS_CardinalityType
<1>6. ASSUME NEW y \in Int
      PROVE  Cardinality(Lost(from, y, got \cup {x + 1})) <= Cardinality(Lost(from, y, got))
  <2>1. Lost(from, y, got \cup {x + 1}) \subseteq Lost(from, y, got)
    BY DEF Lost
  <2> QED
    BY <2>1, LossesAreCounted, FS_Subset
<1> HIDE DEF S, T, U
<1>7. Cardinality(T) <= Cardinality(S) + 1
  BY <1>1, <1>4, <1>5
<1> QED
  BY <1>3, <1>6, <1>7 DEF S, T, U

(* A list that gives up its first element. *)
LEMMA Behead ==
    ASSUME NEW S, NEW l \in Seq(S), l # <<>>
    PROVE  /\ Tail(l) \in Seq(S) /\ Len(l) \in Nat \ {0} /\ Len(Tail(l)) = Len(l) - 1
           /\ Head(l) = l[1] /\ Head(l) \in S
           /\ \A i \in 1 .. Len(l) - 1 : Tail(l)[i] = l[i + 1]
OBVIOUS

(* Nothing was read at first. *)
LEMMA EvtAtFirst == EvtInit => EvtInv
<1> SUFFICES ASSUME EvtInit PROVE EvtInv
  OBVIOUS
<1>1. EvtTypes
  <2>1. maxsize \in Nat /\ <<>> \in Seq(Nat)
    BY EvtAssumption DEF EvtInit
  <2>2. connected \in BOOLEAN /\ stop_event \in BOOLEAN /\ queued \subseteq Events
    BY DEF EvtInit
  <2> QED
    BY <2>1, <2>2, EvtAssumption DEF EvtInit, EvtTypes
<1>3. Batch /\ Reading
  BY DEF EvtInit, Batch, Reading, At, thread_alive
<1>2. LossesAreStops
  BY DEF EvtInit, LossesAreStops, thread_alive
<1> QED
  BY <1>1, <1>2, <1>3 DEF EvtInv

(* A step that reads nothing and moves nothing. *)
LEMMA Idles ==
    ASSUME EvtInv, UNCHANGED <<evt_const, next_event, bookmark, events, connected, queued,
                               file, resumed_from>>,
           channel' \in Nat, channel <= channel', channel' <= MaxEvents,
           worker' = worker, stopper' \in {"out", "join", "forced"},
           q' \in Nat, maxsize # 0 => q' <= maxsize,
           stop_event' \in BOOLEAN, stops' \in Nat, stops <= stops',
           stop_event' => stop_event \/ stops < stops',
           ~stop_event' => ~stop_event
    PROVE  EvtInv'
<1>1. EvtTypes'
  BY DEF EvtInv, EvtTypes, evt_const
<1>2. Batch' /\ Reading'
  BY DEF EvtInv, Batch, At, Reading, thread_alive, evt_const
<1>3. LossesAreStops'
  <2>1. \A x \in Int : Losses(x)' = Losses(x) /\ Losses(x) \in Nat
    BY LossesAreCounted DEF Losses
  <2> QED
    BY LossesAreCounted DEF EvtInv, EvtTypes, LossesAreStops, Losses, At, thread_alive
<1> QED
  BY <1>1, <1>2, <1>3 DEF EvtInv

(* A new subscription: nothing has been read of it. *)
LEMMA ConnectStep == ASSUME EvtInv, connect PROVE EvtInv'
<1> DEFINE resumes == after_bookmark /\ file # 0 /\ ~evt_settings.from_oldest
<1>t. /\ channel \in Nat /\ channel <= MaxEvents /\ MaxEvents \in Nat /\ stops \in Nat
      /\ file \in 0 .. channel \cup {NoFile} /\ resumed_from \in 0 .. channel
      /\ events = <<>> /\ ~thread_alive /\ worker \in {"none", "ended"}
  BY EvtAssumption DEF connect, thread_alive, EvtInv, EvtTypes, Batch
<1>1. /\ UNCHANGED <<channel, evt_settings, maxsize, events, worker, q, queued, file,
                     stop_event, stopper, stops>>
      /\ connected' = TRUE /\ bookmark' = (IF after_bookmark THEN file ELSE 0)
      /\ next_event' \in start_positions
      /\ resumed_from' = (IF resumes THEN resumed_from ELSE next_event')
  BY DEF connect, evt_const
<1>2. after_bookmark => file \in 0 .. channel
  BY <1>t DEF after_bookmark
<1>3. next_event' \in 0 .. channel
  <2>1. start_positions \subseteq 0 .. channel
    BY <1>t, <1>2 DEF start_positions
  <2> QED
    BY <1>1, <2>1
<1>4. resumed_from' \in 0 .. channel /\ bookmark' \in 0 .. channel
  BY <1>t, <1>1, <1>2, <1>3
<1>5. EvtTypes'
  BY <1>1, <1>3, <1>4 DEF EvtInv, EvtTypes
<1>6. Len(events) = 0 /\ At' = next_event'
  <2>1. Len(<<>>) = 0
    OBVIOUS
  <2>2. Len(events) = 0
    BY <1>t, <2>1
  <2>3. events' = events /\ next_event' \in Int
    BY <1>t, <1>1, <1>3
  <2>4. At' = next_event' - Len(events)
    BY <2>3 DEF At
  <2>5. At' = next_event' - 0
    BY <2>2, <2>4
  <2>6. \A x \in Int : x - 0 = x
    OBVIOUS
  <2>7. At' = next_event'
    BY <2>3, <2>5, <2>6
  <2> QED
    BY <2>2, <2>7
<1>7. Batch'
  BY <1>t, <1>1, <1>3, <1>6 DEF Batch
<1>8. Reading'
  <2>1. evt_settings.from_oldest => next_event' = 0
    BY <1>1 DEF start_positions
  <2> QED
    BY <1>1, <2>1 DEF EvtInv, Reading, thread_alive
<1>9. LossesAreStops'
  <2>1. file # NoFile => Losses(file)' <= stops
    <3> SUFFICES ASSUME file # NoFile PROVE Losses(file)' <= stops
      OBVIOUS
    <3>1. CASE resumes
      BY <1>1, <3>1 DEF EvtInv, LossesAreStops, Losses
    <3>2. CASE evt_settings.from_oldest
      <4>1. resumed_from' = resumed_from
        BY <1>1, <3>2 DEF EvtInv, Reading, start_positions
      <4> QED
        BY <1>1, <4>1 DEF EvtInv, LossesAreStops, Losses
    <3>3. CASE ~resumes /\ ~evt_settings.from_oldest
      <4>1. file <= resumed_from'
        <5>1. CASE after_bookmark
          BY <1>t, <1>1, <1>3, <3>3, <5>1
        <5>2. CASE ~after_bookmark
          BY <1>t, <1>1, <3>3, <5>2 DEF start_positions
        <5> QED
          BY <5>1, <5>2
      <4>2. Cardinality(Lost(resumed_from', file, queued)) = 0
        BY <1>t, <1>4, <4>1, NothingLost
      <4> QED
        BY <1>t, <1>1, <4>2 DEF Losses
    <3> QED
      BY <3>1, <3>2, <3>3
  <2>2. Losses(bookmark)' <= stops
    <3>1. CASE after_bookmark
      BY <1>1, <2>1, <3>1 DEF after_bookmark, Losses
    <3>2. CASE ~after_bookmark
      <4>1. Cardinality(Lost(resumed_from', 0, queued)) = 0
        BY <1>t, <1>4, NothingLost
      <4> QED
        BY <1>t, <1>1, <3>2, <4>1 DEF Losses
    <3> QED
      BY <3>1, <3>2
  <2>3. Losses(At)' <= stops
    <3>1. CASE resumes
      <4>1. next_event' = file
        BY <1>1, <3>1 DEF start_positions
      <4> QED
        BY <1>1, <1>6, <2>1, <3>1, <4>1 DEF Losses, after_bookmark
    <3>2. CASE ~resumes
      <4>1. Cardinality(Lost(resumed_from', next_event', queued)) = 0
        BY <1>t, <1>1, <1>3, <1>4, <3>2, NothingLost
      <4> QED
        BY <1>t, <1>1, <1>6, <4>1 DEF Losses
    <3> QED
      BY <3>1, <3>2
  <2> QED
    BY <1>t, <1>1, <2>1, <2>2, <2>3 DEF LossesAreStops
<1> QED
  BY <1>5, <1>7, <1>8, <1>9 DEF EvtInv

(* What is known of the losses, and that they are numbers. *)
LEMMA KnownLosses ==
    ASSUME EvtInv
    PROVE  /\ stops \in Nat /\ channel \in Nat /\ next_event \in Nat /\ At \in Int
           /\ Len(events) \in Nat /\ resumed_from \in Nat
           /\ \A x : Losses(x) \in Nat
<1>1. \A x : Losses(x) \in Nat
  BY LossesAreCounted DEF Losses
<1> QED
  BY <1>1, EvtAssumption DEF EvtInv, EvtTypes, At

(* The thread ends and saves the bookmark, or is forced not to. *)
LEMMA EndStep ==
    ASSUME EvtInv, thread_alive, cleaned_up,
           UNCHANGED <<channel, evt_const, stop_event, stopper, resumed_from, stops>>
    PROVE  EvtInv'
<1>t. bookmark \in 0 .. channel /\ channel \in Nat /\ resumed_from \in Nat
  BY EvtAssumption DEF EvtInv, EvtTypes
<1>1. /\ file' \in {file, saved} /\ worker' = "ended" /\ events' = <<>> /\ connected' = FALSE
      /\ next_event' = 0 /\ bookmark' = 0 /\ q' = q /\ queued' = queued
      /\ UNCHANGED <<evt_settings, maxsize>>
  BY DEF cleaned_up, evt_const
<1>2. connected /\ file' \in {file, bookmark}
  BY <1>1 DEF EvtInv, Reading, saved
<1>3. EvtTypes'
  <2>1. <<>> \in Seq(Nat)
    OBVIOUS
  <2>2. /\ file' \in 0 .. channel \cup {NoFile} /\ next_event' \in 0 .. channel
        /\ bookmark' \in 0 .. channel
    BY <1>1, <1>2, <1>t DEF EvtInv, EvtTypes
  <2> QED
    BY <1>1, <2>1, <2>2 DEF EvtInv, EvtTypes
<1>4. Batch'
  BY <1>1 DEF Batch, At
<1>5. Reading'
  BY <1>1 DEF EvtInv, Reading, thread_alive, saved
<1>6. LossesAreStops'
  <2>1. file' # NoFile => Losses(file)' <= stops
    BY <1>1, <1>2 DEF EvtInv, LossesAreStops, Losses
  <2> QED
    BY <1>1, <2>1 DEF LossesAreStops, thread_alive
<1> QED
  BY <1>3, <1>4, <1>5, <1>6 DEF EvtInv

(* The thread asks for the next batch. *)
LEMMA PollStep ==
    ASSUME EvtInv, poll,
           UNCHANGED <<channel, evt_const, stop_event, stopper, resumed_from, stops>>
    PROVE  EvtInv'
<1>t. /\ channel \in Nat /\ next_event \in 0 .. channel /\ bookmark \in 0 .. channel
      /\ stops \in Nat /\ events = <<>> /\ Len(events) = 0 /\ At = next_event
      /\ worker = "poll" /\ ~stop_event /\ connected
  BY EvtAssumption DEF poll, EvtInv, EvtTypes, Batch, At, Reading, thread_alive
<1>1. UNCHANGED <<channel, evt_settings, maxsize, bookmark, connected, q, queued,
                  stop_event, stopper, resumed_from, stops>>
  BY DEF poll, evt_const
<1>2. CASE UNCHANGED <<events, next_event, worker>> /\ may_flush
  <2>1. file' \in {file, bookmark} /\ (~evt_settings.bookmark_path => file' = file)
    BY <1>2 DEF may_flush, saved
  <2>2. EvtTypes'
    BY <1>t, <1>1, <1>2, <2>1 DEF EvtInv, EvtTypes
  <2>3. Batch' /\ Reading'
    BY <1>1, <1>2, <2>1 DEF EvtInv, Batch, At, Reading, thread_alive
  <2>4. file' # NoFile => Losses(file)' <= stops
    BY <1>1, <1>t, <2>1 DEF EvtInv, LossesAreStops, Losses
  <2>5. LossesAreStops'
    BY <1>1, <1>2, <1>t, <2>4 DEF EvtInv, LossesAreStops, Losses, At, thread_alive
  <2> QED
    BY <2>2, <2>3, <2>5 DEF EvtInv
<1>3. ASSUME NEW n \in 1 .. EvtBatch, next_event + n <= channel,
             events' = [i \in 1 .. n |-> next_event + i],
             next_event' = next_event + n, worker' = "event", file' = file
      PROVE  EvtInv'
  <2>0. n \in Nat /\ n >= 1
    BY EvtAssumption
  <2>1. events' \in Seq(Nat) /\ Len(events') = n /\ At' = next_event
    <3>1. [i \in 1 .. n |-> next_event + i] \in Seq(Nat)
          /\ Len([i \in 1 .. n |-> next_event + i]) = n
      BY <2>0, <1>t
    <3> QED
      BY <1>3, <1>t, <2>0, <3>1 DEF At
  <2>2. EvtTypes'
    BY <1>t, <1>1, <1>3, <2>0, <2>1 DEF EvtInv, EvtTypes
  <2>3. Batch'
    BY <1>t, <1>3, <2>0, <2>1 DEF Batch
  <2>4. Reading'
    BY <1>1, <1>3, <1>t DEF EvtInv, Reading, thread_alive
  <2>5. LossesAreStops'
    BY <1>1, <1>t, <1>3, <2>1 DEF EvtInv, LossesAreStops, Losses, thread_alive
  <2> QED
    BY <2>2, <2>3, <2>4, <2>5 DEF EvtInv
<1> QED
  BY <1>2, <1>3 DEF poll

(* The thread looks at the next event of its batch. *)
LEMMA EventStep ==
    ASSUME EvtInv, event,
           UNCHANGED <<channel, evt_const, stop_event, stopper, resumed_from, stops>>
    PROVE  EvtInv'
<1>t. /\ channel \in Nat /\ next_event \in 0 .. channel /\ bookmark \in 0 .. channel
      /\ stops \in Nat /\ events \in Seq(Nat) /\ Len(events) \in Nat
      /\ worker = "event" /\ connected /\ thread_alive
  BY EvtAssumption DEF event, EvtInv, EvtTypes, Reading, thread_alive
<1>1. UNCHANGED <<channel, evt_settings, maxsize, next_event, bookmark, connected, q, queued,
                  stop_event, stopper, resumed_from, stops>>
  BY DEF event, evt_const
<1>2. CASE events = <<>>
  <2>1. /\ worker' = "poll" /\ events' = events
        /\ file' \in {file, bookmark} /\ (~evt_settings.bookmark_path => file' = file)
    BY <1>2 DEF event, may_flush, saved
  <2>2. EvtTypes'
    BY <1>t, <1>1, <2>1 DEF EvtInv, EvtTypes
  <2>3. Batch' /\ Reading'
    BY <1>1, <1>2, <1>t, <2>1 DEF EvtInv, Batch, At, Reading, thread_alive
  <2>4. file' # NoFile => Losses(file)' <= stops
    BY <1>1, <1>t, <2>1 DEF EvtInv, LossesAreStops, Losses
  <2>5. LossesAreStops'
    BY <1>1, <1>t, <2>1, <2>4 DEF EvtInv, LossesAreStops, Losses, At, thread_alive
  <2> QED
    BY <2>2, <2>3, <2>5 DEF EvtInv
<1>3. CASE events # <<>> /\ stop_event
  <2>1. worker' = worker /\ events' = Tail(events) /\ file' = file
    BY <1>3 DEF event, skipped
  <2>2. /\ Tail(events) \in Seq(Nat) /\ Len(events) \in Nat \ {0}
        /\ Len(Tail(events)) = Len(events) - 1
        /\ \A i \in 1 .. Len(events) - 1 : Tail(events)[i] = events[i + 1]
    BY <1>t, <1>3, Behead
  <2>3. EvtTypes'
    BY <1>t, <1>1, <2>1, <2>2 DEF EvtInv, EvtTypes
  <2>4. At' = At + 1 /\ At \in Int
    BY <1>t, <1>1, <2>1, <2>2 DEF At
  <2>5. Batch'
    <3>1. Len(events') <= next_event
      BY <1>t, <2>1, <2>2 DEF EvtInv, Batch
    <3>2. ASSUME NEW i \in 1 .. Len(events') PROVE events'[i] = At' + i
      <4>1. events[i + 1] = At + (i + 1)
        BY <2>1, <2>2 DEF EvtInv, Batch
      <4> QED
        BY <2>1, <2>2, <2>4, <4>1
    <3> QED
      BY <1>t, <1>1, <2>1, <3>1, <3>2 DEF Batch
  <2>6. Reading'
    BY <1>1, <1>t, <2>1 DEF EvtInv, Reading, thread_alive
  <2>7. LossesAreStops'
    BY <1>1, <1>3, <1>t, <2>1 DEF EvtInv, LossesAreStops, Losses, thread_alive
  <2> QED
    BY <2>3, <2>5, <2>6, <2>7 DEF EvtInv
<1>4. CASE events # <<>> /\ ~stop_event
  <2>1. worker' = "put" /\ events' = events /\ file' = file
    BY <1>4 DEF event, skipped
  <2>2. EvtTypes'
    BY <1>t, <1>1, <2>1 DEF EvtInv, EvtTypes
  <2>3. Batch' /\ Reading'
    BY <1>1, <1>4, <1>t, <2>1 DEF EvtInv, Batch, At, Reading, thread_alive
  <2>4. Losses(At)' = Losses(At) /\ Losses(At) \in Nat
    BY <1>1, <2>1, LossesAreCounted DEF Losses, At
  <2>5. LossesAreStops'
    BY <1>1, <1>4, <1>t, <2>1, <2>4 DEF EvtInv, LossesAreStops, Losses, thread_alive
  <2> QED
    BY <2>2, <2>3, <2>5 DEF EvtInv
<1> QED
  BY <1>2, <1>3, <1>4

(* _put: the event is on the queue, or it is lost to a call of stop(). *)
LEMMA PutStep ==
    ASSUME EvtInv, put,
           UNCHANGED <<channel, evt_const, stop_event, stopper, resumed_from, stops>>
    PROVE  EvtInv'
<1>t. /\ channel \in Nat /\ channel <= MaxEvents /\ next_event \in 0 .. channel
      /\ MaxEvents \in Nat /\ bookmark \in 0 .. channel
      /\ stops \in Nat /\ events \in Seq(Nat) /\ Len(events) \in Nat \ {0}
      /\ Len(events) <= next_event /\ resumed_from \in Nat
      /\ worker = "put" /\ connected /\ thread_alive /\ events # <<>>
  <2>1. events # <<>> /\ events \in Seq(Nat)
    BY DEF put, EvtInv, EvtTypes, Batch
  <2> QED
    BY <2>1, Behead, EvtAssumption DEF put, EvtInv, EvtTypes, Batch, Reading, thread_alive
<1>1. UNCHANGED <<channel, evt_settings, maxsize, next_event, bookmark, events, connected,
                  file, stop_event, stopper, resumed_from, stops>>
      /\ worker' = "mark"
  BY DEF put, evt_const
<1>2. At' = At /\ At \in Int /\ Head(events) = At + 1 /\ At + 1 \in Events
  <2>1. At \in Int /\ At >= 0 /\ At + 1 <= MaxEvents /\ events[1] = At + 1
    BY <1>t DEF At, EvtInv, Batch
  <2> QED
    BY <1>1, <1>t, <2>1, Behead DEF At, Events
<1>3. Batch' /\ Reading'
  BY <1>1, <1>2, <1>t DEF EvtInv, Batch, Reading, thread_alive
<1>4. Losses(At) + (IF stop_event THEN 1 ELSE 0) <= stops
      /\ (file # NoFile => Losses(file) <= stops) /\ Losses(bookmark) <= stops
  BY <1>t DEF EvtInv, LossesAreStops
<1>5. CASE UNCHANGED <<q, queued>> /\ stop_event
  <2>1. EvtTypes'
    BY <1>t, <1>1, <1>5 DEF EvtInv, EvtTypes
  <2>2. Losses(At) \in Nat /\ Losses(At + 1) \in Nat /\ Losses(At + 1) <= Losses(At) + 1
    BY <1>t, <1>2, OneMore, LossesAreCounted DEF Losses
  <2>3. Losses(At + 1)' <= stops
    <3>1. Losses(At + 1)' = Losses(At + 1)
      BY <1>1, <1>2, <1>5 DEF Losses
    <3> QED
      BY <1>4, <1>5, <1>t, <2>2, <3>1
  <2>4. LossesAreStops'
    BY <1>1, <1>4, <1>5, <1>t, <2>3 DEF LossesAreStops, Losses, thread_alive
  <2> QED
    BY <1>3, <2>1, <2>4 DEF EvtInv
<1>6. CASE (maxsize = 0 \/ q < maxsize) /\ q' = q + 1 /\ queued' = queued \cup {Head(events)}
  <2>1. EvtTypes'
    <3>1. queued' \subseteq Events /\ q' \in Nat /\ (maxsize # 0 => q' <= maxsize)
      BY <1>2, <1>6 DEF EvtInv, EvtTypes
    <3> QED
      BY <1>t, <1>1, <3>1 DEF EvtInv, EvtTypes
  <2>2. queued' = queued \cup {At + 1}
    BY <1>2, <1>6
  <2>3. /\ Losses(At) \in Nat /\ Losses(At + 1)' \in Nat
        /\ Losses(At + 1)' <= Losses(At)
    BY <1>t, <1>1, <1>2, <2>2, OneMore, LossesAreCounted DEF Losses
  <2>4. ASSUME NEW y \in Int
        PROVE  /\ Cardinality(Lost(resumed_from', y, queued')) <= Losses(y)
               /\ Losses(y) \in Nat /\ Cardinality(Lost(resumed_from', y, queued')) \in Nat
    BY <1>t, <1>1, <1>2, <2>2, OneMore, LossesAreCounted DEF Losses
  <2>5. (file # NoFile => Losses(file)' <= stops) /\ Losses(bookmark)' <= stops
    <3>1. bookmark \in Int /\ (file # NoFile => file \in Int)
      BY <1>t DEF EvtInv, EvtTypes
    <3>2. /\ Losses(bookmark)' = Cardinality(Lost(resumed_from', bookmark, queued'))
          /\ Losses(file)' = Cardinality(Lost(resumed_from', file, queued'))
      BY <1>1 DEF Losses
    <3>3. Losses(bookmark)' <= stops
      BY <1>4, <1>t, <2>4, <3>1, <3>2
    <3>4. ASSUME file # NoFile PROVE Losses(file)' <= stops
      <4>1. file \in Int /\ Losses(file) <= stops
        BY <1>4, <3>1, <3>4
      <4>2. /\ Cardinality(Lost(resumed_from', file, queued')) <= Losses(file)
            /\ Losses(file) \in Nat /\ Cardinality(Lost(resumed_from', file, queued')) \in Nat
        BY <2>4, <4>1
      <4> QED
        BY <1>t, <3>2, <4>1, <4>2
    <3> QED
      BY <3>3, <3>4
  <2>6. LossesAreStops'
    <3>1. Losses(At + 1)' <= stops
      BY <1>4, <1>t, <2>3
    <3> QED
      BY <1>1, <1>t, <2>5, <3>1 DEF LossesAreStops, thread_alive
  <2> QED
    BY <1>3, <2>1, <2>6 DEF EvtInv
<1> QED
  BY <1>5, <1>6 DEF put, put_gives_up

(* The bookmark moves behind the event, or fails and the thread ends. *)
LEMMA MarkStep ==
    ASSUME EvtInv, mark,
           UNCHANGED <<channel, evt_const, stop_event, stopper, resumed_from, stops>>
    PROVE  EvtInv'
<1>t. /\ channel \in Nat /\ channel <= MaxEvents /\ next_event \in 0 .. channel
      /\ MaxEvents \in Nat /\ bookmark \in 0 .. channel
      /\ stops \in Nat /\ events \in Seq(Nat) /\ Len(events) \in Nat \ {0}
      /\ Len(events) <= next_event
      /\ worker = "mark" /\ connected /\ thread_alive /\ events # <<>>
  <2>1. events # <<>> /\ events \in Seq(Nat)
    BY DEF mark, EvtInv, EvtTypes, Batch
  <2> QED
    BY <2>1, Behead, EvtAssumption DEF mark, EvtInv, EvtTypes, Batch, Reading, thread_alive
<1>1. CASE cleaned_up
  BY <1>1, <1>t, EndStep
<1>2. CASE /\ bookmark' = Head(events) /\ events' = Tail(events) /\ worker' = "event"
           /\ UNCHANGED <<next_event, connected, q, queued, file>>
  <2>1. UNCHANGED <<channel, evt_settings, maxsize, stop_event, stopper, resumed_from, stops>>
    BY DEF evt_const
  <2>2. /\ Tail(events) \in Seq(Nat) /\ Len(Tail(events)) = Len(events) - 1
        /\ Head(events) = events[1]
        /\ \A i \in 1 .. Len(events) - 1 : Tail(events)[i] = events[i + 1]
    BY <1>t, Behead
  <2>3. At' = At + 1 /\ At \in Int /\ At >= 0 /\ At + 1 <= next_event
    BY <1>t, <1>2, <2>2 DEF At
  <2>4. bookmark' = At + 1 /\ bookmark' \in 0 .. channel
    <3>1. events[1] = At + 1
      BY <1>t DEF EvtInv, Batch
    <3> QED
      BY <1>t, <1>2, <2>2, <2>3, <3>1
  <2>5. EvtTypes'
    BY <1>t, <1>2, <2>1, <2>2, <2>4 DEF EvtInv, EvtTypes
  <2>6. Batch'
    <3>1. Len(events') <= next_event
      BY <1>t, <1>2, <2>2
    <3>2. ASSUME NEW i \in 1 .. Len(events') PROVE events'[i] = At' + i
      <4>1. events[i + 1] = At + (i + 1)
        BY <1>2, <1>t, <2>2 DEF EvtInv, Batch
      <4> QED
        BY <1>2, <2>2, <2>3, <4>1
    <3> QED
      BY <1>t, <1>2, <3>1, <3>2 DEF Batch
  <2>7. Reading'
    BY <1>2, <1>t, <2>1 DEF EvtInv, Reading, thread_alive
  <2>8. LossesAreStops'
    <3>1. Losses(At + 1) <= stops /\ (file # NoFile => Losses(file) <= stops)
      BY <1>t DEF EvtInv, LossesAreStops
    <3>2. Losses(bookmark)' <= stops /\ Losses(At)' <= stops
      BY <1>2, <2>1, <2>3, <2>4, <3>1 DEF Losses
    <3>3. file' # NoFile => Losses(file)' <= stops
      BY <1>2, <2>1, <3>1 DEF Losses
    <3> QED
      BY <1>2, <1>t, <2>1, <3>2, <3>3 DEF LossesAreStops, thread_alive
  <2> QED
    BY <2>5, <2>6, <2>7, <2>8 DEF EvtInv
<1> QED
  BY <1>1, <1>2 DEF mark

(* A call of stop(): one more event may be lost. *)
LEMMA StopCallStep == ASSUME EvtInv, stop_calls PROVE EvtInv'
<1>t. /\ channel \in Nat /\ bookmark \in 0 .. channel /\ stops \in Nat /\ At \in Int
  BY KnownLosses DEF EvtInv, EvtTypes
<1>1. /\ UNCHANGED <<channel, evt_settings, maxsize, events, worker, q, queued, resumed_from>>
      /\ stops' = stops + 1 /\ stop_event' = TRUE /\ stopper' \in {"out", "join"}
  BY DEF stop_calls, evt_const
<1>2. CASE worker = "none" /\ connected
  <2>1. /\ connected' = FALSE /\ next_event' = 0 /\ bookmark' = 0
        /\ file' \in {file, bookmark} /\ (~evt_settings.bookmark_path => file' = file)
    BY <1>2 DEF stop_calls, saved
  <2>2. events = <<>> /\ Len(<<>>) = 0
    BY <1>2 DEF EvtInv, Batch
  <2>3. EvtTypes'
    <3>1. /\ file' \in 0 .. channel \cup {NoFile} /\ next_event' \in 0 .. channel
          /\ bookmark' \in 0 .. channel /\ stops' \in Nat
      BY <1>t, <1>1, <2>1 DEF EvtInv, EvtTypes
    <3> QED
      BY <1>1, <2>1, <3>1 DEF EvtInv, EvtTypes
  <2>4. Batch'
    BY <1>1, <1>2, <2>1, <2>2 DEF Batch
  <2>5. Reading'
    BY <1>1, <1>2, <2>1 DEF EvtInv, Reading, thread_alive
  <2>6. LossesAreStops'
    <3>1. file' # NoFile => Losses(file)' <= stops'
      <4>1. \A x : Losses(x) \in Nat
        BY KnownLosses
      <4>2. file' # NoFile => Losses(file') <= stops
        BY <1>2, <2>1 DEF EvtInv, LossesAreStops
      <4>3. Losses(file)' = Losses(file')
        BY <1>1 DEF Losses
      <4> QED
        BY <1>1, <1>t, <4>1, <4>2, <4>3
    <3> QED
      BY <1>1, <1>2, <2>1, <3>1 DEF LossesAreStops, thread_alive
  <2> QED
    BY <2>3, <2>4, <2>5, <2>6 DEF EvtInv
<1>3. CASE ~(worker = "none" /\ connected)
  <2>1. UNCHANGED <<connected, next_event, bookmark, file>>
    BY <1>3 DEF stop_calls
  <2>2. EvtTypes'
    BY <1>1, <1>t, <2>1 DEF EvtInv, EvtTypes
  <2>3. Batch' /\ Reading'
    BY <1>1, <2>1 DEF EvtInv, Batch, At, Reading, thread_alive
  <2>4. LossesAreStops'
    <3>1. /\ Losses(file)' = Losses(file) /\ Losses(bookmark)' = Losses(bookmark)
          /\ Losses(At)' = Losses(At) /\ Losses(At + 1)' = Losses(At + 1)
      BY <1>1, <2>1 DEF Losses, At
    <3>2. /\ Losses(file) \in Nat /\ Losses(bookmark) \in Nat
          /\ Losses(At) \in Nat /\ Losses(At + 1) \in Nat
      BY KnownLosses
    <3> QED
      BY <1>1, <1>t, <2>1, <3>1, <3>2 DEF EvtInv, LossesAreStops, thread_alive
  <2> QED
    BY <2>2, <2>3, <2>4 DEF EvtInv
<1> QED
  BY <1>2, <1>3

(* What only looks at the thread, or ends with it. *)
LEMMA OtherEvtSteps ==
    ASSUME EvtInv, start \/ stop_returns \/ crash
    PROVE  EvtInv'
<1>t. /\ channel \in Nat /\ stops \in Nat /\ q \in Nat
  BY KnownLosses DEF EvtInv, EvtTypes
<1>1. CASE start
  <2>1. /\ UNCHANGED <<channel, evt_settings, maxsize, next_event, bookmark, events, connected,
                       q, queued, file, stopper, resumed_from, stops>>
        /\ stop_event' = FALSE /\ worker' = "poll" /\ connected /\ ~thread_alive
        /\ worker \in {"none", "ended"}
    BY <1>1 DEF start, evt_const, thread_alive
  <2>2. EvtTypes'
    BY <2>1 DEF EvtInv, EvtTypes
  <2>3. Batch' /\ Reading'
    BY <2>1 DEF EvtInv, Batch, At, Reading, thread_alive
  <2>4. LossesAreStops'
    <3>1. /\ Losses(file)' = Losses(file) /\ Losses(bookmark)' = Losses(bookmark)
          /\ Losses(At)' = Losses(At)
      BY <2>1 DEF Losses, At
    <3> QED
      BY <2>1, <3>1 DEF EvtInv, LossesAreStops, thread_alive
  <2> QED
    BY <2>2, <2>3, <2>4 DEF EvtInv
<1>2. CASE stop_returns
  <2>1. /\ UNCHANGED <<channel, evt_settings, maxsize, next_event, bookmark, events, connected,
                       q, queued, file, stop_event, resumed_from, stops>>
        /\ worker' = "none" /\ stopper' = "out" /\ ~thread_alive /\ ~thread_alive'
        /\ worker \in {"none", "ended"}
    BY <1>2 DEF stop_returns, evt_const, thread_alive
  <2>2. EvtTypes'
    BY <2>1 DEF EvtInv, EvtTypes
  <2>3. Batch' /\ Reading'
    BY <2>1 DEF EvtInv, Batch, At, Reading
  <2>4. LossesAreStops'
    <3>1. /\ Losses(file)' = Losses(file) /\ Losses(bookmark)' = Losses(bookmark)
          /\ Losses(At)' = Losses(At)
      BY <2>1 DEF Losses, At
    <3> QED
      BY <2>1, <3>1 DEF EvtInv, LossesAreStops
  <2> QED
    BY <2>2, <2>3, <2>4 DEF EvtInv
<1>3. CASE crash
  <2>1. /\ UNCHANGED <<channel, evt_settings, maxsize, queued, file, resumed_from, stops>>
        /\ worker' = "none" /\ events' = <<>> /\ q' = 0 /\ connected' = FALSE
        /\ stop_event' = FALSE /\ stopper' = "out" /\ next_event' = 0 /\ bookmark' = 0
    BY <1>3 DEF crash, evt_const
  <2>2. EvtTypes'
    <3>1. <<>> \in Seq(Nat)
      OBVIOUS
    <3>2. /\ next_event' \in 0 .. channel /\ bookmark' \in 0 .. channel
          /\ q' \in Nat /\ (maxsize' # 0 => q' <= maxsize')
      BY <1>t, <2>1 DEF EvtInv, EvtTypes
    <3> QED
      BY <2>1, <3>1, <3>2 DEF EvtInv, EvtTypes
  <2>3. Batch'
    BY <2>1 DEF Batch
  <2>4. Reading' /\ LossesAreStops'
    BY <2>1 DEF EvtInv, Reading, LossesAreStops, Losses, thread_alive
  <2> QED
    BY <2>2, <2>3, <2>4 DEF EvtInv
<1> QED
  BY <1>1, <1>2, <1>3

(* Each step of the subscription keeps the invariant. *)
LEMMA EvtStep == EvtInv /\ [EvtNextStep]_evt_vars => EvtInv'
<1> SUFFICES ASSUME EvtInv, [EvtNextStep]_evt_vars PROVE EvtInv'
  OBVIOUS
<1>t. /\ channel \in Nat /\ channel <= MaxEvents /\ q \in Nat /\ stops \in Nat
      /\ (maxsize # 0 => q <= maxsize) /\ maxsize \in Nat
      /\ stopper \in {"out", "join", "forced"} /\ stop_event \in BOOLEAN /\ MaxEvents \in Nat
  BY EvtAssumption DEF EvtInv, EvtTypes
<1>1. CASE EventLogged
  BY <1>1, <1>t, Idles DEF EventLogged, evt_const, evt_thread
<1>2. CASE connect
  BY <1>2, ConnectStep
<1>3. CASE start \/ stop_returns \/ crash
  BY <1>3, OtherEvtSteps
<1>4. CASE emit
  BY <1>4, <1>t, Idles DEF emit, evt_const, evt_thread
<1>5. CASE WorkerThread
  BY <1>5, PollStep, EndStep, EventStep, PutStep, MarkStep
     DEF WorkerThread, poll_ends, thread_alive
<1>6. CASE stop_calls
  BY <1>6, StopCallStep
<1>7. CASE stop_forces
  BY <1>7, <1>t, Idles DEF stop_forces, evt_const, evt_thread
<1>8. CASE stop_raises
  BY <1>8, <1>t, Idles DEF stop_raises, evt_const, evt_thread
<1>9. CASE UNCHANGED evt_vars
  BY <1>9, <1>t, Idles DEF evt_vars, evt_const, evt_thread
<1> QED
  BY <1>1, <1>2, <1>3, <1>4, <1>5, <1>6, <1>7, <1>8, <1>9 DEF EvtNextStep

(* What the invariant says of the bookmark file. *)
LEMMA EventsFollow == EvtInv => EvtTypeOK /\ OneLostPerStop
<1>1. lost_events = Lost(resumed_from, file, queued)
  BY DEF lost_events, Lost
<1> QED
  BY <1>1 DEF EvtInv, EvtTypes, EvtTypeOK, LossesAreStops, Losses, OneLostPerStop

---------------------------------------------------------------------------
(* The traces.                                                             *)

TraceStates == {"new", "look", "delete", "open", "running", "stopped", "gone"}

TrcTypes ==
    /\ happened \in Nat /\ since \in [Traces -> 0 .. happened]
    /\ session \in [up : BOOLEAN, readers : SUBSET Traces, buffer : Seq(1 .. happened)]
    /\ event_queue \in [Traces -> Seq(1 .. happened)]
    /\ emitted \in [Traces -> Seq(1 .. happened)]
    /\ DOMAIN raised = Traces
    /\ trace \in [Traces -> TraceStates]
    /\ poller \subseteq Traces /\ sysmon \in {"absent", "installed", "running"}

(* Events that follow each other, up to the newest one. *)
InARow(s, newest) == \A i \in 1 .. Len(s) : s[i] = newest - Len(s) + i

SessionIs ==
    /\ \A t \in session.readers : trace[t] = "running"
    /\ ~session.up => session.readers = {} /\ session.buffer = <<>>
    /\ session.readers # {} => session.buffer = <<>>
    /\ InARow(session.buffer, happened)

(* The next event that a trace emits, if it gets one. *)
NextOf(t) == IF event_queue[t] # <<>> THEN event_queue[t][1] ELSE happened + 1
Fills(t) == t \in session.readers /\ callback_fills_queue

(* An event was given, or is one that emit() does not give. *)
Accounted(t, e) ==
    \/ \E i \in 1 .. Len(emitted[t]) : emitted[t][i] = e
    \/ e \in raised[t] \/ in_skip_record_list(e)

(* The queue of a trace follows what it emitted, and reaches what happened *)
(* while it reads the session.                                             *)
TraceIs(t) ==
    /\ trace[t] \in {"look", "delete", "open"} => event_queue[t] = <<>> /\ emitted[t] = <<>>
    /\ ~callback_fills_queue => event_queue[t] = <<>> /\ emitted[t] = <<>>
    /\ \A i, j \in 1 .. Len(event_queue[t]) :
          event_queue[t][j] = event_queue[t][i] + j - i
    /\ Fills(t) /\ event_queue[t] # <<>> => event_queue[t][Len(event_queue[t])] = happened
    /\ \A i \in 1 .. Len(emitted[t]) : emitted[t][i] < NextOf(t)
    /\ emitted[t] # <<>> /\ (Fills(t) \/ event_queue[t] # <<>>) =>
          \A e \in 1 .. happened : emitted[t][1] <= e /\ e < NextOf(t) => Accounted(t, e)
    /\ trcKind = "dns" =>
          \A i \in 1 .. Len(emitted[t]) : TypeOf[emitted[t][i]] \notin SkipRecords

(* With close_existing_session_name a trace reads nothing from before its  *)
(* start.                                                                  *)
NotBefore(t) ==
    close_existing /\ callback_fills_queue =>
        /\ trace[t] = "open" => since[t] <= happened - Len(session.buffer)
        /\ event_queue[t] # <<>> => since[t] < event_queue[t][1]
        /\ \A i \in 1 .. Len(emitted[t]) : since[t] < emitted[t][i]

InOrder(t) ==
    /\ \A i, j \in 1 .. Len(emitted[t]) : i < j => emitted[t][i] < emitted[t][j]
    /\ emitted[t] # <<>> =>
          \A e \in 1 .. happened : emitted[t][1] <= e /\ e <= emitted[t][Len(emitted[t])] =>
             Accounted(t, e)

TraceInv(t) == TraceIs(t) /\ NotBefore(t) /\ InOrder(t)
TrcInv == TrcTypes /\ SessionIs /\ \A t \in Traces : TraceInv(t)

(* A list of some of the events, when more have happened. *)
LEMMA MoreEvents ==
    ASSUME NEW n \in Nat, NEW m \in Nat, n <= m, NEW s \in Seq(1 .. n)
    PROVE  s \in Seq(1 .. m)
<1>1. /\ Len(s) \in Nat /\ DOMAIN s = 1 .. Len(s) /\ s = [i \in 1 .. Len(s) |-> s[i]]
      /\ \A i \in 1 .. Len(s) : s[i] \in 1 .. n
  OBVIOUS
<1>2. \A i \in 1 .. Len(s) : s[i] \in 1 .. m
  BY <1>1
<1> QED
  BY <1>1, <1>2

(* Nothing was traced at first. *)
LEMMA TrcAtFirst == TrcInit => TrcInv
<1> SUFFICES ASSUME TrcInit PROVE TrcInv
  OBVIOUS
<1>0. Len(<<>>) = 0 /\ \A S : <<>> \in Seq(S)
  OBVIOUS
<1>1. TrcTypes
  BY <1>0 DEF TrcInit, TrcTypes, NoSession, TraceStates
<1>2. SessionIs
  BY <1>0 DEF TrcInit, SessionIs, NoSession, InARow
<1>3. ASSUME NEW t \in Traces PROVE TraceInv(t)
  <2>1. event_queue[t] = <<>> /\ emitted[t] = <<>> /\ trace[t] = "new"
    BY DEF TrcInit
  <2> QED
    BY <1>0, <2>1 DEF TraceInv, TraceIs, NotBefore, InOrder
<1> QED
  BY <1>1, <1>2, <1>3 DEF TrcInv

(* What the types say of one trace. *)
LEMMA OfTrace ==
    ASSUME TrcTypes, NEW t \in Traces
    PROVE  /\ event_queue[t] \in Seq(1 .. happened) /\ Len(event_queue[t]) \in Nat
           /\ emitted[t] \in Seq(1 .. happened) /\ Len(emitted[t]) \in Nat
           /\ since[t] \in 0 .. happened /\ happened \in Nat /\ trace[t] \in TraceStates
           /\ session.buffer \in Seq(1 .. happened) /\ Len(session.buffer) \in Nat
           /\ \A i \in 1 .. Len(event_queue[t]) : event_queue[t][i] \in 1 .. happened
           /\ \A i \in 1 .. Len(emitted[t]) : emitted[t][i] \in 1 .. happened
           /\ \A i \in 1 .. Len(session.buffer) : session.buffer[i] \in 1 .. happened
<1>1. /\ event_queue[t] \in Seq(1 .. happened) /\ emitted[t] \in Seq(1 .. happened)
      /\ since[t] \in 0 .. happened /\ happened \in Nat /\ trace[t] \in TraceStates
      /\ session.buffer \in Seq(1 .. happened)
  BY DEF TrcTypes
<1> QED
  BY <1>1

(* A trace whose lists no step touches, wherever it goes on from them. *)
LEMMA SameTrace ==
    ASSUME TrcInv, NEW t \in Traces,
           UNCHANGED <<trcKind, close_existing, happened, event_queue[t], emitted[t],
                       raised[t], since[t]>>,
           trace'[t] = trace[t] \/ trace'[t] \notin {"look", "delete", "open"},
           t \in session'.readers => t \in session.readers,
           Len(session'.buffer) \in Nat, Len(session'.buffer) <= Len(session.buffer)
    PROVE  TraceInv(t)'
<1>t. /\ TraceInv(t) /\ since[t] \in 0 .. happened /\ happened \in Nat
      /\ Len(session.buffer) \in Nat
  BY OfTrace DEF TrcInv
<1>1. /\ NextOf(t)' = NextOf(t) /\ (Fills(t)' => Fills(t))
      /\ callback_fills_queue' = callback_fills_queue
  BY DEF NextOf, Fills, callback_fills_queue
<1>2. \A e : Accounted(t, e)' <=> Accounted(t, e)
  BY DEF Accounted, in_skip_record_list
<1>3. TraceIs(t)'
  BY <1>t, <1>1, <1>2 DEF TraceInv, TraceIs
<1>4. NotBefore(t)'
  BY <1>t, <1>1 DEF TraceInv, NotBefore
<1>5. InOrder(t)'
  BY <1>t, <1>2 DEF TraceInv, InOrder
<1> QED
  BY <1>3, <1>4, <1>5 DEF TraceInv

(* A trace that has nothing and gave nothing. *)
LEMMA FreshTrace ==
    ASSUME NEW t \in Traces, event_queue'[t] = <<>>, emitted'[t] = <<>>,
           close_existing' /\ callback_fills_queue' /\ trace'[t] = "open" =>
               since'[t] <= happened' - Len(session'.buffer)
    PROVE  TraceInv(t)'
<1>0. Len(<<>>) = 0
  OBVIOUS
<1> QED
  BY <1>0 DEF TraceInv, TraceIs, NotBefore, InOrder

(* A list of the events in a row, and one more. *)
LEMMA OneMoreInARow ==
    ASSUME NEW n \in Nat, NEW s \in Seq(1 .. n), InARow(s, n)
    PROVE  /\ Append(s, n + 1) \in Seq(1 .. n + 1) /\ InARow(Append(s, n + 1), n + 1)
           /\ Len(Append(s, n + 1)) = Len(s) + 1
<1>1. s \in Seq(1 .. n + 1) /\ n + 1 \in 1 .. n + 1
  BY MoreEvents
<1>2. /\ Append(s, n + 1) \in Seq(1 .. n + 1) /\ Len(s) \in Nat
      /\ Len(Append(s, n + 1)) = Len(s) + 1
      /\ Append(s, n + 1)[Len(s) + 1] = n + 1
      /\ \A i \in 1 .. Len(s) : Append(s, n + 1)[i] = s[i]
  BY <1>1
<1>3. ASSUME NEW i \in 1 .. Len(s) + 1
      PROVE  Append(s, n + 1)[i] = (n + 1) - (Len(s) + 1) + i
  <2>1. CASE i = Len(s) + 1
    BY <1>2, <2>1
  <2>2. CASE i \in 1 .. Len(s)
    BY <1>2, <2>2 DEF InARow
  <2> QED
    BY <1>2, <2>1, <2>2
<1> QED
  BY <1>2, <1>3 DEF InARow

(* A queue without gaps, up to the newest event. *)
Gapless(s, n) ==
    /\ \A i, j \in 1 .. Len(s) : s[j] = s[i] + j - i
    /\ s # <<>> => s[Len(s)] = n

(* A list and one more. *)
Longer(r, s, e) ==
    /\ Len(r) = Len(s) + 1 /\ r[Len(s) + 1] = e
    /\ \A i \in 1 .. Len(s) : r[i] = s[i]

(* The queue of a trace that reads, and one more event. *)
LEMMA OneMoreInQueue ==
    ASSUME NEW n \in Nat, NEW s \in Seq(1 .. n), Gapless(s, n), NEW r, Longer(r, s, n + 1)
    PROVE  /\ r # <<>> /\ Gapless(r, n + 1)
           /\ r[1] = (IF s # <<>> THEN s[1] ELSE n + 1)
<1>0. s \in Seq(Int) /\ n + 1 \in Int /\ Len(s) \in Nat /\ \A i \in 1 .. Len(s) : s[i] \in Int
  <2>1. \A i \in 1 .. Len(s) : s[i] \in 1 .. n
    OBVIOUS
  <2>2. s = [i \in 1 .. Len(s) |-> s[i]] /\ Len(s) \in Nat
    OBVIOUS
  <2> QED
    BY <2>1, <2>2
<1>1. /\ Len(r) = Len(s) + 1 /\ r[Len(s) + 1] = n + 1
      /\ \A i \in 1 .. Len(s) : r[i] = s[i]
  BY DEF Longer
<1>2. r # <<>>
  <2>1. Len(<<>>) = 0
    OBVIOUS
  <2> QED
    BY <1>0, <1>1, <2>1
<1>3. ASSUME NEW k \in 1 .. Len(s) PROVE s[k] = n - Len(s) + k
  <2>1. Len(s) \in 1 .. Len(s) /\ s # <<>>
    BY <1>0
  <2>2. n = s[k] + Len(s) - k
    BY <2>1 DEF Gapless
  <2>3. s[k] \in Int /\ Len(s) \in Int /\ k \in Int
    BY <1>0
  <2>4. \A x, y, z \in Int : n = x + y - z => x = n - y + z
    OBVIOUS
  <2> QED
    BY <2>2, <2>3, <2>4
<1>4. ASSUME NEW k \in 1 .. Len(r) PROVE r[k] = n - Len(s) + k
  <2>1. CASE k = Len(s) + 1
    BY <1>0, <1>1, <2>1
  <2>2. CASE k \in 1 .. Len(s)
    BY <1>0, <1>1, <1>3, <2>2
  <2> QED
    BY <1>0, <1>1, <2>1, <2>2
<1>5. ASSUME NEW i \in 1 .. Len(r), NEW j \in 1 .. Len(r) PROVE r[j] = r[i] + j - i
  <2>1. /\ r[i] = n - Len(s) + i /\ r[j] = n - Len(s) + j
        /\ Len(s) \in Int /\ i \in Int /\ j \in Int
    BY <1>0, <1>1, <1>4
  <2>2. n - Len(s) + j = (n - Len(s) + i) + j - i
    BY <2>1
  <2> QED
    BY <2>1, <2>2
<1>6. s # <<>> => 1 \in 1 .. Len(s)
  BY <1>0
<1>7. s = <<>> => Len(s) = 0
  OBVIOUS
<1>8. r[1] = (IF s # <<>> THEN s[1] ELSE n + 1)
  BY <1>0, <1>1, <1>6, <1>7
<1>9. Len(r) \in Nat /\ r[Len(r)] = n + 1
  BY <1>0, <1>1
<1> QED
  BY <1>2, <1>5, <1>8, <1>9 DEF Gapless

(* One event more, and at most one more in the buffer. *)
LEMMA StillBefore ==
    ASSUME NEW a \in Int, NEW b \in Int, NEW x \in Int, NEW y \in Int, y <= b + 1, a <= x - b
    PROVE  a <= (x + 1) - y
OBVIOUS

(* The first of a queue is one of the events. *)
LEMMA FirstOfQueue ==
    ASSUME NEW n \in Nat, NEW s \in Seq(1 .. n)
    PROVE  /\ s # <<>> => s[1] \in 1 .. n
           /\ (IF s # <<>> THEN s[1] ELSE n + 1) \in 1 .. n + 1
<1>1. s # <<>> => 1 \in 1 .. Len(s)
  OBVIOUS
<1> QED
  BY <1>1

(* An event reaches the queue of a trace that reads, and no other. *)
LEMMA EventForTrace == ASSUME TrcInv, TraceEvent, NEW t \in Traces PROVE TraceInv(t)'
<1>t. /\ TrcTypes /\ SessionIs /\ TraceInv(t)
      /\ event_queue[t] \in Seq(1 .. happened) /\ Len(event_queue[t]) \in Nat
      /\ emitted[t] \in Seq(1 .. happened) /\ Len(emitted[t]) \in Nat
      /\ since[t] \in 0 .. happened /\ happened \in Nat
      /\ Len(session.buffer) \in Nat /\ session.buffer \in Seq(1 .. happened)
      /\ \A i \in 1 .. Len(event_queue[t]) : event_queue[t][i] \in 1 .. happened
      /\ \A i \in 1 .. Len(emitted[t]) : emitted[t][i] \in 1 .. happened
  BY OfTrace DEF TrcInv
<1>1. /\ happened' = happened + 1
      /\ UNCHANGED <<trcKind, close_existing, trace, emitted, raised, since>>
      /\ event_queue'[t] = (IF Fills(t) THEN Append(event_queue[t], happened') ELSE event_queue[t])
      /\ session'.readers = session.readers
      /\ Len(session'.buffer) \in Nat /\ Len(session'.buffer) <= Len(session.buffer) + 1
  <2>1. /\ happened' = happened + 1
        /\ UNCHANGED <<trcKind, close_existing, trace, emitted, raised, since>>
        /\ event_queue'[t] = (IF Fills(t) THEN Append(event_queue[t], happened')
                              ELSE event_queue[t])
        /\ session' = IF session.up /\ session.readers = {}
                      THEN [session EXCEPT !.buffer = Append(@, happened')] ELSE session
    BY DEF TraceEvent, Fills, trc_out
  <2>2. Len(Append(session.buffer, happened + 1)) = Len(session.buffer) + 1
    BY <1>t
  <2> QED
    BY <1>t, <2>1, <2>2 DEF TrcTypes
<1>2. Fills(t)' = Fills(t) /\ callback_fills_queue' = callback_fills_queue
  BY <1>1 DEF Fills, callback_fills_queue
<1>3. \A e : Accounted(t, e)' <=> Accounted(t, e)
  BY <1>1 DEF Accounted, in_skip_record_list
<1>6. emitted[t] # <<>> =>
        \A e \in 1 .. happened' : e <= emitted[t][Len(emitted[t])] => e \in 1 .. happened
  <2> SUFFICES ASSUME emitted[t] # <<>>, NEW e \in 1 .. happened',
                      e <= emitted[t][Len(emitted[t])]
               PROVE  e \in 1 .. happened
    OBVIOUS
  <2>1. Len(emitted[t]) \in 1 .. Len(emitted[t])
    BY <1>t
  <2>2. emitted[t][Len(emitted[t])] \in 1 .. happened
    BY <1>t, <2>1
  <2> QED
    BY <1>t, <1>1, <2>2
<1>4. CASE Fills(t)
  <2> DEFINE q1 == Append(event_queue[t], happened + 1)
  <2>0. q1 = Append(event_queue[t], happened + 1) /\ Longer(q1, event_queue[t], happened + 1)
    <3>1. event_queue[t] \in Seq(Nat) /\ happened + 1 \in Nat
      BY <1>t, MoreEvents
    <3> QED
      BY <3>1 DEF Longer
  <2> HIDE DEF q1
  <2>1. /\ event_queue'[t] = q1 /\ q1 # <<>> /\ q1[Len(q1)] = happened + 1
        /\ \A i, j \in 1 .. Len(q1) : q1[j] = q1[i] + j - i
        /\ q1[1] = NextOf(t)
    <3>1. Gapless(event_queue[t], happened)
      BY <1>4, <1>t DEF TraceInv, TraceIs, Gapless
    <3>2. /\ q1 # <<>> /\ Gapless(q1, happened + 1)
          /\ q1[1] = (IF event_queue[t] # <<>> THEN event_queue[t][1] ELSE happened + 1)
      <4>1. happened \in Nat /\ event_queue[t] \in Seq(1 .. happened)
        BY <1>t
      <4>2. Longer(q1, event_queue[t], happened + 1)
        BY <2>0
      <4> QED
        BY <3>1, <4>1, <4>2, OneMoreInQueue
    <3>3. q1[1] = NextOf(t)
      BY <3>2 DEF NextOf
    <3>4. event_queue'[t] = q1
      BY <1>1, <1>4, <2>0
    <3> QED
      BY <3>2, <3>3, <3>4 DEF Gapless
  <2>2. NextOf(t)' = NextOf(t) /\ NextOf(t) \in Nat /\ NextOf(t) <= happened + 1
    <3>1. NextOf(t)' = q1[1]
      BY <2>1 DEF NextOf
    <3> QED
      BY <2>1, <3>1, <1>t, FirstOfQueue DEF NextOf
  <2>3. trace[t] = "running" /\ callback_fills_queue
    BY <1>4, <1>t DEF Fills, SessionIs
  <2>6. TraceIs(t)'
    <3>1. event_queue'[t][Len(event_queue'[t])] = happened'
      BY <1>1, <2>1
    <3>2. ASSUME emitted[t] # <<>>, NEW e \in 1 .. happened + 1, emitted[t][1] <= e,
                 e < NextOf(t)
          PROVE  Accounted(t, e)
      <4>1. e \in 1 .. happened
        BY <1>t, <2>2, <3>2
      <4> QED
        BY <1>4, <1>t, <3>2, <4>1 DEF TraceInv, TraceIs
    <3>3. \A i, j \in 1 .. Len(event_queue'[t]) :
             event_queue'[t][j] = event_queue'[t][i] + j - i
      BY <2>1
    <3>4. \A i \in 1 .. Len(emitted[t]) : emitted[t][i] < NextOf(t)
      BY <1>t DEF TraceInv, TraceIs
    <3>5. trcKind = "dns" =>
             \A i \in 1 .. Len(emitted[t]) : TypeOf[emitted[t][i]] \notin SkipRecords
      BY <1>t DEF TraceInv, TraceIs
    <3> QED
      BY <1>1, <1>2, <1>3, <2>2, <2>3, <3>1, <3>2, <3>3, <3>4, <3>5 DEF TraceIs
  <2>7. NotBefore(t)'
    <3>1. close_existing /\ callback_fills_queue => since[t] < q1[1]
      BY <1>t, <2>1 DEF TraceInv, NotBefore, NextOf
    <3> QED
      BY <1>1, <1>2, <1>t, <2>1, <2>3, <3>1 DEF TraceInv, NotBefore
  <2>8. InOrder(t)'
    BY <1>1, <1>3, <1>t, <1>6 DEF TraceInv, InOrder
  <2> QED
    BY <2>6, <2>7, <2>8 DEF TraceInv
<1>5. CASE ~Fills(t)
  <2>1. event_queue'[t] = event_queue[t]
    BY <1>1, <1>5
  <2>2. /\ event_queue[t] # <<>> => NextOf(t)' = NextOf(t) /\ NextOf(t) \in 1 .. happened
        /\ event_queue[t] = <<>> => NextOf(t)' = happened + 2 /\ NextOf(t) = happened + 1
    <3>1. event_queue[t] # <<>> => event_queue[t][1] \in 1 .. happened
      BY <1>t, FirstOfQueue
    <3>2. NextOf(t)' = IF event_queue[t] # <<>> THEN event_queue[t][1] ELSE happened + 2
      <4>1. happened' + 1 = happened + 2
        BY <1>1, <1>t
      <4>2. NextOf(t)' = IF event_queue'[t] # <<>> THEN event_queue'[t][1] ELSE happened' + 1
        BY DEF NextOf
      <4> QED
        BY <2>1, <4>1, <4>2
    <3> QED
      BY <3>1, <3>2 DEF NextOf
  <2>3. TraceIs(t)'
    <3>1. \A i \in 1 .. Len(emitted[t]) : emitted[t][i] < NextOf(t)'
      BY <1>t, <2>2 DEF TraceInv, TraceIs
    <3>2. ASSUME emitted[t] # <<>>, event_queue[t] # <<>>, NEW e \in 1 .. happened + 1,
                 emitted[t][1] <= e, e < NextOf(t)
          PROVE  Accounted(t, e)
      <4>1. e \in 1 .. happened
        BY <1>t, <2>2, <3>2
      <4> QED
        BY <1>t, <3>2, <4>1 DEF TraceInv, TraceIs
    <3> QED
      BY <1>1, <1>2, <1>3, <1>5, <1>t, <2>1, <2>2, <3>1, <3>2 DEF TraceInv, TraceIs
  <2>4. NotBefore(t)'
    <3>1. ASSUME since[t] <= happened - Len(session.buffer)
          PROVE  since[t] <= happened' - Len(session'.buffer)
      <4>1. /\ since[t] \in Int /\ happened \in Int /\ Len(session.buffer) \in Int
            /\ Len(session'.buffer) \in Int /\ Len(session'.buffer) <= Len(session.buffer) + 1
        BY <1>1, <1>t
      <4>2. since[t] <= (happened + 1) - Len(session'.buffer)
        BY <3>1, <4>1, StillBefore
      <4> QED
        BY <1>1, <4>2
    <3> QED
      BY <1>1, <1>2, <2>1, <1>t, <3>1 DEF TraceInv, NotBefore
  <2>5. InOrder(t)'
    BY <1>1, <1>3, <1>t, <1>6 DEF TraceInv, InOrder
  <2> QED
    BY <2>3, <2>4, <2>5 DEF TraceInv
<1> QED
  BY <1>4, <1>5

(* A trace joins the session, and gets what its buffer holds. *)
LEMMA JoinForTrace ==
    ASSUME TrcInv, NEW t \in Traces, trace[t] = "open", joined(t),
           UNCHANGED <<trcKind, close_existing, happened, trc_out>>,
           callback_fills_queue \/ ~session.up
    PROVE  TraceInv(t)'
<1>t. /\ SessionIs /\ TraceInv(t) /\ Len(session.buffer) \in Nat /\ happened \in Nat
      /\ since[t] \in 0 .. happened /\ emitted[t] = <<>>
      /\ trace \in [Traces -> TraceStates] /\ event_queue \in [Traces -> Seq(1 .. happened)]
  BY OfTrace DEF TrcInv, TrcTypes, TraceInv, TraceIs
<1>1. /\ event_queue'[t] = session.buffer /\ trace'[t] = "running"
      /\ session'.buffer = <<>> /\ happened' = happened
      /\ emitted'[t] = <<>> /\ since'[t] = since[t] /\ close_existing' = close_existing
  BY <1>t DEF joined, trc_out
<1>2. callback_fills_queue' = callback_fills_queue
  BY DEF callback_fills_queue
<1>3. Len(<<>>) = 0
  OBVIOUS
<1>4. \A i \in 1 .. Len(session.buffer) : session.buffer[i] = happened - Len(session.buffer) + i
  BY <1>t DEF SessionIs, InARow
<1>5. session.buffer # <<>> =>
        1 \in 1 .. Len(session.buffer) /\ Len(session.buffer) \in 1 .. Len(session.buffer)
  <2>1. session.buffer \in Seq(1 .. happened)
    BY OfTrace DEF TrcInv
  <2> QED
    BY <2>1
<1>6. ASSUME NEW i \in 1 .. Len(session.buffer), NEW j \in 1 .. Len(session.buffer)
      PROVE  session.buffer[j] = session.buffer[i] + j - i
  <2>1. /\ session.buffer[i] = happened - Len(session.buffer) + i
        /\ session.buffer[j] = happened - Len(session.buffer) + j
    BY <1>4
  <2>2. \A n, l, x, y \in Int : n - l + y = (n - l + x) + y - x
    OBVIOUS
  <2> QED
    BY <1>t, <2>1, <2>2
<1>7. session.buffer # <<>> => session.buffer[Len(session.buffer)] = happened
  <2>1. \A n, l \in Int : n - l + l = n
    OBVIOUS
  <2> SUFFICES ASSUME session.buffer # <<>>
               PROVE  session.buffer[Len(session.buffer)] = happened
    OBVIOUS
  <2>2. session.buffer[Len(session.buffer)] = happened - Len(session.buffer) + Len(session.buffer)
    BY <1>4, <1>5
  <2> QED
    BY <1>t, <2>1, <2>2
<1>8. ~callback_fills_queue => session.buffer = <<>>
  BY <1>t DEF SessionIs
<1>9. TraceIs(t)'
  <2>1. /\ trace'[t] \notin {"look", "delete", "open"}
        /\ ~callback_fills_queue' => event_queue'[t] = <<>> /\ emitted'[t] = <<>>
        /\ \A i, j \in 1 .. Len(event_queue'[t]) :
             event_queue'[t][j] = event_queue'[t][i] + j - i
        /\ event_queue'[t] # <<>> => event_queue'[t][Len(event_queue'[t])] = happened'
    BY <1>1, <1>2, <1>6, <1>7, <1>8
  <2> QED
    BY <1>1, <1>3, <2>1 DEF TraceIs
<1>10. NotBefore(t)'
  <2>1. ASSUME since[t] <= happened - Len(session.buffer), session.buffer # <<>>
        PROVE  since[t] < session.buffer[1]
    <3>1. session.buffer[1] = happened - Len(session.buffer) + 1
      BY <1>4, <1>5, <2>1
    <3>2. \A a, n \in Int : a <= n => a < n + 1
      OBVIOUS
    <3> QED
      BY <1>t, <2>1, <3>1, <3>2
  <2>2. close_existing /\ callback_fills_queue /\ session.buffer # <<>> =>
           since[t] < session.buffer[1]
    BY <1>t, <2>1 DEF TraceInv, NotBefore
  <2> QED
    BY <1>1, <1>2, <1>3, <2>2 DEF NotBefore
<1>11. InOrder(t)'
  BY <1>1, <1>3 DEF InOrder
<1> QED
  BY <1>9, <1>10, <1>11 DEF TraceInv

(* What is left of a queue without gaps follows the event that was taken. *)
LEMMA RestOfQueue ==
    ASSUME NEW n \in Nat, NEW s \in Seq(1 .. n), s # <<>>,
           \A i, j \in 1 .. Len(s) : s[j] = s[i] + j - i
    PROVE  /\ Tail(s) \in Seq(1 .. n) /\ Head(s) = s[1] /\ s[1] \in 1 .. n
           /\ \A i, j \in 1 .. Len(Tail(s)) : Tail(s)[j] = Tail(s)[i] + j - i
           /\ Tail(s) # <<>> => Tail(s)[1] = s[1] + 1 /\ Tail(s)[Len(Tail(s))] = s[Len(s)]
           /\ Tail(s) = <<>> => s[Len(s)] = s[1]
<1>1. /\ Tail(s) \in Seq(1 .. n) /\ Len(s) \in Nat \ {0} /\ Len(Tail(s)) = Len(s) - 1
      /\ Head(s) = s[1] /\ \A i \in 1 .. Len(s) - 1 : Tail(s)[i] = s[i + 1]
  BY Behead
<1>2. 1 \in 1 .. Len(s) /\ s[1] \in 1 .. n /\ \A i \in 1 .. Len(s) : s[i] \in Int
  <2>1. \A i \in 1 .. Len(s) : s[i] \in 1 .. n
    OBVIOUS
  <2> QED
    BY <1>1, <2>1
<1>3. ASSUME NEW i \in 1 .. Len(Tail(s)), NEW j \in 1 .. Len(Tail(s))
      PROVE  Tail(s)[j] = Tail(s)[i] + j - i
  <2>1. /\ i + 1 \in 1 .. Len(s) /\ j + 1 \in 1 .. Len(s) /\ i \in Int /\ j \in Int
        /\ Tail(s)[i] = s[i + 1] /\ Tail(s)[j] = s[j + 1]
    BY <1>1
  <2>2. s[j + 1] = s[i + 1] + (j + 1) - (i + 1) /\ s[i + 1] \in Int
    BY <1>2, <2>1
  <2>3. \A x, y, z \in Int : x + (y + 1) - (z + 1) = x + y - z
    OBVIOUS
  <2> QED
    BY <2>1, <2>2, <2>3
<1>4. ASSUME Tail(s) # <<>>
      PROVE  Tail(s)[1] = s[1] + 1 /\ Tail(s)[Len(Tail(s))] = s[Len(s)]
  <2>1. Len(Tail(s)) >= 1
    BY <1>1, <1>4
  <2>2. 2 \in 1 .. Len(s) /\ Tail(s)[1] = s[2]
    BY <1>1, <2>1
  <2>3. s[2] = s[1] + 2 - 1
    BY <1>2, <2>2
  <2>4. Tail(s)[Len(Tail(s))] = s[Len(s)]
    BY <1>1, <2>1
  <2> QED
    BY <1>2, <2>2, <2>3, <2>4
<1>5. ASSUME Tail(s) = <<>> PROVE Len(s) = 1
  <2>1. Len(<<>>) = 0 /\ \A x \in Nat : x - 1 = 0 => x = 1
    OBVIOUS
  <2>2. Len(s) - 1 = 0
    BY <1>1, <1>5, <2>1
  <2> QED
    BY <1>1, <2>1, <2>2
<1> QED
  BY <1>1, <1>2, <1>3, <1>4, <1>5

(* emit(): the head of the queue is given, lost with an error or skipped,  *)
(* and the next one follows it.                                            *)
LEMMA EmitForTrace == ASSUME TrcInv, NEW t \in Traces, trace_emits(t) PROVE TraceInv(t)'
<1> DEFINE s == event_queue[t]
           e == s[1]
           out == emitted[t]
<1>t. /\ TrcTypes /\ TraceIs(t) /\ NotBefore(t) /\ InOrder(t)
      /\ s \in Seq(1 .. happened) /\ Len(s) \in Nat /\ s # <<>>
      /\ out \in Seq(1 .. happened) /\ Len(out) \in Nat
      /\ since[t] \in 0 .. happened /\ happened \in Nat
      /\ \A i \in 1 .. Len(out) : out[i] \in 1 .. happened
  BY OfTrace DEF TrcInv, TraceInv, trace_emits
<1>1. /\ UNCHANGED <<trcKind, close_existing, happened, session, trace, since>>
      /\ event_queue'[t] = Tail(s) /\ taken(t, Head(s)) /\ trace[t] \in {"running", "stopped"}
  BY <1>t DEF trace_emits, TrcTypes
<1>2. \A i, j \in 1 .. Len(s) : s[j] = s[i] + j - i
  BY <1>t DEF TraceIs
<1>3. /\ Tail(s) \in Seq(1 .. happened) /\ Head(s) = e /\ e \in 1 .. happened
      /\ \A i, j \in 1 .. Len(Tail(s)) : Tail(s)[j] = Tail(s)[i] + j - i
      /\ Tail(s) # <<>> => Tail(s)[1] = e + 1 /\ Tail(s)[Len(Tail(s))] = s[Len(s)]
      /\ Tail(s) = <<>> => s[Len(s)] = e
  BY <1>t, <1>2, RestOfQueue
<1>4. /\ callback_fills_queue /\ callback_fills_queue' = callback_fills_queue
      /\ Fills(t)' = Fills(t) /\ NextOf(t) = e
      /\ (Fills(t) => s[Len(s)] = happened)
  BY <1>t, <1>1 DEF TraceIs, callback_fills_queue, Fills, NextOf
<1>5. /\ NextOf(t)' = (IF Tail(s) # <<>> THEN e + 1 ELSE happened + 1)
      /\ NextOf(t)' \in Nat /\ e < NextOf(t)'
      /\ Fills(t) \/ Tail(s) # <<>> => NextOf(t)' = e + 1
  <2>1. NextOf(t)' = (IF Tail(s) # <<>> THEN e + 1 ELSE happened + 1)
    BY <1>1, <1>3 DEF NextOf
  <2>2. e \in Nat /\ e <= happened /\ happened \in Nat
    BY <1>t, <1>3
  <2>3. Fills(t) /\ Tail(s) = <<>> => e = happened
    BY <1>3, <1>4
  <2> HIDE DEF s, e
  <2> QED
    BY <2>1, <2>2, <2>3
<1>e. e \in Nat /\ e <= happened
  BY <1>t, <1>3
<1> DEFINE out1 == emitted'[t]
           More(e1) == \/ \E i \in 1 .. Len(out1) : out1[i] = e1
                       \/ e1 \in raised'[t] \/ in_skip_record_list(e1)
<1>6. \/ /\ out1 = out /\ More(e)
      \/ /\ Longer(out1, out, e) /\ (trcKind = "dns" => TypeOf[e] \notin SkipRecords)
  <2>1. CASE trcKind = "dns" /\ TypeOf[e] \notin NamedTypes
    BY <1>1, <1>3, <1>t, <2>1 DEF taken, TrcTypes
  <2>2. CASE ~(trcKind = "dns" /\ TypeOf[e] \notin NamedTypes) /\ in_skip_record_list(e)
    BY <1>1, <1>3, <1>t, <2>2 DEF taken, TrcTypes
  <2>3. CASE ~(trcKind = "dns" /\ TypeOf[e] \notin NamedTypes) /\ ~in_skip_record_list(e)
    <3>1. out1 = Append(out, e)
      BY <1>1, <1>3, <1>t, <2>3 DEF taken, TrcTypes
    <3>2. Longer(Append(out, e), out, e)
      <4>1. out \in Seq(Nat) /\ e \in Nat
        BY <1>t, <1>3, MoreEvents
      <4> QED
        BY <4>1 DEF Longer
    <3>3. trcKind = "dns" => TypeOf[e] \notin SkipRecords
      BY <2>3 DEF in_skip_record_list
    <3> QED
      BY <3>1, <3>2, <3>3
  <2> QED
    BY <2>1, <2>2, <2>3
<1>7. raised[t] \subseteq raised'[t]
  BY <1>1, <1>t DEF taken, TrcTypes
<1>8. \A x : Accounted(t, x)' <=> More(x)
  BY <1>1 DEF Accounted, in_skip_record_list
<1>9. \A x : Accounted(t, x) => More(x)
  <2>1. \A i \in 1 .. Len(out) : i \in 1 .. Len(out1) /\ out1[i] = out[i]
    BY <1>6, <1>t DEF Longer
  <2> QED
    BY <1>7, <2>1 DEF Accounted
<1>m. More(e)
  <2>1. Longer(out1, out, e) => Len(out) + 1 \in 1 .. Len(out1) /\ out1[Len(out) + 1] = e
    BY <1>t DEF Longer
  <2> QED
    BY <1>6, <2>1
<1>11. /\ Len(out1) \in Nat /\ \A i \in 1 .. Len(out1) : out1[i] \in 1 .. happened /\ out1[i] <= e
       /\ \A i \in 1 .. Len(out1) : \/ i \in 1 .. Len(out) /\ out1[i] = out[i] /\ out[i] < e
                                    \/ i = Len(out1) /\ out1[i] = e /\ Len(out1) = Len(out) + 1
  <2>1. \A i \in 1 .. Len(out) : out[i] < e /\ out[i] <= e
    <3>0. \A i \in 1 .. Len(out) : out[i] < NextOf(t)
      BY <1>t DEF TraceIs
    <3>1. \A i \in 1 .. Len(out) : out[i] < e /\ out[i] \in Nat
      BY <1>t, <1>4, <3>0
    <3> QED
      BY <1>e, <3>1
  <2> HIDE DEF out, out1, e
  <2>2. CASE out1 = out
    BY <1>t, <2>1, <2>2
  <2>3. CASE Longer(out1, out, e)
    <3>1. Len(out1) = Len(out) + 1 /\ Len(out) \in Nat /\ out1[Len(out) + 1] = e
          /\ \A i \in 1 .. Len(out) : out1[i] = out[i] /\ out[i] \in 1 .. happened
      BY <1>t, <2>3 DEF Longer
    <3>2. ASSUME NEW i \in 1 .. Len(out1) PROVE i \in 1 .. Len(out) \/ i = Len(out1)
      BY <3>1, <3>2
    <3>3. e \in 1 .. happened /\ e <= e
      BY <1>3, <1>e
    <3> QED
      BY <2>1, <3>1, <3>2, <3>3
  <2> QED
    BY <1>6, <2>2, <2>3
<1> HIDE DEF s, e, out, out1, More
<1>12. out1 # <<>> => 1 \in 1 .. Len(out1) /\ (out # <<>> => out1[1] = out[1]) /\ (out = <<>> => out1[1] = e)
  <2>1. out # <<>> => 1 \in 1 .. Len(out)
    BY <1>t DEF out
  <2>2. CASE out1 = out
    BY <2>1, <2>2
  <2>3. CASE Longer(out1, out, e)
    <3>1. out = <<>> => Len(out) = 0
      OBVIOUS
    <3> QED
      BY <1>t, <2>1, <2>3, <3>1 DEF Longer
  <2> QED
    BY <1>6, <2>2, <2>3
(* What precedes the next event is accounted for. *)
<1>13. ASSUME out1 # <<>>, NEW x \in 1 .. happened, out1[1] <= x, x <= e PROVE More(x)
  <2>1. CASE x = e
    BY <1>m, <2>1
  <2>2. CASE x < e /\ out # <<>>
    <3>1. Accounted(t, x)
      BY <1>t, <1>4, <1>12, <1>13, <2>2 DEF TraceIs, out, s
    <3> QED
      BY <1>9, <3>1
  <2>3. CASE x < e /\ out = <<>>
    BY <1>12, <1>13, <1>3, <2>3
  <2> QED
    BY <1>3, <1>13, <2>1, <2>2, <2>3
<1>14. TraceIs(t)'
  <2>1. \A i \in 1 .. Len(out1) : out1[i] < NextOf(t)'
    <3>1. ASSUME NEW i \in 1 .. Len(out1) PROVE out1[i] < NextOf(t)'
      <4>1. out1[i] \in Nat /\ out1[i] <= e
        BY <1>11, <1>t
      <4> QED
        BY <1>5, <1>e, <4>1
    <3> QED
      BY <3>1
  <2>2. ASSUME out1 # <<>>, Fills(t) \/ Tail(s) # <<>>, NEW x \in 1 .. happened, out1[1] <= x,
               x < NextOf(t)'
        PROVE  More(x)
    <3>1. x <= e
      <4>1. NextOf(t)' = e + 1 /\ x \in Nat
        BY <1>5, <2>2, <1>t
      <4> QED
        BY <1>e, <2>2, <4>1
    <3> QED
      BY <1>13, <2>2, <3>1
  <2>3. trcKind = "dns" => \A i \in 1 .. Len(out1) : TypeOf[out1[i]] \notin SkipRecords
    BY <1>6, <1>11, <1>t DEF TraceIs, Longer, out
  <2>4. Fills(t) /\ Tail(s) # <<>> => Tail(s)[Len(Tail(s))] = happened
    BY <1>3, <1>4
  <2> QED
    BY <1>1, <1>3, <1>4, <1>8, <2>1, <2>2, <2>3, <2>4 DEF TraceIs, out1, s
<1>15. NotBefore(t)'
  <2>1. close_existing => since[t] < e
    BY <1>t, <1>4 DEF NotBefore, s, e
  <2>2. close_existing => \A i \in 1 .. Len(out1) : since[t] < out1[i]
    BY <1>t, <1>4, <1>11, <2>1 DEF NotBefore, out
  <2>3. close_existing /\ Tail(s) # <<>> => since[t] < Tail(s)[1]
    <3>1. since[t] \in Nat /\ (Tail(s) # <<>> => Tail(s)[1] = e + 1)
      BY <1>t, <1>3
    <3> QED
      BY <1>e, <2>1, <3>1
  <2> QED
    BY <1>1, <2>2, <2>3 DEF NotBefore, out1
<1>16. InOrder(t)'
  <2>1. ASSUME NEW i \in 1 .. Len(out1), NEW j \in 1 .. Len(out1), i < j PROVE out1[i] < out1[j]
    <3>1. i \in 1 .. Len(out) /\ out1[i] = out[i] /\ out[i] < e
      BY <1>t, <1>11, <2>1
    <3>2. CASE j \in 1 .. Len(out) /\ out1[j] = out[j]
      BY <1>t, <2>1, <3>1, <3>2 DEF InOrder, out
    <3>3. CASE out1[j] = e
      BY <3>1, <3>3
    <3> QED
      BY <1>11, <3>2, <3>3
  <2>2. ASSUME out1 # <<>>, NEW x \in 1 .. happened, out1[1] <= x, x <= out1[Len(out1)]
        PROVE  More(x)
    <3>1. Len(out1) \in 1 .. Len(out1)
      BY <1>11, <1>12, <2>2
    <3>2. x <= e
      BY <1>3, <1>11, <2>2, <3>1
    <3> QED
      BY <1>13, <2>2, <3>2
  <2> QED
    BY <1>1, <1>8, <2>1, <2>2 DEF InOrder, out1
<1> QED
  BY <1>14, <1>15, <1>16 DEF TraceInv

(* The records of the traces, but for their lists. *)
LEMMA SessionMoves ==
    ASSUME TrcInv, UNCHANGED <<happened, emitted>>,
           since' \in [Traces -> 0 .. happened], trace' \in [Traces -> TraceStates],
           event_queue' \in [Traces -> Seq(1 .. happened)], DOMAIN raised' = Traces,
           poller' \subseteq Traces, sysmon' \in {"absent", "installed", "running"},
           session'.up \in BOOLEAN, session'.readers \subseteq Traces,
           session' = [up |-> session'.up, readers |-> session'.readers,
                       buffer |-> session'.buffer],
           session'.buffer = <<>> \/ (session'.buffer = session.buffer /\ session'.up = session.up
                                      /\ session'.readers \subseteq session.readers),
           ~session'.up => session'.readers = {},
           \A t \in session'.readers : trace'[t] = "running"
    PROVE  TrcTypes' /\ SessionIs'
<1>0. Len(<<>>) = 0 /\ <<>> \in Seq(1 .. happened)
  OBVIOUS
<1>1. TrcTypes'
  <2>1. session'.buffer \in Seq(1 .. happened)
    BY <1>0 DEF TrcInv, TrcTypes
  <2> QED
    BY <2>1 DEF TrcInv, TrcTypes
<1>2. SessionIs'
  BY <1>0 DEF TrcInv, SessionIs, InARow
<1> QED
  BY <1>1, <1>2

(* A trace is started: it has an empty queue. *)
LEMMA StartsUpStep == ASSUME TrcInv, NEW t \in Traces, trace_starts_up(t) PROVE TrcInv'
<1>t. /\ TrcTypes /\ SessionIs /\ Len(session.buffer) \in Nat
      /\ session = [up |-> session.up, readers |-> session.readers, buffer |-> session.buffer]
  BY OfTrace DEF TrcInv, TrcTypes
<1>0. <<>> \in Seq(1 .. happened)
  OBVIOUS
<1>1. /\ UNCHANGED <<trcKind, close_existing, happened, session, since>>
      /\ event_queue' = [event_queue EXCEPT ![t] = <<>>]
      /\ emitted' = [emitted EXCEPT ![t] = <<>>] /\ raised' = [raised EXCEPT ![t] = {}]
      /\ trace' = [trace EXCEPT ![t] = IF trcKind = "winapi" THEN "open" ELSE "look"]
      /\ poller' \subseteq Traces /\ sysmon' \in {"absent", "installed", "running"}
      /\ trace[t] # "running"
  BY <1>t DEF trace_starts_up, start_as_service, TrcTypes
<1>2. TrcTypes'
  BY <1>0, <1>1, <1>t DEF TrcTypes, TraceStates
<1>3. SessionIs'
  BY <1>1, <1>t DEF SessionIs, TrcTypes
<1>4. TraceInv(t)'
  <2>1. event_queue'[t] = <<>> /\ emitted'[t] = <<>>
    BY <1>1, <1>t DEF TrcTypes
  <2>2. trace'[t] = "open" => ~callback_fills_queue'
    BY <1>1, <1>t DEF TrcTypes, callback_fills_queue
  <2> QED
    BY <2>1, <2>2, FreshTrace
<1>5. ASSUME NEW u \in Traces, u # t PROVE TraceInv(u)'
  <2>1. UNCHANGED <<trcKind, close_existing, happened, event_queue[u], emitted[u],
                    raised[u], since[u], trace[u], session>>
    BY <1>1, <1>t, <1>5 DEF TrcTypes
  <2> QED
    BY <1>t, <2>1, SameTrace
<1> QED
  BY <1>2, <1>3, <1>4, <1>5 DEF TrcInv

(* What goes on from "look", "delete" and "open", or ends: a trace that    *)
(* has nothing stays so.                                                   *)
LEMMA LookStep ==
    ASSUME TrcInv, NEW t \in Traces,
           is_session_running(t) \/ list_etw_sessions_raises(t) \/ stop_and_delete(t)
    PROVE  TrcInv'
<1>t. /\ TrcTypes /\ SessionIs /\ Len(session.buffer) \in Nat /\ happened \in Nat
      /\ session = [up |-> session.up, readers |-> session.readers, buffer |-> session.buffer]
      /\ session.up \in BOOLEAN /\ session.readers \subseteq Traces
      /\ DOMAIN trace = Traces /\ trace \in [Traces -> TraceStates]
      /\ since \in [Traces -> 0 .. happened] /\ since[t] \in 0 .. happened
  BY OfTrace DEF TrcInv, TrcTypes
<1>0. Len(<<>>) = 0
  OBVIOUS
<1>1. /\ UNCHANGED <<trcKind, close_existing, happened, event_queue, emitted, raised,
                     sysmon, poller>>
      /\ trace[t] \in {"look", "delete"}
      /\ \E at \in {"delete", "open", "gone"} : trace' = [trace EXCEPT ![t] = at]
      /\ since' = since \/ since' = [since EXCEPT ![t] = happened]
      /\ session' = session \/ session' = NoSession
  BY DEF is_session_running, list_etw_sessions_raises, stop_and_delete, deleted, trc_out
<1>2. TrcTypes' /\ SessionIs'
  <2>1. since' \in [Traces -> 0 .. happened] /\ trace' \in [Traces -> TraceStates]
    BY <1>1, <1>t DEF TraceStates
  <2>2. /\ session'.up \in BOOLEAN /\ session'.readers \subseteq Traces
        /\ session' = [up |-> session'.up, readers |-> session'.readers,
                       buffer |-> session'.buffer]
        /\ session'.buffer = <<>> \/ session' = session
        /\ (~session'.up => session'.readers = {})
        /\ session'.readers \subseteq session.readers
    <3>1. CASE session' = session
      BY <1>t, <3>1 DEF SessionIs
    <3>2. CASE session' = NoSession
      BY <3>2 DEF NoSession
    <3> QED
      BY <1>1, <3>1, <3>2
  <2>3. \A u \in session'.readers : trace'[u] = "running"
    BY <1>1, <1>t, <2>2 DEF SessionIs
  <2> QED
    BY <1>1, <1>t, <2>1, <2>2, <2>3, SessionMoves DEF TrcTypes
<1>3. TraceInv(t)'
  <2>1. event_queue'[t] = <<>> /\ emitted'[t] = <<>>
    BY <1>1 DEF TrcInv, TraceInv, TraceIs
  <2>2. close_existing' /\ trace'[t] = "open" => since'[t] <= happened' - Len(session'.buffer)
    <3>1. CASE is_session_running(t)
      <4>1. /\ session' = session /\ since'[t] = happened /\ happened' = happened
            /\ trace'[t] = (IF session.up /\ close_existing THEN "delete" ELSE "open")
            /\ close_existing' = close_existing
        BY <3>1, <1>t DEF is_session_running
      <4>2. ~session.up => Len(session.buffer) = 0
        BY <1>0, <1>t DEF SessionIs
      <4> QED
        BY <1>t, <4>1, <4>2
    <3>2. CASE list_etw_sessions_raises(t)
      BY <3>2, <1>t DEF list_etw_sessions_raises
    <3>3. CASE stop_and_delete(t)
      <4>1. session'.buffer = <<>> /\ since' = since /\ happened' = happened
        BY <3>3 DEF stop_and_delete, deleted, NoSession, trc_out
      <4> QED
        BY <1>0, <1>t, <4>1
    <3> QED
      BY <3>1, <3>2, <3>3
  <2> QED
    BY <2>1, <2>2, FreshTrace
<1>4. ASSUME NEW u \in Traces, u # t PROVE TraceInv(u)'
  <2>1. /\ UNCHANGED <<trcKind, close_existing, happened, event_queue[u], emitted[u],
                       raised[u], since[u], trace[u]>>
        /\ session'.readers \subseteq session.readers
        /\ Len(session'.buffer) \in Nat /\ Len(session'.buffer) <= Len(session.buffer)
    BY <1>0, <1>1, <1>t, <1>4 DEF NoSession
  <2> QED
    BY <2>1, SameTrace
<1> QED
  BY <1>2, <1>3, <1>4 DEF TrcInv

(* A trace ends where its lists are left as they are. *)
LEMMA EndsAsIs ==
    ASSUME TrcInv, NEW t \in Traces, NEW at \in {"stopped", "gone"},
           UNCHANGED <<trcKind, close_existing, happened, event_queue, emitted, raised,
                       since, sysmon>>,
           trace' = [trace EXCEPT ![t] = at], poller' \subseteq Traces,
           \/ session' = NoSession
           \/ session' = [NoSession EXCEPT !.up = TRUE] /\ ~session.up
           \/ session' = [session EXCEPT !.readers = @ \ {t}]
    PROVE  TrcInv'
<1>t. /\ TrcTypes /\ SessionIs /\ Len(session.buffer) \in Nat
      /\ session = [up |-> session.up, readers |-> session.readers, buffer |-> session.buffer]
      /\ session.up \in BOOLEAN /\ session.readers \subseteq Traces
      /\ trace \in [Traces -> TraceStates]
  BY OfTrace DEF TrcInv, TrcTypes
<1>0. Len(<<>>) = 0
  OBVIOUS
<1>1. /\ session'.up \in BOOLEAN /\ session'.readers \subseteq session.readers \ {t}
      /\ session' = [up |-> session'.up, readers |-> session'.readers,
                     buffer |-> session'.buffer]
      /\ \/ session'.buffer = <<>>
         \/ session'.buffer = session.buffer /\ session'.up = session.up
      /\ (~session'.up => session'.readers = {})
  <2>1. CASE session' = NoSession
    BY <2>1 DEF NoSession
  <2>2. CASE session' = [NoSession EXCEPT !.up = TRUE]
    BY <2>2 DEF NoSession
  <2>3. CASE session' = [session EXCEPT !.readers = @ \ {t}]
    BY <1>t, <2>3 DEF SessionIs
  <2> QED
    BY <2>1, <2>2, <2>3
<1>2. \A u \in Traces : u # t => trace'[u] = trace[u]
  BY <1>t
<1>3. trace' \in [Traces -> TraceStates]
  BY <1>t DEF TraceStates
<1>4. \A u \in session'.readers : trace'[u] = "running"
  BY <1>1, <1>2, <1>t DEF SessionIs
<1>5. session'.buffer = <<>> \/ (session'.buffer = session.buffer /\ session'.up = session.up
                                 /\ session'.readers \subseteq session.readers)
  BY <1>1
<1>6. TrcTypes' /\ SessionIs'
  <2>1. /\ since' \in [Traces -> 0 .. happened] /\ event_queue' \in [Traces -> Seq(1 .. happened)]
        /\ DOMAIN raised' = Traces /\ sysmon' \in {"absent", "installed", "running"}
    BY <1>t DEF TrcTypes
  <2>2. session'.readers \subseteq Traces
    BY <1>1, <1>t
  <2> QED
    BY <1>1, <1>3, <1>4, <1>5, <2>1, <2>2, SessionMoves
<1>7. ASSUME NEW u \in Traces PROVE TraceInv(u)'
  <2>1. trace'[u] = trace[u] \/ trace'[u] \notin {"look", "delete", "open"}
    BY <1>t
  <2>2. /\ u \in session'.readers => u \in session.readers
        /\ Len(session'.buffer) \in Nat /\ Len(session'.buffer) <= Len(session.buffer)
    BY <1>0, <1>1, <1>t
  <2>3. UNCHANGED <<event_queue[u], emitted[u], raised[u], since[u]>>
    OBVIOUS
  <2> QED
    BY <2>1, <2>2, <2>3, SameTrace
<1> QED
  BY <1>6, <1>7 DEF TrcInv

(* A trace joins the session. *)
LEMMA JoinStep ==
    ASSUME TrcInv, NEW t \in Traces, trace[t] = "open", joined(t),
           UNCHANGED <<trcKind, close_existing, happened, sysmon, trc_out>>,
           callback_fills_queue \/ ~session.up
    PROVE  TrcInv'
<1>t. /\ TrcTypes /\ SessionIs /\ Len(session.buffer) \in Nat
      /\ session.buffer \in Seq(1 .. happened) /\ session.readers \subseteq Traces
      /\ trace \in [Traces -> TraceStates] /\ event_queue \in [Traces -> Seq(1 .. happened)]
  BY OfTrace DEF TrcInv, TrcTypes
<1>0. Len(<<>>) = 0
  OBVIOUS
<1>1. /\ session' = [up |-> TRUE, readers |-> session.readers \cup {t}, buffer |-> <<>>]
      /\ event_queue' = [event_queue EXCEPT ![t] = session.buffer]
      /\ trace' = [trace EXCEPT ![t] = "running"] /\ poller' = poller
      /\ UNCHANGED <<emitted, raised, since>>
  BY DEF joined, trc_out
<1>2. TrcTypes' /\ SessionIs'
  <2>1. /\ trace' \in [Traces -> TraceStates] /\ event_queue' \in [Traces -> Seq(1 .. happened)]
    BY <1>1, <1>t DEF TraceStates
  <2>2. /\ session'.up = TRUE /\ session'.readers = session.readers \cup {t}
        /\ session'.buffer = <<>>
        /\ session' = [up |-> session'.up, readers |-> session'.readers,
                       buffer |-> session'.buffer]
    BY <1>1
  <2>3. \A u \in session'.readers : trace'[u] = "running"
    BY <1>1, <1>t, <2>2 DEF SessionIs
  <2>4. /\ since' \in [Traces -> 0 .. happened] /\ DOMAIN raised' = Traces
        /\ poller' \subseteq Traces /\ sysmon' \in {"absent", "installed", "running"}
    BY <1>1, <1>t DEF TrcTypes
  <2> QED
    BY <1>1, <1>t, <2>1, <2>2, <2>3, <2>4, SessionMoves
<1>3. TraceInv(t)'
  BY JoinForTrace
<1>4. ASSUME NEW u \in Traces, u # t PROVE TraceInv(u)'
  <2>1. UNCHANGED <<event_queue[u], emitted[u], raised[u], since[u], trace[u]>>
    BY <1>1, <1>t, <1>4
  <2>2. /\ u \in session'.readers => u \in session.readers
        /\ Len(session'.buffer) \in Nat /\ Len(session'.buffer) <= Len(session.buffer)
    BY <1>0, <1>1, <1>t, <1>4
  <2> QED
    BY <2>1, <2>2, SameTrace
<1> QED
  BY <1>2, <1>3, <1>4 DEF TrcInv

(* A trace takes an event. *)
LEMMA EmitStep == ASSUME TrcInv, NEW t \in Traces, trace_emits(t) PROVE TrcInv'
<1>t. /\ TrcTypes /\ SessionIs /\ Len(session.buffer) \in Nat
      /\ event_queue \in [Traces -> Seq(1 .. happened)]
      /\ emitted \in [Traces -> Seq(1 .. happened)] /\ DOMAIN raised = Traces
  BY OfTrace DEF TrcInv, TrcTypes
<1>1. /\ UNCHANGED <<trcKind, close_existing, happened, session, trace, since, sysmon, poller>>
      /\ event_queue' = [event_queue EXCEPT ![t] = Tail(event_queue[t])]
      /\ event_queue[t] # <<>>
      /\ emitted' = emitted \/ emitted' = [emitted EXCEPT ![t] = Append(@, Head(event_queue[t]))]
      /\ raised' = raised \/ raised' = [raised EXCEPT ![t] = @ \cup {Head(event_queue[t])}]
  BY DEF trace_emits, taken
<1>2. /\ Tail(event_queue[t]) \in Seq(1 .. happened)
      /\ Append(emitted[t], Head(event_queue[t])) \in Seq(1 .. happened)
  <2>1. event_queue[t] \in Seq(1 .. happened) /\ emitted[t] \in Seq(1 .. happened)
    BY <1>t
  <2>2. Tail(event_queue[t]) \in Seq(1 .. happened) /\ Head(event_queue[t]) \in 1 .. happened
    BY <1>1, <2>1, Behead
  <2> QED
    BY <2>1, <2>2
<1>3. TrcTypes'
  <2>1. emitted' \in [Traces -> Seq(1 .. happened)] /\ DOMAIN raised' = Traces
        /\ event_queue' \in [Traces -> Seq(1 .. happened)]
    BY <1>1, <1>2, <1>t
  <2> QED
    BY <1>1, <1>t, <2>1 DEF TrcTypes
<1>4. SessionIs'
  BY <1>1, <1>t DEF SessionIs, InARow
<1>5. TraceInv(t)'
  BY EmitForTrace
<1>6. ASSUME NEW u \in Traces, u # t PROVE TraceInv(u)'
  <2>1. UNCHANGED <<trcKind, close_existing, happened, event_queue[u], emitted[u], raised[u],
                    since[u], trace[u], session>>
    BY <1>1, <1>t, <1>6
  <2> QED
    BY <1>t, <2>1, SameTrace
<1> QED
  BY <1>3, <1>4, <1>5, <1>6 DEF TrcInv

(* Windows logs an event. *)
LEMMA HappensStep == ASSUME TrcInv, TraceEvent PROVE TrcInv'
<1>t. TrcTypes /\ SessionIs /\ happened \in Nat
  BY DEF TrcInv, TrcTypes
<1>1. /\ happened' = happened + 1
      /\ UNCHANGED <<trace, sysmon, poller, since, emitted, raised>>
      /\ event_queue' = [t \in Traces |->
            IF t \in session.readers /\ callback_fills_queue
            THEN Append(event_queue[t], happened + 1) ELSE event_queue[t]]
      /\ session' = IF session.up /\ session.readers = {}
                    THEN [session EXCEPT !.buffer = Append(@, happened + 1)] ELSE session
  BY DEF TraceEvent, trc_out
<1>2. ASSUME NEW s \in Seq(1 .. happened)
      PROVE  s \in Seq(1 .. happened + 1) /\ Append(s, happened + 1) \in Seq(1 .. happened + 1)
  <2>1. happened + 1 \in Nat /\ happened <= happened + 1 /\ happened + 1 \in 1 .. happened + 1
    BY <1>t
  <2>2. s \in Seq(1 .. happened + 1)
    BY <1>t, <2>1, MoreEvents
  <2> QED
    BY <2>1, <2>2
<1>3. session.buffer \in Seq(1 .. happened)
      /\ session \in [up : BOOLEAN, readers : SUBSET Traces, buffer : Seq(1 .. happened)]
  BY <1>t DEF TrcTypes
<1>4. /\ session'.up = session.up /\ session'.readers = session.readers
      /\ session' = [up |-> session'.up, readers |-> session'.readers,
                     buffer |-> session'.buffer]
      /\ \/ /\ session'.buffer = Append(session.buffer, happened + 1)
            /\ session.up /\ session.readers = {}
         \/ session'.buffer = session.buffer /\ session.buffer = <<>>
  <2>1. CASE session.up /\ session.readers = {}
    BY <1>1, <1>3, <2>1
  <2>2. CASE ~(session.up /\ session.readers = {})
    BY <1>1, <1>3, <1>t, <2>2 DEF SessionIs
  <2> QED
    BY <2>1, <2>2
<1>5. session' \in [up : BOOLEAN, readers : SUBSET Traces, buffer : Seq(1 .. happened + 1)]
  <2>1. session'.buffer \in Seq(1 .. happened + 1)
    BY <1>2, <1>3, <1>4
  <2> QED
    BY <1>3, <1>4, <2>1
<1>6. TrcTypes'
  <2>1. /\ event_queue' \in [Traces -> Seq(1 .. happened + 1)]
        /\ emitted' \in [Traces -> Seq(1 .. happened + 1)]
    BY <1>1, <1>2, <1>t DEF TrcTypes
  <2>2. since' \in [Traces -> 0 .. happened + 1] /\ happened + 1 \in Nat
    BY <1>1, <1>t DEF TrcTypes
  <2> QED
    BY <1>1, <1>5, <1>t, <2>1, <2>2 DEF TrcTypes
<1>7. SessionIs'
  <2>1. InARow(session'.buffer, happened + 1)
    <3>1. CASE session'.buffer = Append(session.buffer, happened + 1)
      BY <1>3, <1>t, <3>1, OneMoreInARow DEF SessionIs
    <3>2. CASE session'.buffer = <<>>
      <4>1. Len(<<>>) = 0
        OBVIOUS
      <4> QED
        BY <3>2, <4>1 DEF InARow
    <3> QED
      BY <1>4, <3>1, <3>2
  <2> QED
    BY <1>1, <1>4, <1>t, <2>1 DEF SessionIs
<1> QED
  BY <1>6, <1>7, EventForTrace DEF TrcInv

(* Each step of the traces and of Windows keeps the invariant. *)
LEMMA TrcStep == TrcInv /\ [TrcNext]_trc_vars => TrcInv'
<1> SUFFICES ASSUME TrcInv, [TrcNext]_trc_vars PROVE TrcInv'
  OBVIOUS
<1>t. TrcTypes /\ SessionIs /\ Len(session.buffer) \in Nat
  BY OfTrace DEF TrcInv, TrcTypes
<1>1. CASE TraceEvent
  BY <1>1, HappensStep
<1>2. ASSUME UNCHANGED <<trcKind, close_existing, happened, session, trace, event_queue,
                         poller, trc_out>>, sysmon' \in {"absent", "installed", "running"}
      PROVE  TrcInv'
  <2>1. UNCHANGED <<since, emitted, raised>>
    BY <1>2 DEF trc_out
  <2>2. TrcTypes' /\ SessionIs'
    BY <1>2, <1>t, <2>1 DEF TrcTypes, SessionIs, InARow
  <2>3. ASSUME NEW u \in Traces PROVE TraceInv(u)'
    BY <1>2, <1>t, <2>1, SameTrace
  <2> QED
    BY <2>2, <2>3 DEF TrcInv
<1>3. CASE stop_service
  BY <1>2, <1>3 DEF stop_service
<1>4. CASE UNCHANGED trc_vars
  BY <1>2, <1>4, <1>t DEF trc_vars, TrcTypes
<1>5. ASSUME NEW t \in Traces, trace_starts_up(t) PROVE TrcInv'
  BY <1>5, StartsUpStep
<1>6. ASSUME NEW t \in Traces,
             is_session_running(t) \/ list_etw_sessions_raises(t) \/ stop_and_delete(t)
      PROVE  TrcInv'
  BY <1>6, LookStep
<1>e. ASSUME NEW t \in Traces, exits(t), UNCHANGED <<trcKind, close_existing, happened,
                 sysmon, trc_out>>,
             \/ session' = session /\ t \notin session.readers
             \/ session' = [NoSession EXCEPT !.up = TRUE] /\ ~session.up
             \/ session' = [session EXCEPT !.readers = @ \ {t}]
      PROVE  TrcInv'
  <2>1. /\ trace' = [trace EXCEPT ![t] = "gone"] /\ poller' \subseteq Traces
        /\ UNCHANGED <<event_queue, since, emitted, raised>>
    BY <1>e, <1>t DEF exits, trc_out, TrcTypes
  <2>2. t \notin session.readers => session = [session EXCEPT !.readers = @ \ {t}]
    BY <1>t DEF TrcTypes
  <2> QED
    BY <1>e, <2>1, <2>2, EndsAsIs
<1>7. ASSUME NEW t \in Traces, opens(t) PROVE TrcInv'
  <2>1. callback_fills_queue /\ trace[t] = "open" /\ t \notin session.readers
    BY <1>7, <1>t DEF opens, callback_fills_queue, SessionIs
  <2>2. CASE joined(t)
    BY <1>7, <2>1, <2>2, JoinStep DEF opens
  <2>3. CASE exits(t) /\ session' = session
    BY <1>7, <1>e, <2>1, <2>3 DEF opens
  <2> QED
    BY <1>7, <2>2, <2>3 DEF opens
<1>8. ASSUME NEW t \in Traces, start_etw_session(t) PROVE TrcInv'
  <2>1. trace[t] = "open" /\ t \notin session.readers
    BY <1>8, <1>t DEF start_etw_session, SessionIs
  <2>2. CASE session.up
    BY <1>8, <1>e, <2>1, <2>2 DEF start_etw_session
  <2>3. CASE ~session.up /\ joined(t)
    BY <1>8, <2>1, <2>3, JoinStep DEF start_etw_session
  <2>4. CASE ~session.up /\ exits(t) /\ session' = [NoSession EXCEPT !.up = TRUE]
    BY <1>8, <1>e, <2>4 DEF start_etw_session
  <2> QED
    BY <1>8, <2>2, <2>3, <2>4 DEF start_etw_session
<1>9. ASSUME NEW t \in Traces, trace_emits(t) PROVE TrcInv'
  BY <1>9, EmitStep
<1>10. ASSUME NEW t \in Traces, trace_stops(t) PROVE TrcInv'
  <2>1. /\ trace' = [trace EXCEPT ![t] = "stopped"] /\ poller' \subseteq Traces
        /\ UNCHANGED <<trcKind, close_existing, happened, event_queue, emitted, raised,
                       since, sysmon>>
        /\ session' = (IF t \in session.readers THEN NoSession ELSE session)
    BY <1>10, <1>t DEF trace_stops, trc_out, TrcTypes
  <2>2. t \notin session.readers => session = [session EXCEPT !.readers = @ \ {t}]
    BY <1>t DEF TrcTypes
  <2> QED
    BY <2>1, <2>2, EndsAsIs
<1>11. ASSUME NEW t \in Traces, trace_crashes(t) PROVE TrcInv'
  BY <1>11, <1>e DEF trace_crashes
<1> QED
  BY <1>1, <1>3, <1>4, <1>5, <1>6, <1>7, <1>8, <1>9, <1>10, <1>11 DEF TrcNext

(* What the invariant says of what the traces emit. *)
LEMMA TracesFollow == TrcInv => TrcTypeOK /\ EmitsWhatHappensNow
<1> SUFFICES ASSUME TrcInv PROVE TrcTypeOK /\ EmitsWhatHappensNow
  OBVIOUS
<1>1. TrcTypeOK
  BY DEF TrcInv, TrcTypes, SessionIs, TrcTypeOK, TraceStates
<1>2. ASSUME NEW t \in Traces
      PROVE  LET out == emitted[t] IN
             /\ \A i, j \in DOMAIN out : i < j => out[i] < out[j]
             /\ \A e \in EventsBetween(t) :
                  \/ e \in ToSet(out) \/ e \in raised[t]
                  \/ in_skip_record_list(e)
             /\ trcKind = "dns" => \A i \in DOMAIN out : TypeOf[out[i]] \notin SkipRecords
             /\ close_existing /\ out # <<>> /\ trcKind # "winapi" => out[1] > since[t]
  <2>1. /\ TraceIs(t) /\ NotBefore(t) /\ InOrder(t)
        /\ emitted[t] \in Seq(1 .. happened) /\ Len(emitted[t]) \in Nat
        /\ DOMAIN emitted[t] = 1 .. Len(emitted[t])
        /\ since[t] \in Nat /\ \A i \in 1 .. Len(emitted[t]) : emitted[t][i] \in Nat
    BY OfTrace DEF TrcInv, TraceInv
  <2>2. \A i, j \in DOMAIN emitted[t] : i < j => emitted[t][i] < emitted[t][j]
    BY <2>1 DEF InOrder
  <2>3. ASSUME NEW e \in EventsBetween(t)
        PROVE  e \in ToSet(emitted[t]) \/ e \in raised[t] \/ in_skip_record_list(e)
    <3>1. /\ emitted[t] # <<>> /\ e \in 1 .. happened /\ emitted[t][1] <= e
          /\ e <= emitted[t][Len(emitted[t])]
      BY DEF EventsBetween, Last
    <3>2. Accounted(t, e)
      BY <2>1, <3>1 DEF InOrder
    <3> QED
      BY <2>1, <3>2 DEF Accounted, ToSet
  <2>4. trcKind = "dns" =>
           \A i \in DOMAIN emitted[t] : TypeOf[emitted[t][i]] \notin SkipRecords
    BY <2>1 DEF TraceIs
  <2>5. close_existing /\ emitted[t] # <<>> /\ trcKind # "winapi" => emitted[t][1] > since[t]
    <3>1. emitted[t] # <<>> => 1 \in 1 .. Len(emitted[t])
      BY <2>1
    <3> QED
      BY <2>1, <3>1 DEF NotBefore, callback_fills_queue
  <2> QED
    BY <2>2, <2>3, <2>4, <2>5
<1> QED
  BY <1>1, <1>2 DEF EmitsWhatHappensNow

---------------------------------------------------------------------------
(* The change monitor.                                                     *)

(* A file holds something only when it is whole. *)
FileIs(f, none) ==
    f.state \in {"absent", "torn", "whole"} /\ (f.state # "whole" => f.content = none)

MonTypes ==
    /\ monKind \in {"file", "network", "dns"} /\ (monKind # "dns" => monWriteOnly)
    /\ monPc \in {"idle", "write", "hit", "hitWrite"}
    /\ monPc \in {"hit", "hitWrite"} => monKind = "dns" /\ hitTodo # {}
    /\ monKind # "dns" /\ ~monKwargs => monPc = "idle"
    /\ monKnown \subseteq MonItems /\ monReport \subseteq MonItems /\ monObject \subseteq MonItems
    /\ FileIs(monFile, {}) /\ monFile.content \subseteq MonItems
    /\ hitTodo \subseteq Entries

(* A hit is in memory from its count to the writing of the file, and in    *)
(* the file or in one put aside from then on.                              *)
HitsAre ==
    /\ hitKnown \in [Entries -> Nat] /\ hitFile.content \in [Entries -> Nat]
    /\ hitCount \in [Entries -> Nat] /\ hitBackups \in [Entries -> Nat]
    /\ FileIs(hitFile, NoHits)
    /\ monPc = "hitWrite" =>
         /\ hitFile.state = "torn"
         /\ \A e \in Entries : hitKnown[e] + hitBackups[e] =
                               hitCount[e] + (IF e = ToCount THEN 1 ELSE 0)
    /\ monPc # "hitWrite" /\ hitKnown # NoHits =>
         hitFile.state # "torn" /\ hitKnown = hitFile.content
    /\ HitsCountedOnce

(* What a network check knows is what it told in this run and what the     *)
(* file held when the run began.                                           *)
ConnectionsAre ==
    monKind = "network" /\ monKwargs =>
        /\ monPc \in {"idle", "write"} /\ monObject = monKnown
        /\ monTold \subseteq monKnown /\ monOpen \subseteq monKnown
        /\ monPc = "write" => /\ monKnown \subseteq monTold \cup monReport \cup monAtStart
                              /\ monReport \subseteq monKnown /\ monReport \cap monTold = {}
        /\ monPc = "idle" => /\ monKnown \subseteq monTold \cup monAtStart
                             /\ monKnown = {} => monFile.content \subseteq monAtStart

(* A file check compares with what it wrote last. *)
FilesAre ==
    monKind = "file" =>
        /\ monKwargs /\ monPc = "idle" =>
              monKnown \in {{}, monAtStart} /\ monFile.content = monAtStart
        /\ ChangedFileIsTold

MonInv == MonTypes /\ HitsAre /\ ConnectionsAre /\ FilesAre

(* A new monitor knows nothing. *)
LEMMA MonAtFirst == MonInit => MonInv
<1> SUFFICES ASSUME MonInit PROVE MonInv
  OBVIOUS
<1>1. MonTypes
  BY MonAssumption DEF MonInit, MonTypes, FileIs, Absent
<1>2. HitsAre
  <2>1. NoHits \in [Entries -> Nat] /\ \A e \in Entries : NoHits[e] = 0
    BY DEF NoHits
  <2>2. /\ hitKnown = NoHits /\ hitFile.state = "absent" /\ hitFile.content = NoHits
        /\ hitCount = NoHits /\ hitBackups = NoHits /\ monPc = "idle"
    BY DEF MonInit, NoStatistics
  <2>3. HitsCountedOnce
    BY <2>1, <2>2 DEF HitsCountedOnce
  <2> QED
    BY <2>1, <2>2, <2>3 DEF HitsAre, FileIs
<1>3. ConnectionsAre /\ FilesAre
  BY DEF MonInit, ConnectionsAre, FilesAre, ChangedFileIsTold, Absent
<1> QED
  BY <1>1, <1>2, <1>3 DEF MonInv

(* A cycle of a file or network check. *)
LEMMA CycleStep ==
    ASSUME MonInv, NEW open \in SUBSET MonItems, execute_cycle(open)
    PROVE  MonInv'
<1> DEFINE current == IF monKind = "network" THEN monObject \cup open ELSE open
           previous == ReadInputFile(monKnown, monFile, {})
           reported == IF monKind = "network" THEN current \ previous
                       ELSE IF previous = {} THEN {} ELSE current
<1>t. MonTypes /\ HitsAre /\ ConnectionsAre /\ FilesAre
  BY DEF MonInv
<1>1. /\ monPc = "idle" /\ monKind # "dns" /\ monWriteOnly
      /\ UNCHANGED <<monKind, monKwargs, monWriteOnly, monAtStart>>
      /\ UNCHANGED <<hitTodo, hitKnown, hitFile, hitCount, hitBackups>>
      /\ monOpen' = open /\ monObject' = current /\ monKnown' = current
      /\ ~(monKind = "network" /\ JsonIsTorn(monKnown, monFile, {}))
  BY <1>t DEF execute_cycle, MonTypes, monSettings, hitState
<1>2. \/ /\ previous = current \/ ~monKwargs
         /\ monReport' = {} /\ monPc' = "idle" /\ monFile' = monFile /\ monTold' = monTold
      \/ /\ previous # current /\ monKwargs
         /\ monReport' = reported /\ monPc' = "write" /\ monTold' = monTold
         /\ monFile' = [state |-> "torn", content |-> {}]
  <2>1. CASE previous = current \/ ~monKwargs
    <3>1. monReport' = {} /\ monPc' = "idle" /\ monFile' = monFile
      BY <1>1, <2>1 DEF execute_cycle
    <3>2. monTold' = monTold
      BY <3>1 DEF execute_cycle
    <3> QED
      BY <2>1, <3>1, <3>2
  <2>2. CASE previous # current /\ monKwargs
    <3>1. /\ monReport' = reported /\ monPc' = "write"
          /\ monFile' = [state |-> "torn", content |-> {}]
      BY <1>1, <2>2 DEF execute_cycle
    <3>2. monTold' = monTold
      BY <3>1 DEF execute_cycle
    <3> QED
      BY <2>2, <3>1, <3>2
  <2> QED
    BY <2>1, <2>2
<1>3. previous = (IF monKnown # {} THEN monKnown
                  ELSE IF monFile.state = "whole" THEN monFile.content ELSE {})
  BY <1>1 DEF ReadInputFile, ReadsFile
<1>4. previous = (IF monKnown # {} THEN monKnown ELSE monFile.content)
  BY <1>3, <1>t DEF MonTypes, FileIs
<1>5. current \subseteq MonItems /\ previous \subseteq MonItems /\ reported \subseteq current
  BY <1>4, <1>t DEF MonTypes
<1> HIDE DEF previous
<1>6. MonTypes'
  <2>1. FileIs(monFile', {}) /\ monFile'.content \subseteq MonItems
    BY <1>2, <1>t DEF MonTypes, FileIs
  <2> QED
    BY <1>1, <1>2, <1>5, <1>t, <2>1 DEF MonTypes, Entries
<1>7. HitsAre'
  BY <1>1, <1>2, <1>t DEF HitsAre, HitsCountedOnce, ToCount, Entries, NoHits
<1>8. ConnectionsAre'
  <2> SUFFICES ASSUME monKind = "network", monKwargs PROVE ConnectionsAre'
    BY <1>1 DEF ConnectionsAre
  <2>1. /\ monObject = monKnown /\ monTold \subseteq monKnown
        /\ monKnown \subseteq monTold \cup monAtStart
        /\ monKnown = {} => monFile.content \subseteq monAtStart
    BY <1>1, <1>t DEF ConnectionsAre
  <2>2. previous \subseteq monTold \cup monAtStart /\ monTold \subseteq previous
        /\ current = monKnown \cup open /\ monKnown \subseteq current
    BY <1>4, <2>1
  <2>3. CASE previous = current
    <3>1. current = {} => monFile.content \subseteq monAtStart
      BY <2>1, <2>2
    <3> QED
      BY <1>1, <1>2, <2>2, <2>3, <3>1 DEF ConnectionsAre
  <2>4. CASE previous # current
    <3>1. reported = current \ previous /\ monPc' = "write" /\ monReport' = reported
          /\ monTold' = monTold
      BY <1>2, <2>4
    <3> QED
      BY <1>1, <2>1, <2>2, <3>1 DEF ConnectionsAre
  <2> QED
    BY <2>3, <2>4
<1>9. FilesAre'
  <2> SUFFICES ASSUME monKind = "file" PROVE FilesAre'
    BY <1>1 DEF FilesAre
  <2>1. current = open
    OBVIOUS
  <2>2. monKwargs => previous = monAtStart
    BY <1>1, <1>4, <1>t DEF FilesAre
  <2>3. ChangedFileIsTold'
    BY <1>1, <1>2, <2>1, <2>2 DEF ChangedFileIsTold
  <2>4. monKwargs' /\ monPc' = "idle" => monKnown' = monAtStart' /\ monFile'.content = monAtStart'
    BY <1>1, <1>2, <1>t, <2>1, <2>2 DEF FilesAre
  <2> QED
    BY <2>3, <2>4 DEF FilesAre
<1> QED
  BY <1>6, <1>7, <1>8, <1>9 DEF MonInv

(* The write of a cycle. *)
LEMMA WriteStep == MonInv /\ write => MonInv'
<1> SUFFICES ASSUME MonInv, write PROVE MonInv'
  OBVIOUS
<1>t. MonTypes /\ HitsAre /\ ConnectionsAre /\ FilesAre
  BY DEF MonInv
<1>1. /\ monPc = "write" /\ monPc' = "idle" /\ monFile' = Whole(monKnown)
      /\ monTold' = monTold \cup monReport
      /\ monAtStart' = IF monKind = "file" THEN monKnown ELSE monAtStart
      /\ UNCHANGED <<monKind, monKwargs, monWriteOnly, monKnown, monObject, monReport, monOpen>>
      /\ UNCHANGED <<hitTodo, hitKnown, hitFile, hitCount, hitBackups>>
  BY DEF write, monSettings, hitState
<1>2. monFile'.state = "whole" /\ monFile'.content = monKnown
  BY <1>1 DEF Whole
<1>3. MonTypes'
  BY <1>1, <1>2, <1>t DEF MonTypes, FileIs, Entries
<1>4. HitsAre'
  BY <1>1, <1>t DEF HitsAre, HitsCountedOnce, ToCount, Entries, NoHits
<1>5. ConnectionsAre'
  BY <1>1, <1>2, <1>t DEF ConnectionsAre
<1>6. FilesAre'
  BY <1>1, <1>2, <1>t DEF FilesAre, ChangedFileIsTold
<1> QED
  BY <1>3, <1>4, <1>5, <1>6 DEF MonInv

(* A cycle of a DNS check. *)
LEMMA DnsCycleStep ==
    ASSUME MonInv, NEW request \in MonItems, dns_cycle(request)
    PROVE  MonInv'
<1> DEFINE known == ReadInputFile(monKnown, monFile, {})
           todo == {e \in {request} \X {"dict", "list"} :
                      IF e[2] = "list" THEN request \notin known ELSE monAlways}
<1>t. MonTypes /\ HitsAre /\ ConnectionsAre /\ FilesAre
  BY DEF MonInv
<1>1. /\ monPc = "idle" /\ monKind = "dns"
      /\ UNCHANGED <<monKind, monKwargs, monWriteOnly, monObject, monReport>>
      /\ UNCHANGED <<hitKnown, hitFile, hitCount, hitBackups>>
      /\ \/ /\ monKnown' = known \cup {request} /\ hitTodo' = hitTodo
            /\ monFile' = [state |-> "torn", content |-> {}]
            /\ monPc' = "write"
         \/ /\ monKnown' = known /\ hitTodo' = todo /\ monFile' = monFile
            /\ monPc' = IF hitTodo' = {} THEN "idle" ELSE "hit"
  BY DEF dns_cycle, monSettings
<1>2. known \in {monKnown, monFile.content, {}}
  BY DEF ReadInputFile
<1>3. known \subseteq MonItems
  BY <1>2, <1>t DEF MonTypes
<1>4. todo \subseteq Entries
  BY DEF Entries
<1> HIDE DEF known, todo
<1>5. MonTypes'
  <2>1. FileIs(monFile', {}) /\ monFile'.content \subseteq MonItems
    BY <1>1, <1>t DEF MonTypes, FileIs
  <2>2. hitTodo' \subseteq Entries /\ monKnown' \subseteq MonItems
    BY <1>1, <1>3, <1>4, <1>t DEF MonTypes
  <2>3. monPc' \in {"idle", "write", "hit"} /\ (monPc' = "hit" => hitTodo' # {})
    BY <1>1
  <2> QED
    BY <1>1, <1>t, <2>1, <2>2, <2>3 DEF MonTypes, Entries
<1>6. HitsAre'
  <2>1. monPc' # "hitWrite"
    BY <1>1
  <2> QED
    BY <1>1, <1>t, <2>1 DEF HitsAre, HitsCountedOnce, Entries, NoHits
<1>7. ConnectionsAre' /\ FilesAre'
  BY <1>1 DEF ConnectionsAre, FilesAre, ChangedFileIsTold
<1> QED
  BY <1>5, <1>6, <1>7 DEF MonInv

(* The entry that is counted is one that is to be counted. *)
LEMMA ToCountIsTodo == ASSUME hitTodo # {} PROVE ToCount \in hitTodo
<1>1. CASE \E e \in hitTodo : e[2] = "list"
  BY <1>1 DEF ToCount
<1>2. CASE ~ \E e \in hitTodo : e[2] = "list"
  BY <1>2 DEF ToCount
<1> QED
  BY <1>1, <1>2

(* A hit is put into memory, where the file holds what was there before.   *)
LEMMA HitStep == MonInv /\ hit => MonInv'
<1> SUFFICES ASSUME MonInv, hit PROVE MonInv'
  OBVIOUS
<1> DEFINE known == ReadInputFile(hitKnown, hitFile, NoHits)
           rotates == monDay # hitPrevious /\ hitFile.state = "whole"
           kept == IF rotates THEN AfterRotation(known) ELSE known
<1>t. MonTypes /\ HitsAre /\ ConnectionsAre /\ FilesAre
  BY DEF MonInv
<1>1. /\ monPc = "hit" /\ monPc' = "hitWrite" /\ hitTodo' = hitTodo
      /\ UNCHANGED <<monKind, monKwargs, monWriteOnly, monKnown, monObject, monFile, monReport>>
      /\ ~JsonIsTorn(hitKnown, hitFile, NoHits)
      /\ hitBackups' = IF rotates THEN [e \in Entries |-> hitBackups[e] + hitFile.content[e]]
                       ELSE hitBackups
      /\ hitKnown' = [kept EXCEPT ![ToCount] = @ + 1]
      /\ hitFile' = [state |-> "torn", content |-> NoHits] /\ hitCount' = hitCount
  BY DEF hit, monSettings
<1>2. known = hitFile.content /\ hitFile.state # "torn"
  <2>1. CASE ReadsFile(hitKnown, NoHits)
    BY <1>1, <1>t, <2>1 DEF JsonIsTorn, ReadInputFile, HitsAre, FileIs
  <2>2. CASE ~ReadsFile(hitKnown, NoHits)
    BY <1>1, <1>t, <2>2 DEF ReadsFile, ReadInputFile, HitsAre
  <2> QED
    BY <2>1, <2>2
<1>3. NoHits \in [Entries -> Nat] /\ \A e \in Entries : NoHits[e] = 0
  BY DEF NoHits
<1>4. \A e \in Entries : hitCount[e] = hitBackups[e] + hitFile.content[e]
  BY <1>2, <1>t DEF HitsAre, HitsCountedOnce
<1>5. ToCount \in Entries /\ ToCount' = ToCount
  BY <1>1, <1>t, ToCountIsTodo DEF MonTypes, ToCount
<1>6. /\ kept \in [Entries -> Nat] /\ hitBackups' \in [Entries -> Nat]
      /\ \A e \in Entries : kept[e] + hitBackups'[e] = hitCount[e]
  <2>1. CASE rotates
    <3>1. kept = NoHits
      BY <2>1 DEF AfterRotation
    <3>2. hitBackups' = [e \in Entries |-> hitBackups[e] + hitFile.content[e]]
      BY <1>1, <2>1
    <3> QED
      BY <1>3, <1>4, <1>t, <3>1, <3>2 DEF HitsAre
  <2>2. CASE ~rotates
    <3>1. kept = hitFile.content /\ hitBackups' = hitBackups
      BY <1>1, <1>2, <2>2
    <3> QED
      BY <1>4, <1>t, <3>1 DEF HitsAre
  <2> QED
    BY <2>1, <2>2
<1> HIDE DEF kept, known, rotates
<1>7. HitsAre'
  <2>1. /\ hitKnown' \in [Entries -> Nat]
        /\ \A e \in Entries : hitKnown'[e] = kept[e] + (IF e = ToCount THEN 1 ELSE 0)
    BY <1>1, <1>5, <1>6
  <2>2. \A e \in Entries : hitKnown'[e] + hitBackups'[e]
                           = hitCount[e] + (IF e = ToCount THEN 1 ELSE 0)
    <3> SUFFICES ASSUME NEW e \in Entries
                 PROVE hitKnown'[e] + hitBackups'[e]
                       = hitCount[e] + (IF e = ToCount THEN 1 ELSE 0)
      OBVIOUS
    <3>1. kept[e] \in Nat /\ hitBackups'[e] \in Nat /\ kept[e] + hitBackups'[e] = hitCount[e]
      BY <1>6
    <3> QED
      BY <2>1, <3>1
  <2> QED
    BY <1>1, <1>3, <1>5, <1>6, <1>t, <2>1, <2>2
    DEF HitsAre, HitsCountedOnce, FileIs, Entries, NoHits
<1>8. MonTypes'
  BY <1>1, <1>t DEF MonTypes, FileIs, Entries
<1>9. ConnectionsAre' /\ FilesAre'
  BY <1>1, <1>t DEF ConnectionsAre, FilesAre, ChangedFileIsTold, MonTypes
<1> QED
  BY <1>7, <1>8, <1>9 DEF MonInv

(* The statistics are written. *)
LEMMA HitWriteStep == MonInv /\ hit_write => MonInv'
<1> SUFFICES ASSUME MonInv, hit_write PROVE MonInv'
  OBVIOUS
<1>t. MonTypes /\ HitsAre /\ ConnectionsAre /\ FilesAre
  BY DEF MonInv
<1>1. /\ monPc = "hitWrite" /\ hitTodo' = hitTodo \ {ToCount}
      /\ monPc' = IF hitTodo' = {} THEN "idle" ELSE "hit"
      /\ UNCHANGED <<monKind, monKwargs, monWriteOnly, monKnown, monObject, monFile, monReport>>
      /\ UNCHANGED <<hitKnown, hitBackups>>
      /\ hitFile' = Whole(hitKnown)
      /\ hitCount' = [hitCount EXCEPT ![ToCount] = @ + 1]
  BY DEF hit_write, monSettings
<1>2. hitFile'.state = "whole" /\ hitFile'.content = hitKnown
  BY <1>1 DEF Whole
<1>3. ToCount \in Entries
  BY <1>1, <1>t, ToCountIsTodo DEF MonTypes
<1>4. /\ hitCount' \in [Entries -> Nat]
      /\ \A e \in Entries : hitCount'[e] = hitCount[e] + (IF e = ToCount THEN 1 ELSE 0)
  BY <1>1, <1>3, <1>t DEF HitsAre
<1>5. \A e \in Entries : hitCount'[e] = hitBackups[e] + hitKnown[e]
  <2> SUFFICES ASSUME NEW e \in Entries PROVE hitCount'[e] = hitBackups[e] + hitKnown[e]
    OBVIOUS
  <2>1. hitBackups[e] \in Nat /\ hitKnown[e] \in Nat
    BY <1>t DEF HitsAre
  <2>2. hitKnown[e] + hitBackups[e] = hitCount'[e]
    BY <1>1, <1>4, <1>t DEF HitsAre
  <2> QED
    BY <2>1, <2>2
<1>6. monPc' \in {"idle", "hit"}
  BY <1>1
<1>7. HitsAre'
  BY <1>1, <1>2, <1>4, <1>5, <1>6, <1>t DEF HitsAre, HitsCountedOnce, FileIs, Entries, NoHits
<1>8. MonTypes'
  BY <1>1, <1>6, <1>t DEF MonTypes, FileIs, Entries
<1>9. ConnectionsAre' /\ FilesAre'
  BY <1>1, <1>t DEF ConnectionsAre, FilesAre, ChangedFileIsTold, MonTypes
<1> QED
  BY <1>7, <1>8, <1>9 DEF MonInv

(* A restart forgets what was in memory, and begins with the files. *)
LEMMA RestartStep == MonInv /\ restart => MonInv'
<1> SUFFICES ASSUME MonInv, restart PROVE MonInv'
  OBVIOUS
<1>t. MonTypes /\ HitsAre /\ ConnectionsAre /\ FilesAre
  BY DEF MonInv
<1>1. /\ monPc' = "idle" /\ monKnown' = {} /\ monObject' = {} /\ monReport' = {}
      /\ monOpen' = {} /\ monTold' = {} /\ monAtStart' = monFile.content
      /\ hitTodo' = {} /\ hitKnown' = NoHits
      /\ UNCHANGED <<monKind, monKwargs, monWriteOnly, monFile, hitFile, hitCount, hitBackups>>
  BY DEF restart, monSettings
<1>2. NoHits \in [Entries -> Nat]
  BY DEF NoHits
<1>3. MonTypes'
  BY <1>1, <1>t DEF MonTypes, FileIs, Entries
<1>4. HitsAre'
  BY <1>1, <1>2, <1>t DEF HitsAre, HitsCountedOnce, FileIs, Entries, NoHits
<1>5. ConnectionsAre' /\ FilesAre'
  BY <1>1 DEF ConnectionsAre, FilesAre, ChangedFileIsTold
<1> QED
  BY <1>3, <1>4, <1>5 DEF MonInv

(* Every step keeps the invariant. *)
LEMMA MonStep == MonInv /\ [MonNext]_monitor_vars => MonInv'
<1> SUFFICES ASSUME MonInv, [MonNext]_monitor_vars PROVE MonInv'
  OBVIOUS
<1>1. CASE MonNext
  <2>1. ASSUME NEW open \in SUBSET MonItems, execute_cycle(open) PROVE MonInv'
    BY <2>1, CycleStep
  <2>2. ASSUME NEW request \in MonItems, dns_cycle(request) PROVE MonInv'
    BY <2>2, DnsCycleStep
  <2>3. CASE learning_time_passes \/ midnight
    <3>1. UNCHANGED <<monKind, monKwargs, monWriteOnly, monPc, monKnown, monObject, monFile,
                      monReport, hitTodo, hitKnown, hitFile, hitCount, hitBackups,
                      monOpen, monTold, monAtStart>>
      BY <2>3 DEF learning_time_passes, midnight, monSettings, monState, hitState, monHistory
    <3> QED
      BY <3>1 DEF MonInv, MonTypes, FileIs, HitsAre, ConnectionsAre, FilesAre,
                  ChangedFileIsTold, HitsCountedOnce, ToCount, Entries, NoHits
  <2> QED
    BY <1>1, <2>1, <2>2, <2>3, WriteStep, HitStep, HitWriteStep, RestartStep DEF MonNext
<1>2. CASE UNCHANGED monitor_vars
  <2>1. UNCHANGED <<monKind, monKwargs, monWriteOnly, monPc, monKnown, monObject, monFile,
                    monReport, hitTodo, hitKnown, hitFile, hitCount, hitBackups,
                    monOpen, monTold, monAtStart>>
    BY <1>2 DEF monitor_vars, monSettings, monState, hitState, monHistory
  <2> QED
    BY <2>1 DEF MonInv, MonTypes, FileIs, HitsAre, ConnectionsAre, FilesAre,
                ChangedFileIsTold, HitsCountedOnce, ToCount, Entries, NoHits
<1> QED
  BY <1>1, <1>2

(* What the invariant says of the monitor. *)
LEMMA MonitorFollows == MonInv => MonTypeOK /\ MonitorForgetsNothing
<1> SUFFICES ASSUME MonInv PROVE MonTypeOK /\ MonitorForgetsNothing
  OBVIOUS
<1>t. MonTypes /\ HitsAre /\ ConnectionsAre /\ FilesAre
  BY DEF MonInv
<1>1. MonTypeOK
  BY <1>t DEF MonTypes, MonTypeOK, FileIs
<1>2. NewConnectionsToldOnce
  BY <1>t DEF ConnectionsAre, NewConnectionsToldOnce
<1>3. ChangedFileIsTold
  BY <1>t DEF FilesAre, ChangedFileIsTold
<1>4. HitsCountedOnce
  BY <1>t DEF HitsAre
<1> QED
  BY <1>1, <1>2, <1>3, <1>4 DEF MonitorForgetsNothing

---------------------------------------------------------------------------
(* The resource monitor.                                                   *)

LEMMA ResAtFirst == ResourceInit => ResourceTypeOK
<1> SUFFICES ASSUME ResourceInit PROVE ResourceTypeOK
  OBVIOUS
<1>1. DiskSettings \in Settings
  BY DEF DiskSettings, Settings
<1>2. waiter \in [WaitingProcs -> {"out", "waiting", "went on", "raised"}]
  BY DEF ResourceInit
<1>3. {measured, results} \subseteq Loads \cup {NoLoad}
  BY DEF ResourceInit
<1> QED
  BY <1>1, <1>2, <1>3 DEF ResourceInit, ResourceTypeOK

(* Every step keeps the types. *)
LEMMA ResStep == ResourceTypeOK /\ [ResourceNext]_resource_vars => ResourceTypeOK'
<1> SUFFICES ASSUME ResourceTypeOK, [ResourceNext]_resource_vars PROVE ResourceTypeOK'
  OBVIOUS
<1> USE DEF ResourceTypeOK, mon_instance, mon_bounds
<1>1. DiskSettings \in Settings
  BY DEF DiskSettings, Settings
<1>2. ASSUME NEW options \in Settings, started(options)
      PROVE  /\ monitor' \in {monitor, "check"} /\ running' \in BOOLEAN
             /\ mon_options' \in Settings
             /\ UNCHANGED <<measured, maximum_disk_io, manager_dict, results>>
  BY <1>2 DEF started
<1>3. CASE MonitorThread
  <2> USE <1>3 DEF MonitorThread
  <2>1. CASE while_running
    BY <2>1 DEF while_running
  <2>2. CASE check_system_resources
    BY <2>2 DEF check_system_resources
  <2>3. CASE publish
    BY <2>3 DEF publish, published
  <2>4. CASE set_results
    BY <2>4 DEF set_results
  <2> QED
    BY <2>1, <2>2, <2>3, <2>4
<1>4. CASE load_changes \/ stop_begins \/ monitor_stops \/ test_ends \/ test_returns
  BY <1>4 DEF load_changes, stop_begins, monitor_stops, test_ends, test_returns
<1>5. CASE test_begins
  BY <1>1, <1>2, <1>5 DEF test_begins
<1>6. ASSUME NEW options \in Settings, start_monitoring(options) PROVE ResourceTypeOK'
  BY <1>2, <1>6 DEF start_monitoring
<1>7. ASSUME NEW w \in WaitingProcs, looks(w) \/ wait_begins(w) PROVE ResourceTypeOK'
  BY <1>7 DEF looks, wait_begins
<1>8. CASE UNCHANGED resource_vars
  BY <1>8 DEF resource_vars
<1> QED
  BY <1>3, <1>4, <1>5, <1>6, <1>7, <1>8 DEF ResourceNext, ResourceThreads

---------------------------------------------------------------------------
(* The count of the recursive pool "multi": the tasks that were submitted  *)
(* and whose results the pool's thread did not take.                       *)
Counted ==
    /\ recMain \in {"submit", "wait", "returned", "raised", "shut"}
    /\ recThread \in {"idle", "spawning", "dead"}
    /\ recOutstanding = IF recKind = "multi" THEN Cardinality(Unfinished) ELSE 0

LEMMA RecAtFirst == RecInit => RecInv /\ Counted
<1> SUFFICES ASSUME RecInit PROVE Counted
  BY RecInvInit
<1>1. Unfinished = {}
  BY DEF RecInit, Unfinished
<1> QED
  BY <1>1, FS_EmptySet DEF RecInit, Counted

(* What is submitted or not taken is a finite set. *)
LEMMA UnfinishedIsFinite ==
    ASSUME RecInv
    PROVE  /\ Unfinished \subseteq Tasks /\ IsFiniteSet(Unfinished)
           /\ Cardinality(Unfinished) \in 0 .. Cardinality(Tasks)
<1>1. Unfinished \subseteq Tasks
  BY DEF RecInv, Placed, Unfinished
<1>2. IsFiniteSet(Tasks)
  BY RecAssumption
<1>3. /\ IsFiniteSet(Unfinished) /\ Cardinality(Unfinished) \in Nat
      /\ Cardinality(Tasks) \in Nat /\ Cardinality(Unfinished) <= Cardinality(Tasks)
  BY <1>1, <1>2, FS_Subset, FS_CardinalityType
<1> QED
  BY <1>1, <1>3

(* A step that submits a task counts one more. *)
LEMMA CountsUp ==
    ASSUME RecInv, Counted, NEW t \in Tasks, t \notin Unfinished,
           recKind = "multi", recKind' = recKind,
           recMain' = recMain, recThread' = recThread,
           Unfinished' = Unfinished \cup {t}, recOutstanding' = recOutstanding + 1
    PROVE  Counted'
<1>1. Cardinality(Unfinished \cup {t}) = Cardinality(Unfinished) + 1
  BY UnfinishedIsFinite, FS_AddElement
<1> QED
  BY <1>1 DEF Counted

(* A step that submits nothing, and takes no result. *)
LEMMA CountStays ==
    ASSUME Counted, UNCHANGED <<recKind, recOutstanding>>, Unfinished' = Unfinished,
           recMain' \in {"submit", "wait", "returned", "raised", "shut"},
           recThread' \in {"idle", "spawning", "dead"}
    PROVE  Counted'
  BY DEF Counted

(* Every step of a pool keeps the count. *)
LEMMA CountStep == RecInv /\ Counted /\ [RecStep]_recVars => Counted'
<1> SUFFICES ASSUME RecInv, Counted, [RecStep]_recVars PROVE Counted'
  OBVIOUS
<1>a. Placed /\ OnePlace /\ InHand
  BY DEF RecInv
<1>m. /\ recMain \in {"submit", "wait", "returned", "raised", "shut"}
      /\ recThread \in {"idle", "spawning", "dead"}
  BY DEF Counted
<1>1. ASSUME NEW t \in Tasks, finish(t) PROVE Counted'
  <2>1. /\ recRunning' = recRunning \ {t} /\ t \in recRunning
        /\ DOMAIN recResults' = DOMAIN recResults \cup {t}
        /\ UNCHANGED <<recKind, recMain, recInput, recCounting>>
    BY <1>1 DEF finish
  <2>2. Unfinished' = Unfinished
    BY <2>1 DEF Unfinished
  <2> QED
    BY <1>m, <2>1, <2>2, CountStays DEF recCounting
<1>2. ASSUME NEW t \in Tasks, multi_submit(t) PROVE Counted'
  <2>1. /\ t \notin Unfinished /\ Unfinished' = Unfinished \cup {t}
        /\ recKind = "multi" /\ UNCHANGED <<recKind, recMain, recThread>>
        /\ recOutstanding' = recOutstanding + 1
    BY <1>2, <1>a DEF multi_submit, OnePlace, Unfinished
  <2> QED
    BY <2>1, CountsUp
<1>3. ASSUME NEW t \in Tasks, multi_spawn(t) PROVE Counted'
  <2>1. /\ t \notin Unfinished /\ Unfinished' = Unfinished \cup {t}
        /\ recKind = "multi" /\ UNCHANGED <<recKind, recMain, recThread>>
        /\ recOutstanding' = recOutstanding + 1
    BY <1>3, <1>a DEF multi_spawn, OnePlace, Unfinished, InHand
  <2> QED
    BY <2>1, CountsUp
<1>4. ASSUME NEW t \in Tasks, multi_on_finish(t) PROVE Counted'
  <2>1. /\ recKind = "multi" /\ UNCHANGED <<recKind, recMain, recRunning>>
        /\ t \in DOMAIN recResults /\ DOMAIN recResults' = DOMAIN recResults \ {t}
        /\ recOutstanding' = recOutstanding - 1 /\ recThread' = "spawning"
    BY <1>4, <1>a, TakenResult DEF multi_on_finish
  <2>2. t \in Unfinished /\ Unfinished' = Unfinished \ {t}
    BY <1>a, <2>1 DEF Unfinished, OnePlace
  <2>3. Cardinality(Unfinished \ {t}) = Cardinality(Unfinished) - 1
    BY <2>2, UnfinishedIsFinite, FS_RemoveElement
  <2> QED
    BY <1>m, <2>1, <2>2, <2>3 DEF Counted
<1>5. ASSUME NEW t \in Tasks, take_result(t) PROVE Counted'
  BY <1>5, <1>m DEF take_result, recCounting, Counted
<1>6. ASSUME NEW t \in Tasks, multi_on_error(t) PROVE Counted'
  <2>1. Unfinished' = Unfinished
    BY <1>6 DEF multi_on_error, Unfinished
  <2> QED
    BY <1>6, <1>m, <2>1, CountStays DEF multi_on_error
<1>7. CASE multi_wait \/ multi_return \/ multi_finished \/ no_futures \/ shutdown
  <2>1. Unfinished' = Unfinished
    BY <1>7 DEF multi_wait, multi_return, multi_finished, no_futures, shutdown, Unfinished
  <2> QED
    BY <1>7, <1>m, <2>1, CountStays
    DEF multi_wait, multi_return, multi_finished, no_futures, shutdown, recCounting
<1>8. CASE first_wave
  BY <1>8, <1>m DEF first_wave, recCounting, Counted
<1>9. CASE UNCHANGED recVars
  <2>1. Unfinished' = Unfinished
    BY <1>9 DEF recVars, Unfinished
  <2> QED
    BY <1>9, <1>m, <2>1, CountStays DEF recVars
<1> QED
  BY <1>1, <1>2, <1>3, <1>4, <1>5, <1>6, <1>7, <1>8, <1>9 DEF RecStep

(* A step of a pool keeps its invariant. *)
LEMMA RecInvStep == RecInv /\ Counted /\ [RecStep]_recVars => RecInv' /\ Counted'
  BY StepKeeps, StutterKeeps, CountStep DEF Keeps

LEMMA RecFollows == RecInv /\ Counted => RecTypeOK
<1> SUFFICES ASSUME RecInv, Counted PROVE RecTypeOK
  OBVIOUS
<1>1. recOutstanding \in 0 .. Cardinality(Tasks)
  <2>1. Cardinality(Tasks) \in Nat
    BY RecAssumption, FS_CardinalityType
  <2> QED
    BY <2>1, UnfinishedIsFinite DEF Counted
<1> QED
  BY <1>1 DEF RecInv, Placed, Counted, RecTypeOK

---------------------------------------------------------------------------
(* The components together.                                                *)

LEMMA PartsAtFirst ==
    MCInit => /\ part \in Parts /\ RecInit /\ PoolInit /\ EvtInit /\ TrcInit
              /\ ResourceInit /\ MonInit
  BY DEF MCInit

(* A step of the whole, as each component sees it. *)
LEMMA PartsStep ==
    [MCNext]_mc_vars =>
        /\ part' = part /\ [RecStep]_recVars /\ [PoolNext]_pool_vars
        /\ [EvtNextStep]_evt_vars /\ [TrcNext]_trc_vars
        /\ [ResourceNext]_resource_vars /\ [MonNext]_monitor_vars
<1>1. CASE MCNext
  BY <1>1 DEF MCNext
<1>2. CASE UNCHANGED mc_vars
  BY <1>2 DEF mc_vars
<1> QED
  BY <1>1, <1>2

(* No component leaves its types, whichever one runs: the pools' counts,   *)
(* the shared dictionaries, positions, bookmarks, sessions, loads and      *)
(* files stay what the code makes of them.                                 *)
THEOREM HostTypesAreCorrect == MCSpec => []HostTypeOK
<1> DEFINE IInv == /\ part \in Parts /\ RecInv /\ Counted /\ PoolInv /\ EvtInv
                   /\ TrcInv /\ ResourceTypeOK /\ MonInv
<1>1. MCInit => IInv
  BY PartsAtFirst, RecAtFirst, PoolInvInit, EvtAtFirst, TrcAtFirst, ResAtFirst, MonAtFirst
<1>2. IInv /\ [MCNext]_mc_vars => IInv'
  <2> SUFFICES ASSUME IInv, [MCNext]_mc_vars PROVE IInv'
    OBVIOUS
  <2>1. RecInv' /\ Counted'
    BY PartsStep, RecInvStep
  <2> QED
    BY <2>1, PartsStep, PoolInvStep, EvtStep, TrcStep, ResStep, MonStep
<1>3. IInv => HostTypeOK
  <2> SUFFICES ASSUME IInv PROVE HostTypeOK
    OBVIOUS
  <2>1. PoolTypeOK
    BY DEF PoolInv, Typed, PoolTypeOK, Dicts, Remover
  <2> QED
    BY <2>1, RecFollows, EventsFollow, TracesFollow, MonitorFollows DEF HostTypeOK
<1> QED
  BY <1>1, <1>2, <1>3, PTL DEF MCSpec

(* Of the events of a log, a subscription that goes on from its bookmark   *)
(* skips at most one for each call of stop() (subscribe.py); and a change  *)
(* monitor tells every new connection once, every change of a file, also   *)
(* one that came while it did not run, and counts every hit in one file,   *)
(* whatever step it was killed at (diff_check.py).                         *)
THEOREM ObservationsAreKept == MCSpec => []NothingObservedIsLost
<1> DEFINE IInv == EvtInv /\ MonInv
<1>1. MCInit => IInv
  BY PartsAtFirst, EvtAtFirst, MonAtFirst
<1>2. IInv /\ [MCNext]_mc_vars => IInv'
  BY PartsStep, EvtStep, MonStep
<1>3. IInv => NothingObservedIsLost
  BY EventsFollow, MonitorFollows DEF NothingObservedIsLost
<1> QED
  BY <1>1, <1>2, <1>3, PTL DEF MCSpec

(* However starts, stops, crashes and takeovers of the session interleave, *)
(* every trace emits its events in order and leaves out none between the   *)
(* first and the last but those it must skip or raises on; one that closes *)
(* the existing session replays nothing older than its start (trace.py).   *)
THEOREM TracesEmitWhatHappensNow == MCSpec => []EmitsWhatHappensNow
<1>1. MCInit => TrcInv
  BY PartsAtFirst, TrcAtFirst
<1>2. TrcInv /\ [MCNext]_mc_vars => TrcInv'
  BY PartsStep, TrcStep
<1>3. TrcInv => EmitsWhatHappensNow
  BY TracesFollow
<1> QED
  BY <1>1, <1>2, <1>3, PTL DEF MCSpec
=============================================================================
