-------------------------------- MODULE MCHost --------------------------------
(***************************************************************************)
(* What watches and works on the host: the recursive pools, the pool of    *)
(* process names, the Windows event log, the ETW traces, the resource      *)
(* monitor and the change monitor.  They share no state: in a behaviour    *)
(* one of them runs and each of the others stays in one initial state.     *)
(***************************************************************************)
EXTENDS RecursivePool, ProcessPool, EventLog, Tracing, ResourceMonitor, ChangeMonitor

VARIABLE part   \* the component of the behaviour

Parts == {"pool", "processes", "events", "tracing", "resources", "monitor"}

MCChildren ==
    [t \in Tasks |-> IF t = 1 THEN {3, 4} ELSE IF t = 4 THEN {5} ELSE {}]
MCEvtSettings ==
    {s \in [resume : BOOLEAN, from_oldest : BOOLEAN, bookmark_path : {TRUE}] :
       s.resume \/ s.from_oldest}
MCTypeOf == <<"A", "PTR", "HTTPS">>

RecIdle == recKind = "multi" /\ recInput = {}
PoolIdle == pool = [p \in Pids |-> IF p \in OldPids THEN "line" ELSE "absent"]
EvtIdle ==
    /\ evt_settings = [resume |-> TRUE, from_oldest |-> TRUE, bookmark_path |-> TRUE]
    /\ maxsize = 0
TrcIdle == trcKind = "dns" /\ close_existing
ResourceIdle == load = 50
MonIdle == monKind = "file" /\ monKwargs

MCInit ==
    /\ part \in Parts
    /\ RecInit /\ (part # "pool" => RecIdle)
    /\ PoolInit /\ (part # "processes" => PoolIdle)
    /\ EvtInit /\ (part # "events" => EvtIdle)
    /\ TrcInit /\ (part # "tracing" => TrcIdle)
    /\ ResourceInit /\ (part # "resources" => ResourceIdle)
    /\ MonInit /\ (part # "monitor" => MonIdle)

MCNext ==
    /\ UNCHANGED part
    /\ \/ /\ part = "pool" /\ RecStep
          /\ UNCHANGED <<pool_vars, evt_vars, trc_vars, resource_vars, monitor_vars>>
       \/ /\ part = "processes" /\ PoolNext
          /\ UNCHANGED <<recVars, evt_vars, trc_vars, resource_vars, monitor_vars>>
       \/ /\ part = "events" /\ EvtNextStep
          /\ UNCHANGED <<recVars, pool_vars, trc_vars, resource_vars, monitor_vars>>
       \/ /\ part = "tracing" /\ TrcNext
          /\ UNCHANGED <<recVars, pool_vars, evt_vars, resource_vars, monitor_vars>>
       \/ /\ part = "resources" /\ ResourceNext
          /\ UNCHANGED <<recVars, pool_vars, evt_vars, trc_vars, monitor_vars>>
       \/ /\ part = "monitor" /\ MonNext
          /\ UNCHANGED <<recVars, pool_vars, evt_vars, trc_vars, resource_vars>>

mc_vars == <<part, recVars, pool_vars, evt_vars, trc_vars, resource_vars, monitor_vars>>

(* The threads of the components run on; the environment need not. *)
MCSpec ==
    /\ MCInit /\ [][MCNext]_mc_vars
    /\ WF_recVars(part = "pool" /\ RecStep)
    /\ WF_pool_vars(part = "processes" /\ PoolThreads)
    /\ WF_evt_vars(part = "events" /\ WorkerThread)
    /\ WF_resource_vars(part = "resources" /\ MonitorThread)
    /\ \A w \in WaitingProcs : WF_resource_vars(part = "resources" /\ looks(w))

(* The types of all components. *)
HostTypeOK ==
    /\ part \in Parts
    /\ RecTypeOK /\ PoolTypeOK /\ EvtTypeOK /\ TrcTypeOK /\ ResourceTypeOK /\ MonTypeOK

(* What was observed is accounted for: an event skipped by a worker's stop *)
(* (subscribe.py), and what the change monitor's baseline and statistics   *)
(* hold of the cycles it ran (diff_check.py).                              *)
NothingObservedIsLost == OneLostPerStop /\ MonitorForgetsNothing

(* What waits is let go: a pool's caller returns (multiprocesses.py), the  *)
(* worker of a stopped subscription ends (subscribe.py), a process that    *)
(* waits for the resources goes on (system_resource_monitor.py).           *)
WaitsEnd == PoolShutsDown /\ StoppedWorkerEnds /\ WaitersGoOn
=============================================================================
