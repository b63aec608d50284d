SPECIFICATION MCSpec
CONSTANTS
  Tasks = {1, 2, 3, 4, 5}
  ChildrenOf <- MCChildren
  FirstTasks = {{}, {1}, {1, 2}}
  PoolKinds = {"multi", "executor", "concurrent"}
  PoolWorkers = 2
  Pids = {1, 2}
  OldPids = {1}
  PidWaits = 1
  MaxEvents = 3
  MaxStops = 2
  MaxSessions = 2
  EvtBatch = 2
  EvtQueueSizes = {0, 1}
  EvtSettings <- MCEvtSettings
  Traces = {1, 2}
  TraceKinds = {"dns", "tcp", "sysmon", "winapi"}
  MaxTraced = 2
  TypeOf <- MCTypeOf
  SkipRecords = {"PTR"}
  NamedTypes = {"A", "PTR"}
  MaxTraceStarts = 3
  Loads = {50, 90}
  MaxLoad = 80
  WaitingProcs = {"w"}
  MaxStarts = 2
  MaxChanges = 2
  MaxSpeedTests = 2
  MonItems = {"x", "y"}
  MonKinds = {"file", "network", "dns"}
  MaxCycles = 3
  MaxMonRestarts = 2
  MaxMonDays = 3
INVARIANTS
  HostTypeOK
  PoolTellsTheTruth
  NothingObservedIsLost
  
PROPERTIES
  
  DeadLeaveThePool
  
CHECK_DEADLOCK FALSE
