SPECIFICATION MCSpec
CONSTANTS
    c1 = c1
    c2 = c2
    c3 = c3
    w1 = w1
    w2 = w2
    h1 = h1
    h2 = h2
    Callers = {c1, c2, c3}
    Workers = {w1, w2}
    Hosts = {h1, h2}
    LocalHosts = {h2}
    MaxWorkers = 2
    Troubles = {"put", "stop", "kill", "lost", "stall"}
    WorkerOf <- MCWorkerOf
INVARIANTS
    TypeOK
    ConnectionsAreExclusive
PROPERTIES
    LocksAreFreed
    ImplementsLookupService
