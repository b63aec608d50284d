SPECIFICATION Spec
CONSTANTS
    i1 = i1
    Interfaces = {i1}
    Configs = {{"tcp", "set_dns", "broker", "records"}, {"tcp", "dns", "localhost", "set_dns"},
               {"tcp", "localhost", "pcap"}, {"dns"}}
    UserDns = {"dynamic"}
    MaxRuns = 2
    MaxSignals = 2
    MaxCrashes = 1
INVARIANTS
    TypeOK
    StoppedServerRestores
    AddressesAreThisRuns
PROPERTIES
    StartsAndStops
CHECK_DEADLOCK FALSE
