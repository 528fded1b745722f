SPECIFICATION FairSpec
CONSTANTS
    Containers = {"app"}
    Null = Null
    Limit = 1
    MaxEntries = 2
    IdRank <- MCIdRank
    other = other
    logstream = logstream
    disabled = disabled
    poller = poller
    Plugins <- MCPlugins
    Disabled <- MCDisabled
    Relay = relay
    OtherTasks = {poller}
    TasksOf <- MCTasksOf
    Forwarders = {f1}
    Window = 1
    MaxRecords = 3
    MaxNow = 2
    MaxFaults = 1
INVARIANTS
    TypeOK
    OncePerListing
PROPERTIES
    RelayRunsUntilShutdown
    EventuallyRelayed
    DrainEnds
