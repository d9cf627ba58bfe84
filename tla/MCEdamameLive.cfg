\* Two handlers and time; one thing goes wrong, and then the node becomes ACTIVE.
SPECIFICATION FairSpec
CONSTANTS
    NodeIds <- MCOneNode
    Urls = {u1}
    Streams = {live}
    Sequences <- MCTwoSequences
    Loads <- MCLoads
    OverloadThreshold = 1
    HeartbeatTimeout = 0
    WindowSize = 1
    Retention = 0
    Threads = {t1, t2}
    MaxTime = 1
    MaxSetBacks = 1
    MaxFaults = 1
    MaxNodeRestarts = 0
INVARIANT OneRequestUnderWay
PROPERTIES  KnownBecomesActive
