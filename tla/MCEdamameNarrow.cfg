\* The core's window is wider than what a node keeps.
SPECIFICATION FairSpec
CONSTANTS
    NodeIds <- MCOneNode
    Urls = {u1}
    Streams = {live}
    Sequences <- MCThreeSequences
    Loads <- MCLoads
    OverloadThreshold = 1
    HeartbeatTimeout = 0
    WindowSize = 3
    Retention = 1
    Threads = {t1}
    MaxTime = 0
    MaxSetBacks = 0
    MaxFaults = 0
    MaxNodeRestarts = 0
PROPERTY WindowFits
