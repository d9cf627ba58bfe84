\* A node restarts with nothing and registers again.
SPECIFICATION EdamameSpec
CONSTANTS
    NodeIds <- MCOneNode
    Urls = {u1}
    Streams = {live}
    Sequences <- MCOneSequence
    Loads <- MCLoads
    OverloadThreshold = 1
    HeartbeatTimeout = 0
    WindowSize = 1
    Retention = 0
    Threads = {t1}
    MaxTime = 0
    MaxSetBacks = 0
    MaxFaults = 1
    MaxNodeRestarts = 1
PROPERTY RegisteredCanServe
