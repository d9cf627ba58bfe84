\* A DEAD node sends a heartbeat while nothing is required.
SPECIFICATION Spec
CONSTANTS
    NodeIds <- MCOneNode
    Urls = {u1}
    Streams = {live}
    Sequences <- MCSequences
    Loads <- MCLoads
    OverloadThreshold = 1
    HeartbeatTimeout = 1
    WindowSize = 1
    Threads = {t1}
    MaxTime = 4
    MaxSetBacks = 0
PROPERTY ResumesCold
