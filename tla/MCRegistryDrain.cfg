\* A DRAINING node recovers without a required segment on record.
SPECIFICATION Spec
CONSTANTS
    NodeIds <- MCOneNode
    Urls = {u1}
    Streams = {live}
    Sequences <- MCSequences
    Loads <- MCLoads
    OverloadThreshold = 1
    HeartbeatTimeout = 1
    WindowSize = 1
    Threads = {t1, t2}
    MaxTime = 4
    MaxSetBacks = 0
INVARIANT RecoveredIsActive
