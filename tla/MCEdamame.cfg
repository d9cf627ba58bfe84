\* Two renditions; one thing goes wrong, be it that the node starts again.
SPECIFICATION EdamameSpec
CONSTANTS
    NodeIds <- MCOneNode
    Urls = {u1}
    Streams = {hi, lo}
    Sequences <- MCTwoSequences
    Loads <- MCLoads
    OverloadThreshold = 1
    HeartbeatTimeout = 0
    WindowSize = 1
    Retention = 0
    Threads = {t1}
    MaxTime = 0
    MaxSetBacks = 0
    MaxFaults = 1
    MaxNodeRestarts = 1
INVARIANTS EdamameTypeOK ReportsHold FreshRoutedCanServe
PROPERTIES KeepsRequired LostForGood ImplementsHeldSets
SYMMETRY NameSymmetry
