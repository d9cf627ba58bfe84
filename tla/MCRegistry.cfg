\* Two nodes that compete for the playlist; the clock may be set back once.
SPECIFICATION Spec
CONSTANTS
    NodeIds <- MCNodeIds
    Urls = {u1}
    Streams = {live}
    Sequences <- MCOneSequence
    Loads <- MCLoads
    OverloadThreshold = 1
    HeartbeatTimeout = 1
    WindowSize = 1
    Threads = {t1}
    MaxTime = 2
    MaxSetBacks = 1
INVARIANTS TypeOK RoutingFollowsReports PrewarmSuffices RoutedOnFreshReport
PROPERTIES ImplementsLifecycle DeadOnlyAfterSilence RoutedInTime
