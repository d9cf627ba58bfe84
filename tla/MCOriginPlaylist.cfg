\* Two renditions of a channel that drift apart and meet again.
SPECIFICATION Spec
CONSTANTS
    b1 = b1
    b2 = b2
    b3 = b3
    Channels = {live}
    Renditions = {hd, sd}
    Sequences <- MCFourSequences
    Exts = {ts}
    Bytes = {b1}
    Hash <- MCHashOne
    Bandwidths = {}
    Resolutions = {}
    Absent = Absent
    Torn = Torn
    Missing = Missing
    Master = Master
    Pulled = {}
    WindowSize = 3
    MaxRestarts = 0
    MaxFaults = 1
INVARIANT SnapshotPlayable
PROPERTIES SnapshotAdvances ListedStays
SYMMETRY RenditionSymmetry
