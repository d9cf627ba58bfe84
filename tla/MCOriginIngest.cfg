\* One rendition: repeated, conflicting, failing and interrupted PUTs.
SPECIFICATION Spec
CONSTANTS
    b1 = b1
    b2 = b2
    b3 = b3
    Channels = {live}
    Renditions = {hd}
    Sequences <- MCOneSequence
    Exts = {ts, mp4}
    Bytes = {b1, b2, b3}
    Hash <- MCHash
    Bandwidths = {low, high}
    Resolutions = {hdready}
    Absent = Absent
    Torn = Torn
    Missing = Missing
    Master = Master
    Pulled <- MCAllFiles
    WindowSize = 2
    MaxRestarts = 1
    MaxFaults = 2
INVARIANTS TypeOK AcknowledgedIsStored CommittedReadWhole CommitLogExact
PROPERTIES MetadataSticks KeptUntilRestart ImplementsStore
