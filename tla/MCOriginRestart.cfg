\* Other bytes under a stored id after a restart.
SPECIFICATION Spec
CONSTANTS
    b1 = b1
    b2 = b2
    b3 = b3
    Channels = {live}
    Renditions = {hd}
    Sequences <- MCOneSequence
    Exts = {ts}
    Bytes = {b1, b2}
    Hash <- MCHashApart
    Bandwidths = {}
    Resolutions = {}
    Absent = Absent
    Torn = Torn
    Missing = Missing
    Master = Master
    Pulled = {}
    WindowSize = 2
    MaxRestarts = 1
    MaxFaults = 0
INVARIANT OneBodyPerId
