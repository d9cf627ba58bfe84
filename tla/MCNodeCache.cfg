\* Two streams, two fetches at once, failing stores and removals, a restart.
SPECIFICATION Spec
CONSTANTS
    a = a
    b = b
    ts = ts
    mp4 = mp4
    Retention = 1
    Streams = {a, b}
    Sequences <- MCSequences
    Exts = {ts, mp4}
    Bodies = {b1, b2}
    Wanted <- MCWanted
    Tasks = {t1, t2}
    NoFetch = NoFetch
    Torn = Torn
    Missing = Missing
    MaxFaults = 1
    MaxRestarts = 1
INVARIANTS TypeOK ServesLatest SpanBounded
PROPERTIES LeavesOnlyBehind ImplementsHeldSet
SYMMETRY BodyTaskSymmetry
