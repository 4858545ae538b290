SPECIFICATION CallSpec
CONSTANTS
    r1 = r1
    r2 = r2
    q1 = q1
    q2 = q2
    ssd = ssd
    hdd = hdd
    NoRelease = NoRelease
    NoRequest = NoRequest
    NoSnapshot = NoSnapshot
    Releases = {r1, r2}
    Requests = {q1, q2}
    Volumes = {ssd, hdd}
    Datasets = {ssd, hdd}
SYMMETRY Symmetry
INVARIANTS
    OneIncomplete
    SnapshotOwnedOnce
PROPERTIES
    Immutable
    ReplayHarmless
