SPECIFICATION Spec
CONSTANTS
    r1 = r1
    r2 = r2
    q1 = q1
    q2 = q2
    q3 = q3
    ssd = ssd
    tank1 = tank1
    tank2 = tank2
    ann = ann
    bob = bob
    x = x
    y = y
    NoRelease = NoRelease
    NoRequest = NoRequest
    NoSnapshot = NoSnapshot
    NoConfig = NoConfig
    Nobody = Nobody
    Releases = {r1, r2}
    Requests = {q1, q2, q3}
    Volumes = {ssd}
    Datasets = {tank1, tank2}
    Rest = {x, y}
    Editors = {ann, bob}
SYMMETRY Symmetry
INVARIANTS
    PendingMatchesFile
    StageUsesSaved
PROPERTIES
    NoLostUpdate
    HistoryComplete
    SaveKeepsActiveServable
