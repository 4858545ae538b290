SPECIFICATION FairApiSpec
CONSTANTS
    r1 = r1
    r2 = r2
    r3 = r3
    q1 = q1
    q2 = q2
    q3 = q3
    ssd = ssd
    hdd = hdd
    tank1 = tank1
    tank2 = tank2
    NoRelease = NoRelease
    NoRequest = NoRequest
    NoSnapshot = NoSnapshot
    NoContent = NoContent
    Releases = {r1, r2, r3}
    Requests = {q1, q2, q3}
    Volumes = {ssd, hdd}
    Datasets = {tank1, tank2}
    Dataset <- OwnDatasets
    Leftover <- OneLeftover
    MaxWrites = 2
    MaxFaults = 2
INVARIANTS
    StagedIsConsistent
    RecordedExists
PROPERTIES
    SnapshotsOnlyWhenOff
    ImplementsPublication
    IncompleteGetsStaged
