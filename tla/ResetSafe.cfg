SPECIFICATION FairSpec
CONSTANTS
    c1 = c1
    c2 = c2
    ssd = ssd
    hdd = hdd
    r1 = r1
    r2 = r2
    own1 = own1
    NoRelease = NoRelease
    Nobody = Nobody
    Foreign = Foreign
    Bootstrap = Bootstrap
    Clients = {c1, c2}
    Volumes = {ssd, hdd}
    Releases = {r1, r2}
    Parents = {own1}
    ClientVolumes <- SharedClientVolumes
    CloneParent <- SharedCloneParent
    Occupied <- HddOccupied
    MaxFaults = 2
INVARIANTS
    CleanSnapshotsPristine
    AttachedIsOwn
    VisibleVolumesAgree
    ReadyIsComplete
PROPERTIES
    ChangesOnlyWhenOff
    ImplementsResetService
    EventuallyReady
