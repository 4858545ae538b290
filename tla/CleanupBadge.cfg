SPECIFICATION InspectorSpec
CONSTANTS
    c1 = c1
    ssd = ssd
    hdd = hdd
    r1 = r1
    r2 = r2
    own1 = own1
    NoRelease = NoRelease
    Nobody = Nobody
    Foreign = Foreign
    Bootstrap = Bootstrap
    Clients = {c1}
    Volumes = {ssd, hdd}
    Releases = {r1, r2}
    Parents = {own1}
    ClientVolumes <- OneClientVolumes
    CloneParent <- OneCloneParent
    Occupied <- NotOccupied
    MaxFaults = 2
INVARIANTS
    UnusedIsUnused
