SPECIFICATION Spec
CONSTANTS
    a1 = a1
    a2 = a2
    b1 = b1
    A = A
    B = B
    r1 = r1
    r2 = r2
    Local = Local
    Gone = Gone
    NoRun = NoRun
    NoJournal = NoJournal
    Items = {a1, a2, b1}
    Apps = {A, B}
    AppOf <- TwoGames
    Releases = {r1, r2}
    Desired <- TwoReleases
    Installed <- PlayedBefore
    MaxFaults = 2
INVARIANTS
    NextRunRecovers
