SPECIFICATION FairSpec
CONSTANTS
    ssd = ssd
    hdd = hdd
    usb = usb
    E = E
    F = F
    NoNumber = NoNumber
    NoLetter = NoLetter
    Volumes = {ssd, hdd}
    Others = {usb}
    Numbers = {1, 2, 3}
    Letters = {E, F}
    Desired <- LetterOf
    Label <- LabelOf
    MaxAttempts = 2
    MaxFaults = 2
PROPERTIES
    MountedRight
    OthersStayOnline
    OthersKeepLetters
    FreshLogin
    ForeignSessionKept
    EventuallyReady
CHECK_DEADLOCK FALSE
