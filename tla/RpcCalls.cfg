SPECIFICATION FairSpec
CONSTANTS
    read = read
    clone = clone
    update = update
    Calls = {clone, update}
    Creating = {clone}
INVARIANTS
    ConnectionClean
PROPERTIES
    ImplementsStorageCall
    CallsEnd
    Recovers
CHECK_DEADLOCK FALSE
