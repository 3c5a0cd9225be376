SPECIFICATION Spec
CONSTANTS
    cars = cars
    users = users
    logs = logs
    id = id
    ref = ref
    Table = {cars, users, logs}
    Column = {id, ref}
    Links <- MCLinks
    Denied = {logs}
    Hidden <- MCHidden
    Start <- MCStart
    MaxAlter = 2
INVARIANTS
    NothingHidden
    Closed
    KeysAreWhole
