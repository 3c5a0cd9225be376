SPECIFICATION Spec
CONSTANTS
    cars = cars
    users = users
    logs = logs
    id = id
    ref = ref
    Table = {cars, users, logs}
    Column = {id, ref}
    Links <- MCLinks
    Denied = {}
    Hidden = {}
    Start <- MCStart
    MaxAlter = 0
INVARIANT
    RelationsCanBeFollowed
