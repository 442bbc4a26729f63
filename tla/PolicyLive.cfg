SPECIFICATION EitherSpec
CONSTANTS
    Policies <- MCPolicies
    FirstPolicy <- MCFirst
    Slots = {s1}
    Commands = {c1}
    Faults = {"write", "purge", "rollback", "fetch", "transition", "crash"}
    MaxPuts = 2
    MaxEdits = 0
    NoPolicy = NoPolicy
INVARIANTS EditSettlesClean
PROPERTIES ServiceCatchesUp
