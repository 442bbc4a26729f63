SPECIFICATION Spec
CONSTANTS
    Policies <- MCPolicies
    FirstPolicy <- MCOff
    Slots = {s1, s2}
    Commands = {c1}
    Faults = {}
    MaxPuts = 3
    MaxEdits = 0
    NoPolicy = NoPolicy
INVARIANTS NoCommandCrosses
