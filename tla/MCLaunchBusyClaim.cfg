\* Two calls of one key on a task that may be busy at the claim.
CONSTANTS
    a1 = a1  a2 = a2  a3 = a3  b1 = b1
    ka = ka  kb = kb
    Calls = {a1, a2}
    Keys = {ka}
    KeyOf <- MCKeyOf
    PrintOf <- MCPrintOf
    FinalCalls = {}
    MaxRecords = 2
    MaxTurns = 2
    MaxCrashes = 0
    Nobody = Nobody
SPECIFICATION Spec
INVARIANT AtMostOneTurnPerKey
