\* Two keys and room for one record: the records at their bound.
CONSTANTS
    a1 = a1  a2 = a2  a3 = a3  b1 = b1
    ka = ka  kb = kb
    Calls = {a1, a2, b1}
    Keys = {ka, kb}
    KeyOf <- MCKeyOf
    PrintOf <- MCPrintOf
    FinalCalls = {a1, a2}
    MaxRecords = 1
    MaxTurns = 1
    MaxCrashes = 1
    Nobody = Nobody
SPECIFICATION Spec
INVARIANT FinalCallsRunOnce
PROPERTY DoneIsFinal
