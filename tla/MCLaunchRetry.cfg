\* One key: the original, a retry and a retry with other parameters.
CONSTANTS
    a1 = a1  a2 = a2  a3 = a3  b1 = b1
    ka = ka  kb = kb
    Calls = {a1, a2, a3}
    Keys = {ka}
    KeyOf <- MCKeyOf
    PrintOf <- MCPrintOf
    FinalCalls = {}
    MaxRecords = 2
    MaxTurns = 2
    MaxCrashes = 1
    Nobody = Nobody
SPECIFICATION FairSpec
INVARIANTS TypeOK OneFlightPerKey TwoTurnsOnlyAfterBusyClaim AnswersAgree
PROPERTY EveryCallAnswered
