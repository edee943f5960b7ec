\* Two instances of one process, another process, one restart of each.
CONSTANTS
    d1 = d1  d2 = d2  e = e  g = g
    pd = pd  pe = pe  pg = pg
    Procs = {pd, pe}
    Owners = {d1, d2, e}
    ProcOf <- MCProcOf
    Spaces = {"host"}
    SpaceOf <- MCSpaceOf
    GuestSpaces = {}
    Sees = {}
    Refusing = {}
    Restoring = {}
    Timed = {}
    MaxAttempts = 2
    MaxDepth = 2
    MaxLives = 1
    AfterSlips = FALSE
    NoFile = NoFile
SPECIFICATION Spec
INVARIANTS TypeOK OverlapNeedsSlip FileNamesHolder
