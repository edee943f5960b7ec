\* Two processes reclaim the lock of a third, dead one.
CONSTANTS
    d1 = d1  d2 = d2  e = e  g = g
    pd = pd  pe = pe  pg = pg
    Procs = {pd, pe, pg}
    Owners = {d1, e, g}
    ProcOf <- MCProcOf
    Spaces = {"host"}
    SpaceOf <- MCOneSpace
    GuestSpaces = {}
    Sees = {}
    Refusing = {}
    Restoring = {}
    Timed = {}
    MaxAttempts = 2
    MaxDepth = 1
    MaxLives = 0
    AfterSlips = TRUE
    NoFile = NoFile
SPECIFICATION Spec
INVARIANT Exclusive
