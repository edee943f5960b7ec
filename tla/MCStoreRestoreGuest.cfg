\* The daemon of a project's machine starts while the host restores.
CONSTANTS
    d = d  r = r  pd = pd  pr = pr
    Procs = {pd, pr}
    Owners = {d, r}
    ProcOf <- MCProcOf
    Spaces = {"host", "guest"}
    SpaceOf <- MCGuestSpaceOf
    GuestSpaces = {"guest"}
    Sees = {}
    Refusing = {r}
    Restoring = {r}
    Timed = {r}
    MaxAttempts = 2
    MaxDepth = 1
    MaxLives = 0
    AfterSlips = TRUE
    NoFile = NoFile
    Entries = {"tasks", "memory"}
    SavedEntries = {"tasks"}
    Saved = Saved
    NoEntry = NoEntry
    MaxWrites = 1
    MaxRestores = 1
SPECIFICATION RestoreSpec
INVARIANT SwapNeverRaced
CHECK_DEADLOCK FALSE
