\* A daemon and a restore, each of which may die once and run again.
CONSTANTS
    d = d  r = r  pd = pd  pr = pr
    Procs = {pd, pr}
    Owners = {d, r}
    ProcOf <- MCProcOf
    Spaces = {"host"}
    SpaceOf <- MCSpaceOf
    GuestSpaces = {}
    Sees = {}
    Refusing = {r}
    Restoring = {r}
    Timed = {r}
    MaxAttempts = 2
    MaxDepth = 1
    MaxLives = 1
    AfterSlips = FALSE
    NoFile = NoFile
    Entries = {"tasks", "memory"}
    SavedEntries = {"tasks"}
    Saved = Saved
    NoEntry = NoEntry
    MaxWrites = 1
    MaxRestores = 2
SPECIFICATION RestoreSpec
INVARIANTS RestoreTypeOK MixedIsMarked ReplacedIsNamed SwapExcludesOpeners
CHECK_DEADLOCK FALSE
