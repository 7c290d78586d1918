CONSTANTS
    None = None
    JTI = {j1, j2}
    Req = {r1, r2}
    Content = {ordered}
    Ordered = ordered
    SizeOf <- MCSizeOf
    SD <- MCSD
    TD <- MCTD
    Window = 1
    MaxServe = 2
    MaxIntervals = 2
    MaxAttempts = 2
    MaxClock = 2
    OfferStates = {"offered", "withdrawn"}
    Revocable = {j1}
    Crashes = TRUE
    DBFaults = FALSE
    OrderedSize = 2
    OtherSize = 1
    EarlyJTI = j1
    StartBy = 1
    EarlyEnd = 1
    LateEnd = 2
    Empties = {FALSE, TRUE}
    Changed = changed
SPECIFICATION MCFairSpec
INVARIANTS CompletesOnce RevokedNeverBound
PROPERTIES NoByteAfterComplete LedgerOnlyAdvances EveryRequestSettles CoverageCompletes
