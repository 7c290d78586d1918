CONSTANTS
    None = None
    JTI = {j1}
    Req = {r1, r2}
    Content = {ordered, changed}
    Ordered = ordered
    SizeOf <- MCSizeOf
    SD <- MCSD
    TD <- MCTD
    Window = 1
    MaxServe = 2
    MaxIntervals = 2
    MaxAttempts = 2
    MaxClock = 0
    OfferStates = {"offered"}
    Revocable = {}
    Crashes = TRUE
    DBFaults = FALSE
    OrderedSize = 3
    OtherSize = 2
    EarlyJTI = j1
    StartBy = 1
    EarlyEnd = 1
    LateEnd = 1
    Empties = {FALSE}
    Changed = changed
CHECK_DEADLOCK FALSE
SPECIFICATION MCSpec
INVARIANT CompleteNamesOrdered
