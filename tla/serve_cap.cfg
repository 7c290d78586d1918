CONSTANTS
    None = None
    JTI = {j1}
    Req = {r1, r2, r3}
    Content = {ordered}
    Ordered = ordered
    SizeOf <- MCSizeOf
    SD <- MCSD
    TD <- MCTD
    Window = 1
    MaxServe = 2
    MaxIntervals = 2
    MaxAttempts = 2
    MaxClock = 0
    OfferStates = {"offered"}
    Revocable = {}
    Crashes = TRUE
    DBFaults = TRUE
    OrderedSize = 2
    OtherSize = 1
    EarlyJTI = j1
    StartBy = 1
    EarlyEnd = 1
    LateEnd = 1
    Empties = {FALSE}
    Changed = changed
SYMMETRY RequestSymmetry
SPECIFICATION MCSpec
INVARIANTS OneWindowAtRisk ServesAccounted NoThirdServe TransmittedWasSent ReceiptsCumulative
    CoverageHasCloser
PROPERTIES RefinesContract
