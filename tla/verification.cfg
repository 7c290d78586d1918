CONSTANTS
    Scan = Scan
    Probe = Probe
    Again = Again
    None = None
    Late = 1
    Specs = {Scan, Probe, Again}
    Paid = {Scan}
    AuthOf <- MCAuthOf
    IssuedAt <- MCIssuedAt
    ConsentAt <- MCConsentAt
    Life = 1
    Quota = 1
    Retain = 2
    MaxLag = 1
    MaxClock = 3
    MaxFaults = 2
    Faulty = TRUE
SPECIFICATION FairSpec
INVARIANTS ReadOnceAudited ConsentAndQuotaHeld ReportedOnce
PROPERTY PaidReported
CHECK_DEADLOCK FALSE
