CONSTANTS
    Scan = Scan
    Probe = Probe
    Again = Again
    Other = Other
    None = None
    Kinds = {"aws", "cloudflare"}
    Specs = {Scan, Probe, Again, Other}
    Paid = {Scan}
    AuthOf <- MCAuthOf
    IssuedAt <- MCIssuedAt
    Slots = {1, 2}
    Kill = 1
    Grace = 2
    Terminal = 3
    Life = 0
    Retain = 3
    Behind <- MCBehind
    Tolerance = 0
    DayLength = 4
    Quota = 2
    MaxClock = 5
    MaxFaults = 1
    Compute = 2
    Exec = 1
    Lease = 3
    LeaseTerminal = 4
    LeaseLife = 0
    ScanAt = 0
    LaterAt = 4
    SentAt <- MCSentAt
SPECIFICATION VerifiersFairSpec
INVARIANT AwsForgetsNothing
PROPERTIES KeepsContract AwsAdmittedSettles
\* The instance ends at MaxClock with nothing left to do.
CHECK_DEADLOCK FALSE
