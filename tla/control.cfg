CONSTANTS
    o1 = o1
    o2 = o2
    u1 = u1
    d1 = d1
    r1 = r1
    p1 = p1
    k1 = k1
    k2 = k2
    k3 = k3
    m1 = m1
    lk = lk
    pk = pk
    lk2 = lk2
    lk3 = lk3
    sk = sk
    Iid = {o1, o2, u1, d1, r1, p1, k1, k2, k3, m1}
    Kid = {lk, pk, lk2, lk3, sk}
    Op <- MCOp
    Signer <- MCSigner
    Keys <- MCKeys
    Paired <- MCPaired
    Workloads = {{o1, u1}, {o1, o2}, {r1, d1}, {k1, k2}, {k1, m1}, {o1, p1}}
    Bootstraps = {{sk}}
    BootSigner = lk
    Approval = TRUE
    Capacity = 3
    MaxScans = 1
    MaxFaults = 2
    Scan = scan
    None = None
SPECIFICATION FairSpec
INVARIANTS SeenIsDone RevocationAnswersAgree ApprovalIsConsent SeenIsPinned
PROPERTIES SeenSetsNothing EveryInstructionSeen
