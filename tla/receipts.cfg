CONSTANTS
    MaxReceipts = 2
    MaxOther = 1
    MaxFaults = 3
    AppendFaults = TRUE
    Forgetful = TRUE
SPECIFICATION FairSpec
INVARIANTS NeverDivergent AuditMapExact DeliveredIsHeld
PROPERTIES ImplementsOrderedDelivery EveryReceiptStored
\* The gateway rests when everything is delivered.
CHECK_DEADLOCK FALSE
