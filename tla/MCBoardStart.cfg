\* A start-up ends, and root may wait for a server that has stopped.
SPECIFICATION FairSpec
CONSTANTS
    MaxFaults = 2
    Plans <- MCPlans
    Programs <- MCPrograms
    Unwinding <- MCUnwinding
    Repeatable <- MCRepeatable
    Devices <- MCDevices
    Outline <- MCOutline
    Seals <- MCSeals
INVARIANTS
    Outlined
    Unwound
    OneServer
    RegisteredOpens
    BootOrder
PROPERTY
    Finishes
CHECK_DEADLOCK FALSE
