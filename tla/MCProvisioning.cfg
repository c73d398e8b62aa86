SPECIFICATION FairSpec
CONSTANTS
    w1 = w1
    w2 = w2
    Nobody = Nobody
    Workers = {w1, w2}
    Batches = {0, 1}
    SlotsOf <- MCSlotsOf
    RetryBudget = 1
    Manual <- MCManual
    Foreign = {2}
    MaxManual = 1
    MaxFaults = 1
INVARIANTS
    ProvisioningSound
PROPERTIES
    StaleChangesNothing
    BatchesSettle
CHECK_DEADLOCK FALSE
