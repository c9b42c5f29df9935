\* A good and an invalid experience, two workers, up to two failures.
SPECIFICATION FairSpec
CONSTANTS
    Experiences = {e1, bad}
    Invalid = {bad}
    Workers = {w1, w2}
    MaxReceives = 2
    MaxBatch = 2
    MaxFaults = 2
INVARIANTS TypeOK EntersOnce AcceptedIsKept
PROPERTIES RedeliveryKeepsGovernance QueueDrains AcceptedIsSettled
