\* Deliveries that never reached the handler count towards the limit.
SPECIFICATION Spec
CONSTANTS
    Experiences = {e1, e2}
    Invalid = {}
    Workers = {w1, w2}
    MaxReceives = 2
    MaxBatch = 2
    MaxFaults = 2
INVARIANT GivesUpAfterFailedDeliveries
