\* The author's report on its own memory races the worker that stores it.
SPECIFICATION Spec
CONSTANTS
    Experiences = {e1, e2}
    Invalid = {}
    Workers = {w1, w2}
    MaxReceives = 2
    MaxBatch = 2
    MaxFaults = 0
INVARIANT SelfReportIsCounted
