SPECIFICATION Spec
CONSTANTS
    None = None
    Episodes = {e1, e2}
    SagaUuids = {s1, s2}
    Callers = {c1}
    Limit = 1
    MaxBulk = 2
    MaxTime = 2
    MaxFaults = 0
PROPERTIES SummaryKept
