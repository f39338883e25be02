SPECIFICATION FairRebuild
CONSTANTS
    c1 = c1
    r1 = r1
    e1 = e1
    e2 = e2
    g1 = g1
    NoVector = NoVector
    NoGroup = NoGroup
    Absent = Absent
    AllGroups = AllGroups
    Uuids = {1, 2}
    Groups = {g1}
    Embeddings = {e1, e2}
    Malformed = {e2}
    Clients = {c1}
    Reconcilers = {r1}
    Projecting = {r1}
    BatchSize = 2
    MaxGeneration = 2
    MaxFaults = 1
    MaxReserved = 2
    MaxRebuilds = 2
    MaxLegacy = 1
INVARIANTS ReadsSound RebuildExact
PROPERTIES MarkersResolved
