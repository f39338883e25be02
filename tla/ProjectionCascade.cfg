SPECIFICATION FairSpec
CONSTANTS
    a = a
    b = b
    NoVector = NoVector
    NoGroup = NoGroup
    Absent = Absent
    Uuids = {1, 2}
    Nodes = {a, b}
    Groups = {g1}
    Embeddings = {e1}
    Malformed = {}
    Clients = {c1, c2}
    Reconcilers = {r1}
    Endpoints <- Between
    BatchSize = 1
    MaxGeneration = 3
    MaxOps = 4
    MaxFaults = 1
INVARIANTS EdgeVectorsOwned CleanEdgesMirrored
PROPERTIES MarkedNodesGo NothingDetached
