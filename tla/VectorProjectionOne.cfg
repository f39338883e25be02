SPECIFICATION Spec
CONSTANTS
    c1 = c1
    c2 = c2
    r1 = r1
    r2 = r2
    e1 = e1
    e2 = e2
    g1 = g1
    g2 = g2
    NoVector = NoVector
    NoGroup = NoGroup
    Absent = Absent
    Uuids = {1}
    Groups = {g1, g2}
    Embeddings = {e1, e2}
    Malformed = {e2}
    Clients = {c1, c2}
    Reconcilers = {r1, r2}
    Projecting = {c1, c2, r1}
    BatchSize = 1
    MaxGeneration = 3
    MaxFaults = 1
INVARIANTS CleanMirrored VectorsOwned
PROPERTIES DeletionEffective ViewSpec
SYMMETRY Symmetry
