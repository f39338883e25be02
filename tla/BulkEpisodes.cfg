SPECIFICATION SpecBulk
CONSTANTS
    ann = ann
    anne = anne
    annie = annie
    carl = carl
    s1 = s1
    s2 = s2
    said = said
    told = told
    NEpisodes = 2
    Names = {ann, anne, annie, carl}
    Mentionable = {ann, anne, annie}
    Resembles <- Alike
    Stored = {s1, s2}
    StoredName <- Known
    Wordings = {said, told}
    MaxEntities = 4
    MaxEdges = 2
CHECK_DEADLOCK FALSE
SYMMETRY Symmetry
INVARIANTS NamesakesMerged EndpointsSaved
