SPECIFICATION Spec
CONSTANTS
    lives = lives
    left = left
    gone = gone
    Texts = {lives, left, gone}
    Claims = {"yes", "no"}
    ClaimOf <- Meaning
    Conflicts <- Opposites
    Times = {1, 2, 3, 4}
    MaxCalls = 3
    MaxFacts = 3
    MaxDeletions = 1
CHECK_DEADLOCK FALSE
SYMMETRY Wordings
INVARIANTS CurrentFactsAgree TimelinesDisjoint
PROPERTIES EndsOnlyMoveEarlier
