SPECIFICATION Spec
CONSTANTS
    Prompts = {1, 2}
    Samples = {1}
    Scorers = {s1, s2}
    Completions <- Answers
    MaxRuns = 2
    MaxSynthetic = 1
    MaxEdits = 2
    MaxMishaps = 1
    StandardErrors = 2
    Share <- TwoThirds
SYMMETRY Symmetry
INVARIANTS
    ComparedPairsUp
PROPERTIES
    AScoreStands
