SPECIFICATION Spec
CONSTANTS
    Runs = {r1, r2}
    Questions = {q1, q2}
    Pages = {p1, p2}
    Empty = Empty
    Open = Open
    MaxTime = 2
    MaxLosses = 1
SYMMETRY Symmetry
INVARIANTS
    AnswersAreTheirOwn
    NoNightIsDropped
