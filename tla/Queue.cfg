SPECIFICATION FairSpec
CONSTANTS
    Ideas = {i1, i2}
    Acceptable = {i1}
    Drains = {w1, w2}
    Posts = {p1, p2}
    NoDrain = NoDrain
    NoIdea = NoIdea
    MaxLosses = 1
    MaxFaults = 1
    MaxCloses = 1
INVARIANTS
    TypeOK
    NothingIsDropped
    CountIsHonest
PROPERTIES
    KeepsThePromise
