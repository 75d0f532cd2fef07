SPECIFICATION FairSpec
CONSTANTS
    Variants = 3
    MaxCrashes = 1
    MaxFaults = 1
INVARIANTS
    CompleteMeansLanded
    ClosedRunDescribesItsStages
    RankedAsAWhole
PROPERTIES
    FinishedWorkIsKept
    EveryRunEnds
