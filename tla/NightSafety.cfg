SPECIFICATION Spec
CONSTANTS
    Entries = {e1, e2}
    Runs = {r1, r2, r3}
    Decisions = {d1, d2}
    Nights = {n1, n2}
    Clients = {c1, c2}
    NoEntry = NoEntry
    NoRun = NoRun
    NoDecision = NoDecision
    NoNight = NoNight
    MaxCrashes = 1
    MaxFaults = 1
    MaxAbandons = 1
SYMMETRY Symmetry
INVARIANTS
    TypeOK
    OneOpenRunPerIdea
    NoIdeaLeftRunning
    ConsumedByARunThatUsedIt
    AnswersStayWithTheirIdea
    UsedAnswersAreConsumed
PROPERTIES
    KeepsTheLedger
    LiveRunIsClosedByItsNight
    RecordsAreFinal
