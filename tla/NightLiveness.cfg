SPECIFICATION FairSpec
CONSTANTS
    Entries = {e1, e2}
    Runs = {r1, r2, r3}
    Decisions = {d1}
    Nights = {n1}
    Clients = {c1}
    NoEntry = NoEntry
    NoRun = NoRun
    NoDecision = NoDecision
    NoNight = NoNight
    MaxCrashes = 1
    MaxFaults = 1
    MaxAbandons = 0
PROPERTIES
    QuietAnswersHaveANight
    AnswerReachesARun
    QueuedIdeaIsWorked
    RunningIdeaIsReleased
    OpenRunIsClosed
