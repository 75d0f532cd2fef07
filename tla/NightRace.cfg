SPECIFICATION Spec
CONSTANTS
    Entries = {e1}
    Runs = {r1, r2, r3}
    Decisions = {d1, d2}
    Nights = {n1}
    Clients = {c1, c2}
    NoEntry = NoEntry
    NoRun = NoRun
    NoDecision = NoDecision
    NoNight = NoNight
    MaxCrashes = 0
    MaxFaults = 0
    MaxAbandons = 0
INVARIANTS
    AnswerHasANight
