SPECIFICATION OpsSpec
CONSTANTS
    Artifacts = {a1}
    Payloads = {p1}
    Slots = {s1, old}
    OldSlots = {old}
    Starters = {night, api}
    Latest = 2
    MaxAccidents = 3
INVARIANTS
    CopiesAreWorthRestoring
    RestoredIsTheCopy
