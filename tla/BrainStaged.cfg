SPECIFICATION Spec
CONSTANTS
    Entries = {1, 2}
    DayOf <- TwoDays
    Lines = {l1}
    Syncs = {s1}
    Nights = {}
    Overlap = FALSE
    MaxMishaps = 1
INVARIANTS
    HandEditsStayUncommitted
