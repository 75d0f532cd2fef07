SPECIFICATION FairSpec
CONSTANTS
    Entries = {1, 2}
    DayOf <- TwoDays
    Lines = {l1}
    Syncs = {s1}
    Nights = {n1}
    Overlap = FALSE
    MaxMishaps = 2
INVARIANTS
    JournaledOnce
    UnfinishedThoughtsStayOut
    RecordsOfCommitsAreTrue
PROPERTIES
    EveryEntryIsJournaled
