SPECIFICATION FairSpec
CONSTANTS
    Main = main
    Others = {other}
    Jobs = {j1}
    Batches <- Reports
    MaxInvocations = 2
    MaxFaults = 1
INVARIANTS
    FiledUnderItsCaller
    EveryTurnIsAccountedFor
    PayloadIsThere
PROPERTIES
    EveryInvocationCloses
