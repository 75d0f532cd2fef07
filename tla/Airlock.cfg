SPECIFICATION FairSpec
CONSTANTS
    Ideas = {p, a}
    Private = {p}
    HasSpeech = FALSE
    Pins = {"none", "workstation"}
    Texts <- Sentences
    Openers = {5}
    Dull = {7}
    Sensitive = {6}
    MaxTerms = 3
    MaxRun = 3
    MinTerms = 2
    MaxPieces = 2
    MaxRuns = 4
    MaxMishaps = 1
INVARIANTS
    NothingPrivateLeaves
    QueryCarriesNoPhrase
PROPERTIES
    BlockedIsReleased
