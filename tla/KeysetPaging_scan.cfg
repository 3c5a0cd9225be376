SPECIFICATION FairSpec
CONSTANTS
    Ids <- MCIds
    Limits = {0, 1, 2, 3}
    MaxWrites = 2
    Null = Null
    Refused = Refused
    Phones <- MCPhones
    Texts <- MCTexts
    Lookups <- MCLookups
    Tables <- MCTables
    Other <- MCOther
INVARIANTS
    Ascending
    NothingMissed
    FoundAsWritten
    LookupsKeepToPolicy
PROPERTIES
    PagesAdvance
    ScanEnds
