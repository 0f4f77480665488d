SPECIFICATION Spec
CONSTANTS
    tlg1 = tlg1
    tlg2 = tlg2
    per1 = per1
    first = first
    text = text
    json = json
    urn2 = urn2
    none1 = none1
    none2 = none2
    None = None
    Works <- MCWorks
    Collection <- MCCollection
    Language <- MCLanguage
    Urn <- MCUrn
    Minted <- MCMinted
    Book <- MCBook
    Twin <- MCTwin
    Stream <- MCStream
    MaxBuilds = 3
    Tables <- MCTables
    Commands <- MCCommands
    MaxEdits = 1
INVARIANTS
    TypeOK
    SupersededAreGone
    ClassifiedAreListed
    BuiltFits
PROPERTIES
    SliceKeepsOthers
CHECK_DEADLOCK FALSE
