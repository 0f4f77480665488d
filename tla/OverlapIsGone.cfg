SPECIFICATION Spec
CONSTANTS
    tlg1 = tlg1
    tlg2 = tlg2
    per1 = per1
    first = first
    text = text
    json = json
    urn2 = urn2
    none1 = none1
    none2 = none2
    None = None
    Works <- OverlapWorks
    Collection <- MCCollection
    Language <- MCLanguage
    Urn <- MCUrn
    Minted <- MCMinted
    Book <- MCBook
    Twin <- OverlapTwin
    Stream <- OverlapStream
    MaxBuilds = 1
    Tables <- OverlapTables
    Commands <- OverlapCommands
    MaxEdits = 0
INVARIANTS
    OverlapIsGone
CHECK_DEADLOCK FALSE
