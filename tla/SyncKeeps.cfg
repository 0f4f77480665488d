SPECIFICATION Spec
CONSTANTS
    tlg1 = tlg1
    tlg2 = tlg2
    per1 = per1
    first = first
    text = text
    json = json
    urn2 = urn2
    none1 = none1
    none2 = none2
    None = None
    Works <- PairWorks
    Collection <- MCCollection
    Language <- PairLanguage
    Urn <- MCUrn
    Minted <- PairMinted
    Book <- MCBook
    Twin <- PairTwin
    Stream <- PairStream
    MaxBuilds = 2
    Tables <- PairTables
    Commands <- PairCommands
    MaxEdits = 0
PROPERTIES
    SyncKeeps
CHECK_DEADLOCK FALSE
