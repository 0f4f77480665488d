SPECIFICATION Spec
CONSTANTS
    l1 = l1
    l2 = l2
    Lookups = {l1, l2}
    Blank = Blank
    None = None
    MaxInFlight = 2
INVARIANTS
    TypeOK
    ShownServesSearch
    EnrichingHasCause
PROPERTIES
    RetryEnds
