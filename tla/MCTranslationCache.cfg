SPECIFICATION Spec
CONSTANTS
    r1 = r1
    r2 = r2
    c1 = c1
    c2 = c2
    Runs <- MCRuns
    Clears <- MCClears
    Nobody = Nobody
    Models = {"fast", "slow"}
    Prompts = {"now", "before"}
    Heads = {"lupus"}
    Keys <- MCKeys
    NoKey = NoKey
    Requests <- MCRequests
    MaxRetries = 1
INVARIANTS
    TypeOK
    
    OwnTextShown
    RejectionsCapped
    RejectionsAccounted
SYMMETRY Symmetry
CHECK_DEADLOCK FALSE
