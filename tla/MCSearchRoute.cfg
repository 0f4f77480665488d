SPECIFICATION RouteSpec
CONSTANTS
    r1 = r1
    r2 = r2
    c1 = c1
    c2 = c2
    Runs = {r1, r2}
    Clears = {c1}
    Nobody = Nobody
    Models = {"fast"}
    Prompts = {"now"}
    Heads = {"lupus"}
    Keys <- MCKeys
    NoKey = NoKey
    Requests <- MCRequests
    MaxRetries = 1
    Urls = {"/a", "/b"}
    WebKey <- MCKey
    MaxEntries = 1
    TTL = 2
    MaxTime = 2
INVARIANTS
    RouteTypeOK
    ServedWithinTTL
    OnlyOverlapRevives
PROPERTIES
    EveryRequestAnswered
CHECK_DEADLOCK FALSE
