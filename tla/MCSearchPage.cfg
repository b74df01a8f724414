\* A search of three rounds; connections drop, or are refused.
SPECIFICATION PageSpec
CONSTANTS
    r1 = r1
    RunIds = {r1}
    Watched = r1
    Planned = 3
    MaxDrops = 2
    MaxWire = 2
    MayRefuse = TRUE
INVARIANTS StreamIsTheLog PageShowsTheSearch
PROPERTIES SubscriberIsTold NoPageSpinsForEver
CHECK_DEADLOCK FALSE
