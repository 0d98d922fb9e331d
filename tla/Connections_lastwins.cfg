CONSTANTS
    alf = alf
    bre = bre
    c1 = c1
    c2 = c2
    c3 = c3
    c4 = c4
    None = None
    Conn = {c1, c2, c3}
    Feed = {alf, bre}
    FeedOf <- MCFeedOf
    LastWins = TRUE

SPECIFICATION FairSpec

INVARIANTS
    NoDoubleClose
    TrackerKnowsSession
    RemotesServe

PROPERTIES
    CloseReaches
    OfferDecided
