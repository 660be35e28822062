\* Three conversations, one of them with two turns, a cache one entry too small.
SPECIFICATION FairSpec
CONSTANTS
    Conversations = {c1, c2, c3}
    NumServers = 2
    MaxCacheSize = 2
    MaxTurns <- Turns
    Returning = {c1}
    Timeouts = TRUE
INVARIANTS InflightAccounting OrphansOnlyAfterFailure FairShare
PROPERTIES StickyUnlessEvicted AllReleased
