SPECIFICATION TabSpec
CONSTANTS
    MAX_EVENTS = 2
    LogLines = 1
    MaxResults = 3
    MaxFails = 2
    MaxFires = 2
    MaxPolls = 2
    MaxStops = 1
INVARIANTS
    ConnectionIsKnown
    FeedIsInOrder
    JournalIsHonest
PROPERTIES
    OrphanIsTheLast
    ShownOnline
CHECK_DEADLOCK FALSE
