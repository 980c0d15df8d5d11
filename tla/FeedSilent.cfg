SPECIFICATION FeedSpec
CONSTANTS
    ReplaySize = 2
    RecentSize = 2
    FeedSize = 3
    MaxEvents = 3
    MaxFaults = 0
PROPERTIES
    SentIsShown
CHECK_DEADLOCK FALSE
