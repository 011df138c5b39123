SPECIFICATION PolitenessSpec
CONSTANTS
    Workers = {"ahead", "exact"}
    Domains = {"site"}
    Gaps = {1, 4}
    MaxWait = 2
    MaxSleep = 1
    MaxCall = 2
    NoKey = NoKey
    MaxTime = 4
    MaxUpsets = 1
    Offset <- MCOffset
    Lengths = {0, 1, 2}
    Patterns = {2}
    Delays = {1}
    MaxLines = 5
INVARIANTS WaitIsBounded ProtocolIsFollowed
PROPERTY GrantsSpaced
CHECK_DEADLOCK FALSE
