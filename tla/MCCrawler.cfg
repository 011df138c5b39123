SPECIFICATION FairSpec
CONSTANTS
    Workers = {w1, w2}
    Tasks = {"t1", "t2", "t3", "garbled"}
    Malformed = {"garbled"}
    Urls = {"p", "r", "s"}
    Domains = {"site"}
    Contents = {"A"}
    NoUrl = NoUrl
    NoKey = NoKey
    MaxRedirects = 1
    MaxUpsets = 1
    UrlOf <- MCUrlOf
    DomainOf <- MCDomainOf
    Allowed <- MCAllowed
    Redirect <- MCRedirect
    Serves <- MCServes
INVARIANT KeysAreStored
INVARIANT DuplicateHasOriginal
INVARIANT OneOutcomePerTask
INVARIANT RobotsRespected
PROPERTY TaskReported
PROPERTY ShutdownCompletes
CHECK_DEADLOCK FALSE
