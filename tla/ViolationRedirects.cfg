SPECIFICATION Spec
CONSTANTS
    Workers = {w1, w2}
    Tasks = {"t1", "t2"}
    Malformed = {}
    Urls = {"p", "r", "s"}
    Domains = {"site"}
    Contents = {"A"}
    NoUrl = NoUrl
    NoKey = NoKey
    MaxRedirects = 1
    MaxUpsets = 0
    UrlOf <- AllRedirected
    DomainOf <- MCDomainOf
    Allowed <- MCAllowed
    Redirect <- MCRedirect
    Serves <- MCServes
INVARIANT LegalChainsFollowed
CHECK_DEADLOCK FALSE
