SPECIFICATION Spec
CONSTANTS
    Domains <- MCDomains
    Documents <- MCDocuments
    Candidates <- MCCandidates
    Children <- MCChildren
    Pages <- MCPages
    Listing <- MCListing
    Undated <- MCUndated
    Hollow <- MCHollow
    MaxVersions = 2
    Links <- MCLinks
    Crawlable <- MCCrawlable
    Events <- MCEvents
    MaxDepth = 2
    MaxLinks = 2
    CrawlMaxLen = 2
    LinkBatch = 2
    MaxCrawled = 3
    Hosts <- MCHosts
    Public <- MCPublic
    Certificates <- MCCertificates
    MaxHosts = 3
    MaxWait = 60
    MaxRefusals = 7
    MaxMessages = 2
    Topics = {feed}
    MaxSecrets = 3
    Scenes <- MCScenes
    MaxUpsets = 2
INVARIANTS RememberedIsAccounted AcknowledgedIsExtracted BackoffFollowsRefusals GenuineIsHeard
PROPERTIES ListedIsHandedOver WatchersComeUp
CHECK_DEADLOCK FALSE
