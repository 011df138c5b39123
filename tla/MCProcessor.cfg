SPECIFICATION FairSpec
CONSTANTS
    Consumers = {p1, p2}
    BatchSize = 2
    CrawlMaxLen = 2
    DocsMaxLen = 3
    MaxEvents = 3
    MaxUpsets = 1
INVARIANT TypeOK
INVARIANT HeldByOneAndPending
INVARIANT PublishedOnce
INVARIANT AcknowledgedIsPublished
PROPERTY RefinesStreamGroup
PROPERTY PageIsPublished
CHECK_DEADLOCK FALSE
