SPECIFICATION FairSpec
CONSTANTS
    Urls = {"a", "a/", "c"}
    Bits = {1, 2, 3, 4}
    Submissions = {"a"}
    Watchers = {"websub"}
    Handlers = {"h1", "h2"}
    Replicas = {"r1", "r2"}
    MaxTasks = 3
    MaxBypass = 2
    MaxUpsets = 1
    Canon <- MCCanon
    Hash <- MCHash
    ReplicaOf <- TwoReplicas
INVARIANT TypeOK
INVARIANT ClaimedOncePerEpoch
INVARIANT IgnoredOnlyIfSeenOrCollision
INVARIANT OnePlacePerTask
PROPERTY SubmittedFirst
PROPERTY FoundIsTaken
CHECK_DEADLOCK FALSE
