SPECIFICATION ApiSpec
CONSTANTS
    Requests = {r1, r2}
    Docs = {"old"}
    NoEntry = NoEntry
    MaxAsked = 2
    MaxUpsets = 1
    Matching <- MCMatching
    CrawledAt <- MCCrawledAt
    Queries <- Unlimited
    Clients = {c1, c2, c3}
    Channels <- MCChannels
    Unreported <- MCUnreported
    ReadCount = 2
    MaxEntries = 2
    MaxErrors = 1
    Documents <- MCDocuments
    Nameless = {"nameless"}
    Rankings <- MCRankings
    Bonuses <- MCBonuses
    PageSizes = {1, 2}
    CandidateCount = 3
    RRF_K = 60
    Scale = 238266
    MaxFailures = 1
INVARIANTS AnswersOwnTermAndMode HitPostdatesCommits UndisturbedReachesAll ServedIsRegistered PagesShowEachOnce UnanimityIsRespected
PROPERTIES CommitIsRecorded StaleIsFlushed FeedGoesOn
CHECK_DEADLOCK FALSE
