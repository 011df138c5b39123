# VeloxSearch in TLA+

VeloxSearch discovers URLs, crawls them, processes the pages and indexes them
within a minute. Its services share nothing but Redis, MinIO and the search
backends. This directory models what those services do to that shared state and
to each other, checks it with TLC on small instances, and proves the most
important properties with TLAPS for all parameters.

File names without a directory are those of the service under
`src/services/<service>/`.

## 1. The system

```
watchers ──on_url_found──> BF:url_dedup ──> QUEUE:urls ──BZPOPMAX──> crawlers
API submit / seed script ───────────────────────^                       │ robots, pacing, MinIO
                                                     STREAM:crawl_complete <┘
                                                               │ consumer group
                                                           processors
                                                               │
                                                      STREAM:docs_ready
                                                               │ consumer group
                                  Meilisearch, Qdrant, PostgreSQL, Redis <── indexers
                                        │                           │ CHANNEL:index_commits
                                     searches <── result cache <────┘
```

| Component | State | Operations | What makes it correct | Hard behaviour |
|---|---|---|---|---|
| URL frontier (`discovery/main.py`, `queue/`) | Bloom filter, sorted-set queue | `_on_url_found`, `push`, `pop`, `remove`, `clear`, `reset`; submit and seed bypass the filter | a page passes once, a task is in one place, submissions first | two awaits per discovery, several replicas, false positives, crash between the awaits |
| Discovery process (`discovery/main.py`) | five tasks | start, end at the first exception, stop | every watcher comes up again | one task raises, SIGTERM with loops that do not listen |
| Sitemap watcher (`watchers/sitemap.py`) | lastmod memory in Redis | poll cycle over domains, indexes, pages | what is remembered was dealt with, what the watcher gets to see is handed over | remembered before handed over, sitemaps read concurrently, entries that raise every time |
| Link extractor (`watchers/link_extractor.py`) | a consumer group | read, hand over, acknowledge | no event is acknowledged with links left | the form of the event is not the one the crawler writes; one link of a batch fails |
| Certificate scanner (`watchers/ct_logs.py`) | a connection, a wait | connect, stream, back off | waits follow the refusals in a row | connections that open and break |
| WebSub (`watchers/websub.py`) | subscription records, the hub's secret | subscribe, renew, verify, notify | a genuine notification passes, if it is unsigned or signed with SHA-256 | hub and record change in two steps, leases end, records without a time to live |
| Crawler (`cmd/main.go`, `http_fetcher.go`) | tasks in memory, redirect counter | take, robots, pace, fetch, store, publish | every task has one outcome and it is reported | destructive pop, shared counter, shutdown under way |
| robots cache (`robots.go`) | content per domain, 24 h | lookup, fetch, parse | disallowed pages are not requested | failures cached as "allow" |
| Rate limiter (`token_bucket.go`) | one key per domain | `Wait` | spacing per domain over all replicas, bounded wait | clocks, slow calls, eviction, valve |
| Storage (`minio_client.go`) | objects, hash → key | `Store` | a key names an object that is there | crash between upload and record |
| Processor (`processor/main.py`) | stream position, pending entries | read, fetch, pipeline, publish, ack | one replica per event, publish before ack, once | crash, failing ack, capped streams |
| Indexer (`indexer/main.py`, `writers/`) | four backends, retries, dead letters | concurrent writes, ack, failure handling | ack after all writes, nothing counted twice, backends independent | `gather` in `gather`, lost replies, closing connections on stop |
| Search and result cache (`api/`) | cache entries, last commit | search, get, set, commit subscription, expiry | an answer fits its query and its commits | stamps taken after the search, lost pub/sub messages |
| Rank fusion (`fusion.py`) | none | fuse, page | pages show each candidate once, unanimous verdicts stand | retrieved anew for each page, ties, hits without url |
| robots.txt parser (`robots.go`) | two rule sets | one line at a time | it applies our rules and no others | empty lines, repeated groups, several agents, `*` and `$` in paths |
| Pipeline stages (`processor/pipeline/`) | none | pure functions | | |
| Live feed (`websocket.py`) | set of connections, stream positions | accept, leave, read, broadcast | a broadcast during which nobody comes or goes reaches everybody; the feed goes on | set changed during an await |

`PROJECT.json` lists every component with its status, and every hazard of the
code with its line and the properties that watch it.

## 2. The modules

| Module | Models | State and actions |
|---|---|---|
| `Frontier` | `discovery/main.py`, `bloom_filter.py`, `redis_queue.py`, `url_task.py`, submit, `seed_urls.py` | `bits` is the Bloom filter as a set of bits, `queue` the sorted set as a set of members with a score; a call of `_on_url_found` is a record per handler: `AddSeen`/`AddNew` is BF.ADD, `Push` is ZADD NX, `AddFails`/`PushFails`/`Crash` what can happen instead. `Pop` takes a member of highest score. Scores are ten times those of the code. |
| `Crawler` | `cmd/main.go`, `http_fetcher.go`, the cache of `robots.go`, `minio_client.go` | one record per worker, whose `pc` is the next call of `processURL`; each call to Redis, MinIO or the site is an action with its outcomes. A task that cannot be read (`Malformed`) is dropped by `Take`. `redirectCount++` is a read and a write, and the comparison after it reads once more (`ReadCount`, `WriteCount`, `CompareCount`). `Shutdown` cancels the context: from then on calls fail. |
| `Streams` | Redis streams and groups (external) | a log, the position of the first entry kept, the group's cursor, the pending entries; XADD with an approximate cap may drop any prefix above it |
| `StreamGroup` | what a consumer group promises | every entry goes from unborn to new, delivered and acknowledged (or trimmed), each once |
| `TaskQueue` | what the URL queue promises | a task goes from unborn to waiting, taken and over, each once; unlike an entry of a stream it does not outlive the worker that took it |
| `Processor` | `processor/main.py` | a consumer holds positions `from..to` of a batch; fetch, pipeline, publish, ack are steps; an exception inside `_process_message` leaves the entry pending, one in `_ack` abandons the batch |
| `Indexer` | `indexer/main.py`, the writers' `write`, `init.sql` | a consumer holds a set of messages, each with the set of writes under way; a PostgreSQL write is one transaction with its foreign key; the signals writer is HSET and then PUBLISH |
| `ResultCache` | `search.py`, `result_cache.py`, the filters of `bm25.py` and `ann.py` | a request is a record whose `pc` is its next await; the clock counts readings of `time.time()`, so stamps are ordered as the readings were |
| `RateLimiter` | `token_bucket.go` | explicit time; a call is looking, waiting for the script or asleep; hosts' clocks are offset |
| `SitemapWatcher` | `watchers/sitemap.py` | a sitemap that is reached in two ways is two documents, with one listing; a file that is no sitemap lists nothing and counts as read. `domain` is where `_poll_domain` is in its candidates, `reader` the task that reads a document; `Check`, `Remember` and `Report` are the three awaits for a page. A page of `Hollow` has an empty lastmod and raises in `Check` every time. `memory` is emptied with the process: its keys are made by `hash()`, which differs from one process to the next |
| `Selection` | what the loops of `_extract_links`, `_filter_links` and `_process_message` do to a list | the elements at a set of places, in order |
| `LinkExtractor` | `watchers/link_extractor.py` | a consumer of a stream with the links of its event that are left. An event has one of two forms: `Crawled` writes the one of `publishCrawlEvent` ("data"), `Described` the one that `_process_event` documents and reads ("fields"), which nothing in the repository writes |
| `CTLogScanner` | `watchers/ct_logs.py` | the connection's state and the next wait, the domains of the certificate at hand |
| `WebSub` | `watchers/websub.py` | the records in Redis, which last for ever until an EXPIRE goes through, and the hub's secrets; each call of `subscribe` is `Request`, `StoreRecord`, `SetLifetime`. A notification comes unsigned, signed with SHA-256 or with another method |
| `Discovery` | `discovery/main.py` | composes the four by INSTANCE: `Start` begins their tasks, `EndOnException`, `Crash` and `Kill` end them, `Stop` is SIGTERM |
| `LiveFeed` | `routers/websocket.py` | the set of connections, the task that reads the streams, and the loop of `broadcast` as the members it has still to visit. Python's check of the set's size is modelled, and so is a loop over a set that changed and kept its size |
| `RobotsRules` | `parseRobots` of `robots.go` | a file grows line by line; the rule sets and the current group are the parser's variables. A path with `*` or `$` has a value, which the parser compares character by character, and a meaning, which the protocol gives it. The second half of the module reads the same lines as RFC 9309 does |
| `SearchPages` | `fusion.py`, the retrieval and paging of `search.py` | a client reads page after page; scores are integers on a common scale |

The modules of the watchers have their assumptions as definitions, which
`Discovery` assumes of its constants.

`MC*.tla` give the constants their values. `MCApi` puts `ResultCache`,
`LiveFeed` and `SearchPages` into one run, `MCPoliteness` `RateLimiter` and
`RobotsRules`: these share no state, so a behaviour is about one of them, its
`topic`, and the others rest. `*Proofs.tla` hold the proofs;
`StreamProofs` has the lemmas about `Streams` that proofs about consumers use,
`CrawlerProofs` is about `Crawler` and `RobotsRules`, and `ApiProofs` about
`ResultCache`, `LiveFeed` and `SearchPages`; the definitions of these have names
of their own (`RobotsSpec`, `FeedNext`, `PagesSpec`) for that reason.
Variables marked "history" record what happened for the properties; the code
has nothing of the kind and no guard reads them, but for `Frontier`'s bounds.

The services are composed at their interfaces: each module contains the steps of
its neighbours that it can see (`Crawled` and `Published` write the streams,
`Pop` reads the queue, `Index` and `Announce` are the indexer as the cache sees
it), with more freedom than the neighbour has.

## 3. The runs

Bounds are constants with the prefix `Max`; each is a guard of the actions it
limits. `MaxUpsets` bounds failures of all kinds together.

| Run | Question | Instance, and why it is enough |
|---|---|---|
| `frontier` | Is a page claimed once, is a task in one place, do submissions come first, is what is found crawled? | Two handlers on two replicas, a page in two spellings and one that collides with it, three tasks, two of which may be submissions or seeds, one upset: the collision, the duplicate, the failure between the awaits and a submission queued beside a seed or a watcher's task all occur with two concurrent calls. `FoundIsTaken` excuses the states in which submissions and seeds have used up the bound on tasks. |
| `crawler` | Do events name stored objects, has every task one outcome, is robots.txt respected, does the pool drain? | Two workers, four tasks (a page, a redirect to it, a disallowed page, and one that cannot be read) with one content, one upset: the two workers store the same content concurrently and share robots verdicts and the redirect counter. |
| `processor` | Is an event processed once, published before it is acknowledged, by one replica? | Two replicas, batches of two, three events, a cap of two, one upset: batches overlap, the cap trims unread events, and a failure hits any step. |
| `indexer` | Does acknowledgement follow the writes, is anything counted twice, does one backend hold up another? | Two replicas, two documents of one URL that may be good, not JSON, or not an `IndexedDocument`, one upset. |
| `api` | Is an answer searched for the terms and mode of its query, is it as fresh as the commits known when it was asked for, do stale entries go? Does a broadcast that nobody joined or left reach every client, does the set of connections stay right, does the feed go on? Do pages show each candidate once and keep unanimous verdicts? | Searches: two requests over two queries of different terms and modes, one page indexed in any order of backends and announcement, one upset. Feed: three clients, so that one can be sent to while another leaves and the third joins, which is what keeps the set's size; two entries, one failing call. Pages: all pairs of rankings of none, two or four documents of which three are candidates, one of them without url, two bonuses, pages of one and two, one failing retriever. Other bonuses and larger candidate counts change no comparison but of numbers. |
| `discovery` | Is what a watcher remembers or acknowledges handed over; does the scanner wait as long as it should; do genuine notifications pass; is every page that is seen handed over, and does every watcher come up again? | One watcher at a time has something to do (`Scenes`), since they share only the process; the others wait for their first answer. A domain with an index of two lists that share a page and a plain list as second candidate; pages in two versions, without lastmod, with an empty one, and behind that; three crawl events of both forms, with duplicates and links to filter; certificates longer than the limit, refusals up to the longest wait; three subscriptions of a feed, whose hub signs in any way. Two upsets, so that a failure meets a restart. |
| `politeness` | Are recorded grants spaced; does a call end? Does the parser of robots.txt apply the rules that the protocol gives the crawler? | Pacing: two workers whose clocks differ, gaps of 1 and 4 against a wait of 2 and calls of up to 2 ticks: calls may be slower than a gap, and a gap longer than the wait. Parser: all files of five lines, enough for two groups and a line out of place, with rules of two lengths, without value, for other paths, and with a `*` or `$`. |

Five further runs state what the code's own comments say and end with a
counterexample:

| Run | Claim | What happens |
|---|---|---|
| `redirect_limit` | `http_fetcher.go:15`: redirects are followed up to `MaxRedirects` hops | the counter belongs to the client, is shared by all workers and never reset; after that many redirects in the life of a process all others fail |
| `new_domain` | `postgres_writer.py:184`: the first crawl from a new domain creates its record | the page is inserted before the domain it refers to |
| `latest_crawl` | `postgres_writer.py:16`: the row reflects the latest crawl | the messages of a batch are written concurrently |
| `cache_since` | `result_cache.py:202`: all parameters that affect results are in the cache key | `build_cache_key` leaves out `since`, by which both retrievers filter: a search gets the pages of another with an earlier limit |
| `completed_pages` | `link_extractor.py:11-12`: for each completed page the links are parsed and enqueued | `publishCrawlEvent` writes one field, `data`, without HTML; `_process_event` reads `html`, finds none, and acknowledges. `PHASE_02_CRAWLER.md:384` says that the event has flat fields |

Other comments that the models do not bear out, each visible in the module named:

* `processor/main.py:277` "Don't ACK — message will be retried": the loops read
  with `>`, which never delivers a pending entry again, and nothing claims
  pending entries (`Processor`, `Indexer`; `RefinesStreamGroup` says that each
  entry is delivered once). So the dead-letter branch of `HandleFailure` is
  never taken for `MAX_RETRIES` above 1.
* `PHASE_05_API.md:272-276`: an entry older than a new document is not served.
  The stamp of an entry is taken after its search, so a page indexed in between
  is missing from a hit. `StaleIsFlushed` holds all the same: not because of
  invalidation, which can be missed, but because of the TTL.
* `websub.py:77` "renew expired subscriptions": the record of an expired one is
  gone, and renewal runs at start-up only (`WebSub`).
* `sitemap.py:282` "No lastmod → always enqueue": a page without lastmod is
  passed over while its key lives, twice the poll interval. Nor is everything
  enqueued that a site lists: `_poll_domain` returns after the first candidate
  that does not raise (158-163), a file that does not parse counts as one, and
  an empty lastmod raises (250) whenever its list is read, so what follows it is
  never seen. `ListedIsHandedOver` is about the pages that are seen (`IsSeen`).
* `bloom_filter.py:14-16` "1% of already-seen URLs will be incorrectly reported
  as new ... crawled twice": a Bloom filter errs the other way. What passed is
  never reported as new until a reset (`ClaimedOncePerEpoch`); 1% of new pages
  are turned away as seen, and never crawled (`IgnoredOnlyIfSeenOrCollision`
  says that this is the only way).
* `crawler/cmd/main.go:22-24` "Workers finish their current fetch, then exit
  cleanly": the context that is cancelled is the one of the fetch, so that its
  next call fails, its event's like the others; the task may be lost (`Shutdown`).
  `ShutdownCompletes` says no more than that every worker exits.
* `websocket.py:114-117` "Monitors three streams": `CHANNEL:index_commits` is a
  channel of pub/sub, and the loop reads the two streams only (`LiveFeed`).
* `robots.go:20` refers to RFC 9309. The parser takes `*` and `$` in paths
  literally, ends a group at an empty line (221), and keeps of several agents in
  a row the last only. `Disallow: /*.pdf$` forbids nothing, and a group whose
  second agent is another crawler is lost. `ProtocolIsFollowed` says which rules
  are applied on every file, and that nothing else differs from the protocol.
* `websub.py:234` refuses every signature but one of SHA-256, though the hub
  may sign with another method by W3C WebSub: such a notification is always
  turned down. `GenuineIsHeard` is about unsigned ones and SHA-256.
* `discovery/main.py:144` "Graceful shutdown": the loops of the sitemap watcher
  and of the link extractor are told nothing, so `start()` does not return
  until one of its tasks raises or the process is killed (`Stop`, `Kill`).

### Fairness and deadlock

Specifications assume only what schedulers give: a goroutine or coroutine whose
call has returned goes on (weak fairness of each process), calls return (HTTP
requests have timeouts, `Limiter.Wait` its valve, Redis clients those of the
libraries; that an upload to MinIO returns is an assumption, as the code gives
it a context without a deadline), Redis expires keys. Nothing is
assumed about arrivals, failures, restarts or shutdowns. In `Frontier` the
crawlers' pop is assumed to be repeated, as `runWorker` does. In `Discovery`
the container is started again (`restart: unless-stopped`) and the event loop
runs each task on; keys of the lastmod memory end. In `LiveFeed` the server's
own pings end a send to a client that no longer reads, and wake the handler of
a broken connection; clients are assumed to do nothing. `RateLimiter` has
explicit time instead of fairness: time does not pass a timer that is due.

Deadlock is not checked (`CHECK_DEADLOCK FALSE`): in every model all processes
may be waiting for work, or have been stopped, once the bounds are reached, as
they may in the system. That work is not left over then is what `FoundIsTaken`,
`TaskReported`, `ShutdownCompletes`, `PageIsPublished`, `EveryBackendSettles`,
`CommitIsRecorded`, `ListedIsHandedOver`, `WatchersComeUp` and `FeedGoesOn` say.

## 4. The proofs

All proofs assume only the named assumptions on constants (`FrontierAssumption`,
`CrawlerAssumption` and so on): parameters are numbers, functions have their
domains, a document of a sitemap index is listed by one index only, an engine's
ranking has a document once, `RRF_K` is at least 60. TLC evaluates them in the
runs. One theorem has a hypothesis of its own, named below. Every safety
property and action property of the runs that are expected to pass is proved.
An invariant that is not a property of a run is found beside its lemmas; each
was put to TLC on the run's instance, or proved to be inductive, or both.

* `FrontierProofs`. `FrontierTypes`; `Deduplication` (`ClaimedOncePerEpoch`);
  `TurnedAwayRightly` (`IgnoredOnlyIfSeenOrCollision`); `Custody`
  (`OnePlacePerTask`); `SubmissionsFirst`. Deduplication is not inductive alone:
  the invariant adds that the bits set are those of the pages that passed in
  this epoch, so that a second BF.ADD of one answers "seen", and one that
  answers so has a reason. Custody needs that ids are not reused
  (everything issued is older than `nextId`) and that a handler's task and a
  queued member agree. `SubmissionsFirst` needs the scores of what is queued:
  no task but a submission reaches a submission's score. `TasksEnterOnce`: the
  frontier implements `TaskQueue`, where a task in a handler's hand waits like a
  queued one, since both are lost or handed on once.
* `CrawlerProofs`. `CrawlerTypes`; `NamedObjectsExist` (`KeysAreStored`);
  `DuplicatesHaveOriginals` (`DuplicateHasOriginal`); `TasksHaveOneOutcome`
  (`OneOutcomePerTask`); `RobotsAreRespected` (`RobotsRespected`). The invariant
  `CrawlerInv` says what a worker knows at each step (that its URL was admitted,
  that the object it is about to record is stored, that its event tells of its
  own task), and that every hash record has a successful crawl behind it, told
  or on its way. A duplicate's original may be an event that was lost: the
  record outlives the worker that wrote it. `TasksTakenOnce`: the crawlers
  implement `TaskQueue` from the queue on. The two mappings meet at "taken": the
  frontier's tasks end there, the crawlers' are over with their event or without
  one. So there is no second delivery anywhere on this path: BZPOPMAX has no
  pending list, and what a crash takes is lost.
* `CrawlerProofs`, the parser of robots.txt. `RobotsTypes`;
  `RobotsFollowProtocol` (`ProtocolIsFollowed`), for files of any length. The
  parser keeps pointers (the current group, whether it is still open) where the
  protocol looks back over the file. The invariant joins the two: the rules the
  parser has taken are those of the lines `Taken`, the ones in a group that
  names the agent with neither an agent line of another nor an empty line in
  between. These are exactly the rules that the protocol gives the crawler and
  that are not cut off (`Uncut`), on every file: nothing of another agent, and
  nothing of everybody's where the crawler is named. Where nothing is cut off
  and no rule has a `*` or `$` (`Plain`), the verdict by the longest rule of a
  set is then compared with the protocol's verdict by all rules.
* `StreamProofs`. What XADD, XREADGROUP and XACK do to the phase of each entry.
* `ProcessorProofs`. `ProcessorTypes`, `Exclusion`, `AtMostOneDocument`,
  `AcknowledgedAfterPublishing`, and `ProcessorsReadOnce`: the processors
  implement `StreamGroup`. The inductive invariant `ProcessorInv` says that what
  a consumer holds is delivered and pending, that two consumers hold different
  entries, that what is published was delivered and is not still ahead of its
  holder's place in the batch, and that what is settled is published or needs no
  document.
* `IndexerProofs`. `IndexerTypes`; `AcknowledgedAfterWrites`
  (`AckedAfterWrites`); `LoggedAtMostOnce` (`LoggedOnce`); `IndexersReadOnce`:
  the indexers implement `StreamGroup` as well. `IndexerInv` follows a document
  from its delivery: it is in at most one batch and pending while it is; of its
  writes each has an outcome or is still to be waited for; what the crawl log
  has was delivered, and its PostgreSQL write is not waited for.
* `RateLimiterProofs`. `RateLimiterTypes`, `WaitEnds`, `Politeness`. The
  invariant ties the key to the latest grant while the key lives, gives the time
  by which an expired key's grant is two gaps old, and bounds the time at each
  place of a call.
* `ApiProofs`, the result cache. `ResultCacheTypes`; `HitsPostdateCommits`
  (`HitPostdatesCommits`); `AnswersAreOwn` (`AnswersOwnTermAndMode`). The invariant
  orders times: what a request knew to be committed was recorded before the
  commit that `LAST_INDEX_COMMIT` shows, and a stamp checked against it is
  later. `AnswersAreOwn` holds for all queries: an entry has the key of the
  query it was searched for, and a key holds terms and mode. It says nothing of
  `since`, which the key lacks; there the run `cache_since` has a counterexample.
* `ApiProofs`, the live feed. `FeedTypes`; `UndisturbedBroadcasts`
  (`UndisturbedReachesAll`); `RegisteredWhileServed` (`ServedIsRegistered`).
  While a loop is undisturbed, the set has the size it began with, and whom it
  has not reached is next, to do, or gone; so it cannot end by an exception or
  early. Whoever a loop will discard is no longer connected.
* `ApiProofs`, the search pages. `PagesTypes`; `PagesCutOneRanking`
  (`PagesShowEachOnce`); `VerdictsStand` (`UnanimityIsRespected`). Sorting is
  defined by counting: a document has as many places before it as there are
  documents that precede it. `Precedes` is shown to be a total order, so the
  counts are an injection of n documents into 1..n and reach every number
  (a pigeonhole argument, in place of an induction over the ranking); so `Fuse`
  has each candidate once, in order. Every page is then a cut of that one
  ranking (`CutsInv`). For the verdicts: reciprocals of ranks decrease, and with
  `RRF_K` at least 60 the cap on the sum does not bite, so that a document which
  both engines prefer stays ahead.
* `DiscoveryProofs`. What a step of the service is for each watcher comes first:
  a step of its own, its begin, its cancellation, or the closing of its client.
  `NotificationsPass` (`GenuineIsHeard`): while a topic is not torn, one call is
  under way and the hub has the secret that is about to be recorded, or is; a
  call that the hub accepted while no other is under way makes it whole again.
  `MemoryIsAccounted` (`RememberedIsAccounted`): a reader about to remember or
  report holds what it is about, and the documents of an index rest unless it
  waits for them, so that a reading under way is never started over.
  `AcknowledgedAfterLinks` (`AcknowledgedIsExtracted`): of the event at hand
  each link was handed over or is left. `LinksStemFromFields` says what becomes
  of whom: each link that was handed over stems from an event of the form
  "fields" and is a crawlable link of its page, not beyond the depth
  (`LinksStem`); of such an event, once acknowledged, all go on if they are
  within the limits (`LinksAreHandedOver`); and while the crawlers alone write
  the stream none ever does (`CrawlersLeadNowhere`), which is the bug of
  `completed_pages` for all parameters. For the second `Picked` is proved to
  list each of its places once and in order: counting the places up to one is a
  bijection onto 1..n, again by the pigeonhole argument. `ExtractorReadsOnce`: the
  extractor is a third implementation of `StreamGroup`. `WaitsFollowRefusals`
  (`BackoffFollowsRefusals`): the next wait is twice the last up to the limit;
  the count stops where the limit is reached. Its hypothesis `PowersOfTwo` is
  the law of powers of two, which the prover does not know. `DiscoveryTypes`
  (`TypeOK` of the whole service) joins the invariants of the watchers in
  `DiscoveryInv`; what the process adds is that a task that is off takes no step
  until `Start`.

Only model-checked:

* The liveness properties: `FoundIsTaken`, `TaskReported`, `ShutdownCompletes`,
  `PageIsPublished`, `EveryBackendSettles`, `CommitIsRecorded`,
  `StaleIsFlushed`, `ListedIsHandedOver`, `WatchersComeUp`, `FeedGoesOn`.
  Fairness is outside the prover's reach.

## 5. What is left out

* Contents: pages, embeddings, ranking, formats. A payload is a kind or a name.
* Pipeline stages: the processor's model has their outcome only (a document,
  nothing, an exception). They are computations over text and models.
* `browser crawler`: nothing starts it. `main.py` and `status.py` of the API are
  copies of `websocket.py` and `search.py`; the API is modelled as if the
  start-up that `search.py` and `result_cache.py` describe ran.
* Forms of a notification: its signature's method is kept, its body is pages.
* The unit of `contentHashTTL` (`minio_client.go:53`): 604800 is passed as a
  Go duration, that is 0.6 ms. The model lets the entry expire at any time.
* A redirect's target is not checked against robots.txt nor paced; the property
  `RobotsRespected` is about the task's own URL.
* The header of `token_bucket.go` describes a counter per second; the code keeps
  the latest grant. The model follows the code.
* Parsing of XML, HTML, feeds and certificates: a document is what it lists.
  `add_domain` of the sitemap watcher has no caller.
* Limits of concurrency (ten domains, five child sitemaps): above the instances.
* A page crawled in the very second that `since` names: `bm25.py:103` excludes
  it, `ann.py:118` has it. The model has both comparisons; no property is about
  the difference.
* Wall-clock time: a key ends, a lease ends and a wait is over at any time after
  it began; only `RateLimiter` has a clock.
* The start-up of a processor and of an indexer is one step (`Init`, `Restart`).
  Read in the code, not checked: a signal that arrives before
  `self._running = True` (`processor/main.py:132`, `indexer/main.py:130`) runs
  `stop()`, which that assignment then undoes, so the process goes on until it is
  killed (the indexer with its PostgreSQL pool closed if it was open). And
  `_ensure_collection` of `qdrant_writer.py` makes the payload indexes only in
  the call that makes the collection: a process that ends in between, or whose
  call for a field fails, leaves them missing, as later start-ups return early.
* Sizes of pages: the offset of `/search` goes to 950 and `total` counts all
  hits, but pages beyond the 50 candidates are empty. `PagesShowEachOnce` speaks
  of the candidates.
* `add_many`, `push_many`, `stream`, `write_batch`, `invalidate_pattern`: nothing
  calls them.

## 6. Plan

Done: the modules of section 2 and the proofs of section 4. Next:

The stream promise for `docs_ready` and `crawl_complete` together: what one
service acknowledges was written for the next.
