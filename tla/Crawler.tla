------------------------------- MODULE Crawler -------------------------------
(***************************************************************************)
(* The Go crawler: a pool of workers in one process, each running          *)
(* runWorker's loop pop - robots - rate limit - GET - store - publish.     *)
(*                                                                         *)
(* The workers share the context that a shutdown cancels, the robots.txt   *)
(* cache and the content-hash records in Redis, the objects in MinIO and   *)
(* one redirect counter inside the shared http.Client.  Each Redis, MinIO  *)
(* or HTTP call is a step; after the cancellation every such call fails.   *)
(* What the queue hands out and when the limiter lets go is the business   *)
(* of Frontier and RateLimiter.                                            *)
(***************************************************************************)
EXTENDS Integers

CONSTANTS
    Workers,
    Tasks,         \* tasks waiting in QUEUE:urls when the crawler starts
    Urls,
    Malformed,     \* tasks that json.Unmarshal turns down
    UrlOf,         \* [Tasks -> Urls]
    DomainOf,      \* [Urls -> Domains]
    Domains,
    Allowed,       \* [Urls -> BOOLEAN]: what the site's robots.txt says
    Redirect,      \* [Urls -> Urls \cup {NoUrl}]: Location of a 3xx answer
    NoUrl,
    Contents,      \* bodies of HTML pages
    Serves,        \* [Urls -> Contents \cup {"binary", "missing"}]: the final answer
    NoKey,         \* no MinIO key
    MaxRedirects,  \* HTTP_MAX_REDIRECTS
    MaxUpsets      \* bound: failing calls, shutdowns and crashes together

ASSUME CrawlerAssumption ==
    /\ Malformed \subseteq Tasks
    /\ UrlOf \in [Tasks -> Urls] /\ DomainOf \in [Urls -> Domains]
    /\ Allowed \in [Urls -> BOOLEAN] /\ Redirect \in [Urls -> Urls \cup {NoUrl}]
    /\ NoUrl \notin Urls /\ {"binary", "missing"} \cap Contents = {}
    /\ Serves \in [Urls -> Contents \cup {"binary", "missing"}]
    /\ NoKey \notin Domains \X Contents
    /\ MaxRedirects \in Nat /\ MaxUpsets \in Nat

VARIABLES
    queue,          \* tasks not yet popped
    running,        \* FALSE once the context is cancelled
    worker,         \* [Workers -> WorkerState]
    redirectCount,  \* captured by CheckRedirect, shared by every request
    robots,         \* [Domains -> {"absent", "rules", "empty"}]: ROBOTS:{domain}
    contentHash,    \* [Contents -> Keys \cup {NoKey}]: CONTENTHASH:{hash}
    objects,        \* the keys stored in MinIO
    stream,         \* the events published on STREAM:crawl_complete
    requested,      \* history: every GET of a page
    lost,           \* history: events, finished or not, that got lost
    upsets

vars == <<queue, running, worker, redirectCount, robots, contentHash, objects,
          stream, requested, lost, upsets>>
redis == <<robots, contentHash>>

-----------------------------------------------------------------------------
Keys == Domains \X Contents
Key(t, content) == <<DomainOf[UrlOf[t]], content>>

Idle == [pc |-> "idle"]
At(w, pc) == worker[w].pc = pc
Busy(w) == ~At(w, "idle") /\ ~At(w, "exited")

\* The event under construction once the outcome of the crawl is known.
Event(t, status, key, error) == [task |-> t, status |-> status, key |-> key, error |-> error]
Publishing(t, status, key, error) ==
    [pc |-> "publish", task |-> t, event |-> Event(t, status, key, error)]
Unfinished(t) == Event(t, "none", NoKey, "none")
Failed(t, status, error) == Publishing(t, status, NoKey, error)

Become(w, state) == worker' = [worker EXCEPT ![w] = state]
Upset == /\ upsets < MaxUpsets
         /\ upsets' = upsets + 1
\* A call fails: by itself, or because the context is cancelled.
CallFails == IF running THEN Upset ELSE UNCHANGED upsets
CallSucceeds == running /\ UNCHANGED upsets

-----------------------------------------------------------------------------
Init ==
    /\ queue = Tasks
    /\ running = TRUE
    /\ worker = [w \in Workers |-> Idle]
    /\ redirectCount = 0
    /\ robots = [d \in Domains |-> "absent"]
    /\ contentHash = [c \in Contents |-> NoKey]
    /\ objects = {} /\ stream = {} /\ requested = {} /\ lost = {}
    /\ upsets = 0

\* Mutant of Take: the task is read and stays in the queue.
TakePeeks(w, t) ==
    /\ At(w, "idle") /\ t \in queue
    /\ CallSucceeds
    /\ Become(w, [pc |-> "robots", task |-> t])
    /\ UNCHANGED <<queue, running, redirectCount, redis, objects, stream, requested, lost>>

\* BZPopMax hands the task over and forgets it; the reply may get lost, and a
\* task that cannot be read is logged and dropped.
Take(w, t) ==
    /\ At(w, "idle") /\ t \in queue
    /\ queue' = queue \ {t}
    /\ \/ /\ CallSucceeds /\ t \notin Malformed
          /\ Become(w, [pc |-> "robots", task |-> t])
          /\ UNCHANGED lost
       \/ /\ (running /\ Upset) \/ (CallSucceeds /\ t \in Malformed)
          /\ lost' = lost \cup {Unfinished(t)}
          /\ UNCHANGED worker
    /\ UNCHANGED <<running, redirectCount, redis, objects, stream, requested>>

\* Mutant of Exit: the worker leaves only when it finds the queue empty.
ExitOnEmptyQueue(w) ==
    /\ At(w, "idle") /\ ~running /\ queue = {}
    /\ Become(w, [pc |-> "exited"])
    /\ UNCHANGED <<queue, running, redirectCount, redis, objects, stream, requested, lost, upsets>>

\* Cancelled context: the worker returns instead of popping again.
Exit(w) ==
    /\ At(w, "idle") /\ ~running
    /\ Become(w, [pc |-> "exited"])
    /\ UNCHANGED <<queue, running, redirectCount, redis, objects, stream, requested, lost, upsets>>

\* Mutant of Judge: the verdict is logged and the crawl goes on.
JudgeNothing(w, content) ==
    Become(w, [pc |-> "limit", task |-> worker[w].task, open |-> content = "empty"])

\* What Fetch makes of the robots.txt content: the page's rules or, for an
\* empty file, no rules at all.
Judge(w, content) ==
    LET t == worker[w].task IN
    IF content = "rules" /\ ~Allowed[UrlOf[t]]
    THEN Become(w, Failed(t, "robots_block", "robots"))
    ELSE Become(w, [pc |-> "limit", task |-> t, open |-> content = "empty"])

\* RobotsCache.IsAllowed: the cached copy decides; an error of Redis allows the
\* URL; a miss is followed by a fetch.
ReadRobots(w) ==
    LET t == worker[w].task
        cached == robots[DomainOf[UrlOf[t]]]
    IN  /\ At(w, "robots")
        /\ \/ /\ CallSucceeds
              /\ IF cached = "absent" THEN Become(w, [pc |-> "fetchRobots", task |-> t])
                                      ELSE Judge(w, cached)
           \/ CallFails /\ Judge(w, "empty")
        /\ UNCHANGED <<queue, running, redirectCount, redis, objects, stream, requested, lost>>

\* fetchRobotsTxt, and the SET of its answer: a failed fetch and a 5xx are
\* cached as an empty file.  With the context cancelled the SET fails too.
FetchRobots(w) ==
    LET d == DomainOf[UrlOf[worker[w].task]]
        Answer(content) == /\ Judge(w, content)
                           /\ robots' = [robots EXCEPT ![d] = IF running THEN content ELSE @]
    IN  /\ At(w, "fetchRobots")
        /\ \/ CallSucceeds /\ Answer("rules")
           \/ CallFails /\ Answer("empty")
        /\ UNCHANGED <<queue, running, redirectCount, contentHash, objects, stream, requested, lost>>

\* Limiter.Wait returns nil sooner or later, or the context's error.
Wait(w) ==
    LET t == worker[w].task IN
    /\ At(w, "limit")
    /\ IF running
       THEN Become(w, [pc |-> "get", task |-> t, url |-> UrlOf[t], open |-> worker[w].open])
       ELSE Become(w, Failed(t, "fetch_error", "cancelled"))
    /\ UNCHANGED <<queue, running, redirectCount, redis, objects, stream, requested, lost, upsets>>

\* Mutant of Get: when the exchange fails processURL returns without an event.
GetFailsSilently(w) ==
    LET s == worker[w] IN
    /\ At(w, "get")
    /\ \/ /\ CallSucceeds
          /\ requested' = requested \cup {[task |-> s.task, url |-> s.url, open |-> s.open]}
          /\ Become(w, IF Redirect[s.url] # NoUrl THEN [s EXCEPT !.pc = "hop"] ELSE Idle)
       \/ CallFails /\ Become(w, Idle) /\ UNCHANGED requested
    /\ UNCHANGED <<queue, running, redirectCount, redis, objects, stream, lost>>

\* One HTTP exchange of client.Do: the page, a redirect, an answer that Fetch
\* turns down, or no answer.
Get(w) ==
    LET s == worker[w] IN
    /\ At(w, "get")
    /\ \/ /\ CallSucceeds
          /\ requested' = requested \cup {[task |-> s.task, url |-> s.url, open |-> s.open]}
          /\ Become(w, CASE Redirect[s.url] # NoUrl ->
                              [s EXCEPT !.pc = "hop"]
                         [] Redirect[s.url] = NoUrl /\ Serves[s.url] = "missing" ->
                              Failed(s.task, "http_error", "status")
                         [] Redirect[s.url] = NoUrl /\ Serves[s.url] = "binary" ->
                              Failed(s.task, "fetch_error", "not_html")
                         [] OTHER ->
                              [pc |-> "lookup", task |-> s.task, body |-> Serves[s.url]])
       \/ /\ CallFails
          /\ Become(w, Failed(s.task, "fetch_error", "network"))
          /\ UNCHANGED requested
    /\ UNCHANGED <<queue, running, redirectCount, redis, objects, stream, lost>>

\* CheckRedirect: `redirectCount++` by any number of goroutines without a lock
\* is a read and a write with other workers' steps in between, ...
ReadCount(w) ==
    LET s == worker[w] IN
    /\ At(w, "hop")
    /\ Become(w, [pc |-> "count", task |-> s.task, url |-> s.url, open |-> s.open,
                  read |-> redirectCount])
    /\ UNCHANGED <<queue, running, redirectCount, redis, objects, stream, requested, lost, upsets>>

WriteCount(w) ==
    LET s == worker[w] IN
    /\ At(w, "count")
    /\ redirectCount' = s.read + 1
    /\ Become(w, [pc |-> "compare", task |-> s.task, url |-> s.url, open |-> s.open])
    /\ UNCHANGED <<queue, running, redis, objects, stream, requested, lost, upsets>>

\* ... and `redirectCount > cfg.MaxRedirects` may be one more read, or reuse the
\* value just written, which is the case without steps in between.
CompareCount(w) ==
    LET s == worker[w] IN
    /\ At(w, "compare")
    /\ IF redirectCount > MaxRedirects
       THEN Become(w, Failed(s.task, "fetch_error", "redirects"))
       ELSE Become(w, [pc |-> "get", task |-> s.task, url |-> Redirect[s.url], open |-> s.open])
    /\ UNCHANGED <<queue, running, redirectCount, redis, objects, stream, requested, lost, upsets>>

\* Mutant of LookUp: the hash is reserved before the object is stored.
LookUpReserves(w) ==
    LET s == worker[w]
        known == contentHash[s.body]
    IN  /\ At(w, "lookup") /\ CallSucceeds
        /\ contentHash' = [contentHash EXCEPT ![s.body] = IF @ = NoKey THEN Key(s.task, s.body) ELSE @]
        /\ Become(w, IF known = NoKey THEN [s EXCEPT !.pc = "put"]
                     ELSE Publishing(s.task, "duplicate", known, "none"))
        /\ UNCHANGED <<queue, running, redirectCount, robots, objects, stream, requested, lost>>

\* StorageClient.Store, one call after the other.  A failing GET counts as
\* "not stored"; a failing SET is ignored.
LookUp(w) ==
    LET s == worker[w]
        new == [s EXCEPT !.pc = "put"]
        known == contentHash[s.body]
    IN  /\ At(w, "lookup")
        /\ \/ CallSucceeds /\ Become(w, IF known = NoKey THEN new
                                        ELSE Publishing(s.task, "duplicate", known, "none"))
           \/ CallFails /\ Become(w, new)
        /\ UNCHANGED <<queue, running, redirectCount, redis, objects, stream, requested, lost>>

\* Mutant of Put: an upload error does not end Store.
PutGoesOn(w) ==
    LET s == worker[w] IN
    /\ At(w, "put")
    /\ \/ CallSucceeds /\ objects' = objects \cup {Key(s.task, s.body)}
       \/ CallFails /\ UNCHANGED objects
    /\ Become(w, [s EXCEPT !.pc = "record"])
    /\ UNCHANGED <<queue, running, redirectCount, redis, stream, requested, lost>>

Put(w) ==
    LET s == worker[w] IN
    /\ At(w, "put")
    /\ \/ /\ CallSucceeds
          /\ objects' = objects \cup {Key(s.task, s.body)}
          /\ Become(w, [s EXCEPT !.pc = "record"])
       \/ /\ CallFails
          /\ Become(w, Failed(s.task, "storage_error", "put"))
          /\ UNCHANGED objects
    /\ UNCHANGED <<queue, running, redirectCount, redis, stream, requested, lost>>

Record(w) ==
    LET s == worker[w] IN
    /\ At(w, "record")
    /\ \/ CallSucceeds /\ contentHash' = [contentHash EXCEPT ![s.body] = Key(s.task, s.body)]
       \/ CallFails /\ UNCHANGED contentHash
    /\ Become(w, Publishing(s.task, "success", Key(s.task, s.body), "none"))
    /\ UNCHANGED <<queue, running, redirectCount, robots, objects, stream, requested, lost>>

\* publishCrawlEvent: an XADD error is logged and the event is dropped.
Publish(w) ==
    LET e == worker[w].event IN
    /\ At(w, "publish")
    /\ \/ CallSucceeds /\ stream' = stream \cup {e} /\ UNCHANGED lost
       \/ CallFails /\ lost' = lost \cup {e} /\ UNCHANGED stream
    /\ Become(w, Idle)
    /\ UNCHANGED <<queue, running, redirectCount, redis, objects, requested>>

\* The 24-hour and content-hash records run out.
ExpireRobots(d) ==
    /\ robots[d] # "absent"
    /\ robots' = [robots EXCEPT ![d] = "absent"]
    /\ UNCHANGED <<queue, running, worker, redirectCount, contentHash, objects, stream,
                   requested, lost, upsets>>

ExpireHash(c) ==
    /\ contentHash[c] # NoKey
    /\ contentHash' = [contentHash EXCEPT ![c] = NoKey]
    /\ UNCHANGED <<queue, running, worker, redirectCount, robots, objects, stream,
                   requested, lost, upsets>>

\* SIGINT or SIGTERM cancels the context.
Shutdown ==
    /\ running /\ Upset
    /\ running' = FALSE
    /\ UNCHANGED <<queue, worker, redirectCount, redis, objects, stream, requested, lost>>

\* The process dies, or it was stopped and has exited, and is started again.
Dropped == {Unfinished(worker[w].task) : w \in {v \in Workers : Busy(v) /\ ~At(v, "publish")}}
               \cup {worker[w].event : w \in {v \in Workers : At(v, "publish")}}
Restart ==
    /\ \/ Upset
       \/ (\A w \in Workers : At(w, "exited")) /\ UNCHANGED upsets
    /\ lost' = lost \cup Dropped
    /\ running' = TRUE
    /\ worker' = [w \in Workers |-> Idle]
    /\ redirectCount' = 0
    /\ UNCHANGED <<queue, redis, objects, stream, requested>>

Work(w) ==
    \/ \E t \in Tasks : Take(w, t)
    \/ Exit(w) \/ ReadRobots(w) \/ FetchRobots(w) \/ Wait(w) \/ Get(w)
    \/ ReadCount(w) \/ WriteCount(w) \/ CompareCount(w) \/ LookUp(w) \/ Put(w) \/ Record(w) \/ Publish(w)

Next ==
    \/ \E w \in Workers : Work(w)
    \/ \E d \in Domains : ExpireRobots(d)
    \/ \E c \in Contents : ExpireHash(c)
    \/ Shutdown
    \/ Restart

Spec == Init /\ [][Next]_vars

\* The Go scheduler runs every goroutine, and every call returns: requests and
\* Limiter.Wait have a limit in the code, Redis commands the client's own; that an
\* upload to MinIO returns is assumed.
FairSpec == Spec /\ \A w \in Workers : WF_vars(Work(w))

-----------------------------------------------------------------------------
Status == {"none", "robots_block", "http_error", "fetch_error", "storage_error",
           "duplicate", "success"}
Error == {"none", "robots", "cancelled", "status", "not_html", "network", "redirects", "put"}
Events == [task : Tasks, status : Status, key : Keys \cup {NoKey}, error : Error]
WorkerState ==
    [pc : {"idle", "exited"}]
      \cup [pc : {"robots", "fetchRobots"}, task : Tasks]
      \cup [pc : {"limit"}, task : Tasks, open : BOOLEAN]
      \cup [pc : {"get", "hop", "compare"}, task : Tasks, url : Urls, open : BOOLEAN]
      \cup [pc : {"count"}, task : Tasks, url : Urls, open : BOOLEAN, read : Nat]
      \cup [pc : {"lookup", "put", "record"}, task : Tasks, body : Contents]
      \cup [pc : {"publish"}, task : Tasks, event : Events]

\* The values the state ranges over.
TypeOK ==
    /\ queue \subseteq Tasks
    /\ running \in BOOLEAN
    /\ worker \in [Workers -> WorkerState]
    /\ redirectCount \in Nat
    /\ robots \in [Domains -> {"absent", "rules", "empty"}]
    /\ contentHash \in [Contents -> Keys \cup {NoKey}]
    /\ objects \subseteq Keys
    /\ stream \subseteq Events /\ lost \subseteq Events
    /\ requested \subseteq [task : Tasks, url : Urls, open : BOOLEAN]
    /\ upsets \in 0..MaxUpsets

InFlight == {worker[w].event : w \in {v \in Workers : At(v, "publish")}}

\* The processor can read what it is told about: a content-hash record and a
\* success or duplicate event name an object that is in MinIO, whatever call
\* failed and whenever the process died (Store's order of upload and record).
KeysAreStored ==
    /\ \A c \in Contents : contentHash[c] # NoKey => contentHash[c] \in objects
    /\ \A e \in stream \cup InFlight : e.status \in {"success", "duplicate"} => e.key \in objects

\* A page is called a duplicate only if the same object was the outcome of a
\* successful crawl: its event is out, on its way, or was lost with its worker.
DuplicateHasOriginal ==
    \A e \in stream : e.status = "duplicate" =>
        \E s \in stream \cup InFlight \cup lost : s.status = "success" /\ s.key = e.key

Holders(t) == {w \in Workers : Busy(w) /\ worker[w].task = t}
Reports(t) == {e \in stream : e.task = t}
Losses(t) == {e \in lost : e.task = t}

\* BZPopMax hands each task to one worker, and the worker reports on it once:
\* a task is waiting, in one worker's hands, reported by one event, or lost.
OneOutcomePerTask ==
    \A t \in Tasks :
        \/ t \in queue /\ Holders(t) = {} /\ Reports(t) = {} /\ Losses(t) = {}
        \/ /\ t \notin queue
           /\ \/ (\E w \in Workers : Holders(t) = {w}) /\ Reports(t) = {} /\ Losses(t) = {}
              \/ Holders(t) = {} /\ (\E e \in stream : Reports(t) = {e}) /\ Losses(t) = {}
              \/ Holders(t) = {} /\ Reports(t) = {} /\ (\E e \in lost : Losses(t) = {e})

\* The page of a task is requested only if the site's rules allow it or its
\* robots.txt could not be had (Fetch's robots step against the cached verdicts
\* that errors, expiry and other workers leave behind).
RobotsRespected ==
    \A r \in requested : r.url = UrlOf[r.task] => (Allowed[r.url] \/ r.open)

\* Every popped task is reported to the processor, or lost to a failure or
\* because it cannot be read.
TaskReported ==
    \A t \in Tasks : t \notin queue ~> (Reports(t) # {} \/ Losses(t) # {})

\* A cancelled pool drains: all workers return, unless the process is restarted.
ShutdownCompletes == ~running ~> (running \/ \A w \in Workers : At(w, "exited"))

\* The number of redirects from a URL to its page, for URLs without a loop.
Hops[u \in Urls] == IF Redirect[u] = NoUrl THEN 0 ELSE 1 + Hops[Redirect[u]]

\* http_fetcher.go: redirects are followed up to MaxRedirects hops.
LegalChainsFollowed ==
    \A e \in stream : e.error = "redirects" => Hops[UrlOf[e.task]] > MaxRedirects
=============================================================================
