---------------------------- MODULE ResultCache ----------------------------
(***************************************************************************)
(* The API's search path: concurrent requests share a cache in Redis whose *)
(* entries are compared with LAST_INDEX_COMMIT.  A background task sets    *)
(* that key for every message on CHANNEL:index_commits, which the indexer  *)
(* publishes beside its writes to Meilisearch and Qdrant.                  *)
(*                                                                         *)
(* Every call to Redis or to a search backend is an await.  time.time() is *)
(* read before the call that stores it, so the two are separate steps; the *)
(* clock is the number of times it was read.  Ranking, paging and the      *)
(* freshness header, which decide nothing here, are left out.              *)
(***************************************************************************)
EXTENDS Integers

CONSTANTS
    Requests,     \* concurrent requests
    Docs,
    Matching,     \* [Docs -> set of terms]: what a page is found by
    CrawledAt,    \* [Docs -> Nat \ {0}]
    Queries,      \* set of [term, mode, since]
    NoEntry,
    MaxAsked,     \* bound: requests in all
    MaxUpsets     \* bound: failing calls, lost messages and restarts together

Modes == {"hybrid", "bm25", "semantic"}

ASSUME ResultCacheAssumption ==
    /\ CrawledAt \in [Docs -> Nat \ {0}]
    /\ \A q \in Queries : q.mode \in Modes /\ q.since \in Nat
    /\ MaxAsked \in Nat /\ MaxUpsets \in Nat

VARIABLES
    indexed,     \* [Docs -> SUBSET Backends]: where a page can be found
    channel,     \* commit messages delivered to the API and not yet read
    announced,   \* history: pages whose commit the indexer has published
    listener,    \* subscribe_to_commits: [pc, at]
    lastCommit,  \* LAST_INDEX_COMMIT, 0 without
    known,       \* history: [Docs -> Nat]: when a page's commit was recorded, 0 if not
    cache,       \* [Keys -> Entry \cup {NoEntry}]: CACHE:search:{key}
    request,     \* [Requests -> Request]
    clock,       \* how often time.time() was read
    asked, upsets

vars == <<indexed, channel, announced, listener, lastCommit, known, cache, request, clock,
          asked, upsets>>
commits == <<indexed, channel, announced, listener, lastCommit, known>>

-----------------------------------------------------------------------------
Backends == {"bm25", "ann"}

\* Mutant of BuildCacheKey: the key holds the filters and not the query.
KeyWithoutTerm(q) == [since |-> q.since]

\* build_cache_key: everything that selects results, but not `since`.
BuildCacheKey(q) == [term |-> q.term, mode |-> q.mode]
Keys == {BuildCacheKey(q) : q \in Queries}

\* The backends a mode asks, and what each finds: they treat the limit of
\* `since` differently, and 0 is no limit.
Asks(mode) == CASE mode = "hybrid"   -> {"bm25", "ann"}
                [] mode = "bm25"     -> {"bm25"}
                [] mode = "semantic" -> {"ann"}
Found(q, b) ==
    {d \in Docs : /\ b \in indexed[d] /\ q.term \in Matching[d]
                  /\ IF b = "bm25" THEN CrawledAt[d] > q.since ELSE CrawledAt[d] >= q.since}

Idle == [pc |-> "idle"]
Searching(s, b, found) ==
    [pc |-> "search", q |-> s.q, then |-> s.then, left |-> s.left \ {b}, found |-> s.found \cup found]
Miss(s) == [pc |-> "search", q |-> s.q, then |-> s.then, left |-> Asks(s.q.mode), found |-> {}]
Answered(s, docs, at, source) ==
    [pc |-> "done", q |-> s.q, then |-> s.then, docs |-> docs, at |-> at, source |-> source]
At(r, pc) == request[r].pc = pc
Become(r, state) == request' = [request EXCEPT ![r] = state]

Upset == /\ upsets < MaxUpsets
         /\ upsets' = upsets + 1
CallSucceeds == UNCHANGED upsets

-----------------------------------------------------------------------------
Init ==
    /\ indexed = [d \in Docs |-> {}]
    /\ channel = {} /\ announced = {}
    /\ known = [d \in Docs |-> 0]
    /\ listener = [pc |-> "listen", at |-> 0]
    /\ lastCommit = 0
    /\ cache = [k \in Keys |-> NoEntry]
    /\ request = [r \in Requests |-> Idle]
    /\ clock = 0 /\ asked = 0 /\ upsets = 0

\* The indexer's concurrent writes of one page: to the two search backends and
\* to the channel, in any order.
Index(d, b) ==
    /\ b \notin indexed[d]
    /\ indexed' = [indexed EXCEPT ![d] = @ \cup {b}]
    /\ UNCHANGED <<channel, announced, listener, lastCommit, known, cache, request, clock, asked, upsets>>

\* Mutant of Announce: nobody is subscribed.
AnnounceToNobody(d) ==
    /\ d \notin announced
    /\ announced' = announced \cup {d}
    /\ UNCHANGED <<indexed, channel, listener, lastCommit, known, cache, request, clock, asked, upsets>>

\* PUBLISH reaches whoever is subscribed at that moment, at most once.
Announce(d) ==
    /\ d \notin announced
    /\ announced' = announced \cup {d}
    /\ \/ listener.pc # "dead" /\ CallSucceeds /\ channel' = channel \cup {d}
       \/ listener.pc = "dead" /\ CallSucceeds /\ UNCHANGED channel
       \/ Upset /\ UNCHANGED channel
    /\ UNCHANGED <<indexed, listener, lastCommit, known, cache, request, clock, asked>>

\* subscribe_to_commits: a message is read, the time is taken, ...
Hear(d) ==
    /\ listener.pc = "listen" /\ d \in channel
    /\ clock' = clock + 1
    /\ listener' = [pc |-> "record", at |-> clock', doc |-> d]
    /\ channel' = channel \ {d}
    /\ UNCHANGED <<indexed, announced, lastCommit, known, cache, request, asked, upsets>>

\* ... and stored; an error of Redis is swallowed.
RecordIndexCommit ==
    /\ listener.pc = "record"
    /\ \/ /\ CallSucceeds
          /\ lastCommit' = listener.at /\ known' = [known EXCEPT ![listener.doc] = listener.at]
       \/ Upset /\ UNCHANGED <<lastCommit, known>>
    /\ listener' = [pc |-> "listen", at |-> 0]
    /\ UNCHANGED <<indexed, channel, announced, cache, request, clock, asked>>

\* The subscription's connection breaks: the task ends, nothing restarts it.
ListenerDies ==
    /\ listener.pc # "dead" /\ Upset
    /\ listener' = [pc |-> "dead", at |-> 0]
    /\ channel' = {}
    /\ UNCHANGED <<indexed, announced, lastCommit, known, cache, request, clock, asked>>

\* The API process is restarted and subscribes again.
Restart ==
    /\ Upset
    /\ request' = [r \in Requests |-> Idle]
    /\ listener' = [pc |-> "listen", at |-> 0]
    /\ channel' = {}
    /\ UNCHANGED <<indexed, announced, lastCommit, known, cache, clock, asked>>

-----------------------------------------------------------------------------
\* A client asks; `then` is what was known to be committed by that time.
Ask(r, q) ==
    /\ At(r, "idle") \/ At(r, "done")
    /\ asked < MaxAsked /\ asked' = asked + 1
    /\ Become(r, [pc |-> "get", q |-> q, then |-> known])
    /\ UNCHANGED <<commits, cache, clock, upsets>>

\* ResultCache.get, one Redis call after the other.  An error is a miss ...
Get(r) ==
    LET s == request[r]
        entry == cache[BuildCacheKey(s.q)]
    IN  /\ At(r, "get")
        /\ \/ /\ CallSucceeds
              /\ Become(r, IF entry = NoEntry THEN Miss(s)
                           ELSE [pc |-> "check", q |-> s.q, then |-> s.then, entry |-> entry])
           \/ Upset /\ Become(r, Miss(s))
        /\ UNCHANGED <<commits, cache, clock, asked>>

\* Mutant of Check: the comparison is the wrong way round.
CheckBackwards(r) ==
    LET s == request[r] IN
    /\ At(r, "check") /\ CallSucceeds
    /\ Become(r, IF lastCommit # 0 /\ s.entry.at > lastCommit
                 THEN [pc |-> "delete", q |-> s.q, then |-> s.then]
                 ELSE Answered(s, s.entry.docs, s.entry.at, "cache"))
    /\ UNCHANGED <<commits, cache, clock, asked>>

\* ... but an error of the second read makes the entry valid.
Check(r) ==
    LET s == request[r] IN
    /\ At(r, "check")
    /\ \/ /\ CallSucceeds
          /\ Become(r, IF lastCommit # 0 /\ s.entry.at < lastCommit
                       THEN [pc |-> "delete", q |-> s.q, then |-> s.then]
                       ELSE Answered(s, s.entry.docs, s.entry.at, "cache"))
       \/ Upset /\ Become(r, Answered(s, s.entry.docs, s.entry.at, "unchecked"))
    /\ UNCHANGED <<commits, cache, clock, asked>>

\* DEL by key: it may hit an entry that another request has stored meanwhile.
Delete(r) ==
    LET s == request[r] IN
    /\ At(r, "delete")
    /\ \/ CallSucceeds /\ cache' = [cache EXCEPT ![BuildCacheKey(s.q)] = NoEntry]
       \/ Upset /\ UNCHANGED cache
    /\ Become(r, Miss(s))
    /\ UNCHANGED <<commits, clock, asked>>

\* One of the searches, in parallel threads; an error is an empty result.
Search(r, b) ==
    LET s == request[r] IN
    /\ At(r, "search") /\ b \in s.left
    /\ \/ CallSucceeds /\ Become(r, Searching(s, b, Found(s.q, b)))
       \/ Upset /\ Become(r, Searching(s, b, {}))
    /\ UNCHANGED <<commits, cache, clock, asked>>

\* ResultCache.set: the time is taken after the searches, ...
Stamp(r) ==
    LET s == request[r] IN
    /\ At(r, "search") /\ s.left = {}
    /\ clock' = clock + 1
    /\ Become(r, [pc |-> "store", q |-> s.q, then |-> s.then, docs |-> s.found, at |-> clock'])
    /\ UNCHANGED <<commits, cache, asked, upsets>>

\* ... and the entry is stored for CACHE_TTL seconds, errors being swallowed.
Store(r) ==
    LET s == request[r] IN
    /\ At(r, "store")
    /\ \/ /\ CallSucceeds
          /\ cache' = [cache EXCEPT ![BuildCacheKey(s.q)] = [q |-> s.q, docs |-> s.docs, at |-> s.at]]
       \/ Upset /\ UNCHANGED cache
    /\ Become(r, Answered(s, s.docs, s.at, "index"))
    /\ UNCHANGED <<commits, clock, asked>>

\* Mutant of Expire: an entry without EX does not go away.
ExpireNever(k) == cache[k] # NoEntry /\ UNCHANGED vars

\* CACHE_TTL runs out.
Expire(k) ==
    /\ cache[k] # NoEntry
    /\ cache' = [cache EXCEPT ![k] = NoEntry]
    /\ UNCHANGED <<commits, request, clock, asked, upsets>>

Handle(r) ==
    \/ Get(r) \/ Check(r) \/ Delete(r)
    \/ \E b \in Backends : Search(r, b)
    \/ Stamp(r) \/ Store(r)

Next ==
    \/ \E d \in Docs : \/ \E b \in Backends : Index(d, b)
                       \/ Announce(d) \/ Hear(d)
    \/ RecordIndexCommit \/ ListenerDies \/ Restart
    \/ \E r \in Requests : \/ \E q \in Queries : Ask(r, q)
                           \/ Handle(r)
    \/ \E k \in Keys : Expire(k)

Spec == Init /\ [][Next]_vars

\* The event loop resumes every request and the listener; Redis expires keys.
SearchFairness ==
    /\ \A r \in Requests : WF_vars(Handle(r))
    /\ WF_vars(RecordIndexCommit \/ \E d \in Docs : Hear(d))
    /\ \A k \in Keys : WF_vars(Expire(k))

-----------------------------------------------------------------------------
Then == [Docs -> Nat]
Entry == [q : Queries, docs : SUBSET Docs, at : Nat]
Request ==
    [pc : {"idle"}]
      \cup [pc : {"get", "delete"}, q : Queries, then : Then]
      \cup [pc : {"check"}, q : Queries, then : Then, entry : Entry]
      \cup [pc : {"search"}, q : Queries, then : Then, left : SUBSET Backends, found : SUBSET Docs]
      \cup [pc : {"store"}, q : Queries, then : Then, docs : SUBSET Docs, at : Nat]
      \cup [pc : {"done"}, q : Queries, then : Then, docs : SUBSET Docs, at : Nat,
            source : {"cache", "unchecked", "index"}]

\* The values the state ranges over; an entry lies under its query's key.
TypeOK ==
    /\ indexed \in [Docs -> SUBSET Backends]
    /\ channel \subseteq announced /\ announced \subseteq Docs
    /\ listener \in [pc : {"listen", "dead"}, at : {0}] \cup [pc : {"record"}, at : Nat, doc : Docs]
    /\ lastCommit \in Nat /\ known \in [Docs -> Nat]
    /\ cache \in [Keys -> Entry \cup {NoEntry}]
    /\ request \in [Requests -> Request]
    /\ clock \in Nat /\ asked \in 0..MaxAsked /\ upsets \in 0..MaxUpsets

Done(source) == {request[r] : r \in {x \in Requests : At(x, "done") /\ request[x].source \in source}}
Answers == Done({"cache", "unchecked", "index"})

\* An answer holds only pages that its own query's terms find, in a backend that
\* its mode asks, whoever computed it and whatever shares its cache entry: the
\* key that requests meet under holds terms and mode (result_cache.py:191).
AnswersOwnTermAndMode ==
    \A a \in Answers : \A d \in a.docs :
        a.q.term \in Matching[d] /\ indexed[d] \cap Asks(a.q.mode) # {}

\* build_cache_key: "All parameters that affect results must be included"
\* (result_cache.py:202), so no answer holds a page older than its query wants.
\* The key leaves out `since`: a violation run.
AnswersOwnSince == \A a \in Answers : \A d \in a.docs : a.q.since <= CrawledAt[d]

\* A checked hit was stored after every commit that had been recorded when the
\* request came in, whatever other requests store, delete or let expire while
\* it is between the two reads of ResultCache.get.
HitPostdatesCommits ==
    \A a \in Done({"cache"}) : \A d \in Docs : a.then[d] <= a.at

\* What the indexer announces invalidates the cache, unless a call fails.
CommitIsRecorded == \A d \in Docs : d \in announced ~> (known[d] > 0 \/ upsets > 0)

Lacks(entry, d) == entry # NoEntry /\ entry.q.term \in Matching[d] /\ d \notin entry.docs

\* Once a page is searchable, entries without it disappear for good, whether
\* or not its commit is ever heard of: the TTL bounds what the race between
\* search and stamp, a lost message or a failed search leaves in the cache.
StaleIsFlushed ==
    \A d \in Docs :
        indexed[d] = Backends
            ~> [](\A k \in Keys : Lacks(cache[k], d) => CrawledAt[d] <= cache[k].q.since)
=============================================================================
