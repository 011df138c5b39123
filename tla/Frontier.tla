------------------------------ MODULE Frontier ------------------------------
(***************************************************************************)
(* The URL frontier of the discovery service: the RedisBloom filter, the   *)
(* sorted-set queue and every process that writes or reads them.           *)
(*                                                                         *)
(* Watchers call DiscoveryService._on_url_found concurrently; each call is *)
(* two awaited Redis commands, BF.ADD and then ZADD NX, and anything may   *)
(* happen between the two.  The API's submit endpoint and the seed script  *)
(* write the queue without asking the filter.  A crawler pops with         *)
(* BZPOPMAX, which removes the task for good.                              *)
(***************************************************************************)
EXTENDS Integers

CONSTANTS
    Urls,         \* spellings of URLs, normalised ones among them
    Canon,        \* [Urls -> Urls]: what _normalise makes of a spelling
    Bits,         \* the bits of the Bloom filter
    Hash,         \* [Urls -> SUBSET Bits]: the bits of a (normalised) URL
    Submissions,  \* the URLs that clients submit and that the script seeds
    Watchers,     \* the watchers that run
    Handlers,     \* concurrent invocations of _on_url_found
    Replicas,     \* discovery processes
    ReplicaOf,    \* [Handlers -> Replicas]
    MaxTasks,     \* bound: tasks that ever pass the filter or bypass it
    MaxBypass,    \* bound: API submissions plus seeded URLs
    MaxUpsets     \* bound: Redis errors, crashes, filter resets and calls of
                  \* URLQueue.remove and URLQueue.clear, together

ASSUME FrontierAssumption ==
    /\ Canon \in [Urls -> Urls] /\ Submissions \subseteq Urls
    /\ Watchers \subseteq {"websub", "sitemap", "ct_log", "link"}
    /\ Hash \in [Urls -> SUBSET Bits]
    /\ ReplicaOf \in [Handlers -> Replicas]
    /\ MaxTasks \in Nat /\ MaxBypass \in Nat /\ MaxUpsets \in Nat

VARIABLES
    bits,    \* the bits set in BF:url_dedup
    call,    \* [Handlers -> Call]: where each _on_url_found call stands
    queue,   \* QUEUE:urls: a set of members
    nextId,  \* the next task's discovered_at
    issued,  \* history: every task that passed the filter or bypassed it
    ignored, \* history: the URLs BF.ADD answered "seen" to, with their epoch
    gone,    \* history: tasks that left the frontier, and how
    epoch,   \* resets of the filter so far
    used     \* how much of MaxBypass and MaxUpsets is consumed

vars == <<bits, call, queue, nextId, issued, ignored, gone, epoch, used>>

-----------------------------------------------------------------------------
DiscoverySource == Watchers \cup {"manual"}

\* Scores are ten times those of the code, so that they are integers.
PriorityMap == [manual |-> 150, websub |-> 100, sitemap |-> 70,
                ct_log |-> 50, link |-> 30]
DefaultAuthority == 5
SubmitAuthority == 8
SeedPriority == 150

\* Mutant of Priority: the authority bonus is forgotten.
PriorityWithoutBonus(source, authority) == PriorityMap[source]

\* URLTask.__post_init__: base score of the source plus the authority bonus.
Priority(source, authority) == PriorityMap[source] + authority

\* Mutant of Normalise: the spelling is hashed as it was found.
NormaliseNothing(url) == url

\* BloomFilter._normalise: the filter hashes the normalised URL, the queue
\* keeps the spelling the watcher found.
Normalise(url) == Canon[url]
BloomBits(url) == Hash[Normalise(url)]

\* Mutant of ProbablySeen: one set bit is enough.
SeenByAnyBit(url) == Hash[Canon[url]] \cap bits # {}

ProbablySeen(url) == BloomBits(url) \subseteq bits

\* A member of the sorted set is the whole task serialised; discovered_at makes
\* two tasks for one URL two members.  The id stands for that timestamp.
Member(id, url, source, priority) ==
    [id |-> id, url |-> url, source |-> source, priority |-> priority]

Idle == [pc |-> "idle"]
Found(url, source) == [pc |-> "found", url |-> url, source |-> source]
Claimed(c, id) == [pc |-> "claimed", url |-> c.url, source |-> c.source, id |-> id]

Issue(url, via) ==
    /\ nextId <= MaxTasks
    /\ issued' = issued \cup {[id |-> nextId, page |-> Canon[url], via |-> via, epoch |-> epoch]}
    /\ nextId' = nextId + 1

Leave(ids, how) == gone' = gone \cup {[id |-> i, how |-> how] : i \in ids}
Spend(what, bound) == /\ used[what] < bound
                      /\ used' = [used EXCEPT ![what] = @ + 1]

-----------------------------------------------------------------------------
Init ==
    /\ bits = {}
    /\ call = [h \in Handlers |-> Idle]
    /\ queue = {}
    /\ nextId = 1
    /\ issued = {} /\ ignored = {} /\ gone = {}
    /\ epoch = 0
    /\ used = [bypass |-> 0, upsets |-> 0]

\* A watcher builds a URLTask and calls _on_url_found.
Find(h, url, source) ==
    /\ call[h].pc = "idle"
    /\ call' = [call EXCEPT ![h] = Found(url, source)]
    /\ UNCHANGED <<bits, queue, nextId, issued, ignored, gone, epoch, used>>

\* BF.ADD answers 0: at least probably seen; the handler returns.
AddSeen(h) ==
    /\ call[h].pc = "found"
    /\ ProbablySeen(call[h].url)
    /\ ignored' = ignored \cup {[page |-> Canon[call[h].url], epoch |-> epoch]}
    /\ call' = [call EXCEPT ![h] = Idle]
    /\ UNCHANGED <<bits, queue, nextId, issued, gone, epoch, used>>

\* BF.ADD sets at least one bit and answers 1: this handler has the URL.
AddNew(h) ==
    /\ call[h].pc = "found"
    /\ ~ProbablySeen(call[h].url)
    /\ bits' = bits \cup BloomBits(call[h].url)
    /\ Issue(call[h].url, "filter")
    /\ call' = [call EXCEPT ![h] = Claimed(call[h], nextId)]
    /\ UNCHANGED <<queue, ignored, gone, epoch, used>>

\* Mutant of Push: ZADD XX updates members and never adds one.
PushOnlyUpdates(h) ==
    /\ call[h].pc = "claimed"
    /\ call' = [call EXCEPT ![h] = Idle]
    /\ UNCHANGED <<bits, queue, nextId, issued, ignored, gone, epoch, used>>

\* ZADD NX.  No other task has this id, so NX always adds.
Push(h) ==
    /\ call[h].pc = "claimed"
    /\ LET c == call[h] IN
         queue' = queue \cup {Member(c.id, c.url, c.source, Priority(c.source, DefaultAuthority))}
    /\ call' = [call EXCEPT ![h] = Idle]
    /\ UNCHANGED <<bits, nextId, issued, ignored, gone, epoch, used>>

\* BF.RESERVE or BF.ADD raises; the exception leaves the handler and the watcher
\* logs it.  BF.ADD may have been executed before the connection broke.
AddFails(h) ==
    /\ call[h].pc = "found"
    /\ Spend("upsets", MaxUpsets)
    /\ call' = [call EXCEPT ![h] = Idle]
    /\ \/ UNCHANGED <<bits, nextId, issued, gone>>
       \/ /\ ~ProbablySeen(call[h].url)
          /\ bits' = bits \cup BloomBits(call[h].url)
          /\ Issue(call[h].url, "filter")
          /\ Leave({nextId}, "lost")
    /\ UNCHANGED <<queue, ignored, epoch>>

PushFails(h) ==
    /\ call[h].pc = "claimed"
    /\ Spend("upsets", MaxUpsets)
    /\ Leave({call[h].id}, "lost")
    /\ call' = [call EXCEPT ![h] = Idle]
    /\ UNCHANGED <<bits, queue, nextId, issued, ignored, epoch>>

\* A discovery process dies with the calls it was running.
Crash(r) ==
    LET dying == {h \in Handlers : ReplicaOf[h] = r}
        held  == {h \in dying : call[h].pc = "claimed"}
    IN  /\ Spend("upsets", MaxUpsets)
        /\ Leave({call[h].id : h \in held}, "lost")
        /\ call' = [h \in Handlers |-> IF h \in dying THEN Idle ELSE call[h]]
        /\ UNCHANGED <<bits, queue, nextId, issued, ignored, epoch>>

\* POST /urls/submit and scripts/seed_urls.py: straight to the sorted set.
Bypass(url, source, priority, via) ==
    /\ Spend("bypass", MaxBypass)
    /\ Issue(url, via)
    /\ queue' = queue \cup {Member(nextId, url, source, priority)}
    /\ UNCHANGED <<bits, call, ignored, gone, epoch>>

Submit(url) == Bypass(url, "manual", Priority("manual", SubmitAuthority), "submit")

\* Mutant of Seed: the script names a source the models do not know.
SeedAsSeed(url, source) == Bypass(url, "seed", SeedPriority, "seed")

Seed(url, source) == Bypass(url, source, SeedPriority, "seed")

\* Mutant of Pop: the highest member is read and not removed.
PopPeeks ==
    \E m \in queue :
        /\ \A n \in queue : n.priority <= m.priority
        /\ Leave({m.id}, "taken")
        /\ UNCHANGED <<bits, call, queue, nextId, issued, ignored, epoch, used>>

\* BZPOPMAX: the member with the highest score.  Equal scores are ordered by
\* the serialised task, which nothing in the model knows.
Pop ==
    \E m \in queue :
        /\ \A n \in queue : n.priority <= m.priority
        /\ queue' = queue \ {m}
        /\ Leave({m.id}, "taken")
        /\ UNCHANGED <<bits, call, nextId, issued, ignored, epoch, used>>

\* URLQueue.remove: the scan finds a member with that URL, ZREM deletes it.
Remove(url) ==
    \E m \in queue :
        /\ m.url = url
        /\ Spend("upsets", MaxUpsets)
        /\ queue' = queue \ {m}
        /\ Leave({m.id}, "discarded")
        /\ UNCHANGED <<bits, call, nextId, issued, ignored, epoch>>

Clear ==
    /\ Spend("upsets", MaxUpsets)
    /\ queue' = {}
    /\ Leave({m.id : m \in queue}, "discarded")
    /\ UNCHANGED <<bits, call, nextId, issued, ignored, epoch>>

\* BloomFilter.reset.  A BF.ADD between its DEL and its BF.RESERVE creates the
\* filter itself and the RESERVE error is ignored, so one step is enough.
Reset ==
    /\ Spend("upsets", MaxUpsets)
    /\ epoch' = epoch + 1
    /\ bits' = {}
    /\ UNCHANGED <<call, queue, nextId, issued, ignored, gone>>

OnUrlFound(h) == AddSeen(h) \/ AddNew(h) \/ Push(h)

Next ==
    \/ \E h \in Handlers :
          \/ \E url \in Urls, source \in Watchers : Find(h, url, source)
          \/ OnUrlFound(h)
          \/ AddFails(h)
          \/ PushFails(h)
    \/ \E r \in Replicas : Crash(r)
    \/ \E url \in Submissions :
          \/ Submit(url)
          \/ \E source \in DiscoverySource : Seed(url, source)
    \/ \E url \in Urls : Remove(url)
    \/ Pop
    \/ Clear
    \/ Reset

Spec == Init /\ [][Next]_vars

\* asyncio resumes every pending call, and the crawlers keep popping.
FairSpec == /\ Spec
            /\ \A h \in Handlers : WF_vars(OnUrlFound(h))
            /\ WF_vars(Pop)

-----------------------------------------------------------------------------
Call ==
    [pc : {"idle"}]
      \cup [pc : {"found"}, url : Urls, source : Watchers]
      \cup [pc : {"claimed"}, url : Urls, source : Watchers, id : 1..MaxTasks]

\* The values the state ranges over.
TypeOK ==
    /\ bits \subseteq Bits
    /\ call \in [Handlers -> Call]
    /\ queue \subseteq [id : 1..MaxTasks, url : Urls, source : DiscoverySource, priority : Int]
    /\ nextId \in 1..(MaxTasks + 1)
    /\ issued \subseteq [id : 1..MaxTasks, page : Urls, via : {"filter", "submit", "seed"},
                         epoch : 0..MaxUpsets]
    /\ ignored \subseteq [page : Urls, epoch : 0..MaxUpsets]
    /\ gone \subseteq [id : 1..MaxTasks, how : {"taken", "lost", "discarded"}]
    /\ epoch \in 0..MaxUpsets
    /\ used \in [bypass : 0..MaxBypass, upsets : 0..MaxUpsets]

\* Two concurrent handlers never both get past the filter for one page: between
\* two resets a page is claimed at most once, whatever its spelling, whoever
\* crashes (_on_url_found's dedup step).  bloom_filter.py:14-16 says otherwise, that
\* seen URLs are reported as new and crawled twice; the filter never does that.
ClaimedOncePerEpoch ==
    \A r, s \in issued :
        (r.via = "filter" /\ s.via = "filter" /\ r.page = s.page /\ r.epoch = s.epoch) => r = s

\* A page the filter turned away was claimed in the same epoch, or each of its
\* bits was set by pages that were: the filter's only false answers are hash
\* collisions, never a race or a spelling.  They turn new pages away, the other
\* way round than bloom_filter.py:14-16 has it.
IgnoredOnlyIfSeenOrCollision ==
    \A g \in ignored :
        Hash[g.page] \subseteq
            UNION {Hash[r.page] : r \in {i \in issued : i.via = "filter" /\ i.epoch = g.epoch}}

Places(id) ==
    {<<"hand", h>> : h \in {k \in Handlers : call[k].pc = "claimed" /\ call[k].id = id}}
      \cup {<<"queue", m>> : m \in {n \in queue : n.id = id}}
      \cup {<<"gone", x>> : x \in {y \in gone : y.id = id}}

\* Every task that got past dedup is in exactly one place: held by one handler,
\* one member of the queue, or gone in one way.  No task is both handed to a
\* crawler and still queued, none is handed out twice, none vanishes unrecorded.
OnePlacePerTask ==
    \A r \in issued : \E p \in Places(r.id) : Places(r.id) = {p}

Submitted(id) == \E r \in issued : r.id = id /\ r.via = "submit"

\* submit_url promises that a submitted URL is crawled before every other
\* queued one, seeds of any source and WebSub pings included.
SubmittedFirst ==
    [][\A x \in gone' \ gone :
          (x.how = "taken" /\ ~Submitted(x.id)) => ~\E m \in queue : Submitted(m.id)]_vars

Taken(page) == \E r \in issued : r.page = page /\ [id |-> r.id, how |-> "taken"] \in gone
Collided(page) == /\ \E g \in ignored : g.page = page
                  /\ ~\E r \in issued : r.page = page

\* The bound on tasks, used up by submissions and seeds, stops the watchers.
OutOfTasks == used.bypass = MaxBypass /\ nextId > MaxTasks

\* A page a watcher found is at last handed to a crawler, unless an error, a
\* crash, a maintenance call or a colliding page gets in the way.
FoundIsTaken ==
    \A page \in Urls :
        (\E h \in Handlers : call[h].pc = "found" /\ Canon[call[h].url] = page)
            ~> (Taken(page) \/ used.upsets > 0 \/ Collided(page) \/ OutOfTasks)
=============================================================================
