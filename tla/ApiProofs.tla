----------------------------- MODULE ApiProofs -----------------------------
(***************************************************************************)
(* Theorems about three components of the API, which run in one process    *)
(* and share nothing.                                                      *)
(*                                                                         *)
(* ResultCache, for any requests, pages, queries and bounds, and any       *)
(* interleaving of their calls to Redis.  The first invariant orders       *)
(* times: what a request knows to be committed was recorded before the     *)
(* commit that LAST_INDEX_COMMIT shows.  The second says what pages an     *)
(* entry or a request may hold.                                            *)
(*                                                                         *)
(* LiveFeed, for any clients and streams: what a broadcast that nobody     *)
(* disturbed has not reached is still before it, or gone.                  *)
(*                                                                         *)
(* SearchPages, for any documents, rankings, bonuses and sizes: the order  *)
(* of the sort is total, so that fuse ranks every document once, and the   *)
(* pages of a reader whom no retriever failed are the first places of that *)
(* ranking.                                                                *)
(***************************************************************************)
EXTENDS ResultCache, LiveFeed, SearchPages, FiniteSetTheorems, TLAPS

TimesInv(s) ==
    /\ s.pc # "idle" => \A d \in Docs : s.then[d] <= known[d]
    /\ s.pc = "done" /\ s.source = "cache" => \A d \in Docs : s.then[d] <= s.at
CommitInv ==
    /\ \A d \in Docs : known[d] <= lastCommit
    /\ lastCommit <= clock
    /\ listener.pc = "record" => lastCommit <= listener.at /\ listener.at <= clock

\* What a query's terms find where its mode looks, with the pages in `places`.
Findable(q, places) == {d \in Docs : q.term \in Matching[d] /\ places[d] \cap Asks(q.mode) # {}}

EntryInv(k, entry, places) == BuildCacheKey(entry.q) = k /\ entry.docs \subseteq Findable(entry.q, places)
PagesInv(s, places) ==
    /\ s.pc = "check" => EntryInv(BuildCacheKey(s.q), s.entry, places)
    /\ s.pc = "search" => s.left \subseteq Asks(s.q.mode) /\ s.found \subseteq Findable(s.q, places)
    /\ s.pc \in {"store", "done"} => s.docs \subseteq Findable(s.q, places)

RequestsInv == \A r \in Requests : TimesInv(request[r]) /\ PagesInv(request[r], indexed)
CacheInv == \A k \in Keys : cache[k] # NoEntry => EntryInv(k, cache[k], indexed)
ResultCacheInv == CommitInv /\ RequestsInv /\ CacheInv

-----------------------------------------------------------------------------
\* The fields a request has at each step.
LEMMA Fields ==
    ASSUME NEW s \in Request
    PROVE  /\ s.pc \in {"idle", "get", "delete", "check", "search", "store", "done"}
           /\ s.pc # "idle" => s.q \in Queries /\ s.then \in Then
           /\ s.pc = "check" => s.entry \in Entry
           /\ s.pc = "search" => s.left \subseteq Backends /\ s.found \subseteq Docs
           /\ s.pc \in {"store", "done"} => s.docs \subseteq Docs /\ s.at \in Nat
  BY DEF Request

\* The states a request goes to.
LEMMA StatesOfRequest ==
    ASSUME NEW q \in Queries, NEW then \in Then, NEW s, s.q = q, s.then = then
    PROVE  /\ [pc |-> "get", q |-> q, then |-> then] \in Request
           /\ [pc |-> "delete", q |-> q, then |-> then] \in Request
           /\ \A entry \in Entry : [pc |-> "check", q |-> q, then |-> then, entry |-> entry] \in Request
           /\ Miss(s) \in Request
           /\ \A docs \in SUBSET Docs, at \in Nat :
                 /\ [pc |-> "store", q |-> q, then |-> then, docs |-> docs, at |-> at] \in Request
                 /\ \A source \in {"cache", "unchecked", "index"} : Answered(s, docs, at, source) \in Request
<1>1. Asks(q.mode) \subseteq Backends
  BY ResultCacheAssumption DEF ResultCacheAssumption, Asks, Modes, Backends
<1>2. Miss(s) \in Request
  BY <1>1 DEF Miss, Request
<1>3. ASSUME NEW docs \in SUBSET Docs, NEW at \in Nat, NEW source \in {"cache", "unchecked", "index"}
      PROVE  Answered(s, docs, at, source) \in Request
  BY DEF Answered, Request
<1>4. /\ [pc |-> "get", q |-> q, then |-> then] \in Request
      /\ [pc |-> "delete", q |-> q, then |-> then] \in Request
  BY DEF Request
<1>5. ASSUME NEW entry \in Entry
      PROVE  [pc |-> "check", q |-> q, then |-> then, entry |-> entry] \in Request
  BY DEF Request
<1>6. ASSUME NEW docs \in SUBSET Docs, NEW at \in Nat
      PROVE  [pc |-> "store", q |-> q, then |-> then, docs |-> docs, at |-> at] \in Request
  BY DEF Request
<1> QED
  BY <1>2, <1>3, <1>4, <1>5, <1>6

\* A backend that the mode asks finds what is there.
LEMMA FoundIsFindable ==
    ASSUME NEW q \in Queries, NEW b \in Asks(q.mode)
    PROVE  Found(q, b) \subseteq Findable(q, indexed) /\ Found(q, b) \subseteq Docs
  BY DEF Found, Findable

\* Queries that share a key find the same pages in the same places.
LEMMA SharedIsFindable ==
    ASSUME NEW q \in Queries, NEW entry \in Entry, NEW places, EntryInv(BuildCacheKey(q), entry, places)
    PROVE  entry.docs \subseteq Findable(q, places)
<1>1. BuildCacheKey(entry.q) = BuildCacheKey(q)
  BY DEF EntryInv
<1>2. entry.q.term = q.term /\ entry.q.mode = q.mode
  BY <1>1 DEF BuildCacheKey
<1> QED
  BY <1>2 DEF EntryInv, Findable

\* Pages stay where they are found.
LEMMA FindableStays ==
    ASSUME NEW places, NEW later, \A d \in Docs : places[d] \subseteq later[d]
    PROVE  /\ \A q : Findable(q, places) \subseteq Findable(q, later)
           /\ \A k, entry : EntryInv(k, entry, places) => EntryInv(k, entry, later)
           /\ \A s : PagesInv(s, places) => PagesInv(s, later)
<1>1. \A q : Findable(q, places) \subseteq Findable(q, later)
  BY DEF Findable
<1>2. \A k, entry : EntryInv(k, entry, places) => EntryInv(k, entry, later)
  BY <1>1 DEF EntryInv
<1> QED
  BY <1>1, <1>2 DEF PagesInv

-----------------------------------------------------------------------------
\* A request and what is known of it.
LEMMA RequestFacts ==
    ASSUME TypeOK, ResultCacheInv, NEW r \in Requests
    PROVE  /\ request[r] \in Request /\ TimesInv(request[r])
           /\ PagesInv(request[r], indexed)
           /\ request[r].pc # "idle" => BuildCacheKey(request[r].q) \in Keys
<1>1. request[r] \in Request /\ TimesInv(request[r]) /\ PagesInv(request[r], indexed)
  BY DEF TypeOK, ResultCacheInv, RequestsInv
<1> QED
  BY <1>1, Fields DEF Keys

\* An entry of the cache.
LEMMA EntryFacts ==
    ASSUME TypeOK, ResultCacheInv, NEW k \in Keys, cache[k] # NoEntry
    PROVE  cache[k] \in Entry /\ EntryInv(k, cache[k], indexed)
  BY DEF TypeOK, ResultCacheInv, CacheInv

\* A request takes a step: what is to be shown of its new state.
LEMMA RequestSteps ==
    ASSUME TypeOK, ResultCacheInv, NEW r \in Requests, NEW state \in Request, Become(r, state),
           TimesInv(state), PagesInv(state, indexed),
           UNCHANGED commits, clock' \in {clock, clock + 1},
           asked' \in {asked, asked + 1} /\ asked' <= MaxAsked, CallSucceeds \/ Upset,
           cache' \in [Keys -> Entry \cup {NoEntry}], CacheInv'
    PROVE  TypeOK' /\ ResultCacheInv'
<1> USE ResultCacheAssumption DEF ResultCacheAssumption
<1>1. /\ request' \in [Requests -> Request] /\ request'[r] = state
      /\ \A x \in Requests \ {r} : request'[x] = request[x]
  BY DEF TypeOK, Become
<1>2. TypeOK'
  <2>1. clock' \in Nat /\ asked' \in 0..MaxAsked /\ upsets' \in 0..MaxUpsets
    BY DEF TypeOK, CallSucceeds, Upset
  <2> QED
    BY <1>1, <2>1 DEF TypeOK, commits
<1>3. CommitInv'
  BY DEF TypeOK, ResultCacheInv, CommitInv, commits
<1>4. RequestsInv'
  <2>1. ASSUME NEW x \in Requests
        PROVE  (TimesInv(request[x]) /\ PagesInv(request[x], indexed))'
    <3>1. CASE x = r
      BY <1>1, <3>1 DEF TimesInv, PagesInv, commits
    <3>2. CASE x # r
      <4>1. TimesInv(request[x]) /\ PagesInv(request[x], indexed)
        BY DEF ResultCacheInv, RequestsInv
      <4> QED
        BY <1>1, <3>2, <4>1 DEF TimesInv, PagesInv, commits
    <3> QED
      BY <3>1, <3>2
  <2> QED
    BY <2>1 DEF RequestsInv
<1> QED
  BY <1>2, <1>3, <1>4 DEF ResultCacheInv

\* The cache is the same, lacks an entry, or has a new one.
LEMMA CacheSteps ==
    ASSUME TypeOK, ResultCacheInv, \A d \in Docs : indexed[d] \subseteq indexed'[d],
           \/ cache' = cache
           \/ \E k \in Keys : cache' = [cache EXCEPT ![k] = NoEntry]
           \/ \E k \in Keys, entry \in Entry :
                 cache' = [cache EXCEPT ![k] = entry] /\ EntryInv(k, entry, indexed)
    PROVE  cache' \in [Keys -> Entry \cup {NoEntry}] /\ CacheInv'
<1>1. /\ cache \in [Keys -> Entry \cup {NoEntry}]
      /\ \A k \in Keys : cache[k] # NoEntry => EntryInv(k, cache[k], indexed')
  BY FindableStays DEF TypeOK, ResultCacheInv, CacheInv
<1>2. CASE cache' = cache \/ \E k \in Keys : cache' = [cache EXCEPT ![k] = NoEntry]
  BY <1>1, <1>2 DEF CacheInv
<1>3. ASSUME NEW k \in Keys, NEW entry \in Entry, cache' = [cache EXCEPT ![k] = entry],
             EntryInv(k, entry, indexed)
      PROVE  cache' \in [Keys -> Entry \cup {NoEntry}] /\ CacheInv'
  <2>1. cache' \in [Keys -> Entry \cup {NoEntry}]
    BY <1>1, <1>3
  <2>2. cache'[k] = entry /\ \A x \in Keys \ {k} : cache'[x] = cache[x]
    BY <1>1, <1>3
  <2>3. EntryInv(k, entry, indexed')
    BY <1>3, FindableStays
  <2> QED
    BY <1>1, <2>1, <2>2, <2>3 DEF CacheInv
<1> QED
  BY <1>2, <1>3

\* An answer from the cache: of a checked entry, after the last commit.
LEMMA CachedAnswer ==
    ASSUME TypeOK, ResultCacheInv, NEW r \in Requests, At(r, "check"),
           NEW source \in {"cache", "unchecked"},
           source = "cache" => (lastCommit = 0 \/ request[r].entry.at >= lastCommit)
    PROVE  LET s == request[r]
               state == Answered(s, s.entry.docs, s.entry.at, source)
           IN  state \in Request /\ TimesInv(state) /\ PagesInv(state, indexed)
<1> DEFINE s == request[r]
           state == Answered(s, s.entry.docs, s.entry.at, source)
<1>1. /\ s \in Request /\ s.pc = "check" /\ s.q \in Queries /\ s.then \in Then /\ s.entry \in Entry
      /\ \A d \in Docs : s.then[d] <= known[d]
      /\ EntryInv(BuildCacheKey(s.q), s.entry, indexed)
  BY RequestFacts, Fields DEF At, TimesInv, PagesInv
<1>2. s.entry.docs \in SUBSET Docs /\ s.entry.at \in Nat
  BY <1>1 DEF Entry
<1>3. state \in Request
  BY <1>1, <1>2, StatesOfRequest
<1>4. /\ state.pc = "done" /\ state.q = s.q /\ state.then = s.then /\ state.docs = s.entry.docs
      /\ state.at = s.entry.at /\ state.source = source
  BY DEF Answered
<1>5. TimesInv(state)
  <2>1. ASSUME source = "cache", NEW d \in Docs PROVE s.then[d] <= s.entry.at
    <3>1. s.then[d] <= known[d] /\ known[d] <= lastCommit
      BY <1>1 DEF ResultCacheInv, CommitInv
    <3>2. s.then[d] \in Nat /\ known[d] \in Nat /\ lastCommit \in Nat
      BY <1>1 DEF Then, TypeOK
    <3> QED
      BY <1>2, <2>1, <3>1, <3>2
  <2> HIDE DEF state, s
  <2> QED
    BY <1>1, <1>4, <2>1 DEF TimesInv
<1>6. PagesInv(state, indexed)
  <2>1. s.entry.docs \subseteq Findable(s.q, indexed)
    BY <1>1, SharedIsFindable
  <2> HIDE DEF state, s
  <2> QED
    BY <1>4, <2>1 DEF PagesInv
<1> QED
  BY <1>3, <1>5, <1>6

\* A client asks: all that is known by now was recorded before.
LEMMA AskKeeps ==
    ASSUME TypeOK, ResultCacheInv, NEW r \in Requests, NEW q \in Queries, Ask(r, q)
    PROVE  TypeOK' /\ ResultCacheInv'
<1> DEFINE state == [pc |-> "get", q |-> q, then |-> known]
<1>1. known \in Then /\ \A d \in Docs : known[d] <= known[d]
  BY DEF TypeOK, Then
<1>2. state \in Request
  BY <1>1 DEF Request
<1>3. TimesInv(state) /\ PagesInv(state, indexed)
  BY <1>1 DEF TimesInv, PagesInv
<1>4. Become(r, state) /\ UNCHANGED <<commits, cache, clock, upsets>>
  BY DEF Ask
<1> HIDE DEF state
<1>5. cache' \in [Keys -> Entry \cup {NoEntry}] /\ CacheInv'
  BY <1>4, CacheSteps DEF commits
<1>6. asked' \in {asked, asked + 1} /\ asked' <= MaxAsked /\ (CallSucceeds \/ Upset)
  BY ResultCacheAssumption DEF ResultCacheAssumption, Ask, TypeOK, CallSucceeds
<1> QED
  BY <1>2, <1>3, <1>4, <1>5, <1>6, RequestSteps

\* A miss: the searches begin.
LEMMA MissGoes ==
    ASSUME TypeOK, ResultCacheInv, NEW r \in Requests, request[r].pc \in {"get", "delete"}
    PROVE  LET state == Miss(request[r])
           IN  state \in Request /\ TimesInv(state) /\ PagesInv(state, indexed)
<1> DEFINE s == request[r]
<1>1. s \in Request /\ s.q \in Queries /\ s.then \in Then /\ \A d \in Docs : s.then[d] <= known[d]
  BY RequestFacts, Fields DEF TimesInv
<1>2. Miss(s) \in Request
  BY <1>1, StatesOfRequest
<1>3. TimesInv(Miss(s)) /\ PagesInv(Miss(s), indexed)
  BY <1>1 DEF Miss, TimesInv, PagesInv
<1> QED
  BY <1>2, <1>3

\* The steps of ResultCache.get.
LEMMA GetKeeps ==
    ASSUME TypeOK, ResultCacheInv, NEW r \in Requests, Get(r) \/ Check(r) \/ Delete(r)
    PROVE  TypeOK' /\ ResultCacheInv'
<1> DEFINE s == request[r]
           key == BuildCacheKey(s.q)
           entry == cache[key]
           checking == [pc |-> "check", q |-> s.q, then |-> s.then, entry |-> entry]
           deleting == [pc |-> "delete", q |-> s.q, then |-> s.then]
           answer(source) == Answered(s, s.entry.docs, s.entry.at, source)
<1>1. /\ s \in Request /\ s.pc \in {"get", "check", "delete"} /\ s.q \in Queries /\ s.then \in Then
      /\ key \in Keys /\ TimesInv(s) /\ \A d \in Docs : s.then[d] <= known[d]
  BY RequestFacts, Fields DEF Get, Check, Delete, At, TimesInv
<1>2. /\ UNCHANGED <<commits, clock, asked>> /\ (CallSucceeds \/ Upset)
      /\ cache' = cache \/ \E k \in Keys : cache' = [cache EXCEPT ![k] = NoEntry]
  BY <1>1 DEF Get, Check, Delete
<1>3. cache' \in [Keys -> Entry \cup {NoEntry}] /\ CacheInv'
  BY <1>2, CacheSteps DEF commits
<1>4. clock' \in {clock, clock + 1} /\ asked' \in {asked, asked + 1} /\ asked' <= MaxAsked
  BY <1>2, ResultCacheAssumption DEF TypeOK, ResultCacheAssumption
<1>5. ASSUME NEW state \in Request, Become(r, state), TimesInv(state), PagesInv(state, indexed)
      PROVE  TypeOK' /\ ResultCacheInv'
  BY <1>2, <1>3, <1>4, <1>5, RequestSteps
<1>6. CASE Get(r)
  <2>1. CASE Become(r, Miss(s))
    BY <1>5, <1>6, <2>1, MissGoes DEF Get, At
  <2>2. CASE Become(r, checking) /\ entry # NoEntry
    <3>1. entry \in Entry /\ EntryInv(key, entry, indexed)
      BY <1>1, <2>2, EntryFacts
    <3> HIDE DEF entry
    <3>2. checking \in Request
      BY <1>1, <3>1 DEF Request
    <3>3. TimesInv(checking) /\ PagesInv(checking, indexed)
      BY <1>1, <3>1 DEF TimesInv, PagesInv
    <3> HIDE DEF checking
    <3> QED
      BY <1>5, <2>2, <3>2, <3>3
  <2> QED
    BY <1>6, <2>1, <2>2 DEF Get
<1>7. CASE Check(r)
  <2>1. At(r, "check")
    BY <1>7 DEF Check
  <2>2. CASE Become(r, deleting)
    <3>1. deleting \in Request
      BY <1>1 DEF Request
    <3>2. TimesInv(deleting) /\ PagesInv(deleting, indexed)
      BY <1>1 DEF TimesInv, PagesInv
    <3> HIDE DEF deleting
    <3> QED
      BY <1>5, <2>2, <3>1, <3>2
  <2>3. CASE Become(r, answer("cache")) /\ (lastCommit = 0 \/ s.entry.at >= lastCommit)
    BY <1>5, <2>1, <2>3, CachedAnswer
  <2>4. CASE Become(r, answer("unchecked"))
    BY <1>5, <2>1, <2>4, CachedAnswer
  <2>5. s.entry.at \in Nat /\ lastCommit \in Nat
    BY <1>1, <2>1, Fields DEF At, Entry, TypeOK
  <2>6. \/ Become(r, deleting) \/ Become(r, answer("unchecked"))
        \/ Become(r, answer("cache")) /\ (lastCommit = 0 \/ s.entry.at >= lastCommit)
    BY <1>7, <2>5 DEF Check
  <2> QED
    BY <2>2, <2>3, <2>4, <2>6
<1>8. CASE Delete(r)
  BY <1>5, <1>8, MissGoes DEF Delete, At
<1> QED
  BY <1>6, <1>7, <1>8

\* A search ends, the results get their time, and are stored and answered.
LEMMA SearchKeeps ==
    ASSUME TypeOK, ResultCacheInv, NEW r \in Requests,
           (\E b \in Backends : Search(r, b)) \/ Stamp(r) \/ Store(r)
    PROVE  TypeOK' /\ ResultCacheInv'
<1> DEFINE s == request[r]
           key == BuildCacheKey(s.q)
           entry == [q |-> s.q, docs |-> s.docs, at |-> s.at]
<1>1. /\ s \in Request /\ s.pc \in {"search", "store"} /\ s.q \in Queries /\ s.then \in Then
      /\ key \in Keys /\ TimesInv(s) /\ PagesInv(s, indexed)
      /\ \A d \in Docs : s.then[d] <= known[d]
  BY RequestFacts, Fields DEF Search, Stamp, Store, At, TimesInv
<1>2. UNCHANGED <<commits, asked>> /\ (CallSucceeds \/ Upset) /\ clock' \in {clock, clock + 1}
  BY DEF Search, Stamp, Store, CallSucceeds
<1>3. asked' \in {asked, asked + 1} /\ asked' <= MaxAsked
  BY <1>2, ResultCacheAssumption DEF TypeOK, ResultCacheAssumption
<1>4. ASSUME NEW state \in Request, Become(r, state), TimesInv(state), PagesInv(state, indexed),
             cache' \in [Keys -> Entry \cup {NoEntry}], CacheInv'
      PROVE  TypeOK' /\ ResultCacheInv'
  BY <1>2, <1>3, <1>4, RequestSteps
<1>5. ASSUME NEW b \in Backends, Search(r, b) PROVE TypeOK' /\ ResultCacheInv'
  <2> DEFINE next(found) == Searching(s, b, found)
  <2>1. /\ s.left \subseteq Backends /\ s.found \subseteq Docs /\ b \in Asks(s.q.mode)
        /\ s.left \subseteq Asks(s.q.mode) /\ s.found \subseteq Findable(s.q, indexed)
    BY <1>1, <1>5, Fields DEF Search, At, PagesInv
  <2>2. ASSUME NEW found \in {Found(s.q, b), {}}
        PROVE  next(found) \in Request /\ TimesInv(next(found)) /\ PagesInv(next(found), indexed)
    <3>1. found \subseteq Findable(s.q, indexed) /\ found \subseteq Docs
      BY <1>1, <2>1, <2>2, FoundIsFindable
    <3>2. next(found) \in Request
      BY <1>1, <2>1, <3>1 DEF Searching, Request
    <3>3. TimesInv(next(found)) /\ PagesInv(next(found), indexed)
      BY <1>1, <2>1, <3>1 DEF Searching, TimesInv, PagesInv
    <3> QED
      BY <3>2, <3>3
  <2>3. cache' \in [Keys -> Entry \cup {NoEntry}] /\ CacheInv'
    BY <1>5, CacheSteps DEF Search, commits
  <2>4. Become(r, next(Found(s.q, b))) \/ Become(r, next({}))
    BY <1>5 DEF Search
  <2> HIDE DEF next
  <2> QED
    BY <1>4, <2>2, <2>3, <2>4
<1>6. CASE Stamp(r)
  <2> DEFINE next == [pc |-> "store", q |-> s.q, then |-> s.then, docs |-> s.found, at |-> clock']
  <2>1. s.found \subseteq Docs /\ s.found \subseteq Findable(s.q, indexed) /\ clock' \in Nat
    BY <1>1, <1>6, Fields DEF Stamp, At, PagesInv, TypeOK
  <2>2. next \in Request /\ TimesInv(next) /\ PagesInv(next, indexed)
    <3>1. next \in Request
      BY <1>1, <2>1 DEF Request
    <3>2. TimesInv(next) /\ PagesInv(next, indexed)
      BY <1>1, <2>1 DEF TimesInv, PagesInv
    <3> QED
      BY <3>1, <3>2
  <2>3. cache' \in [Keys -> Entry \cup {NoEntry}] /\ CacheInv'
    BY <1>6, CacheSteps DEF Stamp, commits
  <2>4. Become(r, next)
    BY <1>6 DEF Stamp
  <2>5. PICK state \in Request : state = next
    BY <2>2
  <2> QED
    BY <1>4, <2>2, <2>3, <2>4, <2>5
<1>7. CASE Store(r)
  <2> DEFINE next == Answered(s, s.docs, s.at, "index")
  <2>1. s.docs \in SUBSET Docs /\ s.at \in Nat /\ s.docs \subseteq Findable(s.q, indexed)
    BY <1>1, <1>7, Fields DEF Store, At, PagesInv
  <2>2. next \in Request
    BY <1>1, <2>1, StatesOfRequest
  <2>3. TimesInv(next) /\ PagesInv(next, indexed)
    BY <1>1, <2>1 DEF Answered, TimesInv, PagesInv
  <2>4. entry \in Entry /\ EntryInv(key, entry, indexed)
    BY <1>1, <2>1 DEF Entry, EntryInv
  <2>5. Become(r, next) /\ (cache' = cache \/ cache' = [cache EXCEPT ![key] = entry])
    BY <1>7 DEF Store
  <2> HIDE DEF next, entry, key
  <2>6. cache' \in [Keys -> Entry \cup {NoEntry}] /\ CacheInv'
    BY <1>1, <1>2, <2>4, <2>5, CacheSteps DEF commits
  <2> QED
    BY <1>4, <2>2, <2>3, <2>5, <2>6
<1> QED
  BY <1>5, <1>6, <1>7

\* Commits are heard, recorded and missed; entries expire; the API restarts.
\* What was known to be committed stays known, with no earlier time.
LEMMA CommitsKeep ==
    ASSUME TypeOK, ResultCacheInv,
           \/ \E d \in Docs : (\E b \in Backends : Index(d, b)) \/ Announce(d) \/ Hear(d)
           \/ RecordIndexCommit \/ ListenerDies \/ Restart
           \/ \E k \in Keys : Expire(k)
           \/ UNCHANGED vars
    PROVE  TypeOK' /\ ResultCacheInv'
<1> USE ResultCacheAssumption DEF ResultCacheAssumption
<1>1. /\ cache' \in [Keys -> Entry \cup {NoEntry}] /\ CacheInv'
  <2>1. cache' = cache \/ \E k \in Keys : cache' = [cache EXCEPT ![k] = NoEntry]
    BY DEF Index, Announce, Hear, RecordIndexCommit, ListenerDies, Restart, Expire, vars
  <2>2. \A d \in Docs : indexed[d] \subseteq indexed'[d]
    BY DEF TypeOK, Index, Announce, Hear, RecordIndexCommit, ListenerDies, Restart, Expire, commits, vars
  <2> QED
    BY <2>1, <2>2, CacheSteps
<1>2. /\ request' \in [Requests -> Request]
      /\ \A r \in Requests : request'[r] = request[r] \/ request'[r] = Idle
  <2>1. CASE Restart
    <3>1. Idle \in Request
      BY DEF Idle, Request
    <3> QED
      BY <2>1, <3>1 DEF Restart
  <2>2. CASE request' = request
    BY <2>2 DEF TypeOK
  <2> QED
    BY <2>1, <2>2 DEF Index, Announce, Hear, RecordIndexCommit, ListenerDies, Expire, commits, vars
<1>3. upsets' \in 0..MaxUpsets /\ asked' \in 0..MaxAsked
  BY DEF TypeOK, Index, Announce, Hear, RecordIndexCommit, ListenerDies, Restart, Expire, commits, vars,
         CallSucceeds, Upset
<1>4. /\ indexed' \in [Docs -> SUBSET Backends]
      /\ channel' \subseteq announced' /\ announced' \subseteq Docs
  <2>1. ASSUME NEW d \in Docs, NEW b \in Backends, Index(d, b) PROVE indexed' \in [Docs -> SUBSET Backends]
    BY <2>1 DEF Index, TypeOK
  <2>2. indexed' \in [Docs -> SUBSET Backends]
    BY <2>1 DEF Announce, Hear, RecordIndexCommit, ListenerDies, Restart, Expire, commits, vars, TypeOK
  <2> QED
    BY <2>2 DEF Index, Announce, Hear, RecordIndexCommit, ListenerDies, Restart, Expire, commits, vars, TypeOK
<1>5. \/ UNCHANGED <<listener, lastCommit, known, clock>>
      \/ /\ listener'.pc \in {"listen", "dead"} /\ listener' = [pc |-> listener'.pc, at |-> 0]
         /\ UNCHANGED <<lastCommit, known, clock>>
      \/ \E d \in Docs : /\ listener.pc = "listen" /\ clock' = clock + 1
                         /\ listener' = [pc |-> "record", at |-> clock', doc |-> d]
                         /\ UNCHANGED <<lastCommit, known>>
      \/ /\ listener.pc = "record" /\ listener' = [pc |-> "listen", at |-> 0] /\ clock' = clock
         /\ lastCommit' = listener.at /\ known' = [known EXCEPT ![listener.doc] = listener.at]
  <2>1. ASSUME NEW d \in Docs, (\E b \in Backends : Index(d, b)) \/ Announce(d)
        PROVE  UNCHANGED <<listener, lastCommit, known, clock>>
    BY <2>1 DEF Index, Announce
  <2>2. CASE (\E k \in Keys : Expire(k)) \/ UNCHANGED vars
    BY <2>2 DEF Expire, commits, vars
  <2>3. CASE \E d \in Docs : Hear(d)
    BY <2>3 DEF Hear
  <2>4. CASE RecordIndexCommit \/ ListenerDies \/ Restart
    BY <2>4 DEF RecordIndexCommit, ListenerDies, Restart
  <2> QED
    BY <2>1, <2>2, <2>3, <2>4
<1>6. /\ listener' \in [pc : {"listen", "dead"}, at : {0}] \cup [pc : {"record"}, at : Nat, doc : Docs]
      /\ lastCommit' \in Nat /\ known' \in [Docs -> Nat] /\ clock' \in Nat
      /\ CommitInv' /\ \A d \in Docs : known[d] <= known'[d]
  <2>1. /\ lastCommit \in Nat /\ known \in [Docs -> Nat] /\ clock \in Nat
        /\ listener \in [pc : {"listen", "dead"}, at : {0}] \cup [pc : {"record"}, at : Nat, doc : Docs]
        /\ \A d \in Docs : known[d] <= lastCommit
        /\ lastCommit <= clock
        /\ listener.pc = "record" => /\ listener.doc \in Docs /\ listener.at \in Nat
                                     /\ lastCommit <= listener.at /\ listener.at <= clock
    BY DEF TypeOK, ResultCacheInv, CommitInv
  <2>2. CASE UNCHANGED <<listener, lastCommit, known, clock>>
    BY <2>1, <2>2 DEF CommitInv
  <2>3. CASE /\ listener'.pc \in {"listen", "dead"} /\ listener' = [pc |-> listener'.pc, at |-> 0]
             /\ UNCHANGED <<lastCommit, known, clock>>
    BY <2>1, <2>3 DEF CommitInv
  <2>4. ASSUME NEW d \in Docs, listener.pc = "listen", clock' = clock + 1,
               listener' = [pc |-> "record", at |-> clock', doc |-> d],
               UNCHANGED <<lastCommit, known>>
        PROVE  /\ listener' \in [pc : {"record"}, at : Nat, doc : Docs]
               /\ clock' \in Nat /\ CommitInv'
    BY <2>1, <2>4 DEF CommitInv
  <2>5. CASE /\ listener.pc = "record" /\ listener' = [pc |-> "listen", at |-> 0] /\ clock' = clock
             /\ lastCommit' = listener.at /\ known' = [known EXCEPT ![listener.doc] = listener.at]
    BY <2>1, <2>5 DEF CommitInv
  <2> QED
    BY <1>5, <2>1, <2>2, <2>3, <2>4, <2>5
<1>7. TypeOK'
  BY <1>1, <1>2, <1>3, <1>4, <1>6 DEF TypeOK
<1>8. RequestsInv'
  <2>1. ASSUME NEW r \in Requests
        PROVE  (TimesInv(request[r]) /\ PagesInv(request[r], indexed))'
    <3>1. /\ request[r] \in Request /\ TimesInv(request[r]) /\ PagesInv(request[r], indexed)
          /\ request[r].pc # "idle" => request[r].then \in Then
      BY RequestFacts, Fields
    <3>2. CASE request'[r] = Idle
      BY <3>2 DEF Idle, TimesInv, PagesInv
    <3>3. CASE request'[r] = request[r]
      <4>1. request[r].pc # "idle" => \A d \in Docs : request[r].then[d] <= known'[d]
        BY <1>6, <3>1 DEF TimesInv, TypeOK, Then
      <4>2. PagesInv(request[r], indexed')
        <5>1. \A d \in Docs : indexed[d] \subseteq indexed'[d]
          BY DEF TypeOK, Index, Announce, Hear, RecordIndexCommit, ListenerDies, Restart, Expire, commits, vars
        <5> QED
          BY <3>1, <5>1, FindableStays
      <4> QED
        BY <3>1, <3>3, <4>1, <4>2 DEF TimesInv, PagesInv
    <3> QED
      BY <1>2, <3>2, <3>3
  <2> QED
    BY <2>1 DEF RequestsInv
<1> QED
  BY <1>1, <1>6, <1>7, <1>8 DEF ResultCacheInv

-----------------------------------------------------------------------------
LEMMA ResultCacheInit == Init => TypeOK /\ ResultCacheInv
<1> SUFFICES ASSUME Init PROVE TypeOK /\ ResultCacheInv
  OBVIOUS
<1>1. TypeOK
  BY ResultCacheAssumption DEF ResultCacheAssumption, Init, TypeOK, Idle, Request
<1>2. CommitInv /\ RequestsInv /\ CacheInv
  BY DEF Init, CommitInv, RequestsInv, CacheInv, TimesInv, PagesInv, Idle
<1> QED
  BY <1>1, <1>2 DEF ResultCacheInv

LEMMA ResultCacheInvariant == Spec => [](TypeOK /\ ResultCacheInv)
<1>1. TypeOK /\ ResultCacheInv /\ [Next]_vars => (TypeOK /\ ResultCacheInv)'
  <2> SUFFICES ASSUME TypeOK, ResultCacheInv, [Next]_vars PROVE TypeOK' /\ ResultCacheInv'
    OBVIOUS
  <2>1. ASSUME NEW r \in Requests, Handle(r) PROVE TypeOK' /\ ResultCacheInv'
    BY <2>1, GetKeeps, SearchKeeps DEF Handle
  <2> QED
    BY <2>1, AskKeeps, CommitsKeep DEF Next
<1> QED
  BY ResultCacheInit, <1>1, PTL DEF Spec

\* The state of the search path is well typed.
THEOREM ResultCacheTypes == Spec => []TypeOK
  BY ResultCacheInvariant, PTL

\* ResultCache.get checks an entry against LAST_INDEX_COMMIT: a hit was stored
\* after every commit that had been recorded when the request came in.
THEOREM HitsPostdateCommits == Spec => []HitPostdatesCommits
<1>1. ResultCacheInv => HitPostdatesCommits
  BY DEF ResultCacheInv, RequestsInv, TimesInv, HitPostdatesCommits, Done, At
<1> QED
  BY <1>1, ResultCacheInvariant, PTL

\* build_cache_key holds the terms and the mode: an answer holds pages that its
\* own query's terms find in a backend its mode asks, whichever request stored
\* the entry it is taken from.  Of `since` nothing of the kind can be shown.
THEOREM AnswersAreOwn == Spec => []AnswersOwnTermAndMode
<1>1. ResultCacheInv => AnswersOwnTermAndMode
  BY DEF ResultCacheInv, RequestsInv, PagesInv, Findable, AnswersOwnTermAndMode, Answers, Done, At
<1> QED
  BY <1>1, ResultCacheInvariant, PTL

-----------------------------------------------------------------------------
(***************************************************************************)
(* The live feed.                                                          *)
(***************************************************************************)
TargetIsClient == Sending => cast.to \in Clients
DeadAreGone == \A c \in cast.dead : ~link[c]

\* Until somebody joins or leaves, the set has the size the loop began with,
\* and whom it has not reached is next, to do, or gone.
LoopInv ==
    Sending /\ ~changed =>
        /\ cast.size = Cardinality(connections)
        /\ \A c \in missing : c = cast.to \/ c \in cast.todo \/ ~link[c]

FeedInv ==
    /\ FeedTypeOK /\ IsFiniteSet(connections)
    /\ TargetIsClient /\ DeadAreGone /\ LoopInv /\ UndisturbedReachesAll /\ ServedIsRegistered

LEMMA FeedInitially == InitFeed => FeedInv
<1> SUFFICES ASSUME InitFeed PROVE FeedInv
  OBVIOUS
<1>1. IsFiniteSet(connections)
  BY FS_EmptySet DEF InitFeed
<1>2. FeedTypeOK
  <2>1. NoPositions \in [Channels -> Nat] /\ <<>> \in Seq(Channels \X Nat)
    BY DEF NoPositions
  <2>2. streamer \in [pc : {"top", "read", "handle", "count", "send", "sleep", "cancelled"},
                      from : [Channels -> Nat], batch : Seq(Channels \X Nat)]
    BY <2>1 DEF InitFeed
  <2>3. cast \in [then : {"top", "handle"}, to : Clients \cup {NoClient},
              todo : SUBSET Clients, size : Nat, dead : SUBSET Clients]
    BY DEF InitFeed, NoCast
  <2>4. /\ connections \subseteq Clients /\ handler \in [Clients -> {"away", "served", "gone"}]
        /\ link \in [Clients -> BOOLEAN] /\ entries \in [Channels -> Nat]
        /\ lastIds \in [Channels -> {Latest} \cup Nat]
        /\ changed \in BOOLEAN /\ missing \subseteq Clients
    BY <2>1 DEF InitFeed
  <2>5. errors \in 0..MaxErrors
    BY LiveFeedAssumption DEF LiveFeedAssumption, InitFeed
  <2> QED
    BY <2>2, <2>3, <2>4, <2>5 DEF FeedTypeOK
<1> QED
  BY <1>1, <1>2 DEF InitFeed, FeedInv, TargetIsClient, DeadAreGone, LoopInv, UndisturbedReachesAll, ServedIsRegistered,
     NoCast, Sending

\* The size of a set of connections.
LEMMA Sizes == ASSUME FeedInv PROVE Cardinality(connections) \in Nat
  BY FS_CardinalityType DEF FeedInv

\* A client joins or leaves: a loop under way is disturbed, and no other.
LEMMA SetConnectionsStep ==
    ASSUME FeedInv, NEW new \in SUBSET Clients, IsFiniteSet(new), SetConnections(new),
           handler' \in [Clients -> {"away", "served", "gone"}],
           \A c \in Clients : handler'[c] = "served" /\ link[c] => c \in new,
           \A c \in new : handler'[c] = "served",
           UNCHANGED <<link, entries, lastIds, streamer, errors>>
    PROVE  FeedInv'
<1>1. connections' = new /\ Sending' = Sending
  BY DEF SetConnections, Sending
<1>2. CASE Sending /\ new # connections
  <2>1. changed' = TRUE /\ missing' = {}
    BY <1>2 DEF SetConnections
  <2>2. PICK todo \in SUBSET Clients : cast' = [cast EXCEPT !.todo = todo]
    BY <1>2 DEF SetConnections
  <2>3. cast'.dead = cast.dead /\ cast'.to = cast.to /\ cast' \in [then : {"top", "handle"}, to : Clients \cup {NoClient},
              todo : SUBSET Clients, size : Nat, dead : SUBSET Clients]
    BY <2>2 DEF FeedInv, FeedTypeOK
  <2>4. FeedTypeOK'
    BY <1>1, <2>1, <2>3 DEF FeedInv, FeedTypeOK
  <2> QED
    BY <1>1, <2>1, <2>3, <2>4 DEF FeedInv, TargetIsClient, DeadAreGone, LoopInv, UndisturbedReachesAll, ServedIsRegistered
<1>3. CASE ~(Sending /\ new # connections)
  <2>1. UNCHANGED <<cast, changed, missing>>
    BY <1>3 DEF SetConnections, castVars
  <2>2. FeedTypeOK'
    BY <1>1, <2>1 DEF FeedInv, FeedTypeOK
  <2>3. Sending' => connections' = connections
    BY <1>1, <1>3
  <2> QED
    BY <1>1, <2>1, <2>2, <2>3 DEF FeedInv, TargetIsClient, DeadAreGone, LoopInv, UndisturbedReachesAll, ServedIsRegistered
<1> QED
  BY <1>2, <1>3

LEMMA ClientStep ==
    ASSUME FeedInv, NEW c \in Clients, Accept(c) \/ Leave(c) \/ Disconnect(c)
    PROVE  FeedInv'
<1>1. /\ connections \subseteq Clients /\ IsFiniteSet(connections)
      /\ handler \in [Clients -> {"away", "served", "gone"}] /\ link \in [Clients -> BOOLEAN]
      /\ ServedIsRegistered
  BY DEF FeedInv, FeedTypeOK
<1>2. CASE /\ handler[c] = "away" /\ SetConnections(connections \cup {c})
           /\ handler' = [handler EXCEPT ![c] = "served"]
           /\ UNCHANGED <<link, entries, lastIds, streamer, errors>>
  <2>1. IsFiniteSet(connections \cup {c})
    BY <1>1, FS_AddElement
  <2> QED
    BY <1>1, <1>2, <2>1, SetConnectionsStep DEF ServedIsRegistered
<1>3. CASE /\ handler[c] = "away" /\ handler' = [handler EXCEPT ![c] = "gone"]
           /\ UNCHANGED <<connections, castVars, link, entries, lastIds, streamer, errors>>
  <2>1. c \notin connections
    BY <1>1, <1>3 DEF ServedIsRegistered
  <2>2. FeedTypeOK'
    BY <1>1, <1>3 DEF FeedInv, FeedTypeOK, castVars
  <2> QED
    BY <1>1, <1>3, <2>1, <2>2
    DEF castVars, FeedInv, TargetIsClient, DeadAreGone, LoopInv, Sending, UndisturbedReachesAll, ServedIsRegistered
<1>4. CASE Leave(c)
  <2>1. IsFiniteSet(connections \ {c})
    BY <1>1, FS_Subset
  <2> QED
    BY <1>1, <1>4, <2>1, SetConnectionsStep DEF Leave, ServedIsRegistered
<1>5. CASE Disconnect(c)
  <2>1. /\ link' = [link EXCEPT ![c] = FALSE] /\ \A d \in Clients : link'[d] => link[d]
        /\ UNCHANGED <<connections, handler, entries, lastIds, streamer, cast, changed, missing, errors>>
    BY <1>1, <1>5 DEF Disconnect, castVars
  <2>2. FeedTypeOK'
    BY <2>1 DEF FeedInv, FeedTypeOK
  <2>3. cast.dead \subseteq Clients /\ missing \subseteq Clients
    BY DEF FeedInv, FeedTypeOK
  <2> QED
    BY <1>1, <2>1, <2>2, <2>3
    DEF FeedInv, TargetIsClient, DeadAreGone, LoopInv, Sending, UndisturbedReachesAll, ServedIsRegistered
<1> QED
  BY <1>2, <1>3, <1>4, <1>5 DEF Accept

\* The types of the parts of the state that the loop's steps change.
Streamers == [pc : {"top", "read", "handle", "count", "send", "sleep", "cancelled"},
              from : [Channels -> Nat], batch : Seq(Channels \X Nat)]
Casts == [then : {"top", "handle"}, to : Clients \cup {NoClient},
          todo : SUBSET Clients, size : Nat, dead : SUBSET Clients]

LEMMA StreamerMoves ==
    ASSUME FeedInv, NEW pc \in {"top", "read", "handle", "count", "sleep", "cancelled"}, Streamer(pc)
    PROVE  /\ streamer' \in Streamers /\ ~Sending'
           /\ streamer'.from = streamer.from /\ streamer'.batch = streamer.batch
  BY DEF FeedInv, FeedTypeOK, Streamers, Streamer, Sending

\* Steps outside of a broadcast, or that end one by cancelling it.
LEMMA NoBroadcast ==
    ASSUME FeedInv, streamer' \in Streamers, ~Sending', UNCHANGED <<connections, handler, link>>,
           cast' = cast \/ cast' = NoCast, (missing' = {} /\ changed' = FALSE) \/ (~Sending /\ UNCHANGED <<missing, changed>>),
           entries' \in [Channels -> Nat], lastIds' \in [Channels -> {Latest} \cup Nat],
           errors' \in 0..MaxErrors
    PROVE  FeedInv'
<1>1. NoCast \in Casts /\ NoCast.dead = {}
  BY DEF NoCast, Casts
<1>2. FeedTypeOK'
  BY <1>1 DEF FeedInv, FeedTypeOK, Streamers, Casts
<1>3. DeadAreGone'
  BY <1>1 DEF FeedInv, DeadAreGone
<1> QED
  BY <1>2, <1>3 DEF FeedInv, TargetIsClient, LoopInv, UndisturbedReachesAll, ServedIsRegistered

\* A broadcast begins with every member still to be reached.
LEMMA BeginStep ==
    ASSUME FeedInv, ~Sending, NEW then \in {"top", "handle"}, NEW batch \in Seq(Channels \X Nat), Begin(then, batch),
           UNCHANGED <<connections, handler, link, entries>>,
           lastIds' \in [Channels -> {Latest} \cup Nat], errors' \in 0..MaxErrors
    PROVE  FeedInv'
<1>1. streamer \in Streamers /\ connections \subseteq Clients /\ entries \in [Channels -> Nat]
  BY DEF FeedInv, FeedTypeOK, Streamers
<1>2. CASE connections = {}
  <2>1. streamer' \in Streamers /\ ~Sending'
    BY <1>1, <1>2 DEF Begin, Streamers, Sending
  <2> QED
    BY <1>1, <1>2, <2>1, NoBroadcast DEF Begin, Forget
<1>3. CASE connections # {}
  <2>1. PICK c \in connections : cast' = [then |-> then, to |-> c, todo |-> connections \ {c},
                                          size |-> Cardinality(connections), dead |-> {}]
    BY <1>3 DEF Begin
  <2>2. cast' \in Casts
    BY <1>1, <2>1, Sizes DEF Casts
  <2>3. streamer' \in Streamers /\ Sending'
    BY <1>1, <1>3 DEF Begin, Streamers, Sending
  <2>4. missing' = connections /\ changed' = FALSE
    BY <1>3 DEF Begin
  <2>5. FeedTypeOK'
    BY <2>2, <2>3, <2>4 DEF FeedInv, FeedTypeOK, Streamers, Casts
  <2>6. TargetIsClient' /\ DeadAreGone' /\ LoopInv'
    BY <1>1, <2>1, <2>4 DEF TargetIsClient, DeadAreGone, LoopInv
  <2> QED
    BY <2>3, <2>5, <2>6 DEF FeedInv, UndisturbedReachesAll, ServedIsRegistered
<1> QED
  BY <1>2, <1>3

\* What XREAD answers is a sequence of the stream's positions.
LEMMA FreshFields == ASSUME FeedInv, NEW s \in Channels PROVE Fresh(s) \in Seq(Channels \X Nat)
<1>1. /\ ReadCount \in Nat \ {0} /\ entries[s] \in Nat /\ streamer.from[s] \in Nat
  BY LiveFeedAssumption DEF LiveFeedAssumption, FeedInv, FeedTypeOK
<1>2. PICK from \in Nat, top \in Int : /\ from = streamer.from[s] /\ top <= ReadCount
                                       /\ Fresh(s) = [i \in 1..top |-> <<s, from + i>>]
  BY <1>1 DEF Fresh
<1>3. PICK n \in Nat : 1..n = 1..top
  <2>1. CASE top >= 0
    BY <2>1
  <2>2. CASE top < 0
    <3>1. 1..top = 1..0
      BY <2>2
    <3> QED
      BY <3>1
  <2> QED
    BY <2>1, <2>2
<1>4. Fresh(s) \in [1..n -> Channels \X Nat]
  BY <1>2, <1>3
<1> QED
  BY <1>4

LEMMA ReadingStep ==
    ASSUME FeedInv, Read \/ Answer \/ AnswerEmpty \/ ReadFails \/ WakeUp \/ Cancel \/ \E s \in Channels : Add(s)
    PROVE  FeedInv'
<1>1. /\ streamer \in Streamers /\ entries \in [Channels -> Nat] /\ lastIds \in [Channels -> {Latest} \cup Nat]
      /\ errors \in 0..MaxErrors /\ MaxErrors \in Nat
  BY LiveFeedAssumption DEF LiveFeedAssumption, FeedInv, FeedTypeOK, Streamers
<1>2. CASE Read
  <2>1. [s \in Channels |-> IF lastIds[s] = Latest THEN entries[s] ELSE lastIds[s]] \in [Channels -> Nat]
    BY <1>1
  <2>2. PICK from \in [Channels -> Nat] : streamer' = [streamer EXCEPT !.pc = "read", !.from = from]
    BY <1>2, <2>1 DEF Read
  <2>3. streamer' \in Streamers /\ ~Sending'
    BY <1>1, <2>2 DEF Streamers, Sending
  <2> QED
    BY <1>1, <1>2, <2>3, NoBroadcast DEF Read, Forget, clientVars
<1>3. CASE Answer
  <2>1. PICK s \in Channels, t \in Channels :
              streamer' = [streamer EXCEPT !.pc = "handle", !.batch = Fresh(s) \o Fresh(t), !.from = NoPositions]
    BY <1>3 DEF Answer
  <2>2. Fresh(s) \o Fresh(t) \in Seq(Channels \X Nat) /\ NoPositions \in [Channels -> Nat]
    BY FreshFields DEF NoPositions
  <2>3. streamer' \in Streamers /\ ~Sending' /\ ~Sending
    BY <1>1, <1>3, <2>1, <2>2 DEF Streamers, Sending, Answer
  <2> QED
    BY <1>1, <1>3, <2>3, NoBroadcast DEF Answer, clientVars, castVars
<1>4. CASE AnswerEmpty \/ ReadFails \/ WakeUp
  <2>1. streamer' \in Streamers /\ ~Sending'
    BY <1>4, StreamerMoves DEF AnswerEmpty, ReadFails, WakeUp
  <2>2. ~Sending /\ errors' \in 0..MaxErrors
    BY <1>1, <1>4 DEF AnswerEmpty, ReadFails, WakeUp, RedisFails, Sending
  <2> QED
    BY <1>1, <1>4, <2>1, <2>2, NoBroadcast DEF AnswerEmpty, ReadFails, WakeUp, clientVars, castVars
<1>5. CASE Cancel
  <2>1. <<>> \in Seq(Channels \X Nat) /\ NoPositions \in [Channels -> Nat]
    BY DEF NoPositions
  <2>2. streamer' \in Streamers /\ ~Sending'
    BY <1>1, <1>5, <2>1 DEF Cancel, Streamers, Sending
  <2> QED
    BY <1>1, <1>5, <2>2, NoBroadcast DEF Cancel, Forget, clientVars
<1>6. ASSUME NEW s \in Channels, Add(s) PROVE FeedInv'
  <2>1. /\ entries' = [entries EXCEPT ![s] = @ + 1]
        /\ UNCHANGED <<clientVars, lastIds, streamer, castVars, errors>>
    BY <1>6, Zenon DEF Add
  <2>2. /\ entries' \in [Channels -> Nat]
        /\ UNCHANGED <<connections, handler, link, lastIds, streamer, cast, changed, missing, errors>>
    BY <1>1, <2>1 DEF clientVars, castVars
  <2>3. FeedTypeOK'
    BY <2>2 DEF FeedInv, FeedTypeOK
  <2> QED
    BY <2>2, <2>3 DEF FeedInv, TargetIsClient, DeadAreGone, LoopInv, Sending, UndisturbedReachesAll, ServedIsRegistered
<1> QED
  BY <1>2, <1>3, <1>4, <1>5, <1>6

LEMMA HandlingStep == ASSUME FeedInv, CountQueue \/ HandleRecord PROVE FeedInv'
<1>1. /\ streamer \in Streamers /\ entries \in [Channels -> Nat] /\ lastIds \in [Channels -> {Latest} \cup Nat]
      /\ errors \in 0..MaxErrors /\ MaxErrors \in Nat /\ ~Sending
  BY LiveFeedAssumption DEF LiveFeedAssumption, FeedInv, FeedTypeOK, Streamers, CountQueue, HandleRecord, Sending
<1>2. CASE CountQueue
  <2>1. CASE Begin("top", <<>>) /\ UNCHANGED errors
    <3>1. <<>> \in Seq(Channels \X Nat)
      OBVIOUS
    <3> QED
      BY <1>1, <1>2, <2>1, <3>1, BeginStep DEF CountQueue, clientVars
  <2>2. CASE RedisFails /\ Streamer("top") /\ UNCHANGED castVars
    <3>1. streamer' \in Streamers /\ ~Sending'
      BY <2>2, StreamerMoves
    <3> QED
      BY <1>1, <1>2, <2>2, <3>1, NoBroadcast DEF CountQueue, RedisFails, clientVars, castVars
  <2> QED
    BY <1>2, <2>1, <2>2 DEF CountQueue
<1>3. CASE HandleRecord /\ streamer.batch = <<>>
  <2>1. streamer' \in Streamers /\ ~Sending'
    BY <1>3, StreamerMoves DEF HandleRecord
  <2> QED
    BY <1>1, <1>3, <2>1, NoBroadcast DEF HandleRecord, Forget, clientVars
<1>4. CASE HandleRecord /\ streamer.batch # <<>>
  <2>1. streamer.batch \in Seq(Channels \X Nat)
    BY <1>1 DEF Streamers
  <2>2. PICK s \in Channels, n \in Nat, rest \in Seq(Channels \X Nat) :
              Head(streamer.batch) = <<s, n>> /\ rest = Tail(streamer.batch)
    <3>1. Head(streamer.batch) \in Channels \X Nat /\ Tail(streamer.batch) \in Seq(Channels \X Nat)
      BY <1>4, <2>1
    <3>2. \E s \in Channels, n \in Nat : Head(streamer.batch) = <<s, n>>
      BY <3>1
    <3> QED
      BY <3>1, <3>2
  <2>3. lastIds' = [lastIds EXCEPT ![s] = n]
    BY <1>4, <2>2 DEF HandleRecord
  <2>4. lastIds' \in [Channels -> {Latest} \cup Nat]
    BY <1>1, <2>3
  <2>5. CASE Begin("handle", rest)
    BY <1>1, <1>4, <2>4, <2>5, BeginStep DEF HandleRecord, clientVars
  <2>6. CASE streamer' = [streamer EXCEPT !.batch = rest] /\ Forget /\ UNCHANGED cast
    <3>1. streamer' \in Streamers /\ ~Sending'
      BY <1>1, <2>6 DEF Streamers, Sending
    <3> QED
      BY <1>1, <1>4, <2>4, <2>6, <3>1, NoBroadcast DEF HandleRecord, Forget, clientVars
  <2> QED
    BY <1>4, <2>2, <2>5, <2>6 DEF HandleRecord
<1> QED
  BY <1>2, <1>3, <1>4

\* The loop ends, by itself or with a RuntimeError: undisturbed it does only
\* when nobody is left, and it removes none but the dead.
LEMMA ReturnStep ==
    ASSUME FeedInv, Sending, Return, UNCHANGED <<handler, link, changed, entries, lastIds, errors>>,
           NEW dead \in SUBSET Clients, \A c \in dead : ~link[c],
           connections' \in {connections, connections \ dead}, missing' \subseteq Clients,
           ~changed => \A c \in missing' : ~link[c]
    PROVE  FeedInv'
<1>1. NoCast \in Casts /\ NoCast.dead = {} /\ cast' = NoCast
  BY DEF NoCast, Casts, Return
<1>2. streamer' \in Streamers /\ ~Sending'
  <2>1. cast.then \in {"top", "handle"}
    BY DEF FeedInv, FeedTypeOK
  <2> QED
    BY <2>1, StreamerMoves DEF Return
<1>3. connections' \subseteq connections /\ IsFiniteSet(connections')
  BY FS_Subset DEF FeedInv
<1>4. FeedTypeOK'
  BY <1>1, <1>2, <1>3 DEF FeedInv, FeedTypeOK, Casts, Streamers
<1>5. ServedIsRegistered'
  BY <1>3 DEF FeedInv, ServedIsRegistered
<1> QED
  BY <1>1, <1>2, <1>3, <1>4, <1>5 DEF FeedInv, TargetIsClient, DeadAreGone, LoopInv, UndisturbedReachesAll

\* A step of the loop, after a send that reached its client or found it gone.
LEMMA AdvanceStep ==
    ASSUME FeedInv, Sending, NEW dead \in SUBSET Clients, Advance(dead), \A c \in dead : ~link[c],
           UNCHANGED <<handler, link, changed, entries, lastIds, errors>>,
           missing' \subseteq missing, ~link[cast.to] \/ cast.to \notin missing'
    PROVE  FeedInv'
<1>1. cast \in Casts /\ missing' \subseteq Clients
  BY DEF FeedInv, FeedTypeOK, Casts
<1>2. ~changed => /\ cast.size = Cardinality(connections)
                  /\ \A c \in missing' : c \in cast.todo \/ ~link[c]
  BY DEF FeedInv, LoopInv
<1>3. CASE Cardinality(connections) # cast.size
  <2>1. Return /\ connections' = connections /\ changed
    BY <1>2, <1>3 DEF Advance, FeedInv, FeedTypeOK
  <2> QED
    BY <1>1, <2>1, ReturnStep
<1>4. CASE Cardinality(connections) = cast.size /\ cast.todo = {}
  <2>1. Return /\ connections' = connections \ dead
    BY <1>4 DEF Advance
  <2> QED
    BY <1>1, <1>2, <1>4, <2>1, ReturnStep
<1>5. CASE Cardinality(connections) = cast.size /\ cast.todo # {}
  <2>1. PICK c \in cast.todo : cast' = [cast EXCEPT !.to = c, !.todo = cast.todo \ {c}, !.dead = dead]
    BY <1>5 DEF Advance
  <2>2. UNCHANGED <<connections, streamer>>
    BY <1>5 DEF Advance
  <2>3. /\ cast' \in Casts /\ cast'.to = c /\ cast'.todo = cast.todo \ {c} /\ cast'.dead = dead /\ cast'.size = cast.size
    BY <1>1, <2>1 DEF Casts
  <2>4. FeedTypeOK'
    BY <1>1, <2>2, <2>3 DEF FeedInv, FeedTypeOK, Casts
  <2>5. LoopInv' /\ TargetIsClient'
    BY <1>1, <1>2, <2>2, <2>3 DEF LoopInv, TargetIsClient, Casts, Sending
  <2> QED
    BY <2>2, <2>3, <2>4, <2>5 DEF FeedInv, DeadAreGone, UndisturbedReachesAll, ServedIsRegistered, Sending
<1> QED
  BY <1>3, <1>4, <1>5

LEMMA SendEndsStep == ASSUME FeedInv, SendEnds PROVE FeedInv'
<1>1. Sending /\ UNCHANGED <<handler, link, changed, entries, lastIds, errors>>
  BY DEF SendEnds
<1>2. cast.dead \in SUBSET Clients /\ \A c \in cast.dead : ~link[c]
  BY DEF FeedInv, FeedTypeOK, DeadAreGone
<1>3. CASE link[cast.to]
  BY <1>1, <1>2, <1>3, AdvanceStep DEF SendEnds
<1>4. CASE ~link[cast.to] /\ Advance(cast.dead)
  BY <1>1, <1>2, <1>4, AdvanceStep DEF SendEnds
<1>5. CASE ~link[cast.to] /\ Advance(cast.dead \cup {cast.to})
  <2>1. cast.to \in Clients
    BY <1>1 DEF FeedInv, TargetIsClient
  <2> QED
    BY <1>1, <1>2, <1>5, <2>1, AdvanceStep DEF SendEnds
<1> QED
  BY <1>3, <1>4, <1>5 DEF SendEnds

LEMMA FeedKept == FeedInv /\ [FeedNext]_feedVars => FeedInv'
<1> SUFFICES ASSUME FeedInv, [FeedNext]_feedVars PROVE FeedInv'
  OBVIOUS
<1>1. CASE UNCHANGED feedVars
  <2>1. UNCHANGED <<connections, handler, link, entries, lastIds, streamer, cast, changed, missing, errors>>
    BY <1>1 DEF feedVars, clientVars, castVars
  <2>2. FeedTypeOK'
    BY <2>1 DEF FeedInv, FeedTypeOK
  <2> QED
    BY <2>1, <2>2 DEF FeedInv, TargetIsClient, DeadAreGone, LoopInv, Sending, UndisturbedReachesAll, ServedIsRegistered
<1> QED
  BY <1>1, ClientStep, ReadingStep, HandlingStep, SendEndsStep DEF FeedNext, FeedStep

LEMMA FeedInvariant == FeedSpec => []FeedInv
  BY FeedInitially, FeedKept, PTL DEF FeedSpec

\* Every variable of the live feed has its type.
THEOREM FeedTypes == FeedSpec => []FeedTypeOK
<1>1. FeedInv => FeedTypeOK
  BY DEF FeedInv
<1> QED
  BY <1>1, FeedInvariant, PTL

\* A broadcast that nobody joined or left reaches every client it began with
\* whose connection still works, whichever others fail (websocket.py:57-61).
THEOREM UndisturbedBroadcasts == FeedSpec => []UndisturbedReachesAll
<1>1. FeedInv => UndisturbedReachesAll
  BY DEF FeedInv
<1> QED
  BY <1>1, FeedInvariant, PTL

\* Whoever is served over a working connection is registered, and nobody is
\* whose handler has returned, though broadcasts and handlers both remove
\* members, and broadcasts do it late (websocket.py:62, 78, 106).
THEOREM RegisteredWhileServed == FeedSpec => []ServedIsRegistered
<1>1. FeedInv => ServedIsRegistered
  BY DEF FeedInv
<1> QED
  BY <1>1, FeedInvariant, PTL

-----------------------------------------------------------------------------
(* The pages of a search. *)

\* What two engines may answer.
IsHits(hits) ==
    /\ hits \in [Engines -> Seq(Documents)]
    /\ \A e \in Engines : IsInjective(hits[e]) /\ Len(hits[e]) <= CandidateCount

\* The pages are the first places of the ranking.
CutsOf(r) ==
    /\ Len(shown) <= Len(r) /\ \A i \in 1..Len(shown) : shown[i] = r[i]
    /\ finished => Len(shown) = Len(r)
CutsInv == PagesTypeOK /\ (failed = {} => CutsOf(Ranked(search, Hits(search, {}))))

-----------------------------------------------------------------------------
\* The places of a slice, also of one that begins behind the list.
LEMMA SliceFacts ==
    ASSUME NEW S, NEW list \in Seq(S), NEW from \in Nat, NEW count \in Nat
    PROVE  /\ Slice(list, from, count) \in Seq(S)
           /\ from <= Len(list) /\ from + count < Len(list) => Len(Slice(list, from, count)) = count
           /\ from <= Len(list) /\ from + count >= Len(list) => Len(Slice(list, from, count)) = Len(list) - from
           /\ \A i \in 1..Len(Slice(list, from, count)) : Slice(list, from, count)[i] = list[from + i]
<1>1. PICK last \in Nat : last = IF from + count < Len(list) THEN from + count ELSE Len(list)
  OBVIOUS
<1>2. Slice(list, from, count) = SubSeq(list, from + 1, last) /\ last <= Len(list)
  BY <1>1 DEF Slice
<1>3. SubSeq(list, from + 1, last) = [i \in 1..(last - from) |-> list[from + i]]
  BY <1>2
<1>4. \A i \in 1..(last - from) : list[from + i] \in S
  BY <1>2
<1>5. CASE from <= last
  <2>1. last - from \in Nat
    BY <1>5
  <2>2. PICK cut \in Seq(S) : cut = [i \in 1..(last - from) |-> list[from + i]]
    <3>1. PICK k \in Nat : k = last - from
      BY <2>1
    <3>2. [i \in 1..k |-> list[from + i]] \in Seq(S)
      BY <1>4, <3>1
    <3> QED
      BY <3>1, <3>2
  <2>3. Len(cut) = last - from /\ \A i \in 1..Len(cut) : cut[i] = list[from + i]
    BY <2>1, <2>2
  <2>4. Slice(list, from, count) = cut
    BY <1>2, <1>3, <2>2
  <2> QED
    BY <1>1, <2>3, <2>4
<1>6. CASE last < from
  <2>1. 1..(last - from) = {}
    BY <1>6
  <2>2. Slice(list, from, count) = <<>>
    BY <1>2, <1>3, <2>1
  <2> QED
    BY <1>1, <1>6, <2>2
<1> QED
  BY <1>5, <1>6

\* An engine's candidates: its first hits, each once.
LEMMA Retrieved ==
    ASSUME NEW list \in Rankings
    PROVE  /\ Retrieve(list) \in Seq(Documents) /\ IsInjective(Retrieve(list))
           /\ Len(Retrieve(list)) <= CandidateCount
<1>1. list \in Seq(Documents) /\ IsInjective(list) /\ CandidateCount \in Nat
  BY PagesAssumption
<1>2. PICK cut \in Seq(Documents) : cut = Slice(list, 0, CandidateCount)
  BY <1>1, SliceFacts
<1>3. Len(cut) <= Len(list) /\ Len(cut) <= CandidateCount /\ \A i \in 1..Len(cut) : cut[i] = list[i]
  <2>1. /\ 0 <= Len(list) /\ 0 + CandidateCount < Len(list) => Len(cut) = CandidateCount
        /\ 0 <= Len(list) /\ 0 + CandidateCount >= Len(list) => Len(cut) = Len(list) - 0
        /\ \A i \in 1..Len(cut) : cut[i] = list[0 + i]
    <3>1. PICK none \in Nat : none = 0
      OBVIOUS
    <3>2. cut = Slice(list, none, CandidateCount)
      BY <1>2, <3>1
    <3>3. /\ none <= Len(list) /\ none + CandidateCount < Len(list) => Len(cut) = CandidateCount
          /\ none <= Len(list) /\ none + CandidateCount >= Len(list) => Len(cut) = Len(list) - none
          /\ \A i \in 1..Len(cut) : cut[i] = list[none + i]
      BY <1>1, <3>2, SliceFacts
    <3> QED
      BY <3>1, <3>3
  <2> QED
    BY <1>1, <2>1
<1>4. IsInjective(cut)
  BY <1>1, <1>3 DEF IsInjective
<1> QED
  BY <1>2, <1>3, <1>4 DEF Retrieve

LEMMA HitsAreHits ==
    ASSUME NEW query \in Searches, NEW failing
    PROVE  IsHits(Hits(query, failing))
<1>1. ASSUME NEW e \in Engines
      PROVE  LET list == IF e \in failing THEN <<>> ELSE Retrieve(query.found[e])
             IN  list \in Seq(Documents) /\ IsInjective(list) /\ Len(list) <= CandidateCount
  <2>1. <<>> \in Seq(Documents) /\ IsInjective(<<>>) /\ Len(<<>>) <= CandidateCount
    BY PagesAssumption DEF IsInjective
  <2>2. query.found[e] \in Rankings
    BY DEF Searches
  <2> QED
    BY <2>1, <2>2, Retrieved
<1> QED
  BY <1>1 DEF Hits, IsHits
-----------------------------------------------------------------------------
\* Places in a list, in docs and in the sort.
LEMMA RankFacts ==
    ASSUME NEW list \in Seq(Documents), NEW d, Contains(list, d)
    PROVE  Rank(list, d) \in 1..Len(list) /\ list[Rank(list, d)] = d
<1>1. DOMAIN list = 1..Len(list)
  OBVIOUS
<1> QED
  BY <1>1 DEF Rank, Contains

LEMMA MergedFinite ==
    ASSUME NEW hits, IsHits(hits)
    PROVE  /\ IsFiniteSet(Merged(hits)) /\ Merged(hits) \subseteq Documents
           /\ \A d \in Merged(hits) : Contains(hits["bm25"], d) \/ Contains(hits["ann"], d)
<1>1. ASSUME NEW list \in Seq(Documents)
      PROVE  IsFiniteSet(ToSet(list)) /\ ToSet(list) \subseteq Documents /\ \A d \in ToSet(list) : Contains(list, d)
  <2>1. DOMAIN list = 1..Len(list) /\ Len(list) \in Nat
    OBVIOUS
  <2>2. list \in Surjection(1..Len(list), ToSet(list))
    BY <2>1 DEF Surjection, ToSet
  <2>3. IsFiniteSet(1..Len(list))
    BY <2>1, FS_Interval
  <2>4. IsFiniteSet(ToSet(list))
    BY <2>2, <2>3, FS_Surjection
  <2> QED
    BY <2>1, <2>4 DEF ToSet, Contains
<1>2. hits["bm25"] \in Seq(Documents) /\ hits["ann"] \in Seq(Documents)
  BY DEF IsHits, Engines
<1>3. IsFiniteSet(ToSet(hits["bm25"]) \cup ToSet(hits["ann"]))
  BY <1>1, <1>2, FS_Union
<1>4. Merged(hits) \subseteq ToSet(hits["bm25"]) \cup ToSet(hits["ann"])
  BY DEF Merged
<1> QED
  BY <1>1, <1>2, <1>3, <1>4, FS_Subset

LEMMA MetOnce ==
    ASSUME NEW hits, IsHits(hits), NEW d \in Merged(hits), NEW e \in Merged(hits)
    PROVE  Met(hits, d) \in Int /\ (Met(hits, d) = Met(hits, e) => d = e)
<1>1. PICK b \in Seq(Documents), a \in Seq(Documents) : b = hits["bm25"] /\ a = hits["ann"]
  BY DEF IsHits, Engines
<1>2. ASSUME NEW x \in Merged(hits)
      PROVE  \/ Met(hits, x) \in 1..Len(b) /\ b[Met(hits, x)] = x
             \/ Met(hits, x) - Len(b) \in 1..Len(a) /\ a[Met(hits, x) - Len(b)] = x /\ Met(hits, x) \in Int
  <2>1. CASE Contains(b, x)
    BY <1>1, <2>1, RankFacts DEF Met
  <2>2. CASE ~Contains(b, x)
    <3>1. Contains(a, x)
      BY <1>1, <2>2, MergedFinite
    <3>2. Rank(a, x) \in 1..Len(a) /\ a[Rank(a, x)] = x /\ Met(hits, x) = Len(b) + Rank(a, x)
      BY <1>1, <2>2, <3>1, RankFacts DEF Met
    <3> QED
      BY <3>2
  <2> QED
    BY <2>1, <2>2
<1> QED
  BY <1>2

\* The share of a hit divides the scale without remainder.
LEMMA ReciprocalFacts ==
    ASSUME NEW list \in Seq(Documents), Len(list) <= CandidateCount, NEW d, Contains(list, d)
    PROVE  /\ Reciprocal(list, d) \in Nat \ {0}
           /\ Scale = (RRF_K + Rank(list, d)) * Reciprocal(list, d)
<1>1. PICK r \in 1..CandidateCount : r = Rank(list, d) /\ r <= Len(list)
  BY RankFacts, PagesAssumption
<1>2. /\ RRF_K + r \in Nat \ {0} /\ Scale \in Nat \ {0} /\ Scale % (RRF_K + r) = 0
  <2>1. RRF_K \in Nat /\ Scale \in Nat \ {0} /\ CandidateCount \in Nat
    BY PagesAssumption
  <2>2. Scale % (RRF_K + r) = 0
    BY PagesAssumption
  <2> QED
    BY <2>1, <2>2
<1>3. ASSUME NEW s \in Nat \ {0}, NEW n \in Nat \ {0}, s % n = 0
      PROVE  s \div n \in Nat \ {0} /\ s = n * (s \div n)
  BY <1>3
<1> QED
  BY <1>1, <1>2, <1>3 DEF Reciprocal

LEMMA CompositeIsInt ==
    ASSUME NEW hits, IsHits(hits), NEW bonus \in Bonuses, NEW d \in Documents
    PROVE  /\ Composite(bonus, hits, d) \in Int /\ bonus[d] \in Int
           /\ Reciprocal(hits["bm25"], d) \in Nat /\ Reciprocal(hits["ann"], d) \in Nat
<1>1. ASSUME NEW e \in Engines PROVE Reciprocal(hits[e], d) \in Nat
  <2>1. hits[e] \in Seq(Documents) /\ Len(hits[e]) <= CandidateCount
    BY DEF IsHits
  <2>2. CASE Contains(hits[e], d)
    BY <2>1, <2>2, ReciprocalFacts
  <2>3. CASE ~Contains(hits[e], d)
    BY <2>3 DEF Reciprocal
  <2> QED
    BY <2>2, <2>3
<1>2. bonus[d] \in 0..4 /\ Scale \in Nat
  BY PagesAssumption
<1>3. PICK s \in Int : s = RrfScore(hits, d)
  BY <1>1 DEF RrfScore, Engines
<1>4. Capped(16000 * s) \in Int /\ 33 * Scale * bonus[d] \in Int
  BY <1>2 DEF Capped
<1> QED
  BY <1>1, <1>2, <1>3, <1>4 DEF Composite, Engines

\* Precedes is a total order on the merged documents.
LEMMA PrecedesOrders ==
    ASSUME NEW hits, IsHits(hits), NEW bonus \in Bonuses,
           NEW c \in Merged(hits), NEW d \in Merged(hits), NEW e \in Merged(hits)
    PROVE  /\ Precedes(bonus, hits, c, c)
           /\ Precedes(bonus, hits, c, d) \/ Precedes(bonus, hits, d, c)
           /\ Precedes(bonus, hits, c, d) /\ Precedes(bonus, hits, d, c) => c = d
           /\ Precedes(bonus, hits, c, d) /\ Precedes(bonus, hits, d, e) => Precedes(bonus, hits, c, e)
<1>1. c \in Documents /\ d \in Documents /\ e \in Documents
  BY MergedFinite
<1>2. /\ Composite(bonus, hits, c) \in Int /\ Composite(bonus, hits, d) \in Int /\ Composite(bonus, hits, e) \in Int
      /\ Met(hits, c) \in Int /\ Met(hits, d) \in Int /\ Met(hits, e) \in Int
      /\ Met(hits, c) = Met(hits, d) => c = d
  BY <1>1, CompositeIsInt, MetOnce
<1> QED
  BY <1>2 DEF Precedes

\* How many documents come up to one.
LEMMA UpToFacts ==
    ASSUME NEW hits, IsHits(hits), NEW bonus \in Bonuses, NEW d \in Merged(hits)
    PROVE  /\ IsFiniteSet(UpTo(bonus, hits, d))
           /\ Cardinality(UpTo(bonus, hits, d)) \in 1..Cardinality(Merged(hits))
           /\ \A e \in Merged(hits) : e # d /\ Precedes(bonus, hits, e, d) =>
                  Cardinality(UpTo(bonus, hits, e)) < Cardinality(UpTo(bonus, hits, d))
<1>1. ASSUME NEW e \in Merged(hits)
      PROVE  /\ UpTo(bonus, hits, e) \in SUBSET Merged(hits) /\ e \in UpTo(bonus, hits, e)
             /\ IsFiniteSet(UpTo(bonus, hits, e)) /\ Cardinality(UpTo(bonus, hits, e)) \in Nat
             /\ Cardinality(UpTo(bonus, hits, e)) <= Cardinality(Merged(hits))
  <2>1. UpTo(bonus, hits, e) \in SUBSET Merged(hits) /\ e \in UpTo(bonus, hits, e)
    BY PrecedesOrders DEF UpTo
  <2>2. IsFiniteSet(Merged(hits))
    BY MergedFinite
  <2>3. IsFiniteSet(UpTo(bonus, hits, e)) /\ Cardinality(UpTo(bonus, hits, e)) <= Cardinality(Merged(hits))
    BY <2>1, <2>2, FS_Subset
  <2> QED
    BY <2>1, <2>3, FS_CardinalityType
<1>2. Cardinality(Merged(hits)) \in Nat
  BY MergedFinite, FS_CardinalityType
<1>3. Cardinality(UpTo(bonus, hits, d)) # 0
  BY <1>1, FS_EmptySet
<1>4. ASSUME NEW e \in Merged(hits), e # d, Precedes(bonus, hits, e, d)
      PROVE  Cardinality(UpTo(bonus, hits, e)) < Cardinality(UpTo(bonus, hits, d))
  <2>1. UpTo(bonus, hits, e) \in SUBSET UpTo(bonus, hits, d)
    BY <1>4, PrecedesOrders DEF UpTo
  <2>2. d \notin UpTo(bonus, hits, e)
    BY <1>4, PrecedesOrders DEF UpTo
  <2>3. /\ Cardinality(UpTo(bonus, hits, e)) <= Cardinality(UpTo(bonus, hits, d))
        /\ Cardinality(UpTo(bonus, hits, d)) = Cardinality(UpTo(bonus, hits, e)) => UpTo(bonus, hits, d) = UpTo(bonus, hits, e)
    BY <1>1, <2>1, FS_Subset
  <2> QED
    BY <1>1, <2>2, <2>3
<1> QED
  BY <1>1, <1>2, <1>3, <1>4

\* Fuse lists every merged document once, in that order.
LEMMA FuseFacts ==
    ASSUME NEW hits, IsHits(hits), NEW bonus \in Bonuses
    PROVE  /\ Fuse(bonus, hits) \in Seq(Merged(hits))
           /\ IsInjective(Fuse(bonus, hits)) /\ ToSet(Fuse(bonus, hits)) = Merged(hits)
           /\ \A i, j \in DOMAIN Fuse(bonus, hits) : i < j => Precedes(bonus, hits, Fuse(bonus, hits)[i], Fuse(bonus, hits)[j])
<1>1. PICK n \in Nat, M \in {Merged(hits)} : M = Merged(hits) /\ n = Cardinality(M) /\ IsFiniteSet(M)
  BY MergedFinite, FS_CardinalityType
<1>2. PICK pos : pos = [d \in M |-> Cardinality(UpTo(bonus, hits, d))]
  OBVIOUS
<1>3. ASSUME NEW d \in M
      PROVE  /\ pos[d] \in 1..n
             /\ \A e \in M : e # d /\ Precedes(bonus, hits, e, d) => pos[e] < pos[d]
  BY <1>1, <1>2, UpToFacts
<1>4. ASSUME NEW d \in M, NEW e \in M, pos[d] = pos[e] PROVE d = e
  <2>1. Precedes(bonus, hits, d, e) \/ Precedes(bonus, hits, e, d)
    BY <1>1, PrecedesOrders
  <2>2. pos[d] \in Nat /\ pos[e] \in Nat
    BY <1>3
  <2> QED
    BY <1>3, <1>4, <2>1, <2>2
<1>5. pos \in Injection(M, 1..n)
  <2>1. pos \in [M -> 1..n] /\ DOMAIN pos = M
    BY <1>2, <1>3
  <2> QED
    BY <1>4, <2>1 DEF Injection, IsInjective
<1>6. pos \in Surjection(M, 1..n)
  <2>1. IsFiniteSet(1..n) /\ Cardinality(1..n) = n
    BY FS_Interval
  <2> QED
    BY <1>1, <1>5, <2>1, FS_Injection
<1>7. \A i \in 1..n : \E d \in M : pos[d] = i
  BY <1>6 DEF Surjection
<1>8. PICK f : f = Fuse(bonus, hits)
  OBVIOUS
<1>9. f = [i \in 1..n |-> CHOOSE d \in M : pos[d] = i]
  BY <1>1, <1>2, <1>8 DEF Fuse
<1>10. \A i \in 1..n : f[i] \in M /\ pos[f[i]] = i
  BY <1>7, <1>9
<1>11. f \in Seq(M) /\ DOMAIN f = 1..n
  BY <1>9, <1>10
<1>12. IsInjective(f)
  BY <1>10, <1>11 DEF IsInjective
<1>13. ToSet(f) = M
  <2>1. ASSUME NEW d \in M PROVE d \in ToSet(f)
    <3>1. pos[d] \in 1..n /\ f[pos[d]] \in M /\ pos[f[pos[d]]] = pos[d]
      BY <1>3, <1>10
    <3>2. f[pos[d]] = d
      BY <1>4, <3>1
    <3> QED
      BY <1>11, <3>1, <3>2 DEF ToSet
  <2> QED
    BY <1>10, <1>11, <2>1 DEF ToSet
<1>14. ASSUME NEW i \in 1..n, NEW j \in 1..n, i < j PROVE Precedes(bonus, hits, f[i], f[j])
  <2>1. f[i] \in M /\ f[j] \in M /\ pos[f[i]] = i /\ pos[f[j]] = j
    BY <1>10
  <2>2. Precedes(bonus, hits, f[j], f[i]) /\ f[i] # f[j] => j < i
    BY <1>3, <2>1
  <2>3. f[i] # f[j]
    BY <1>14, <2>1
  <2> QED
    BY <1>1, <1>14, <2>1, <2>2, <2>3, PrecedesOrders
<1> QED
  BY <1>1, <1>8, <1>11, <1>12, <1>13, <1>14
-----------------------------------------------------------------------------
\* What a request ranks, and all of it where no retriever fails.
LEMMA RankedIsSeq ==
    ASSUME NEW query \in Searches, NEW failing
    PROVE  Ranked(query, Hits(query, failing)) \in Seq(Documents)
<1>1. PICK hits : hits = Hits(query, failing) /\ IsHits(hits)
  BY HitsAreHits
<1>2. query.mode \in {"hybrid", "bm25", "semantic"} /\ query.bonus \in Bonuses
  BY DEF Searches
<1>3. hits["bm25"] \in Seq(Documents) /\ hits["ann"] \in Seq(Documents)
  BY <1>1 DEF IsHits, Engines
<1>4. Fuse(query.bonus, hits) \in Seq(Documents)
  <2>1. PICK f : f = Fuse(query.bonus, hits)
    OBVIOUS
  <2>2. f \in Seq(Merged(hits)) /\ Merged(hits) \subseteq Documents
    BY <1>1, <1>2, <2>1, FuseFacts, MergedFinite
  <2>3. f \in Seq(Documents)
    BY <2>2
  <2> QED
    BY <2>1, <2>3
<1> QED
  BY <1>1, <1>2, <1>3, <1>4 DEF Ranked

LEMMA RankingIsWhole ==
    ASSUME search \in Searches
    PROVE  LET r == Ranked(search, Hits(search, {}))
           IN  r \in Seq(Documents) /\ IsInjective(r) /\ ToSet(r) = NamedCandidates
<1>1. PICK hits : hits = Hits(search, {}) /\ IsHits(hits)
  BY HitsAreHits
<1>2. search.mode \in {"hybrid", "bm25", "semantic"} /\ search.bonus \in Bonuses
  BY DEF Searches
<1>3. /\ hits["bm25"] = Retrieve(search.found["bm25"]) /\ hits["ann"] = Retrieve(search.found["ann"])
      /\ hits["bm25"] \in Seq(Documents) /\ IsInjective(hits["bm25"])
      /\ hits["ann"] \in Seq(Documents) /\ IsInjective(hits["ann"])
  BY <1>1 DEF IsHits, Hits, Engines
<1>4. ASSUME NEW list \in Seq(Documents)
      PROVE  ToSet(list) = {d \in Documents : Contains(list, d)}
  BY <1>4 DEF ToSet, Contains
<1>5. Ranked(search, hits) \in Seq(Documents)
  BY <1>1, RankedIsSeq
<1>6. CASE search.mode = "hybrid"
  <2>1. Candidates = ToSet(hits["bm25"]) \cup ToSet(hits["ann"])
    BY <1>3, <1>4, <1>6 DEF Candidates, EnginesOf, Engines
  <2>2. Merged(hits) = NamedCandidates
    BY <1>6, <2>1 DEF Merged, NamedCandidates
  <2> QED
    BY <1>1, <1>2, <1>5, <1>6, <2>2, FuseFacts DEF Ranked
<1>7. CASE search.mode = "bm25"
  BY <1>1, <1>3, <1>4, <1>5, <1>7 DEF Ranked, NamedCandidates, Candidates, EnginesOf
<1>8. CASE search.mode = "semantic"
  BY <1>1, <1>3, <1>4, <1>5, <1>8 DEF Ranked, NamedCandidates, Candidates, EnginesOf
<1> QED
  BY <1>1, <1>2, <1>6, <1>7, <1>8

\* One more page continues the ranking.
LEMMA PageStep == ASSUME CutsInv, NextPage PROVE CutsInv'
<1>1. PICK failing \in SUBSET EnginesOf(search.mode) :
          LET page == Slice(Ranked(search, Hits(search, failing)), Len(shown), search.limit)
          IN  /\ shown' = shown \o page /\ failed' = failed \cup failing
              /\ finished' = (Len(page) < search.limit) /\ ~finished /\ search' = search
  BY DEF NextPage
<1>2. search \in Searches /\ shown \in Seq(Documents) /\ failed \subseteq Engines /\ search.limit \in Nat
  BY PagesAssumption DEF CutsInv, PagesTypeOK, Searches
<1>3. PICK list \in Seq(Documents) : list = Ranked(search, Hits(search, failing))
  BY <1>2, RankedIsSeq
<1>4. PICK from \in Nat, count \in Nat : from = Len(shown) /\ count = search.limit
  BY <1>2
<1>5. PICK page \in Seq(Documents) : page = Slice(list, from, count)
  BY SliceFacts
<1>6. /\ shown' = shown \o page /\ failed' = failed \cup failing
      /\ finished' = (Len(page) < count) /\ search' = search
  BY <1>1, <1>3, <1>4, <1>5
<1>7. EnginesOf(search.mode) \subseteq Engines
  BY <1>2 DEF Searches, EnginesOf, Engines
<1>8. PagesTypeOK'
  BY <1>2, <1>6, <1>7 DEF PagesTypeOK
<1>9. ASSUME failed' = {} PROVE CutsOf(list)'
  <2>1. failed = {} /\ failing = {}
    BY <1>6, <1>9
  <2>2. CutsOf(list)
    BY <1>3, <2>1 DEF CutsInv
  <2>3. from <= Len(list) /\ \A i \in 1..from : shown[i] = list[i]
    BY <1>4, <2>2 DEF CutsOf
  <2>4. /\ from + count < Len(list) => Len(page) = count
        /\ from + count >= Len(list) => Len(page) = Len(list) - from
        /\ \A i \in 1..Len(page) : page[i] = list[from + i]
    BY <1>5, <2>3, SliceFacts
  <2>5. Len(shown') = from + Len(page) /\ Len(shown') <= Len(list)
    BY <1>2, <1>4, <1>6, <2>3, <2>4
  <2>6. ASSUME NEW i \in 1..Len(shown') PROVE shown'[i] = list[i]
    <3>1. CASE i <= from
      BY <1>2, <1>4, <1>6, <2>3, <2>5, <3>1
    <3>2. CASE i > from
      <4>1. i - from \in 1..Len(page) /\ shown'[i] = page[i - from]
        BY <1>2, <1>4, <1>6, <2>5, <3>2
      <4>2. PICK j \in 1..Len(page) : j = i - from /\ from + j = i
        BY <4>1
      <4> QED
        BY <2>4, <4>1, <4>2
    <3> QED
      BY <2>5, <3>1, <3>2
  <2>7. finished' => Len(shown') = Len(list)
    <3>1. SUFFICES ASSUME finished' PROVE Len(shown') = Len(list)
      OBVIOUS
    <3>2. Len(page) < count
      BY <1>6, <3>1
    <3>3. Len(page) \in Nat /\ Len(list) \in Nat
      BY <1>5
    <3> QED
      BY <2>3, <2>4, <2>5, <3>2, <3>3
  <2> QED
    BY <2>5, <2>6, <2>7 DEF CutsOf
<1>10. ASSUME failed' = {} PROVE list = Ranked(search', Hits(search', {}))
  BY <1>3, <1>6, <1>10
<1> QED
  BY <1>8, <1>9, <1>10 DEF CutsInv

LEMMA PagesInvariant == PagesSpec => []CutsInv
<1>1. InitPages => CutsInv
  <2>1. SUFFICES ASSUME InitPages PROVE CutsInv
    OBVIOUS
  <2>2. PICK list \in Seq(Documents) : list = Ranked(search, Hits(search, {}))
    BY <2>1, RankedIsSeq DEF InitPages
  <2>3. CutsOf(list)
    BY <2>1 DEF InitPages, CutsOf
  <2> QED
    <3>1. PagesTypeOK
      <4>1. shown \in Seq(Documents) /\ failed \subseteq Engines
        BY <2>1 DEF InitPages
      <4>2. finished \in BOOLEAN /\ search \in Searches
        BY <2>1, Zenon DEF InitPages
      <4> QED
        BY <4>1, <4>2, Zenon DEF PagesTypeOK
    <3> QED
      BY <2>2, <2>3, <3>1 DEF CutsInv
<1>2. CutsInv /\ [NextPage]_pagesVars => CutsInv'
  <2>1. CutsInv /\ UNCHANGED pagesVars => CutsInv'
    BY DEF CutsInv, CutsOf, PagesTypeOK, pagesVars
  <2> QED
    BY <2>1, PageStep
<1> QED
  BY <1>1, <1>2, PTL DEF PagesSpec

\* Every variable of a search has its type.
THEOREM PagesTypes == PagesSpec => []PagesTypeOK
<1>1. CutsInv => PagesTypeOK
  BY DEF CutsInv
<1> QED
  BY <1>1, PagesInvariant, PTL

\* Whatever the engines rank and the page's size, who asks for one page after
\* another sees every candidate once, as long as no retriever fails: each
\* request slices the same fused list.
THEOREM PagesCutOneRanking == PagesSpec => []PagesShowEachOnce
<1>1. CutsInv => PagesShowEachOnce
  <2>1. SUFFICES ASSUME CutsInv, failed = {}
                 PROVE  /\ IsInjective(shown) /\ ToSet(shown) \subseteq NamedCandidates
                        /\ finished => ToSet(shown) = NamedCandidates
    BY DEF PagesShowEachOnce
  <2>2. search \in Searches /\ shown \in Seq(Documents)
    BY <2>1 DEF CutsInv, PagesTypeOK
  <2>3. PICK r \in Seq(Documents) : r = Ranked(search, Hits(search, {})) /\ IsInjective(r) /\ ToSet(r) = NamedCandidates
    BY <2>2, RankingIsWhole
  <2>4. CutsOf(r) /\ DOMAIN r = 1..Len(r) /\ DOMAIN shown = 1..Len(shown)
    BY <2>1, <2>2, <2>3 DEF CutsInv
  <2>5. IsInjective(shown)
    BY <2>3, <2>4 DEF CutsOf, IsInjective
  <2>6. ToSet(shown) \subseteq ToSet(r) /\ (finished => ToSet(shown) = ToSet(r))
    <3>1. PICK n \in Nat, m \in Nat : n = Len(shown) /\ m = Len(r)
      BY <2>2
    <3>2. n <= m /\ (\A i \in 1..n : shown[i] = r[i]) /\ (finished => n = m)
      BY <2>4, <3>1 DEF CutsOf
    <3>3. ToSet(shown) = {shown[i] : i \in 1..n} /\ ToSet(r) = {r[i] : i \in 1..m}
      BY <2>4, <3>1 DEF ToSet
    <3> QED
      BY <3>2, <3>3
  <2> QED
    BY <2>3, <2>5, <2>6
<1> QED
  BY <1>1, PagesInvariant, PTL
-----------------------------------------------------------------------------
\* What multiplication keeps of an order.
LEMMA Products ==
    /\ \A a \in Nat, b \in Int, c \in Int : b <= c => a * b <= a * c
    /\ \A m \in Nat \ {0}, n \in Nat \ {0}, p \in Nat \ {0}, q \in Nat \ {0} : m < n /\ m * p = n * q => q < p
<1>1. ASSUME NEW a \in Nat, NEW b \in Int, NEW c \in Int, b <= c PROVE a * b <= a * c
  <2>1. PICK d \in Nat : c = b + d
    <3>1. c - b \in Nat /\ c = b + (c - b)
      BY <1>1
    <3> QED
      BY <3>1
  <2>2. a * c = a * b + a * d /\ a * d \in Nat /\ a * b \in Int
    BY <2>1
  <2> QED
    BY <2>2
<1>2. ASSUME NEW m \in Nat \ {0}, NEW n \in Nat \ {0}, NEW p \in Nat \ {0}, NEW q \in Nat \ {0},
             m < n, m * p = n * q, ~(q < p)
      PROVE  FALSE
  <2>1. m * p <= m * q
    BY <1>1, <1>2
  <2>2. PICK d \in Nat \ {0} : n = m + d
    <3>1. n - m \in Nat \ {0} /\ n = m + (n - m)
      BY <1>2
    <3> QED
      BY <3>1
  <2>3. n * q = m * q + d * q /\ d * q \in Nat \ {0} /\ m * q \in Int
    BY <2>2
  <2> QED
    BY <1>2, <2>1, <2>3
<1> QED
  BY <1>1, <1>2

\* A better place is a higher share of the score.
LEMMA SharesFollowPlaces ==
    ASSUME search \in Searches, NEW e \in Engines, NEW x, NEW y
    PROVE  LET list == Retrieve(search.found[e])
           IN  /\ Place(e, y) <= Place(e, x) => Reciprocal(list, y) >= Reciprocal(list, x)
               /\ Place(e, y) < Place(e, x) => Reciprocal(list, y) > Reciprocal(list, x)
               /\ Reciprocal(list, x) \in Nat /\ 61 * Reciprocal(list, x) <= Scale
<1>1. PICK list \in Seq(Documents) : list = Retrieve(search.found[e]) /\ Len(list) <= CandidateCount
  BY Retrieved DEF Searches
<1>2. RRF_K \in Nat /\ RRF_K >= 60 /\ CandidateCount \in Nat /\ Scale \in Nat \ {0}
  BY PagesAssumption
<1>3. ASSUME NEW d, Contains(list, d)
      PROVE  /\ Place(e, d) \in 1..CandidateCount
             /\ Reciprocal(list, d) \in Nat \ {0} /\ Scale = (RRF_K + Place(e, d)) * Reciprocal(list, d)
  <2>1. Rank(list, d) \in 1..Len(list) /\ Place(e, d) = Rank(list, d)
    BY <1>1, <1>3, RankFacts DEF Place
  <2> QED
    BY <1>1, <1>2, <1>3, <2>1, ReciprocalFacts
<1>4. ASSUME NEW d, ~Contains(list, d) PROVE Place(e, d) = CandidateCount + 1 /\ Reciprocal(list, d) = 0
  BY <1>1, <1>4 DEF Place, Reciprocal
<1>5. CASE Contains(list, x) /\ Contains(list, y)
  <2>1. PICK m \in Nat \ {0}, n \in Nat \ {0}, p \in Nat \ {0}, q \in Nat \ {0} :
            /\ m = RRF_K + Place(e, y) /\ n = RRF_K + Place(e, x)
            /\ p = Reciprocal(list, y) /\ q = Reciprocal(list, x)
    BY <1>2, <1>3, <1>5
  <2>2. m * p = Scale /\ n * q = Scale /\ Place(e, y) \in Int /\ Place(e, x) \in Int
    BY <1>3, <1>5, <2>1
  <2>3. m < n => q < p
    BY <2>1, <2>2, Products
  <2>4. m = n => q = p
    <3>1. p < q => m * p < m * q
      <4>1. p < q => p + 1 <= q
        OBVIOUS
      <4>2. p < q => m * (p + 1) <= m * q
        BY <4>1, Products
      <4>3. m * (p + 1) = m * p + m /\ m * p \in Int /\ m * q \in Int
        OBVIOUS
      <4> QED
        BY <4>2, <4>3
    <3>2. q < p => m * q < m * p
      <4>1. q < p => q + 1 <= p
        OBVIOUS
      <4>2. q < p => m * (q + 1) <= m * p
        BY <4>1, Products
      <4>3. m * (q + 1) = m * q + m /\ m * p \in Int /\ m * q \in Int
        OBVIOUS
      <4> QED
        BY <4>2, <4>3
    <3> QED
      BY <2>2, <3>1, <3>2
  <2>5. 61 * q <= Scale
    <3>1. n >= 61
      <4>1. Place(e, x) \in 1..CandidateCount
        BY <1>3, <1>5
      <4>2. Place(e, x) \in Int /\ Place(e, x) >= 1
        BY <1>2, <4>1
      <4> QED
        BY <1>2, <2>1, <4>2
    <3>2. q * 61 <= q * n /\ q * n = n * q
      BY <3>1, Products
    <3> QED
      BY <2>2, <3>2
  <2>6. /\ Place(e, y) <= Place(e, x) => p >= q
        /\ Place(e, y) < Place(e, x) => p > q
    <3>1. PICK s \in Int, t \in Int : s = Place(e, y) /\ t = Place(e, x) /\ m = RRF_K + s /\ n = RRF_K + t
      BY <2>1, <2>2
    <3>2. (s <= t => m <= n) /\ (s < t => m < n)
      BY <1>2, <3>1
    <3>3. (m <= n => p >= q) /\ (m < n => p > q)
      BY <2>3, <2>4
    <3> QED
      BY <3>1, <3>2, <3>3
  <2> QED
    BY <1>1, <2>1, <2>5, <2>6
<1>6. CASE Contains(list, x) /\ ~Contains(list, y)
  <2>1. /\ Place(e, x) \in 1..CandidateCount /\ Reciprocal(list, x) \in Nat \ {0}
        /\ Scale = (RRF_K + Place(e, x)) * Reciprocal(list, x) /\ Place(e, y) = CandidateCount + 1
    BY <1>3, <1>4, <1>6
  <2>2. PICK n \in Nat, q \in Nat : n = RRF_K + Place(e, x) /\ q = Reciprocal(list, x) /\ n >= 61
    BY <1>2, <2>1
  <2>3. 61 * q <= Scale
    <3>1. q * 61 <= q * n /\ q * n = n * q /\ n * q = Scale
      BY <2>1, <2>2, Products
    <3>2. q * 61 = 61 * q /\ Scale \in Nat
      BY <1>2, <2>2
    <3> QED
      BY <3>1, <3>2
  <2>4. ~(Place(e, y) <= Place(e, x))
    <3>1. PICK s \in Int : s = Place(e, x) /\ s <= CandidateCount
      BY <1>2, <2>1
    <3>2. ~(CandidateCount + 1 <= s)
      BY <1>2, <3>1
    <3> QED
      BY <2>1, <3>1, <3>2
  <2>5. ~(Place(e, y) < Place(e, x))
    <3>1. PICK s \in Int : s = Place(e, x) /\ s <= CandidateCount
      BY <1>2, <2>1
    <3>2. ~(CandidateCount + 1 < s)
      BY <1>2, <3>1
    <3> QED
      BY <2>1, <3>1, <3>2
  <2> QED
    BY <1>1, <2>2, <2>3, <2>4, <2>5
<1>7. CASE ~Contains(list, x)
  <2>1. Place(e, x) = CandidateCount + 1 /\ Reciprocal(list, x) = 0
    BY <1>4, <1>7
  <2>2. CASE Contains(list, y)
    BY <1>1, <1>2, <1>3, <2>1, <2>2
  <2>3. CASE ~Contains(list, y)
    BY <1>1, <1>2, <1>4, <2>1, <2>3
  <2> QED
    BY <2>2, <2>3
<1> QED
  BY <1>5, <1>6, <1>7

\* What engines and bonus agree on, the score does.
LEMMA ScoreAgrees ==
    ASSUME search \in Searches, NEW x \in Documents, NEW y \in Documents,
           \A e \in Engines : Place(e, y) <= Place(e, x),
           \E e \in Engines : Place(e, y) < Place(e, x),
           search.bonus[y] >= search.bonus[x]
    PROVE  LET hits == Hits(search, {})
           IN  /\ Composite(search.bonus, hits, y) > Composite(search.bonus, hits, x)
               /\ Composite(search.bonus, hits, x) \in Int /\ Composite(search.bonus, hits, y) \in Int
<1>1. PICK hits : hits = Hits(search, {}) /\ IsHits(hits)
  BY HitsAreHits
<1>2. ASSUME NEW e \in Engines
      PROVE  /\ hits[e] = Retrieve(search.found[e])
             /\ Reciprocal(hits[e], y) >= Reciprocal(hits[e], x)
             /\ Place(e, y) < Place(e, x) => Reciprocal(hits[e], y) > Reciprocal(hits[e], x)
             /\ Reciprocal(hits[e], x) \in Nat /\ 61 * Reciprocal(hits[e], x) <= Scale
             /\ Reciprocal(hits[e], y) \in Nat /\ 61 * Reciprocal(hits[e], y) <= Scale
  <2>1. hits[e] = Retrieve(search.found[e])
    BY <1>1 DEF Hits
  <2> QED
    BY <2>1, SharesFollowPlaces
<1>3. PICK bx \in Nat, by \in Nat, ax \in Nat, ay \in Nat :
          /\ bx = Reciprocal(hits["bm25"], x) /\ by = Reciprocal(hits["bm25"], y)
          /\ ax = Reciprocal(hits["ann"], x) /\ ay = Reciprocal(hits["ann"], y)
  BY <1>2 DEF Engines
<1>4. by >= bx /\ ay >= ax /\ (by > bx \/ ay > ax)
  BY <1>2, <1>3 DEF Engines
<1>5. 61 * bx <= Scale /\ 61 * by <= Scale /\ 61 * ax <= Scale /\ 61 * ay <= Scale
  BY <1>2, <1>3 DEF Engines
<1>6. Scale \in Nat \ {0} /\ search.bonus[x] \in 0..4 /\ search.bonus[y] \in 0..4
  BY PagesAssumption DEF Searches
<1>7. PICK u \in Int, v \in Int : u = 33 * Scale * search.bonus[x] /\ v = 33 * Scale * search.bonus[y]
  BY <1>6
<1>8. u <= v
  <2>1. PICK a \in Nat : a = 33 * Scale
    BY <1>6
  <2>2. a * search.bonus[x] <= a * search.bonus[y]
    BY <1>6, <2>1, Products
  <2> QED
    BY <1>7, <2>1, <2>2
<1>9. 16000 * (bx + ax) < 528 * Scale /\ 16000 * (by + ay) < 528 * Scale
  BY <1>5, <1>6
<1>10. /\ Composite(search.bonus, hits, x) = 16000 * (bx + ax) + u
       /\ Composite(search.bonus, hits, y) = 16000 * (by + ay) + v
  BY <1>3, <1>7, <1>9 DEF Composite, Capped, RrfScore
<1> QED
  BY <1>1, <1>4, <1>8, <1>10

\* fuse and the paging keep what both engines, freshness and authority agree on:
\* the cap at 1.0 does not bite, and equal scores mean some disagreement.
THEOREM VerdictsStand == PagesSpec => []UnanimityIsRespected
<1>1. CutsInv => UnanimityIsRespected
  <2>1. SUFFICES ASSUME CutsInv, failed = {}, search.mode = "hybrid",
                        NEW i \in DOMAIN shown, NEW j \in DOMAIN shown, i < j,
                        \A e \in Engines : Place(e, shown[j]) <= Place(e, shown[i]),
                        search.bonus[shown[j]] >= search.bonus[shown[i]],
                        \E e \in Engines : Place(e, shown[j]) < Place(e, shown[i])
                 PROVE  FALSE
    BY DEF UnanimityIsRespected
  <2>2. search \in Searches /\ shown \in Seq(Documents) /\ search.bonus \in Bonuses
    BY <2>1 DEF CutsInv, PagesTypeOK, Searches
  <2>3. PICK hits : hits = Hits(search, {}) /\ IsHits(hits)
    BY <2>2, HitsAreHits
  <2>4. PICK r \in Seq(Documents) : r = Fuse(search.bonus, hits) /\ CutsOf(r)
    <3>1. Ranked(search, hits) \in Seq(Documents) /\ Ranked(search, hits) = Fuse(search.bonus, hits)
      BY <2>1, <2>2, <2>3, RankedIsSeq DEF Ranked
    <3> QED
      BY <2>1, <2>3, <3>1 DEF CutsInv
  <2>5. i \in DOMAIN r /\ j \in DOMAIN r /\ shown[i] = r[i] /\ shown[j] = r[j]
    BY <2>2, <2>4 DEF CutsOf
  <2>6. Precedes(search.bonus, hits, shown[i], shown[j])
    BY <2>1, <2>2, <2>3, <2>4, <2>5, FuseFacts
  <2>7. shown[i] \in Documents /\ shown[j] \in Documents
    BY <2>2
  <2>8. /\ Composite(search.bonus, hits, shown[j]) > Composite(search.bonus, hits, shown[i])
        /\ Composite(search.bonus, hits, shown[i]) \in Int /\ Composite(search.bonus, hits, shown[j]) \in Int
    BY <2>1, <2>2, <2>3, <2>7, ScoreAgrees
  <2> QED
    BY <2>6, <2>8 DEF Precedes
<1> QED
  BY <1>1, PagesInvariant, PTL
=============================================================================
