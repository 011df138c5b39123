--------------------------- MODULE CrawlerProofs ---------------------------
(***************************************************************************)
(* Theorems about Crawler, for any workers, tasks, sites, redirects,       *)
(* contents and bounds, and about RobotsRules, for files of any length.    *)
(*                                                                         *)
(* The crawler's invariant says what a worker knows at each step of        *)
(* runWorker's loop, and that a content-hash record, like a duplicate      *)
(* event, has a successful crawl behind it: an event that is out, on its   *)
(* way, or lost.  That of the robots.txt parser says which lines it has    *)
(* taken for an agent: those that a group for the agent is still open at.  *)
(***************************************************************************)
EXTENDS Crawler, RobotsRules, TLAPS

\* Everything ever reported, the events on their way and the lost included.
Told == stream \cup InFlight \cup lost
HasOriginal(key) == \E s \in Told : s.status = "success" /\ s.key = key

\* What a worker knows of its task, from step to step.
Admitted(s) ==
    /\ s.pc \in {"limit", "get", "hop", "count", "compare"} => (Allowed[UrlOf[s.task]] \/ s.open)
    /\ s.pc \in {"hop", "count", "compare"} => Redirect[s.url] # NoUrl
Stored(s) == s.pc = "record" => Key(s.task, s.body) \in objects
Reporting(s) ==
    s.pc = "publish" => /\ s.event.task = s.task
                        /\ s.event.status \in {"success", "duplicate"} => s.event.key \in objects
                        /\ s.event.status = "duplicate" => HasOriginal(s.event.key)
WorkerInv(s) == Admitted(s) /\ Stored(s) /\ Reporting(s)
WorkersInv == \A w \in Workers : WorkerInv(worker[w])

RecordsInv == \A c \in Contents : contentHash[c] # NoKey =>
                  contentHash[c] \in objects /\ HasOriginal(contentHash[c])
StreamInv == \A e \in stream : e.status \in {"success", "duplicate"} => e.key \in objects

CrawlerInv ==
    /\ WorkersInv /\ RecordsInv /\ StreamInv
    /\ DuplicateHasOriginal /\ OneOutcomePerTask /\ RobotsRespected

-----------------------------------------------------------------------------
\* The fields a worker has at each step.
LEMMA Fields ==
    ASSUME NEW s \in WorkerState
    PROVE  /\ s.pc \in {"idle", "exited", "robots", "fetchRobots", "limit", "get", "hop", "count", "compare",
                        "lookup", "put", "record", "publish"}
           /\ s.pc \notin {"idle", "exited"} => s.task \in Tasks
           /\ s.pc = "limit" => s.open \in BOOLEAN
           /\ s.pc \in {"get", "hop", "count", "compare"} => s.url \in Urls /\ s.open \in BOOLEAN
           /\ s.pc = "count" => s.read \in Nat
           /\ s.pc \in {"lookup", "put", "record"} => s.body \in Contents
           /\ s.pc = "publish" => s.event \in Events
  BY DEF WorkerState

\* Changing the step of a worker within a group of steps keeps its fields.
LEMMA StepWithin ==
    ASSUME NEW s \in WorkerState, NEW pc,
           \/ s.pc = "get" /\ pc = "hop"
           \/ s.pc \in {"lookup", "put"} /\ pc \in {"put", "record"}
    PROVE  LET t == [s EXCEPT !.pc = pc] IN
           /\ t \in WorkerState /\ t.pc = pc /\ t.task = s.task
           /\ s.pc = "get" => t.open = s.open /\ t.url = s.url
           /\ s.pc \in {"lookup", "put"} => t.body = s.body
<1>1. CASE s.pc = "get" /\ pc = "hop"
  <2>1. s \in [pc : {"get", "hop", "compare"}, task : Tasks, url : Urls, open : BOOLEAN]
    BY <1>1 DEF WorkerState
  <2> QED
    BY <1>1, <2>1 DEF WorkerState
<1>2. CASE s.pc \in {"lookup", "put"} /\ pc \in {"put", "record"}
  <2>1. s \in [pc : {"lookup", "put", "record"}, task : Tasks, body : Contents]
    BY <1>2 DEF WorkerState
  <2> QED
    BY <1>2, <2>1 DEF WorkerState
<1> QED
  BY <1>1, <1>2

\* An event is being published.
LEMMA PublishingIsState ==
    ASSUME NEW t \in Tasks, NEW status \in Status, NEW key \in Keys \cup {NoKey}, NEW error \in Error
    PROVE  /\ Event(t, status, key, error) \in Events
           /\ Publishing(t, status, key, error) \in WorkerState
           /\ Publishing(t, status, key, error).pc = "publish"
           /\ Publishing(t, status, key, error).task = t
           /\ Publishing(t, status, key, error).event = Event(t, status, key, error)
           /\ Event(t, status, key, error).task = t
           /\ Event(t, status, key, error).status = status
           /\ Event(t, status, key, error).key = key
<1>1. /\ Event(t, status, key, error) \in Events
      /\ Event(t, status, key, error).task = t
      /\ Event(t, status, key, error).status = status
      /\ Event(t, status, key, error).key = key
  BY DEF Event, Events
<1>2. ASSUME NEW e \in Events
      PROVE  [pc |-> "publish", task |-> t, event |-> e] \in WorkerState
  BY DEF WorkerState
<1> QED
  BY <1>1, <1>2 DEF Publishing

LEMMA KeyIsKey ==
    ASSUME NEW t \in Tasks, NEW c \in Contents
    PROVE  Key(t, c) \in Keys
  BY CrawlerAssumption DEF CrawlerAssumption, Key, Keys

\* A failed crawl is reported without a key.
LEMMA FailedIsState ==
    ASSUME NEW t \in Tasks, NEW status \in Status \ {"success", "duplicate"}, NEW error \in Error
    PROVE  /\ Failed(t, status, error) \in WorkerState
           /\ Failed(t, status, error).pc = "publish"
           /\ Failed(t, status, error).task = t
           /\ Failed(t, status, error).event.task = t
           /\ Failed(t, status, error).event.status \notin {"success", "duplicate"}
  BY PublishingIsState DEF Failed

-----------------------------------------------------------------------------
\* A worker goes on with its task: what its new step may rely on, and what the
\* step does to the stores.
Moves(w, state) ==
    /\ Busy(w) /\ ~At(w, "publish") /\ Become(w, state)
    /\ state \in WorkerState /\ state.pc \notin {"idle", "exited"}
    /\ state.task = worker[w].task /\ Admitted(state)
    /\ state.pc = "record" => Key(state.task, state.body) \in objects'
    /\ state.pc = "publish" =>
          /\ state.event.task = state.task
          /\ state.event.status \in {"success", "duplicate"} => state.event.key \in objects'
          /\ state.event.status = "duplicate" => HasOriginal(state.event.key)
    /\ queue' = queue /\ stream' = stream /\ lost' = lost /\ objects \subseteq objects'
    /\ \A c \in Contents :
          \/ contentHash'[c] = contentHash[c]
          \/ /\ state.pc = "publish" /\ state.event.status = "success"
             /\ state.event.key = contentHash'[c]
    /\ \A r \in requested' \ requested : Allowed[UrlOf[r.task]] \/ r.open

\* A step that leaves the stores alone and reports no page.
LEMMA MovesQuietly ==
    ASSUME NEW w, NEW state \in WorkerState, Busy(w), ~At(w, "publish"), Become(w, state),
           state.pc \notin {"idle", "exited", "record"}, state.task = worker[w].task, Admitted(state),
           state.pc = "publish" => /\ state.event.task = state.task
                                   /\ state.event.status \notin {"success", "duplicate"},
           UNCHANGED <<queue, stream, lost, objects, contentHash>>,
           \A r \in requested' \ requested : Allowed[UrlOf[r.task]] \/ r.open
    PROVE  Moves(w, state)
  BY DEF Moves

\* The types of a step are those of what it changes.
LEMMA MovesTypes ==
    ASSUME TypeOK, NEW w \in Workers, NEW state \in WorkerState, Become(w, state)
    PROVE  worker' \in [Workers -> WorkerState]
  BY DEF TypeOK, Become

\* A worker with a task, and what the invariant says of it.
LEMMA Working ==
    ASSUME TypeOK, CrawlerInv, NEW w \in Workers
    PROVE  /\ worker[w] \in WorkerState /\ WorkerInv(worker[w])
           /\ Busy(w) => worker[w].task \in Tasks /\ UrlOf[worker[w].task] \in Urls
                         /\ DomainOf[UrlOf[worker[w].task]] \in Domains
<1>1. worker[w] \in WorkerState /\ WorkerInv(worker[w])
  BY DEF TypeOK, CrawlerInv, WorkersInv
<1> QED
  BY <1>1, Fields, CrawlerAssumption DEF CrawlerAssumption, Busy, At

\* robots.txt: the worker goes on to the limiter, or reports the refusal.
LEMMA Judged ==
    ASSUME TypeOK, CrawlerInv, NEW w \in Workers, At(w, "robots") \/ At(w, "fetchRobots"),
           NEW content \in {"rules", "empty"}, Judge(w, content),
           UNCHANGED <<queue, stream, lost, objects, contentHash, requested>>
    PROVE  \E state \in WorkerState : Moves(w, state)
<1> DEFINE t == worker[w].task
           refused == Failed(t, "robots_block", "robots")
           next == [pc |-> "limit", task |-> t, open |-> content = "empty"]
<1>1. Busy(w) /\ ~At(w, "publish") /\ t \in Tasks
  BY Working DEF Busy, At
<1>2. CASE content = "rules" /\ ~Allowed[UrlOf[t]]
  <2>1. /\ refused \in WorkerState /\ refused.pc = "publish" /\ refused.task = t
        /\ refused.event.task = t /\ refused.event.status \notin {"success", "duplicate"}
    BY <1>1, FailedIsState DEF Status, Error
  <2>2. Become(w, refused)
    BY <1>2 DEF Judge
  <2> HIDE DEF refused
  <2>3. Admitted(refused)
    BY <2>1 DEF Admitted
  <2> QED
    BY <1>1, <2>1, <2>2, <2>3, MovesQuietly
<1>3. CASE ~(content = "rules" /\ ~Allowed[UrlOf[t]])
  <2>1. next \in WorkerState /\ next.pc = "limit" /\ next.task = t
    BY <1>1 DEF WorkerState
  <2>2. Admitted(next)
    BY <1>1, <1>3, CrawlerAssumption DEF Admitted, CrawlerAssumption
  <2>3. Become(w, next)
    BY <1>3 DEF Judge
  <2> HIDE DEF next
  <2> QED
    BY <1>1, <2>1, <2>2, <2>3, MovesQuietly
<1> QED
  BY <1>2, <1>3

\* The two steps of the robots.txt check.
LEMMA RobotsMoves ==
    ASSUME TypeOK, CrawlerInv, NEW w \in Workers,
           \/ ReadRobots(w) /\ worker' # [worker EXCEPT ![w] = [pc |-> "fetchRobots", task |-> worker[w].task]]
           \/ FetchRobots(w)
    PROVE  \E state \in WorkerState : Moves(w, state)
<1>1. CASE ReadRobots(w) /\ worker' # [worker EXCEPT ![w] = [pc |-> "fetchRobots", task |-> worker[w].task]]
  <2> DEFINE cached == robots[DomainOf[UrlOf[worker[w].task]]]
  <2>1. At(w, "robots") /\ UNCHANGED <<queue, stream, lost, objects, contentHash, requested>>
    BY <1>1 DEF ReadRobots, redis
  <2>2. DomainOf[UrlOf[worker[w].task]] \in Domains
    BY <2>1, Working DEF Busy, At
  <2>3. cached # "absent" => cached \in {"rules", "empty"}
    BY <2>2 DEF TypeOK
  <2>4. Judge(w, "empty") \/ (cached # "absent" /\ Judge(w, cached))
    BY <1>1 DEF ReadRobots, Become
  <2> HIDE DEF cached
  <2> QED
    BY <2>1, <2>3, <2>4, Judged
<1>2. CASE FetchRobots(w)
  <2>1. At(w, "fetchRobots") /\ UNCHANGED <<queue, stream, lost, objects, contentHash, requested>>
    BY <1>2 DEF FetchRobots
  <2>2. Judge(w, "rules") \/ Judge(w, "empty")
    BY <1>2 DEF FetchRobots
  <2> QED
    BY <2>1, <2>2, Judged
<1> QED
  BY <1>1, <1>2

\* The cached copy is missing: it is fetched next.
LEMMA MissMoves ==
    ASSUME TypeOK, CrawlerInv, NEW w \in Workers, ReadRobots(w),
           worker' = [worker EXCEPT ![w] = [pc |-> "fetchRobots", task |-> worker[w].task]]
    PROVE  \E state \in WorkerState : Moves(w, state)
<1> DEFINE next == [pc |-> "fetchRobots", task |-> worker[w].task]
<1>1. /\ Busy(w) /\ ~At(w, "publish") /\ worker[w].task \in Tasks
      /\ UNCHANGED <<queue, stream, lost, objects, contentHash, requested>>
  BY Working DEF ReadRobots, Busy, At, redis
<1>2. /\ next \in WorkerState /\ next.pc = "fetchRobots" /\ next.task = worker[w].task
      /\ Admitted(next) /\ Become(w, next)
  BY <1>1 DEF WorkerState, Admitted, Become
<1> HIDE DEF next
<1> QED
  BY <1>1, <1>2, MovesQuietly

\* The rate limiter lets the worker go, or the context is cancelled.
LEMMA WaitMoves ==
    ASSUME TypeOK, CrawlerInv, NEW w \in Workers, Wait(w)
    PROVE  \E state \in WorkerState : Moves(w, state)
<1> DEFINE t == worker[w].task
           next == [pc |-> "get", task |-> t, url |-> UrlOf[t], open |-> worker[w].open]
           failed == Failed(t, "fetch_error", "cancelled")
<1>1. /\ Busy(w) /\ ~At(w, "publish") /\ At(w, "limit") /\ t \in Tasks /\ UrlOf[t] \in Urls
      /\ worker[w].open \in BOOLEAN /\ Admitted(worker[w])
      /\ UNCHANGED <<queue, stream, lost, objects, contentHash, requested>>
  BY Working, Fields DEF Wait, Busy, At, WorkerInv, redis
<1>2. CASE running
  <2>1. next \in WorkerState /\ next.pc = "get" /\ next.task = t
    BY <1>1 DEF WorkerState
  <2>2. Admitted(next)
    BY <1>1 DEF Admitted, At
  <2>3. Become(w, next)
    BY <1>2 DEF Wait
  <2> HIDE DEF next
  <2> QED
    BY <1>1, <2>1, <2>2, <2>3, MovesQuietly
<1>3. CASE ~running
  <2>1. /\ failed \in WorkerState /\ failed.pc = "publish" /\ failed.task = t
        /\ failed.event.task = t /\ failed.event.status \notin {"success", "duplicate"}
    BY <1>1, FailedIsState DEF Status, Error
  <2>2. Become(w, failed)
    BY <1>3 DEF Wait
  <2> HIDE DEF failed
  <2>3. Admitted(failed)
    BY <2>1 DEF Admitted
  <2> QED
    BY <1>1, <2>1, <2>2, <2>3, MovesQuietly
<1> QED
  BY <1>2, <1>3

\* One exchange: the page, a redirect, an answer that is turned down, or none.
LEMMA GetMoves ==
    ASSUME TypeOK, CrawlerInv, NEW w \in Workers, Get(w)
    PROVE  \E state \in WorkerState : Moves(w, state)
<1> DEFINE s == worker[w]
           hop == [s EXCEPT !.pc = "hop"]
           page == [pc |-> "lookup", task |-> s.task, body |-> Serves[s.url]]
<1>1. /\ Busy(w) /\ ~At(w, "publish") /\ s.pc = "get" /\ s \in WorkerState /\ s.task \in Tasks
      /\ s.url \in Urls /\ (Allowed[UrlOf[s.task]] \/ s.open)
      /\ UNCHANGED <<queue, stream, lost, objects, contentHash>>
  BY Working, Fields DEF Get, Busy, At, WorkerInv, Admitted, redis
<1>2. \A r \in requested' \ requested : Allowed[UrlOf[r.task]] \/ r.open
  BY <1>1 DEF Get
<1>3. ASSUME NEW status \in {"http_error", "fetch_error"}, NEW error \in {"status", "not_html", "network"},
             Become(w, Failed(s.task, status, error))
      PROVE  \E state \in WorkerState : Moves(w, state)
  <2> DEFINE failed == Failed(s.task, status, error)
  <2>1. /\ failed \in WorkerState /\ failed.pc = "publish" /\ failed.task = s.task
        /\ failed.event.task = s.task /\ failed.event.status \notin {"success", "duplicate"}
    BY <1>1, FailedIsState DEF Status, Error
  <2> HIDE DEF failed
  <2>2. Admitted(failed) /\ Become(w, failed)
    BY <1>3, <2>1 DEF Admitted, failed
  <2> QED
    BY <1>1, <1>2, <2>1, <2>2, MovesQuietly
<1>4. ASSUME Become(w, hop), Redirect[s.url] # NoUrl PROVE \E state \in WorkerState : Moves(w, state)
  <2>1. hop \in WorkerState /\ hop.pc = "hop" /\ hop.task = s.task /\ hop.open = s.open
        /\ hop.url = s.url
    BY <1>1, StepWithin
  <2> HIDE DEF hop
  <2>2. Admitted(hop)
    BY <1>1, <1>4, <2>1 DEF Admitted
  <2> QED
    BY <1>1, <1>2, <1>4, <2>1, <2>2, MovesQuietly
<1>5. ASSUME Become(w, page), Serves[s.url] \notin {"missing", "binary"}
      PROVE  \E state \in WorkerState : Moves(w, state)
  <2>1. Serves[s.url] \in Contents
    BY <1>1, <1>5, CrawlerAssumption DEF CrawlerAssumption
  <2>2. page \in WorkerState /\ page.pc = "lookup" /\ page.task = s.task /\ Admitted(page)
    BY <1>1, <2>1 DEF WorkerState, Admitted
  <2> HIDE DEF page
  <2> QED
    BY <1>1, <1>2, <1>5, <2>2, MovesQuietly
<1>6. \/ (Become(w, hop) /\ Redirect[s.url] # NoUrl) \/ (Become(w, page) /\ Serves[s.url] \notin {"missing", "binary"})
      \/ Become(w, Failed(s.task, "http_error", "status"))
      \/ Become(w, Failed(s.task, "fetch_error", "not_html"))
      \/ Become(w, Failed(s.task, "fetch_error", "network"))
  <2>1. \/ Become(w, CASE Redirect[s.url] # NoUrl -> hop
                       [] Redirect[s.url] = NoUrl /\ Serves[s.url] = "missing" ->
                            Failed(s.task, "http_error", "status")
                       [] Redirect[s.url] = NoUrl /\ Serves[s.url] = "binary" ->
                            Failed(s.task, "fetch_error", "not_html")
                       [] OTHER -> page)
        \/ Become(w, Failed(s.task, "fetch_error", "network"))
    BY DEF Get
  <2> HIDE DEF hop, page, s
  <2> QED
    BY <2>1
<1> HIDE DEF hop, page
<1> QED
  BY <1>3, <1>4, <1>5, <1>6

\* CheckRedirect's counter decides whether the next hop is taken.
LEMMA CountMoves ==
    ASSUME TypeOK, CrawlerInv, NEW w \in Workers, ReadCount(w) \/ WriteCount(w) \/ CompareCount(w)
    PROVE  \E state \in WorkerState : Moves(w, state)
<1> DEFINE s == worker[w]
           count == [pc |-> "count", task |-> s.task, url |-> s.url, open |-> s.open, read |-> redirectCount]
           compare == [pc |-> "compare", task |-> s.task, url |-> s.url, open |-> s.open]
           next == [pc |-> "get", task |-> s.task, url |-> Redirect[s.url], open |-> s.open]
           failed == Failed(s.task, "fetch_error", "redirects")
<1>1. /\ Busy(w) /\ ~At(w, "publish") /\ s.pc \in {"hop", "count", "compare"} /\ s \in WorkerState /\ s.task \in Tasks
      /\ s.url \in Urls /\ s.open \in BOOLEAN /\ (Allowed[UrlOf[s.task]] \/ s.open)
      /\ Redirect[s.url] # NoUrl
      /\ UNCHANGED <<queue, stream, lost, objects, contentHash, requested>>
  BY Working, Fields DEF ReadCount, WriteCount, CompareCount, Busy, At, WorkerInv, Admitted, redis
<1>2. CASE Become(w, count)
  <2>1. count \in WorkerState /\ count.pc = "count" /\ count.task = s.task /\ Admitted(count)
    BY <1>1 DEF WorkerState, Admitted, TypeOK
  <2> HIDE DEF count
  <2> QED
    BY <1>1, <1>2, <2>1, MovesQuietly
<1>3. CASE Become(w, compare)
  <2>1. compare \in WorkerState /\ compare.pc = "compare" /\ compare.task = s.task /\ Admitted(compare)
    BY <1>1 DEF WorkerState, Admitted
  <2> HIDE DEF compare
  <2> QED
    BY <1>1, <1>3, <2>1, MovesQuietly
<1>4. CASE Become(w, next)
  <2>1. next \in WorkerState /\ next.pc = "get" /\ next.task = s.task /\ Admitted(next)
    <3>1. Redirect[s.url] \in Urls
      BY <1>1, <1>4, CrawlerAssumption DEF CrawlerAssumption
    <3> QED
      BY <1>1, <3>1 DEF WorkerState, Admitted
  <2> HIDE DEF next
  <2> QED
    BY <1>1, <1>4, <2>1, MovesQuietly
<1>5. CASE Become(w, failed)
  <2>1. /\ failed \in WorkerState /\ failed.pc = "publish" /\ failed.task = s.task
        /\ failed.event.task = s.task /\ failed.event.status \notin {"success", "duplicate"}
    BY <1>1, FailedIsState DEF Status, Error
  <2> HIDE DEF failed
  <2>2. Admitted(failed)
    BY <2>1 DEF Admitted
  <2> QED
    BY <1>1, <1>5, <2>1, <2>2, MovesQuietly
<1>6. Become(w, count) \/ Become(w, compare) \/ Become(w, next) \/ Become(w, failed)
  BY DEF ReadCount, WriteCount, CompareCount
<1> QED
  BY <1>2, <1>4, <1>5, <1>6, <1>3

\* What a record of a content hash stands for.
LEMMA RecordFacts ==
    ASSUME TypeOK, CrawlerInv, NEW c \in Contents
    PROVE  /\ contentHash[c] \in Keys \cup {NoKey}
           /\ contentHash[c] # NoKey => contentHash[c] \in objects /\ HasOriginal(contentHash[c])
  BY DEF TypeOK, CrawlerInv, RecordsInv

\* The look-up finds an object stored before, or the page is new.
LEMMA LookUpMoves ==
    ASSUME TypeOK, CrawlerInv, NEW w \in Workers, LookUp(w)
    PROVE  \E state \in WorkerState : Moves(w, state)
<1> DEFINE s == worker[w]
           new == [s EXCEPT !.pc = "put"]
           known == contentHash[s.body]
           duplicate == Publishing(s.task, "duplicate", known, "none")
<1>1. /\ Busy(w) /\ ~At(w, "publish") /\ s.pc = "lookup" /\ s \in WorkerState /\ s.task \in Tasks
      /\ s.body \in Contents
      /\ UNCHANGED <<queue, stream, lost, objects, contentHash, requested>>
  BY Working, Fields DEF LookUp, Busy, At, redis
<1>2. CASE Become(w, new)
  <2>1. new \in WorkerState /\ new.pc = "put" /\ new.task = s.task
    BY <1>1, StepWithin
  <2> HIDE DEF new
  <2>2. Admitted(new)
    BY <2>1 DEF Admitted
  <2> QED
    BY <1>1, <1>2, <2>1, <2>2, MovesQuietly
<1>3. CASE Become(w, duplicate) /\ known # NoKey
  <2>1. known \in Keys \cup {NoKey} /\ known \in objects /\ HasOriginal(known)
    BY <1>1, <1>3, RecordFacts
  <2> HIDE DEF known
  <2>2. /\ duplicate \in WorkerState /\ duplicate.pc = "publish" /\ duplicate.task = s.task
        /\ duplicate.event.task = s.task /\ duplicate.event.key = known
    BY <1>1, <2>1, PublishingIsState DEF Status, Error
  <2> HIDE DEF duplicate
  <2>3. Admitted(duplicate)
    BY <2>2 DEF Admitted
  <2> QED
    BY <1>1, <1>3, <2>1, <2>2, <2>3 DEF Moves
<1>4. Become(w, new) \/ (Become(w, duplicate) /\ known # NoKey)
  BY DEF LookUp
<1> QED
  BY <1>2, <1>3, <1>4

\* The object is uploaded, or the crawl ends with a storage error.
LEMMA PutMoves ==
    ASSUME TypeOK, CrawlerInv, NEW w \in Workers, Put(w)
    PROVE  \E state \in WorkerState : Moves(w, state)
<1> DEFINE s == worker[w]
           next == [s EXCEPT !.pc = "record"]
           failed == Failed(s.task, "storage_error", "put")
<1>1. /\ Busy(w) /\ ~At(w, "publish") /\ s.pc = "put" /\ s \in WorkerState /\ s.task \in Tasks
      /\ s.body \in Contents
      /\ UNCHANGED <<queue, stream, lost, contentHash, requested>>
  BY Working, Fields DEF Put, Busy, At, redis
<1>2. CASE Become(w, next) /\ objects' = objects \cup {Key(s.task, s.body)}
  <2>1. next \in WorkerState /\ next.pc = "record" /\ next.task = s.task /\ next.body = s.body
    BY <1>1, StepWithin
  <2> HIDE DEF next
  <2>2. Admitted(next)
    BY <2>1 DEF Admitted
  <2> QED
    BY <1>1, <1>2, <2>1, <2>2 DEF Moves
<1>3. CASE Become(w, failed) /\ objects' = objects
  <2>1. /\ failed \in WorkerState /\ failed.pc = "publish" /\ failed.task = s.task
        /\ failed.event.task = s.task /\ failed.event.status \notin {"success", "duplicate"}
    BY <1>1, FailedIsState DEF Status, Error
  <2> HIDE DEF failed
  <2>2. Admitted(failed)
    BY <2>1 DEF Admitted
  <2> QED
    BY <1>1, <1>3, <2>1, <2>2, MovesQuietly
<1> QED
  BY <1>2, <1>3 DEF Put

\* The hash is recorded or not, and the success is reported.
LEMMA RecordMoves ==
    ASSUME TypeOK, CrawlerInv, NEW w \in Workers, Record(w)
    PROVE  \E state \in WorkerState : Moves(w, state)
<1> DEFINE s == worker[w]
           key == Key(s.task, s.body)
           done == Publishing(s.task, "success", key, "none")
<1>1. /\ Busy(w) /\ ~At(w, "publish") /\ s.pc = "record" /\ s \in WorkerState /\ s.task \in Tasks
      /\ s.body \in Contents /\ key \in objects /\ key \in Keys
      /\ UNCHANGED <<queue, stream, lost, objects, requested>>
  BY Working, Fields, KeyIsKey DEF Record, Busy, At, WorkerInv, Stored
<1>2. contentHash' = contentHash \/ contentHash' = [contentHash EXCEPT ![s.body] = key]
  BY DEF Record
<1>3. Become(w, done)
  BY DEF Record
<1> HIDE DEF key
<1>4. /\ done \in WorkerState /\ done.pc = "publish" /\ done.task = s.task /\ done.event.task = s.task
      /\ done.event.key = key /\ done.event.status = "success"
  BY <1>1, PublishingIsState DEF Status, Error
<1> HIDE DEF done
<1>5. Admitted(done)
  BY <1>4 DEF Admitted
<1>6. \A c \in Contents : contentHash'[c] = contentHash[c] \/ contentHash'[c] = key
  BY <1>2 DEF TypeOK
<1> QED
  BY <1>1, <1>3, <1>4, <1>5, <1>6 DEF Moves

\* The steps of a worker that goes on with its task.
LEMMA WorkMoves ==
    ASSUME TypeOK, CrawlerInv, NEW w \in Workers,
           \/ ReadRobots(w) \/ FetchRobots(w) \/ Wait(w) \/ Get(w) \/ ReadCount(w) \/ WriteCount(w) \/ CompareCount(w)
           \/ LookUp(w) \/ Put(w) \/ Record(w)
    PROVE  \E state \in WorkerState : Moves(w, state)
  BY RobotsMoves, MissMoves, WaitMoves, GetMoves, CountMoves, LookUpMoves, PutMoves, RecordMoves

-----------------------------------------------------------------------------
\* What a worker has dropped or is telling is an event.
LEMMA ToldAreEvents ==
    ASSUME TypeOK
    PROVE  InFlight \subseteq Events /\ Dropped \subseteq Events
<1>1. ASSUME NEW w \in Workers, At(w, "publish") PROVE worker[w].event \in Events
  BY <1>1, Fields DEF TypeOK, At
<1>2. ASSUME NEW w \in Workers, Busy(w) PROVE Unfinished(worker[w].task) \in Events
  <2>1. worker[w].task \in Tasks
    BY <1>2, Fields DEF TypeOK, Busy, At
  <2> QED
    BY <2>1, PublishingIsState DEF Unfinished, Status, Error
<1>3. InFlight \subseteq Events
  BY <1>1 DEF InFlight
<1>4. Dropped \subseteq Events
  BY <1>1, <1>2 DEF Dropped
<1> QED
  BY <1>3, <1>4

LEMMA UpsetsBounded ==
    ASSUME TypeOK, Upset \/ CallFails \/ CallSucceeds \/ upsets' = upsets
    PROVE  upsets' \in 0..MaxUpsets
  BY CrawlerAssumption DEF CrawlerAssumption, TypeOK, Upset, CallFails, CallSucceeds

\* The stores keep their types while a worker goes on with its task.
LEMMA WorkTypes ==
    ASSUME TypeOK, CrawlerInv, NEW w \in Workers,
           \/ ReadRobots(w) \/ FetchRobots(w) \/ Wait(w) \/ Get(w) \/ ReadCount(w) \/ WriteCount(w) \/ CompareCount(w)
           \/ LookUp(w) \/ Put(w) \/ Record(w)
    PROVE  TypeOK'
<1>1. worker' \in [Workers -> WorkerState] /\ UNCHANGED <<queue, running, stream, lost>>
  <2>1. worker' \in [Workers -> WorkerState]
    <3>1. PICK state \in WorkerState : Moves(w, state)
      BY WorkMoves
    <3> QED
      BY <3>1, MovesTypes DEF Moves
  <2> QED
    BY <2>1 DEF ReadRobots, FetchRobots, Wait, Get, ReadCount, WriteCount, CompareCount, LookUp, Put, Record, redis
<1>2. upsets' \in 0..MaxUpsets
  BY UpsetsBounded DEF ReadRobots, FetchRobots, Wait, Get, ReadCount, WriteCount, CompareCount, LookUp, Put, Record
<1>3. redirectCount' \in Nat
  <2>1. CASE WriteCount(w)
    BY <2>1, Working, Fields DEF WriteCount, At
  <2> QED
    BY <2>1 DEF ReadRobots, FetchRobots, Wait, Get, ReadCount, CompareCount, LookUp, Put, Record, TypeOK
<1>4. robots' \in [Domains -> {"absent", "rules", "empty"}]
  <2>1. CASE FetchRobots(w)
    BY <2>1 DEF FetchRobots, TypeOK
  <2> QED
    BY <2>1 DEF ReadRobots, Wait, Get, ReadCount, WriteCount, CompareCount, LookUp, Put, Record, TypeOK, redis
<1>5. contentHash' \in [Contents -> Keys \cup {NoKey}] /\ objects' \subseteq Keys
  <2>1. At(w, "put") \/ At(w, "record") => Key(worker[w].task, worker[w].body) \in Keys
    BY Working, Fields, KeyIsKey DEF At, Busy
  <2>2. CASE Put(w)
    BY <2>1, <2>2 DEF Put, TypeOK, redis
  <2>3. CASE Record(w)
    BY <2>1, <2>3 DEF Record, TypeOK
  <2> QED
    BY <2>2, <2>3 DEF ReadRobots, FetchRobots, Wait, Get, ReadCount, WriteCount, CompareCount, LookUp, TypeOK, redis
<1>6. requested' \subseteq [task : Tasks, url : Urls, open : BOOLEAN]
  <2>1. CASE Get(w)
    <3>1. worker[w].task \in Tasks /\ worker[w].url \in Urls /\ worker[w].open \in BOOLEAN
      BY <2>1, Working, Fields DEF Get, At, Busy
    <3> QED
      BY <2>1, <3>1 DEF Get, TypeOK
  <2> QED
    BY <2>1 DEF ReadRobots, FetchRobots, Wait, ReadCount, WriteCount, CompareCount, LookUp, Put, Record, TypeOK
<1> QED
  BY <1>1, <1>2, <1>3, <1>4, <1>5, <1>6 DEF TypeOK

\* Every step keeps the types.
LEMMA CrawlerTypeStep == TypeOK /\ CrawlerInv /\ [Next]_vars => TypeOK'
<1> SUFFICES ASSUME TypeOK, CrawlerInv, [Next]_vars PROVE TypeOK'
  OBVIOUS
<1>1. ASSUME NEW state \in WorkerState, NEW w \in Workers, Become(w, state)
      PROVE  worker' \in [Workers -> WorkerState]
  BY <1>1, MovesTypes
<1>2. ASSUME NEW w \in Workers, NEW t \in Tasks, Take(w, t) PROVE TypeOK'
  <2>1. Unfinished(t) \in Events
    BY PublishingIsState DEF Unfinished, Status, Error
  <2>2. [pc |-> "robots", task |-> t] \in WorkerState
    BY DEF WorkerState
  <2>3. worker' \in [Workers -> WorkerState]
    BY <1>1, <1>2, <2>2 DEF Take, TypeOK
  <2>4. upsets' \in 0..MaxUpsets
    BY <1>2, UpsetsBounded DEF Take
  <2> QED
    BY <1>2, <2>1, <2>3, <2>4 DEF Take, TypeOK, redis
<1>3. ASSUME NEW w \in Workers, Exit(w) PROVE TypeOK'
  <2>1. [pc |-> "exited"] \in WorkerState
    BY DEF WorkerState
  <2>2. worker' \in [Workers -> WorkerState]
    BY <1>1, <1>3, <2>1 DEF Exit
  <2> QED
    BY <1>3, <2>2 DEF Exit, TypeOK, redis
<1>4. ASSUME NEW w \in Workers, Publish(w) PROVE TypeOK'
  <2>1. worker[w].event \in Events
    BY <1>4, Working, Fields DEF Publish, At
  <2>2. Idle \in WorkerState
    BY DEF Idle, WorkerState
  <2>3. worker' \in [Workers -> WorkerState]
    BY <1>1, <1>4, <2>2 DEF Publish
  <2>4. upsets' \in 0..MaxUpsets
    BY <1>4, UpsetsBounded DEF Publish
  <2> QED
    BY <1>4, <2>1, <2>3, <2>4 DEF Publish, TypeOK, redis
<1>5. ASSUME \/ \E d \in Domains : ExpireRobots(d)
             \/ \E c \in Contents : ExpireHash(c)
      PROVE  TypeOK'
  BY <1>5 DEF ExpireRobots, ExpireHash, TypeOK
<1>6. ASSUME Shutdown PROVE TypeOK'
  <2>1. upsets' \in 0..MaxUpsets
    BY <1>6, UpsetsBounded DEF Shutdown
  <2> QED
    BY <1>6, <2>1 DEF Shutdown, TypeOK, redis
<1>7. ASSUME Restart PROVE TypeOK'
  <2>1. worker' \in [Workers -> WorkerState] /\ redirectCount' \in Nat
    BY <1>7 DEF Restart, Idle, WorkerState
  <2>2. lost' \subseteq Events
    BY <1>7, ToldAreEvents DEF Restart, TypeOK
  <2>3. upsets' \in 0..MaxUpsets
    BY <1>7, UpsetsBounded DEF Restart
  <2> QED
    BY <1>7, <2>1, <2>2, <2>3 DEF Restart, TypeOK, redis
<1>8. CASE UNCHANGED vars
  BY <1>8 DEF vars, TypeOK
<1> QED
  BY <1>2, <1>3, <1>4, <1>5, <1>6, <1>7, <1>8, WorkTypes DEF Next, Work

-----------------------------------------------------------------------------
\* A worker changes: the others, and the events they are publishing, stay.
LEMMA BecomeChanges ==
    ASSUME TypeOK, NEW w \in Workers, NEW state, Become(w, state)
    PROVE  /\ worker'[w] = state
           /\ \A v \in Workers \ {w} : worker'[v] = worker[v]
           /\ state.pc = "publish" => state.event \in InFlight'
           /\ InFlight \subseteq InFlight' \cup (IF At(w, "publish") THEN {worker[w].event} ELSE {})
<1>1. worker'[w] = state /\ \A v \in Workers \ {w} : worker'[v] = worker[v]
  BY DEF TypeOK, Become
<1>2. state.pc = "publish" => state.event \in InFlight'
  BY <1>1 DEF InFlight, At
<1>3. ASSUME NEW v \in Workers, At(v, "publish"), v # w PROVE worker[v].event \in InFlight'
  BY <1>1, <1>3 DEF InFlight, At
<1> QED
  BY <1>1, <1>2, <1>3 DEF InFlight

\* Workers keep what they know while others are idle, gone, or start a task.
LEMMA WorkersKept ==
    ASSUME TypeOK, CrawlerInv, objects' = objects, Told \subseteq Told',
           \A v \in Workers : worker'[v] = worker[v] \/ worker'[v].pc \in {"idle", "exited", "robots"}
    PROVE  WorkersInv'
<1>1. \A key : HasOriginal(key) => HasOriginal(key)'
  BY DEF HasOriginal
<1>2. ASSUME NEW v \in Workers PROVE WorkerInv(worker[v])'
  <2>1. CASE worker'[v] = worker[v]
    <3>1. WorkerInv(worker[v])
      BY DEF CrawlerInv, WorkersInv
    <3> QED
      BY <1>1, <2>1, <3>1 DEF WorkerInv, Admitted, Stored, Reporting
  <2>2. CASE worker'[v].pc \in {"idle", "exited", "robots"}
    BY <2>2 DEF WorkerInv, Admitted, Stored, Reporting
  <2> QED
    BY <2>1, <2>2
<1> QED
  BY <1>2 DEF WorkersInv

\* The parts of the invariant about records and events, when nothing is
\* unsaid and no object goes away.
LEMMA StoresKept ==
    ASSUME TypeOK, CrawlerInv, objects \subseteq objects', Told \subseteq Told',
           \A c \in Contents : contentHash'[c] \in {contentHash[c], NoKey},
           \A e \in stream' : \/ e \in stream
                              \/ /\ e.status \in {"success", "duplicate"} => e.key \in objects
                                 /\ e.status = "duplicate" => HasOriginal(e.key),
           requested' = requested
    PROVE  RecordsInv' /\ StreamInv' /\ DuplicateHasOriginal' /\ RobotsRespected'
<1>1. \A key : HasOriginal(key) => HasOriginal(key)'
  BY DEF HasOriginal
<1>2. RecordsInv' /\ StreamInv'
  BY <1>1 DEF CrawlerInv, RecordsInv, StreamInv
<1>3. \A e \in stream' : e.status = "duplicate" => HasOriginal(e.key)
  BY DEF CrawlerInv, DuplicateHasOriginal, HasOriginal, Told
<1>4. DuplicateHasOriginal'
  BY <1>1, <1>3 DEF DuplicateHasOriginal, HasOriginal, Told
<1> QED
  BY <1>2, <1>4 DEF CrawlerInv, RobotsRespected

\* A worker goes on with its task.
LEMMA MovesKeep ==
    ASSUME TypeOK, CrawlerInv, NEW w \in Workers, NEW state \in WorkerState, Moves(w, state)
    PROVE  CrawlerInv'
<1>1. /\ worker'[w] = state /\ \A v \in Workers \ {w} : worker'[v] = worker[v]
      /\ state.pc = "publish" => state.event \in InFlight'
      /\ InFlight \subseteq InFlight'
  BY BecomeChanges DEF Moves
<1>2. /\ queue' = queue /\ stream' = stream /\ lost' = lost /\ objects \subseteq objects'
      /\ Told \subseteq Told' /\ InFlight' \subseteq Told'
  BY <1>1 DEF Moves, Told
<1>3. \A key : HasOriginal(key) => HasOriginal(key)'
  BY <1>2 DEF HasOriginal
<1>4. WorkersInv'
  <2>1. ASSUME NEW v \in Workers \ {w} PROVE WorkerInv(worker[v])'
    <3>1. WorkerInv(worker[v]) /\ worker'[v] = worker[v]
      BY <1>1 DEF CrawlerInv, WorkersInv
    <3> QED
      BY <1>2, <1>3, <3>1 DEF WorkerInv, Admitted, Stored, Reporting
  <2>2. WorkerInv(worker[w])'
    BY <1>1, <1>3 DEF Moves, WorkerInv, Admitted, Stored, Reporting
  <2> QED
    BY <2>1, <2>2 DEF WorkersInv
<1>5. RecordsInv'
  <2>1. ASSUME NEW c \in Contents
        PROVE  (contentHash[c] # NoKey => contentHash[c] \in objects /\ HasOriginal(contentHash[c]))'
    <3>1. CASE contentHash'[c] = contentHash[c]
      BY <1>2, <1>3, <3>1 DEF CrawlerInv, RecordsInv
    <3>2. CASE state.pc = "publish" /\ state.event.status = "success" /\ state.event.key = contentHash'[c]
      <4>1. state.event \in Told' /\ contentHash'[c] \in objects'
        BY <1>1, <1>2, <3>2 DEF Moves
      <4> QED
        BY <3>2, <4>1 DEF HasOriginal
    <3> QED
      BY <3>1, <3>2 DEF Moves
  <2> QED
    BY <2>1 DEF RecordsInv
<1>6. StreamInv' /\ DuplicateHasOriginal'
  BY <1>2, <1>3 DEF CrawlerInv, StreamInv, DuplicateHasOriginal, HasOriginal, Told
<1>7. RobotsRespected'
  BY DEF Moves, CrawlerInv, RobotsRespected
<1>8. OneOutcomePerTask'
  <2>1. \A t : /\ Holders(t)' = Holders(t) /\ Reports(t)' = Reports(t) /\ Losses(t)' = Losses(t)
    <3>1. \A v \in Workers : /\ Busy(v)' = Busy(v)
                             /\ Busy(v) => worker'[v].task = worker[v].task
      BY <1>1 DEF Moves, Busy, At
    <3> QED
      BY <1>2, <3>1 DEF Holders, Reports, Losses
  <2> QED
    BY <1>2, <2>1 DEF CrawlerInv, OneOutcomePerTask
<1> QED
  BY <1>4, <1>5, <1>6, <1>7, <1>8 DEF CrawlerInv

\* Where one task is: waiting, with a worker, reported or lost.
Place(t) ==
    \/ t \in queue /\ Holders(t) = {} /\ Reports(t) = {} /\ Losses(t) = {}
    \/ /\ t \notin queue
       /\ \/ (\E w \in Workers : Holders(t) = {w}) /\ Reports(t) = {} /\ Losses(t) = {}
          \/ Holders(t) = {} /\ (\E e : Reports(t) = {e}) /\ Losses(t) = {}
          \/ Holders(t) = {} /\ Reports(t) = {} /\ (\E e : Losses(t) = {e})

LEMMA Places == OneOutcomePerTask => \A t \in Tasks : Place(t)
  BY DEF OneOutcomePerTask, Place

LEMMA PlacesNext ==
    ASSUME \A t \in Tasks : Place(t)'
    PROVE  OneOutcomePerTask'
<1>1. \A t, e : (Reports(t)' = {e} => e \in stream') /\ (Losses(t)' = {e} => e \in lost')
  BY DEF Reports, Losses
<1> QED
  BY <1>1 DEF OneOutcomePerTask, Place

\* A task is popped: it gets a worker, or is lost with the reply.
LEMMA TakeKeeps ==
    ASSUME TypeOK, CrawlerInv, NEW w \in Workers, NEW t \in Tasks, Take(w, t)
    PROVE  CrawlerInv'
<1> DEFINE state == [pc |-> "robots", task |-> t]
<1>1. /\ t \in queue /\ queue' = queue \ {t} /\ worker[w].pc = "idle"
      /\ UNCHANGED <<objects, stream, requested, contentHash>>
  BY DEF Take, At, redis
<1>2. \/ Become(w, state) /\ lost' = lost
      \/ worker' = worker /\ lost' = lost \cup {Unfinished(t)}
  BY DEF Take
<1>3. \/ /\ worker'[w] = state /\ lost' = lost
         /\ \A v \in Workers \ {w} : worker'[v] = worker[v]
         /\ InFlight \subseteq InFlight'
      \/ worker' = worker /\ lost' = lost \cup {Unfinished(t)} /\ InFlight' = InFlight
  BY <1>1, <1>2, BecomeChanges DEF At, InFlight
<1>4. Told \subseteq Told'
  BY <1>1, <1>3 DEF Told
<1>5. WorkersInv'
  BY <1>1, <1>3, <1>4, WorkersKept
<1>6. RecordsInv' /\ StreamInv' /\ DuplicateHasOriginal' /\ RobotsRespected'
  BY <1>1, <1>4, StoresKept
<1>7. OneOutcomePerTask'
  <2>1. Unfinished(t).task = t
    BY DEF Unfinished, Event
  <2>2. Holders(t) = {} /\ Reports(t) = {} /\ Losses(t) = {}
    BY <1>1 DEF CrawlerInv, OneOutcomePerTask
  <2>3. \A x \in Tasks : Reports(x)' = Reports(x)
    BY <1>1 DEF Reports
  <2>4. ASSUME NEW x \in Tasks, x # t PROVE Holders(x)' = Holders(x) /\ Losses(x)' = Losses(x)
    <3>1. Losses(x)' = Losses(x)
      BY <1>3, <2>1, <2>4 DEF Losses
    <3>2. ASSUME NEW v \in Workers PROVE v \in Holders(x)' <=> v \in Holders(x)
      BY <1>1, <1>3, <2>4 DEF Holders, Busy, At
    <3> QED
      BY <3>1, <3>2 DEF Holders
  <2>5. \/ Holders(t)' = {w} /\ Losses(t)' = {}
        \/ Holders(t)' = {} /\ Losses(t)' = {Unfinished(t)}
    <3>1. CASE worker' = worker /\ lost' = lost \cup {Unfinished(t)}
      BY <2>1, <2>2, <3>1 DEF Holders, Busy, At, Losses
    <3>2. CASE worker'[w] = state /\ lost' = lost /\ \A v \in Workers \ {w} : worker'[v] = worker[v]
      <4>1. ASSUME NEW v \in Workers PROVE v \in Holders(t)' <=> v = w
        BY <2>2, <3>2 DEF Holders, Busy, At
      <4> QED
        BY <2>2, <3>2, <4>1 DEF Holders, Losses
    <3> QED
      BY <1>3, <3>1, <3>2
  <2>6. Unfinished(t) \in lost' \/ Losses(t)' = {}
    BY <1>3, <2>5 DEF Losses
  <2>7. ASSUME NEW x \in Tasks, x # t
        PROVE  Place(x) => Place(x)'
    BY <1>1, <2>3, <2>4, <2>7 DEF Place
  <2>8. Place(t)'
    BY <1>1, <2>2, <2>3, <2>5, <2>6 DEF Place
  <2>9. \A x \in Tasks : Place(x)
    BY Places DEF CrawlerInv
  <2> QED
    BY <2>7, <2>8, <2>9, PlacesNext
<1> QED
  BY <1>5, <1>6, <1>7 DEF CrawlerInv

\* A worker's event is out, or lost: the worker is free.
LEMMA PublishKeeps ==
    ASSUME TypeOK, CrawlerInv, NEW w \in Workers, Publish(w)
    PROVE  CrawlerInv'
<1> DEFINE e == worker[w].event
<1>t. PICK t \in Tasks : t = worker[w].task
  BY Working DEF Publish, At, Busy
<1>1. /\ worker[w].pc = "publish" /\ worker[w].task = t /\ e.task = t /\ Busy(w)
      /\ e.status \in {"success", "duplicate"} => e.key \in objects
      /\ e.status = "duplicate" => HasOriginal(e.key)
      /\ UNCHANGED <<queue, objects, requested, contentHash>>
  BY <1>t, Working DEF Publish, At, Busy, WorkerInv, Reporting, redis
<1>2. \/ stream' = stream \cup {e} /\ lost' = lost
      \/ stream' = stream /\ lost' = lost \cup {e}
  BY DEF Publish
<1>3. /\ worker'[w] = Idle /\ \A v \in Workers \ {w} : worker'[v] = worker[v]
      /\ InFlight \subseteq InFlight' \cup {e}
  BY BecomeChanges DEF Publish
<1> HIDE DEF e
<1>4. Told \subseteq Told'
  BY <1>2, <1>3 DEF Told
<1>5. WorkersInv'
  BY <1>1, <1>3, <1>4, WorkersKept DEF Idle
<1>6. RecordsInv' /\ StreamInv' /\ DuplicateHasOriginal' /\ RobotsRespected'
  BY <1>1, <1>2, <1>4, StoresKept
<1>7. OneOutcomePerTask'
  <2>1. w \in Holders(t)
    BY <1>1 DEF Holders
  <2>2. t \notin queue /\ Holders(t) = {w} /\ Reports(t) = {} /\ Losses(t) = {}
    BY <1>1, <2>1 DEF CrawlerInv, OneOutcomePerTask
  <2>3. ASSUME NEW v \in Workers, NEW x \in Tasks PROVE v \in Holders(x)' <=> (v \in Holders(x) /\ v # w)
    BY <1>3, <2>3 DEF Holders, Busy, At, Idle
  <2>4. ASSUME NEW x \in Tasks, x # t
        PROVE  Holders(x)' = Holders(x) /\ Reports(x)' = Reports(x) /\ Losses(x)' = Losses(x)
    <3>1. w \notin Holders(x)
      BY <1>1, <2>4 DEF Holders
    <3>2. Holders(x)' = Holders(x)
      BY <2>3, <3>1 DEF Holders
    <3> QED
      BY <1>1, <1>2, <2>4, <3>2 DEF Reports, Losses
  <2>5. Holders(t)' = {}
    <3>1. \A v \in Workers : v \notin Holders(t)'
      BY <1>1, <2>2, <2>3
    <3> QED
      BY <3>1 DEF Holders
  <2>6. \/ Reports(t)' = {e} /\ Losses(t)' = {} /\ e \in stream'
        \/ Reports(t)' = {} /\ Losses(t)' = {e} /\ e \in lost'
    BY <1>1, <1>2, <2>2 DEF Reports, Losses
  <2>7. ASSUME NEW x \in Tasks, x # t
        PROVE  Place(x) => Place(x)'
    BY <1>1, <1>2, <2>4, <2>7 DEF Place
  <2>8. Place(t)'
    BY <1>1, <2>2, <2>5, <2>6 DEF Place
  <2>9. \A x \in Tasks : Place(x)
    BY Places DEF CrawlerInv
  <2> QED
    BY <2>7, <2>8, <2>9, PlacesNext
<1> QED
  BY <1>5, <1>6, <1>7 DEF CrawlerInv

\* The process starts again: what its workers had in hand is lost.
LEMMA RestartKeeps ==
    ASSUME TypeOK, CrawlerInv, Restart
    PROVE  CrawlerInv'
<1> DEFINE drop(w) == IF At(w, "publish") THEN worker[w].event ELSE Unfinished(worker[w].task)
<1>1. /\ worker' = [w \in Workers |-> Idle] /\ lost' = lost \cup Dropped
      /\ UNCHANGED <<queue, objects, stream, requested, contentHash>>
  BY DEF Restart, redis
<1>2. \A w \in Workers : Busy(w) => drop(w).task = worker[w].task
  BY Working DEF Unfinished, Event, WorkerInv, Reporting, At
<1>3. Dropped = {drop(w) : w \in {v \in Workers : Busy(v)}}
  BY DEF Dropped, Busy, At
<1>4. Told \subseteq Told'
  BY <1>1 DEF Told, InFlight, Dropped
<1>5. WorkersInv'
  BY <1>1, <1>4, WorkersKept DEF Idle
<1>6. RecordsInv' /\ StreamInv' /\ DuplicateHasOriginal' /\ RobotsRespected'
  BY <1>1, <1>4, StoresKept
<1>7. OneOutcomePerTask'
  <2>1. \A x \in Tasks : Holders(x)' = {} /\ Reports(x)' = Reports(x)
    BY <1>1 DEF Holders, Reports, Busy, At, Idle
  <2> HIDE DEF drop
  <2>2. ASSUME NEW x \in Tasks, Holders(x) = {} PROVE Losses(x)' = Losses(x)
    <3>1. \A e \in Dropped : e.task # x
      BY <1>2, <1>3, <2>2 DEF Holders
    <3> QED
      BY <1>1, <3>1 DEF Losses
  <2>3. ASSUME NEW x \in Tasks, NEW w \in Workers, Holders(x) = {w}, Losses(x) = {}
        PROVE  Losses(x)' = {drop(w)} /\ drop(w) \in lost'
    <3>1. w \in Holders(x) /\ Busy(w) /\ worker[w].task = x
      BY <2>3 DEF Holders
    <3>2. \A e \in Dropped : e.task = x <=> e = drop(w)
      <4>1. ASSUME NEW v \in Workers, Busy(v), drop(v).task = x PROVE v = w
        BY <1>2, <2>3, <4>1 DEF Holders
      <4> QED
        BY <1>2, <1>3, <3>1, <4>1
    <3>3. drop(w) \in Dropped
      BY <1>3, <3>1
    <3> QED
      BY <1>1, <2>3, <3>2, <3>3 DEF Losses
  <2> QED
    BY <1>1, <2>1, <2>2, <2>3 DEF CrawlerInv, OneOutcomePerTask
<1> QED
  BY <1>5, <1>6, <1>7 DEF CrawlerInv

\* A worker returns, a record runs out, or the context is cancelled.
LEMMA OtherSteps ==
    ASSUME TypeOK, CrawlerInv,
           \/ \E w \in Workers : Exit(w)
           \/ \E d \in Domains : ExpireRobots(d)
           \/ \E c \in Contents : ExpireHash(c)
           \/ Shutdown
           \/ UNCHANGED vars
    PROVE  CrawlerInv'
<1>1. /\ UNCHANGED <<queue, objects, stream, lost, requested>>
      /\ \A c \in Contents : contentHash'[c] \in {contentHash[c], NoKey}
  <2>1. ASSUME NEW c \in Contents, ExpireHash(c)
        PROVE  \A x \in Contents : contentHash'[x] \in {contentHash[x], NoKey}
    BY <2>1 DEF ExpireHash, TypeOK
  <2> QED
    BY <2>1 DEF Exit, ExpireRobots, ExpireHash, Shutdown, vars, redis
<1>2. \/ worker' = worker
      \/ \E w \in Workers : /\ worker[w].pc = "idle" /\ worker'[w].pc = "exited"
                            /\ \A v \in Workers \ {w} : worker'[v] = worker[v]
  <2>1. ASSUME NEW w \in Workers, Exit(w)
        PROVE  /\ worker[w].pc = "idle" /\ worker'[w].pc = "exited"
               /\ \A v \in Workers \ {w} : worker'[v] = worker[v]
    BY <2>1, BecomeChanges DEF Exit, At
  <2> QED
    BY <2>1 DEF ExpireRobots, ExpireHash, Shutdown, vars
<1>3. \A v \in Workers : /\ Busy(v)' = Busy(v)
                         /\ worker'[v] = worker[v] \/ worker'[v].pc = "exited"
                         /\ Busy(v) => worker'[v] = worker[v]
                         /\ At(v, "publish")' = At(v, "publish")
  BY <1>2 DEF Busy, At
<1>4. InFlight' = InFlight /\ Told' = Told
  <2>1. InFlight' = InFlight
    BY <1>3 DEF InFlight, Busy, At
  <2> QED
    BY <1>1, <2>1 DEF Told
<1>5. WorkersInv'
  BY <1>1, <1>3, <1>4, WorkersKept
<1>6. RecordsInv' /\ StreamInv' /\ DuplicateHasOriginal' /\ RobotsRespected'
  BY <1>1, <1>4, StoresKept
<1>7. OneOutcomePerTask'
  <2>1. \A t : Holders(t)' = Holders(t) /\ Reports(t)' = Reports(t) /\ Losses(t)' = Losses(t)
    BY <1>1, <1>3 DEF Holders, Reports, Losses
  <2> QED
    BY <1>1, <2>1 DEF CrawlerInv, OneOutcomePerTask
<1> QED
  BY <1>5, <1>6, <1>7 DEF CrawlerInv

-----------------------------------------------------------------------------
LEMMA CrawlerInit == Init => TypeOK /\ CrawlerInv
<1> SUFFICES ASSUME Init PROVE TypeOK /\ CrawlerInv
  OBVIOUS
<1>1. TypeOK
  BY CrawlerAssumption DEF CrawlerAssumption, Init, TypeOK, Idle, WorkerState
<1>2. /\ stream = {} /\ lost = {} /\ requested = {} /\ queue = Tasks
      /\ \A c \in Contents : contentHash[c] = NoKey
      /\ \A w \in Workers : worker[w].pc = "idle"
  BY DEF Init, Idle
<1>3. WorkersInv /\ RecordsInv /\ StreamInv /\ DuplicateHasOriginal /\ RobotsRespected
  BY <1>2 DEF WorkersInv, WorkerInv, Admitted, Stored, Reporting, RecordsInv, StreamInv,
              DuplicateHasOriginal, RobotsRespected
<1>4. OneOutcomePerTask
  BY <1>2 DEF OneOutcomePerTask, Holders, Busy, At, Reports, Losses
<1> QED
  BY <1>1, <1>3, <1>4 DEF CrawlerInv

LEMMA CrawlerInvariant == Spec => [](TypeOK /\ CrawlerInv)
<1>1. TypeOK /\ CrawlerInv /\ [Next]_vars => (TypeOK /\ CrawlerInv)'
  <2> SUFFICES ASSUME TypeOK, CrawlerInv, [Next]_vars PROVE TypeOK' /\ CrawlerInv'
    OBVIOUS
  <2>1. TypeOK'
    BY CrawlerTypeStep
  <2>2. ASSUME NEW w \in Workers, Work(w) PROVE CrawlerInv'
    <3>1. CASE \E t \in Tasks : Take(w, t)
      BY <3>1, TakeKeeps
    <3>2. CASE Exit(w)
      BY <3>2, OtherSteps
    <3>3. CASE Publish(w)
      BY <3>3, PublishKeeps
    <3>4. CASE \/ ReadRobots(w) \/ FetchRobots(w) \/ Wait(w) \/ Get(w) \/ ReadCount(w) \/ WriteCount(w) \/ CompareCount(w)
               \/ LookUp(w) \/ Put(w) \/ Record(w)
      BY <3>4, WorkMoves, MovesKeep
    <3> QED
      BY <2>2, <3>1, <3>2, <3>3, <3>4 DEF Work
  <2> QED
    BY <2>1, <2>2, RestartKeeps, OtherSteps DEF Next
<1> QED
  BY CrawlerInit, <1>1, PTL DEF Spec

\* The crawler's state is well typed.
THEOREM CrawlerTypes == Spec => []TypeOK
  BY CrawlerInvariant, PTL

\* Store uploads before it records and reports: whatever call fails and
\* whenever the process dies, a record and an event name an object that is there.
THEOREM NamedObjectsExist == Spec => []KeysAreStored
<1>1. CrawlerInv => KeysAreStored
  BY DEF CrawlerInv, KeysAreStored, RecordsInv, StreamInv, WorkersInv, WorkerInv, Reporting, InFlight, At
<1> QED
  BY <1>1, CrawlerInvariant, PTL

\* A page is called a duplicate only if a successful crawl has told of the
\* same object, or was about to when its worker or its XADD failed.
THEOREM DuplicatesHaveOriginals == Spec => []DuplicateHasOriginal
<1>1. CrawlerInv => DuplicateHasOriginal
  BY DEF CrawlerInv
<1> QED
  BY <1>1, CrawlerInvariant, PTL

\* runWorker hands a task to one worker, which reports it once, unless a
\* failure loses it.
THEOREM TasksHaveOneOutcome == Spec => []OneOutcomePerTask
<1>1. CrawlerInv => OneOutcomePerTask
  BY DEF CrawlerInv
<1> QED
  BY <1>1, CrawlerInvariant, PTL

\* Fetch asks robots.txt before the page of a task: it is requested only if
\* the rules allow it or could not be had.
THEOREM RobotsAreRespected == Spec => []RobotsRespected
<1>1. CrawlerInv => RobotsRespected
  BY DEF CrawlerInv
<1> QED
  BY <1>1, CrawlerInvariant, PTL

-----------------------------------------------------------------------------
(***************************************************************************)
(* The life of a task, from the queue to a worker's hands and out of them. *)
(***************************************************************************)
Held(t) == Holders(t) # {}
TaskPhase(t) == IF Held(t) THEN "taken" ELSE IF t \in queue THEN "waiting" ELSE "over"
TaskPhases == [t \in Tasks |-> TaskPhase(t)]

Life == INSTANCE TaskQueue WITH Task <- Tasks, phase <- TaskPhases

\* Who waits is in nobody's hands.
LEMMA WaitingIsFree == ASSUME CrawlerInv, NEW t \in queue, t \in Tasks PROVE ~Held(t)
  BY DEF CrawlerInv, OneOutcomePerTask, Held

\* Where nobody takes or drops a task, every one is where it was.
LEMMA LifeGoesOn ==
    ASSUME queue' = queue, \A t \in Tasks : Held(t)' <=> Held(t)
    PROVE  TaskPhases' = TaskPhases
  BY DEF TaskPhases, TaskPhase

\* Workers who keep what they have in hand, or have nothing before and after.
LEMMA HandsKept ==
    ASSUME queue' = queue,
           \A v \in Workers : (Busy(v)' <=> Busy(v)) /\ (Busy(v) => worker'[v].task = worker[v].task)
    PROVE  TaskPhases' = TaskPhases
<1>1. ASSUME NEW t \in Tasks PROVE Held(t)' <=> Held(t)
  BY DEF Held, Holders
<1> QED
  BY <1>1, LifeGoesOn

\* Every step of the crawlers is a step of TaskQueue, or moves no task.
LEMMA LifeStep == TypeOK /\ CrawlerInv /\ [Next]_vars => [Life!Next]_TaskPhases
<1> SUFFICES ASSUME TypeOK, CrawlerInv, [Next]_vars PROVE [Life!Next]_TaskPhases
  OBVIOUS
<1>1. ASSUME NEW w \in Workers, NEW t \in Tasks, Take(w, t) PROVE [Life!Next]_TaskPhases
  <2>1. /\ t \in queue /\ queue' = queue \ {t} /\ worker[w].pc = "idle" /\ ~Held(t)
        /\ Become(w, [pc |-> "robots", task |-> t]) \/ worker' = worker
    BY <1>1, WaitingIsFree DEF Take, At
  <2>2. t \in Life!In("waiting")
    BY <2>1 DEF Life!In, TaskPhases, TaskPhase
  <2>3. CASE Become(w, [pc |-> "robots", task |-> t])
    <3>1. /\ worker'[w].pc = "robots" /\ worker'[w].task = t
          /\ \A v \in Workers \ {w} : worker'[v] = worker[v]
      BY <2>3, BecomeChanges
    <3>2. Held(t)'
      BY <3>1 DEF Held, Holders, Busy, At
    <3>3. ASSUME NEW x \in Tasks, x # t PROVE Held(x)' <=> Held(x)
      <4>1. \A v \in Workers : v \in Holders(x)' <=> v \in Holders(x)
        BY <2>1, <3>1, <3>3 DEF Holders, Busy, At
      <4> QED
        BY <4>1 DEF Held, Holders
    <3>4. \A x \in Tasks : TaskPhase(x)' = IF x = t THEN "taken" ELSE TaskPhase(x)
      BY <2>1, <3>2, <3>3 DEF TaskPhase
    <3>5. Life!Take(t)
      BY <2>2, <3>4 DEF Life!Take, Life!Move, TaskPhases
    <3> QED
      BY <3>5 DEF Life!Next
  <2>4. CASE worker' = worker
    <3>1. \A x \in Tasks : Held(x)' <=> Held(x)
      BY <2>4 DEF Held, Holders, Busy, At
    <3>2. \A x \in Tasks : TaskPhase(x)' = IF x \in {t} THEN "over" ELSE TaskPhase(x)
      BY <2>1, <3>1 DEF TaskPhase
    <3>3. Life!End({t})
      BY <2>2, <3>2 DEF Life!End, Life!Move, TaskPhases
    <3> QED
      BY <3>3, {t} \in SUBSET Tasks DEF Life!Next
  <2> QED
    BY <2>1, <2>3, <2>4
<1>2. ASSUME NEW w \in Workers, Exit(w) PROVE TaskPhases' = TaskPhases
  <2>1. /\ worker[w].pc = "idle" /\ worker'[w].pc = "exited" /\ queue' = queue
        /\ \A v \in Workers \ {w} : worker'[v] = worker[v]
    BY <1>2, BecomeChanges DEF Exit, At
  <2> QED
    BY <2>1, HandsKept DEF Busy, At
<1>3. ASSUME NEW w \in Workers,
             \/ ReadRobots(w) \/ FetchRobots(w) \/ Wait(w) \/ Get(w) \/ ReadCount(w) \/ WriteCount(w) \/ CompareCount(w)
             \/ LookUp(w) \/ Put(w) \/ Record(w)
      PROVE  TaskPhases' = TaskPhases
  <2>1. PICK state \in WorkerState : Moves(w, state)
    BY <1>3, WorkMoves
  <2>2. /\ worker'[w] = state /\ queue' = queue
        /\ \A v \in Workers \ {w} : worker'[v] = worker[v]
    BY <2>1, BecomeChanges DEF Moves
  <2> QED
    BY <2>1, <2>2, HandsKept DEF Moves, Busy, At
<1>4. ASSUME NEW w \in Workers, Publish(w) PROVE [Life!Next]_TaskPhases
  <2>1. PICK t \in Tasks : t = worker[w].task
    BY <1>4, Working DEF Publish, At, Busy
  <2>2. /\ Busy(w) /\ worker'[w] = Idle /\ queue' = queue
        /\ \A v \in Workers \ {w} : worker'[v] = worker[v]
    BY <1>4, BecomeChanges DEF Publish, Busy, At
  <2>3. w \in Holders(t)
    BY <2>1, <2>2 DEF Holders
  <2>4. t \notin queue /\ Holders(t) = {w}
    BY <2>3 DEF CrawlerInv, OneOutcomePerTask
  <2>5. \A x \in Tasks : \A v \in Workers : v \in Holders(x)' <=> v \in Holders(x) /\ v # w
    BY <2>2 DEF Holders, Busy, At, Idle
  <2>6. ~Held(t)'
    BY <2>4, <2>5 DEF Held, Holders
  <2>7. ASSUME NEW x \in Tasks, x # t PROVE Held(x)' <=> Held(x)
    <3>1. w \notin Holders(x)
      BY <2>1, <2>7 DEF Holders
    <3> QED
      BY <2>5, <3>1 DEF Held, Holders
  <2>8. \A x \in Tasks : TaskPhase(x)' = IF x \in {t} THEN "over" ELSE TaskPhase(x)
    BY <2>2, <2>4, <2>6, <2>7 DEF TaskPhase
  <2>9. t \in Life!In("taken")
    BY <2>3 DEF Life!In, TaskPhases, TaskPhase, Held
  <2>10. Life!End({t})
    BY <2>8, <2>9 DEF Life!End, Life!Move, TaskPhases
  <2> QED
    BY <2>10, {t} \in SUBSET Tasks DEF Life!Next
<1>5. ASSUME Restart PROVE [Life!Next]_TaskPhases
  <2>1. PICK tasks \in SUBSET Tasks : tasks = {t \in Tasks : Held(t)}
    OBVIOUS
  <2>2. queue' = queue /\ \A t \in Tasks : ~Held(t)'
    BY <1>5 DEF Restart, Held, Holders, Busy, At, Idle
  <2>3. \A t \in tasks : t \notin queue
    BY <2>1, WaitingIsFree
  <2>4. \A t \in Tasks : TaskPhase(t)' = IF t \in tasks THEN "over" ELSE TaskPhase(t)
    BY <2>1, <2>2, <2>3 DEF TaskPhase
  <2>5. tasks \subseteq Life!In("taken")
    BY <2>1 DEF Life!In, TaskPhases, TaskPhase
  <2>6. CASE tasks = {}
    BY <2>4, <2>6 DEF TaskPhases
  <2>7. CASE tasks # {}
    <3>1. Life!End(tasks)
      BY <2>4, <2>5, <2>7 DEF Life!End, Life!Move, TaskPhases
    <3> QED
      BY <3>1 DEF Life!Next
  <2> QED
    BY <2>6, <2>7
<1>6. ASSUME \/ \E d \in Domains : ExpireRobots(d)
             \/ \E c \in Contents : ExpireHash(c)
             \/ Shutdown
             \/ UNCHANGED vars
      PROVE  TaskPhases' = TaskPhases
  <2>1. UNCHANGED <<worker, queue>>
    BY <1>6 DEF ExpireRobots, ExpireHash, Shutdown, vars
  <2> QED
    BY <2>1, HandsKept DEF Busy, At
<1> QED
  BY <1>1, <1>2, <1>3, <1>4, <1>5, <1>6 DEF Next, Work

\* The crawlers implement TaskQueue as well: a task that a worker was given is
\* over once the worker told of it, failed to, or died, and no other worker gets
\* it (main.go, runWorker: BZPopMax with nothing to give back).
THEOREM TasksTakenOnce == Spec => Life!Spec
<1>1. Init => Life!Init
  <2>1. ASSUME Init PROVE \A t \in Tasks : TaskPhase(t) = "waiting"
    BY <2>1 DEF Init, TaskPhase, Held, Holders, Busy, At, Idle
  <2> QED
    BY <2>1 DEF Life!Init, TaskPhases
<1> QED
  BY <1>1, CrawlerInvariant, LifeStep, PTL DEF Spec, Life!Spec

-----------------------------------------------------------------------------
(* The robots.txt parser. *)

AgentOf(k) == IF k = "specific" THEN "RealtimeIndexer" ELSE "*"

\* In the lines f: the group that line a opens for kind k is not over at line j.
Opens(f, k, a, j) ==
    /\ f[a].directive = "user-agent" /\ f[a].value = AgentOf(k)
    /\ \A l \in (a + 1)..j : f[l].directive \notin {"user-agent", ""}
IsOpen(f, k) == \E a \in 1..Len(f) : Opens(f, k, a, Len(f))

\* The rules that the parser takes for kind k.
Taken(f, k, d) ==
    {j \in 1..Len(f) : f[j].directive = d /\ \E a \in 1..(j - 1) : Opens(f, k, a, j)}
Values(f, js) == {f[j].value : j \in js}

\* The set whose maximum Longest takes, and that it has one.
Counted(rules) == {-1} \cup {r \in rules : r > 0}
HasLongest(rules) == \E m \in Counted(rules) : \A r \in Counted(rules) : r <= m

\* The delay is that of the last of these rules.
DelayInv(k) ==
    \/ Taken(file, k, "crawl-delay") = {} /\ ruleSets[k].crawlDelay = 0
    \/ \E j \in Taken(file, k, "crawl-delay") :
           /\ ruleSets[k].crawlDelay = file[j].value
           /\ \A i \in Taken(file, k, "crawl-delay") : i <= j

\* The parser's state, from the lines.
KindInv(k) ==
    /\ current = k <=> IsOpen(file, k)
    /\ ruleSets[k].disallow = Values(file, Taken(file, k, "disallow"))
    /\ ruleSets[k].allow = Values(file, Taken(file, k, "allow"))
    /\ ruleSets[k].active <=> Named(AgentOf(k))
    /\ DelayInv(k)
    /\ HasLongest(ruleSets[k].disallow) /\ HasLongest(ruleSets[k].allow)
RobotsInv == RobotsTypeOK /\ \A k \in Kinds : KindInv(k)

-----------------------------------------------------------------------------
\* What one more line changes.
LEMMA OpensAfter ==
    ASSUME NEW f \in Seq(Lines), NEW line \in Lines, NEW k,
           NEW a \in 1..Len(f), NEW j \in 1..Len(f)
    PROVE  Opens(Append(f, line), k, a, j) <=> Opens(f, k, a, j)
<1>1. \A i \in 1..Len(f) : Append(f, line)[i] = f[i]
  OBVIOUS
<1>2. Len(f) \in Nat /\ (a + 1)..j \subseteq 1..Len(f)
  OBVIOUS
<1> QED
  BY <1>1, <1>2 DEF Opens

LEMMA OpensAtEnd ==
    ASSUME NEW f \in Seq(Lines), NEW line \in Lines, NEW k, NEW a \in 1..Len(f)
    PROVE  Opens(Append(f, line), k, a, Len(f) + 1)
               <=> Opens(f, k, a, Len(f)) /\ line.directive \notin {"user-agent", ""}
<1>1. /\ \A i \in 1..Len(f) : Append(f, line)[i] = f[i]
      /\ Append(f, line)[Len(f) + 1] = line /\ Len(f) \in Nat
  OBVIOUS
<1>2. (a + 1)..(Len(f) + 1) = ((a + 1)..Len(f)) \cup {Len(f) + 1} /\ (a + 1)..Len(f) \subseteq 1..Len(f)
  BY <1>1
<1> QED
  BY <1>1, <1>2 DEF Opens

LEMMA IsOpenAfter ==
    ASSUME NEW f \in Seq(Lines), NEW line \in Lines, NEW k
    PROVE  IsOpen(Append(f, line), k) <=>
               \/ line.directive = "user-agent" /\ line.value = AgentOf(k)
               \/ line.directive \notin {"user-agent", ""} /\ IsOpen(f, k)
<1>1. Len(f) \in Nat /\ Len(Append(f, line)) = Len(f) + 1 /\ Append(f, line)[Len(f) + 1] = line
  OBVIOUS
<1>2. Opens(Append(f, line), k, Len(f) + 1, Len(f) + 1) <=> line.directive = "user-agent" /\ line.value = AgentOf(k)
  <2>1. ((Len(f) + 1) + 1)..(Len(f) + 1) = {}
    BY <1>1
  <2> QED
    BY <1>1, <2>1 DEF Opens
<1>3. IsOpen(Append(f, line), k) <=> \/ Opens(Append(f, line), k, Len(f) + 1, Len(f) + 1)
                                     \/ \E a \in 1..Len(f) : Opens(Append(f, line), k, a, Len(f) + 1)
  BY <1>1 DEF IsOpen
<1> QED
  BY <1>2, <1>3, OpensAtEnd DEF IsOpen

LEMMA TakenAfter ==
    ASSUME NEW f \in Seq(Lines), NEW line \in Lines, NEW k, NEW d \in {"disallow", "allow", "crawl-delay"}
    PROVE  /\ line.directive = d /\ IsOpen(f, k) => Taken(Append(f, line), k, d) = Taken(f, k, d) \cup {Len(f) + 1}
           /\ ~(line.directive = d /\ IsOpen(f, k)) => Taken(Append(f, line), k, d) = Taken(f, k, d)
<1>1. /\ Len(f) \in Nat /\ Len(Append(f, line)) = Len(f) + 1 /\ Append(f, line)[Len(f) + 1] = line
      /\ \A i \in 1..Len(f) : Append(f, line)[i] = f[i]
  OBVIOUS
<1>2. ASSUME NEW j \in 1..Len(f)
      PROVE  j \in Taken(Append(f, line), k, d) <=> j \in Taken(f, k, d)
  <2>1. \A a \in 1..(j - 1) : Opens(Append(f, line), k, a, j) <=> Opens(f, k, a, j)
    BY <1>1, OpensAfter
  <2> QED
    BY <1>1, <2>1 DEF Taken
<1>3. Len(f) + 1 \in Taken(Append(f, line), k, d) <=> line.directive = d /\ IsOpen(f, k)
  <2>1. Len(f) + 1 \in Taken(Append(f, line), k, d) <=>
            line.directive = d /\ \E a \in 1..Len(f) : Opens(Append(f, line), k, a, Len(f) + 1)
    BY <1>1 DEF Taken
  <2> QED
    BY <2>1, OpensAtEnd DEF IsOpen
<1>4. /\ Taken(Append(f, line), k, d) \subseteq 1..(Len(f) + 1) /\ Taken(f, k, d) \subseteq 1..Len(f)
      /\ 1..(Len(f) + 1) = (1..Len(f)) \cup {Len(f) + 1}
  BY <1>1 DEF Taken
<1> QED
  BY <1>1, <1>2, <1>3, <1>4

\* What one more rule changes.
LEMMA LongestAfter ==
    ASSUME NEW rules \in SUBSET Int, NEW r \in Int, HasLongest(rules)
    PROVE  HasLongest(rules \cup {r})
<1>1. PICK m \in Counted(rules) : \A x \in Counted(rules) : x <= m
  BY DEF HasLongest
<1>2. m \in Int /\ -1 <= m
  BY <1>1 DEF Counted
<1>3. CASE r > 0 /\ r > m
  <2>1. r \in Counted(rules \cup {r}) /\ \A x \in Counted(rules \cup {r}) : x <= r
    BY <1>1, <1>2, <1>3 DEF Counted
  <2> QED
    BY <2>1 DEF HasLongest
<1>4. CASE ~(r > 0 /\ r > m)
  <2>1. m \in Counted(rules \cup {r}) /\ \A x \in Counted(rules \cup {r}) : x <= m
    BY <1>1, <1>2, <1>4 DEF Counted
  <2> QED
    BY <2>1 DEF HasLongest
<1> QED
  BY <1>3, <1>4
-----------------------------------------------------------------------------
\* The fields of a line, and of the rule sets.
LEMMA LineFields ==
    ASSUME NEW line \in Lines
    PROVE  /\ line.directive \in {"disallow", "allow", "crawl-delay", "", "unknown", "user-agent"}
           /\ line.directive \in {"disallow", "allow"} => line.value \in Lengths \cup {Elsewhere} /\ line.value \in Int
           /\ line.directive = "crawl-delay" => line.value \in Delays
           /\ line.directive = "user-agent" => line.value \in {"*", "RealtimeIndexer", "another"}
<1>1. Lengths \cup {Elsewhere} \subseteq Int
  BY RobotsAssumption DEF Elsewhere
<1>2. \A path \in Paths : path.value \in Lengths \cup {Elsewhere}
  BY DEF Paths, Plainly
<1>3. CASE line \in PathLines
  <2>1. PICK d \in {"disallow", "allow"} : \E path \in Paths : line = PathLine(d, path)
    BY <1>3 DEF PathLines
  <2>2. PICK path \in Paths : line = PathLine(d, path)
    BY <2>1
  <2>3. line.directive = d /\ line.value = path.value
    BY <2>2 DEF PathLine
  <2> QED
    BY <1>1, <1>2, <2>3
<1>4. CASE \/ line \in [directive : {"crawl-delay"}, value : Delays]
           \/ line \in [directive : {"", "unknown"}, value : {0}]
           \/ line \in [directive : {"user-agent"}, value : {"*", "RealtimeIndexer", "another"}]
  BY <1>4
<1> QED
  BY <1>3, <1>4 DEF Lines

RuleSet == [disallow : SUBSET (Lengths \cup {Elsewhere}), allow : SUBSET (Lengths \cup {Elsewhere}),
            crawlDelay : Delays \cup {0}, active : BOOLEAN]

LEMMA NamedAfter ==
    ASSUME NEW line \in Lines, file \in Seq(Lines), file' = Append(file, line), NEW agent
    PROVE  Named(agent)' <=> Named(agent) \/ (line.directive = "user-agent" /\ line.value = agent)
<1>1. /\ DOMAIN file = 1..Len(file) /\ DOMAIN file' = 1..(Len(file) + 1) /\ Len(file) \in Nat
      /\ \A i \in 1..Len(file) : file'[i] = file[i]
      /\ file'[Len(file) + 1] = line
  OBVIOUS
<1>2. Named(agent)' <=> \E i \in 1..(Len(file) + 1) : file'[i].directive = "user-agent" /\ file'[i].value = agent
  BY <1>1 DEF Named, IsAgent
<1> QED
  BY <1>1, <1>2 DEF Named, IsAgent

LEMMA RobotsInitially == ASSUME InitRobots PROVE RobotsInv
<1>1. RobotsTypeOK
  BY DEF InitRobots, RobotsTypeOK, NoRules
<1>2. ASSUME NEW k \in Kinds PROVE KindInv(k)
  <2>1. \A d : Taken(file, k, d) = {} /\ ~IsOpen(file, k)
    BY DEF InitRobots, Taken, IsOpen
  <2>2. HasLongest({})
    BY DEF HasLongest, Counted
  <2>3. ruleSets[k] = NoRules /\ current = "none" /\ file = <<>>
    BY DEF InitRobots
  <2>4. ~Named(AgentOf(k))
    BY <2>3 DEF Named
  <2>5. \A d : Values(file, Taken(file, k, d)) = {}
    BY <2>1 DEF Values
  <2>6. DelayInv(k)
    BY <2>1, <2>3 DEF DelayInv, NoRules
  <2> QED
    BY <2>1, <2>2, <2>3, <2>4, <2>5, <2>6 DEF KindInv, NoRules, Kinds
<1> QED
  BY <1>1, <1>2 DEF RobotsInv

\* A line that names an agent.
LEMMA UserAgentStep ==
    ASSUME RobotsInv, NEW line \in Lines, ParseLine(line), line.directive = "user-agent"
    PROVE  RobotsInv'
<1>1. /\ file \in Seq(Lines) /\ file' = Append(file, line) /\ UserAgent(line.value)
      /\ ruleSets \in [Kinds -> RuleSet]
  BY DEF ParseLine, RobotsInv, RobotsTypeOK, RuleSet
<1>2. line.value \in {"*", "RealtimeIndexer", "another"}
  BY LineFields
<1>3. current' = KindOf(line.value) /\ current' \in Kinds \cup {"none"}
  BY <1>1, <1>2 DEF UserAgent, KindOf, Kinds
<1>4. \A k \in Kinds : current' = k <=> line.value = AgentOf(k)
  BY <1>2, <1>3 DEF AgentOf, KindOf, Kinds
<1>5. ASSUME NEW k \in Kinds
      PROVE  /\ ruleSets'[k] \in RuleSet
             /\ ruleSets'[k].disallow = ruleSets[k].disallow /\ ruleSets'[k].allow = ruleSets[k].allow
             /\ ruleSets'[k].crawlDelay = ruleSets[k].crawlDelay
             /\ ruleSets'[k].active <=> ruleSets[k].active \/ line.value = AgentOf(k)
  <2>1. CASE current' = "none"
    BY <1>1, <1>3, <1>4, <2>1 DEF UserAgent, RuleSet, Kinds
  <2>2. CASE current' \in Kinds
    <3>1. ruleSets' = [ruleSets EXCEPT ![current'] = [ruleSets[current'] EXCEPT !.active = TRUE]]
      BY <1>1, <1>3, <2>2 DEF UserAgent, Kinds
    <3> QED
      BY <1>1, <1>4, <2>2, <3>1 DEF RuleSet
  <2> QED
    BY <1>3, <2>1, <2>2
<1>6. RobotsTypeOK'
  <2>1. file' \in Seq(Lines)
    BY <1>1
  <2>2. ruleSets' \in [Kinds -> RuleSet]
    BY <1>1, <1>5 DEF UserAgent
  <2> QED
    BY <1>3, <2>1, <2>2 DEF RobotsTypeOK, RuleSet
<1>7. ASSUME NEW k \in Kinds PROVE KindInv(k)'
  <2>1. KindInv(k)
    BY DEF RobotsInv
  <2>2. ASSUME NEW d \in {"disallow", "allow", "crawl-delay"}
        PROVE  Taken(file', k, d) = Taken(file, k, d)
    <3>1. line.directive # d
      OBVIOUS
    <3> QED
      BY <1>1, <3>1, TakenAfter
  <2>3. IsOpen(file', k) <=> line.value = AgentOf(k)
    BY <1>1, IsOpenAfter
  <2>4. \A j \in Nat \ {0} : j <= Len(file) => file'[j] = file[j]
    BY <1>1
  <2>5. \A d : Taken(file, k, d) \subseteq 1..Len(file)
    BY DEF Taken
  <2>6. \A d : Values(file', Taken(file, k, d)) = Values(file, Taken(file, k, d))
    BY <1>1, <2>4, <2>5 DEF Values
  <2>7. Named(AgentOf(k))' <=> Named(AgentOf(k)) \/ line.value = AgentOf(k)
    BY <1>1, NamedAfter
  <2>8. DelayInv(k)'
    BY <1>1, <1>5, <2>1, <2>2, <2>4, <2>5 DEF DelayInv, KindInv
  <2> QED
    BY <1>4, <1>5, <2>1, <2>2, <2>3, <2>6, <2>7, <2>8 DEF KindInv
<1> QED
  BY <1>6, <1>7 DEF RobotsInv

\* A line that no group of kind k takes.
LEMMA Untouched ==
    ASSUME file \in Seq(Lines), NEW line \in Lines, file' = Append(file, line),
           NEW k \in Kinds, KindInv(k), ruleSets'[k] = ruleSets[k], line.directive # "user-agent",
           line.directive \in {"disallow", "allow", "crawl-delay"} => ~IsOpen(file, k),
           current' = k <=> IsOpen(file', k)
    PROVE  KindInv(k)'
<1>1. ASSUME NEW d \in {"disallow", "allow", "crawl-delay"}
      PROVE  Taken(file', k, d) = Taken(file, k, d)
  BY TakenAfter
<1>2. \A j \in 1..Len(file) : file'[j] = file[j]
  OBVIOUS
<1>3. \A d : Taken(file, k, d) \subseteq 1..Len(file)
  BY DEF Taken
<1>4. \A d : Values(file', Taken(file, k, d)) = Values(file, Taken(file, k, d))
  BY <1>2, <1>3 DEF Values
<1>5. Named(AgentOf(k))' <=> Named(AgentOf(k))
  BY NamedAfter
<1>6. DelayInv(k)'
  BY <1>1, <1>2, <1>3 DEF DelayInv, KindInv
<1> QED
  BY <1>1, <1>4, <1>5, <1>6 DEF KindInv

LEMMA TypesAfter ==
    ASSUME RobotsInv, NEW line \in Lines, file' = Append(file, line), current' \in Kinds \cup {"none"},
           ruleSets' \in [Kinds -> RuleSet]
    PROVE  RobotsTypeOK'
<1>1. file' \in Seq(Lines)
  BY DEF RobotsInv, RobotsTypeOK
<1> QED
  BY <1>1 DEF RobotsTypeOK, RuleSet

\* An empty line, and one that says nothing to the parser.
LEMMA OtherStep ==
    ASSUME RobotsInv, NEW line \in Lines, ParseLine(line), line.directive \in {"", "unknown"}
    PROVE  RobotsInv'
<1>1. /\ file \in Seq(Lines) /\ file' = Append(file, line) /\ ruleSets' = ruleSets
      /\ ruleSets \in [Kinds -> RuleSet] /\ current \in Kinds \cup {"none"}
      /\ current' = IF line.directive = "" THEN "none" ELSE current
  BY DEF ParseLine, EndOfGroup, RobotsInv, RobotsTypeOK, RuleSet
<1>2. RobotsTypeOK'
  BY <1>1, TypesAfter
<1>3. ASSUME NEW k \in Kinds PROVE KindInv(k)'
  <2>1. KindInv(k) /\ k # "none"
    BY DEF RobotsInv, Kinds
  <2>2. IsOpen(file', k) <=> line.directive = "unknown" /\ IsOpen(file, k)
    BY <1>1, IsOpenAfter
  <2>3. current' = k <=> IsOpen(file', k)
    BY <1>1, <2>1, <2>2 DEF KindInv
  <2> QED
    BY <1>1, <2>1, <2>3, Untouched
<1> QED
  BY <1>2, <1>3 DEF RobotsInv

\* A rule set with one field set anew.
LEMMA DisallowAfter ==
    ASSUME NEW rules \in RuleSet, NEW ours \in SUBSET (Lengths \cup {Elsewhere})
    PROVE  /\ [rules EXCEPT !.disallow = ours] \in RuleSet
           /\ [rules EXCEPT !.disallow = ours].disallow = ours
           /\ [rules EXCEPT !.disallow = ours].allow = rules.allow
           /\ [rules EXCEPT !.disallow = ours].crawlDelay = rules.crawlDelay
           /\ [rules EXCEPT !.disallow = ours].active = rules.active
  BY DEF RuleSet

LEMMA AllowAfter ==
    ASSUME NEW rules \in RuleSet, NEW ours \in SUBSET (Lengths \cup {Elsewhere})
    PROVE  /\ [rules EXCEPT !.allow = ours] \in RuleSet
           /\ [rules EXCEPT !.allow = ours].disallow = rules.disallow
           /\ [rules EXCEPT !.allow = ours].allow = ours
           /\ [rules EXCEPT !.allow = ours].crawlDelay = rules.crawlDelay
           /\ [rules EXCEPT !.allow = ours].active = rules.active
  BY DEF RuleSet

LEMMA DelayAfter ==
    ASSUME NEW rules \in RuleSet, NEW delay \in Delays \cup {0}
    PROVE  /\ [rules EXCEPT !.crawlDelay = delay] \in RuleSet
           /\ [rules EXCEPT !.crawlDelay = delay].disallow = rules.disallow
           /\ [rules EXCEPT !.crawlDelay = delay].allow = rules.allow
           /\ [rules EXCEPT !.crawlDelay = delay].crawlDelay = delay
           /\ [rules EXCEPT !.crawlDelay = delay].active = rules.active
  BY DEF RuleSet

\* A rule.
LEMMA RuleStep ==
    ASSUME RobotsInv, NEW line \in Lines, ParseLine(line),
           line.directive \in {"disallow", "allow", "crawl-delay"}
    PROVE  RobotsInv'
<1>1. /\ file \in Seq(Lines) /\ file' = Append(file, line) /\ Rule(line)
      /\ ruleSets \in [Kinds -> RuleSet] /\ current' = current /\ current \in Kinds \cup {"none"}
  BY DEF ParseLine, Rule, RobotsInv, RobotsTypeOK, RuleSet
<1>2. ASSUME NEW k \in Kinds
      PROVE  KindInv(k) /\ k # "none" /\ (IsOpen(file', k) <=> IsOpen(file, k)) /\ (current' = k <=> IsOpen(file', k))
  <2>1. KindInv(k) /\ k # "none"
    BY DEF RobotsInv, Kinds
  <2>2. IsOpen(file', k) <=> IsOpen(file, k)
    BY <1>1, IsOpenAfter
  <2> QED
    BY <1>1, <2>1, <2>2 DEF KindInv
<1>3. CASE current = "none"
  <2>1. ruleSets' = ruleSets
    BY <1>1, <1>3 DEF Rule
  <2>2. RobotsTypeOK'
    BY <1>1, <2>1, TypesAfter
  <2>3. ASSUME NEW k \in Kinds PROVE KindInv(k)'
    <3>1. ~IsOpen(file, k)
      BY <1>2, <1>3 DEF KindInv
    <3> QED
      BY <1>1, <1>2, <2>1, <3>1, Untouched
  <2> QED
    BY <2>2, <2>3 DEF RobotsInv
<1>4. CASE current \in Kinds
  <2>1. PICK c \in Kinds : c = current
    BY <1>4
  <2>2. ruleSets[c] \in RuleSet /\ KindInv(c) /\ IsOpen(file, c) /\ current' = c
    BY <1>1, <1>2, <2>1 DEF KindInv
  <2>3. /\ line.directive = "disallow" =>
               ruleSets' = [ruleSets EXCEPT ![c] = [ruleSets[c] EXCEPT !.disallow = ruleSets[c].disallow \cup {line.value}]]
        /\ line.directive = "allow" =>
               ruleSets' = [ruleSets EXCEPT ![c] = [ruleSets[c] EXCEPT !.allow = ruleSets[c].allow \cup {line.value}]]
        /\ line.directive = "crawl-delay" =>
               ruleSets' = [ruleSets EXCEPT ![c] = [ruleSets[c] EXCEPT !.crawlDelay = line.value]]
    BY <1>1, <1>2, <2>1 DEF Rule
  <2>4. /\ ruleSets'[c] \in RuleSet /\ ruleSets'[c].active = ruleSets[c].active
        /\ ruleSets'[c].disallow = IF line.directive = "disallow" THEN ruleSets[c].disallow \cup {line.value}
                                   ELSE ruleSets[c].disallow
        /\ ruleSets'[c].allow = IF line.directive = "allow" THEN ruleSets[c].allow \cup {line.value}
                                ELSE ruleSets[c].allow
        /\ ruleSets'[c].crawlDelay = IF line.directive = "crawl-delay" THEN line.value ELSE ruleSets[c].crawlDelay
    <3>1. CASE line.directive = "disallow"
      <4>1. line.value \in Lengths \cup {Elsewhere}
        BY <3>1, LineFields
      <4>2. ruleSets[c].disallow \cup {line.value} \in SUBSET (Lengths \cup {Elsewhere})
        BY <2>2, <4>1 DEF RuleSet
      <4>3. ruleSets'[c] = [ruleSets[c] EXCEPT !.disallow = ruleSets[c].disallow \cup {line.value}]
        BY <1>1, <2>3, <3>1
      <4> QED
        <5>1. PICK rules \in RuleSet, ours \in SUBSET (Lengths \cup {Elsewhere}) :
                  rules = ruleSets[c] /\ ours = ruleSets[c].disallow \cup {line.value}
          BY <2>2, <4>2
        <5>2. ruleSets'[c] = [rules EXCEPT !.disallow = ours]
          BY <4>3, <5>1
        <5> QED
          BY <3>1, <5>1, <5>2, DisallowAfter
    <3>2. CASE line.directive = "allow"
      <4>1. line.value \in Lengths \cup {Elsewhere}
        BY <3>2, LineFields
      <4>2. ruleSets[c].allow \cup {line.value} \in SUBSET (Lengths \cup {Elsewhere})
        BY <2>2, <4>1 DEF RuleSet
      <4>3. ruleSets'[c] = [ruleSets[c] EXCEPT !.allow = ruleSets[c].allow \cup {line.value}]
        BY <1>1, <2>3, <3>2
      <4> QED
        <5>1. PICK rules \in RuleSet, ours \in SUBSET (Lengths \cup {Elsewhere}) :
                  rules = ruleSets[c] /\ ours = ruleSets[c].allow \cup {line.value}
          BY <2>2, <4>2
        <5>2. ruleSets'[c] = [rules EXCEPT !.allow = ours]
          BY <4>3, <5>1
        <5> QED
          BY <3>2, <5>1, <5>2, AllowAfter
    <3>3. CASE line.directive = "crawl-delay"
      <4>1. line.value \in Delays \cup {0}
        BY <3>3, LineFields
      <4>2. ruleSets'[c] = [ruleSets[c] EXCEPT !.crawlDelay = line.value]
        BY <1>1, <2>3, <3>3
      <4> QED
        <5>1. PICK rules \in RuleSet : rules = ruleSets[c]
          BY <2>2
        <5>2. ruleSets'[c] = [rules EXCEPT !.crawlDelay = line.value]
          BY <4>2, <5>1
        <5> QED
          BY <3>3, <4>1, <5>1, <5>2, DelayAfter
    <3> QED
      BY <3>1, <3>2, <3>3
  <2>5. /\ ruleSets' \in [Kinds -> RuleSet]
        /\ \A k \in Kinds \ {c} : ruleSets'[k] = ruleSets[k]
    BY <1>1, <2>3, <2>4
  <2>6. RobotsTypeOK'
    BY <1>1, <2>5, TypesAfter
  <2>7. ASSUME NEW k \in Kinds, k # c PROVE KindInv(k)'
    <3>1. ~IsOpen(file, k)
      BY <1>2, <2>1, <2>7 DEF KindInv
    <3> QED
      BY <1>1, <1>2, <2>5, <2>7, <3>1, Untouched
  <2>8. KindInv(c)'
    <3>1. \A d \in {"disallow", "allow", "crawl-delay"} :
              Taken(file', c, d) = IF line.directive = d THEN Taken(file, c, d) \cup {Len(file) + 1} ELSE Taken(file, c, d)
      <4>1. SUFFICES ASSUME NEW d \in {"disallow", "allow", "crawl-delay"}
                     PROVE  Taken(file', c, d) = IF line.directive = d THEN Taken(file, c, d) \cup {Len(file) + 1}
                                                 ELSE Taken(file, c, d)
        OBVIOUS
      <4>2. CASE line.directive = d
        BY <1>1, <2>2, <4>2, TakenAfter
      <4>3. CASE line.directive # d
        BY <1>1, <2>2, <4>3, TakenAfter
      <4> QED
        BY <4>2, <4>3
    <3>2. /\ \A j \in 1..Len(file) : file'[j] = file[j]
          /\ file'[Len(file) + 1] = line /\ Len(file) \in Nat
      BY <1>1
    <3>3. \A d : Taken(file, c, d) \subseteq 1..Len(file)
      BY DEF Taken
    <3>4. /\ \A d : Values(file', Taken(file, c, d)) = Values(file, Taken(file, c, d))
          /\ \A d : Values(file', Taken(file, c, d) \cup {Len(file) + 1}) = Values(file, Taken(file, c, d)) \cup {line.value}
      BY <3>2, <3>3 DEF Values
    <3>5. ruleSets'[c].disallow = Values(file', Taken(file', c, "disallow"))
      BY <2>2, <2>4, <3>1, <3>4 DEF KindInv
    <3>6. ruleSets'[c].allow = Values(file', Taken(file', c, "allow"))
      BY <2>2, <2>4, <3>1, <3>4 DEF KindInv
    <3>7. Named(AgentOf(c))' <=> Named(AgentOf(c))
      BY <1>1, NamedAfter
    <3>8. DelayInv(c)'
      <4>1. CASE line.directive = "crawl-delay"
        <5>1. /\ Len(file) + 1 \in Taken(file', c, "crawl-delay") /\ ruleSets'[c].crawlDelay = file'[Len(file) + 1].value
              /\ \A i \in Taken(file', c, "crawl-delay") : i <= Len(file) + 1
          BY <2>4, <3>1, <3>2, <3>3, <4>1
        <5> QED
          BY <5>1 DEF DelayInv
      <4>2. CASE line.directive # "crawl-delay"
        <5>1. Taken(file', c, "crawl-delay") = Taken(file, c, "crawl-delay") /\ ruleSets'[c].crawlDelay = ruleSets[c].crawlDelay
          BY <2>4, <3>1, <4>2
        <5> QED
          BY <2>2, <3>2, <3>3, <5>1 DEF DelayInv, KindInv
      <4> QED
        BY <4>1, <4>2
    <3>9. HasLongest(ruleSets'[c].disallow) /\ HasLongest(ruleSets'[c].allow)
      <4>1. ruleSets[c].disallow \in SUBSET Int /\ ruleSets[c].allow \in SUBSET Int
        <5>1. Lengths \cup {Elsewhere} \subseteq Int
          BY RobotsAssumption DEF Elsewhere
        <5> QED
          BY <2>2, <5>1 DEF RuleSet
      <4>2. HasLongest(ruleSets[c].disallow) /\ HasLongest(ruleSets[c].allow)
        BY <2>2 DEF KindInv
      <4>3. line.directive \in {"disallow", "allow"} => line.value \in Int
        BY LineFields
      <4>4. HasLongest(ruleSets'[c].disallow)
        BY <2>4, <4>1, <4>2, <4>3, LongestAfter
      <4>5. HasLongest(ruleSets'[c].allow)
        BY <2>4, <4>1, <4>2, <4>3, LongestAfter
      <4> QED
        BY <4>4, <4>5
    <3>10. current' = c <=> IsOpen(file', c)
      BY <1>2
    <3>11. ruleSets'[c].active <=> Named(AgentOf(c))'
      BY <2>2, <2>4, <3>7 DEF KindInv
    <3> QED
      BY <3>5, <3>6, <3>8, <3>9, <3>10, <3>11 DEF KindInv
  <2> QED
    BY <2>6, <2>7, <2>8 DEF RobotsInv
<1> QED
  BY <1>1, <1>3, <1>4

LEMMA RobotsKept ==
    ASSUME RobotsInv, [RobotsNext]_robotsVars
    PROVE  RobotsInv'
<1>1. CASE UNCHANGED robotsVars
  BY <1>1 DEF robotsVars, RobotsInv, RobotsTypeOK, KindInv, DelayInv, Named, IsAgent
<1>2. CASE RobotsNext
  <2>1. PICK line \in Lines : ParseLine(line)
    BY <1>2 DEF RobotsNext
  <2>2. line.directive \in {"disallow", "allow", "crawl-delay", "", "unknown", "user-agent"}
    BY LineFields
  <2> QED
    BY <2>1, <2>2, UserAgentStep, OtherStep, RuleStep
<1> QED
  BY <1>1, <1>2
-----------------------------------------------------------------------------
\* What the parser takes and what the protocol gives.
Given(k, d) == {j \in GroupRules(AgentOf(k)) : file[j].directive = d}

LEMMA TakenIsGiven ==
    ASSUME file \in Seq(Lines), NEW k \in Kinds, NEW d \in {"disallow", "allow", "crawl-delay"}
    PROVE  Taken(file, k, d) \subseteq Given(k, d)
<1>1. SUFFICES ASSUME NEW j \in Taken(file, k, d) PROVE j \in Given(k, d)
  OBVIOUS
<1>2. DOMAIN file = 1..Len(file) /\ Len(file) \in Nat
  OBVIOUS
<1>3. j \in 1..Len(file) /\ file[j].directive = d
  BY <1>1 DEF Taken
<1>4. PICK a \in 1..(j - 1) : Opens(file, k, a, j)
  BY <1>1 DEF Taken
<1>5. a \in DOMAIN file /\ a < j /\ a \in a..(j - 1)
  BY <1>2, <1>3, <1>4
<1>6. IsAgent(a) /\ file[a].value = AgentOf(k) /\ \A l \in (a + 1)..j : ~IsAgent(l)
  BY <1>4 DEF Opens, IsAgent
<1>7. \A l \in a..a : ~IsRule(l)
  <2>1. a..a = {a}
    BY <1>4
  <2> QED
    BY <1>6, <2>1 DEF IsAgent, IsRule
<1>8. NamesAgentOf(a, j)
  BY <1>3, <1>5, <1>6, <1>7 DEF NamesAgentOf, IsAgent
<1> QED
  BY <1>2, <1>3, <1>5, <1>6, <1>8 DEF Given, GroupRules, IsRule

\* The parser takes what the protocol gives and is not cut off.
LEMMA UncutIsTaken ==
    ASSUME file \in Seq(Lines), NEW k \in Kinds, NEW d \in {"disallow", "allow", "crawl-delay"}, AgentOf(k) = Us
    PROVE  Uncut(d) = Taken(file, k, d)
<1>1. OurRules(d) = Given(k, d) /\ Given(k, d) \subseteq 1..Len(file)
  BY DEF OurRules, Given, GroupRules
<1>2. \A j \in 1..Len(file) : \A i \in 1..(j - 1) :
          Opens(file, k, i, j) <=> /\ IsAgent(i) /\ file[i].value = Us
                                   /\ \A l \in (i + 1)..j : ~IsAgent(l) /\ file[l].directive # ""
  BY DEF Opens, IsAgent
<1>3. ASSUME NEW j \in Uncut(d) PROVE j \in Taken(file, k, d)
  <2>1. j \in 1..Len(file) /\ file[j].directive = d
    BY <1>1 DEF Uncut, OurRules
  <2> QED
    BY <1>2, <2>1 DEF Uncut, Taken
<1>4. ASSUME NEW j \in Taken(file, k, d) PROVE j \in Uncut(d)
  <2>1. j \in OurRules(d) /\ j \in 1..Len(file)
    BY <1>1, TakenIsGiven
  <2> QED
    BY <1>2, <2>1 DEF Uncut, Taken
<1> QED
  BY <1>3, <1>4

\* The longest rule of a set that has one.
LEMMA LongestIs ==
    ASSUME NEW rules \in SUBSET Int, HasLongest(rules)
    PROVE  /\ Longest(rules) \in Counted(rules)
           /\ \A r \in Counted(rules) : r <= Longest(rules)
<1>1. Counted(rules) \subseteq Int
  <2>1. -1 \in Int
    OBVIOUS
  <2> QED
    BY <2>1 DEF Counted
<1>2. \E m \in Counted(rules) : \A r \in Counted(rules) : m >= r
  BY <1>1 DEF HasLongest
<1>3. Longest(rules) = CHOOSE m \in Counted(rules) : \A r \in Counted(rules) : m >= r
  BY DEF Longest, Counted, Max
<1> QED
  BY <1>1, <1>2, <1>3

\* The verdict by the longest rules is the verdict by all rules.
LEMMA VerdictByLongest ==
    ASSUME NEW ours \in SUBSET Int, NEW theirs \in SUBSET Int, HasLongest(ours), HasLongest(theirs)
    PROVE  (Longest(ours) < 0 \/ Longest(theirs) >= Longest(ours))
               <=> \A v \in ours : v > 0 => \E w \in theirs : w >= v
<1>1. PICK x \in Counted(ours) : x = Longest(ours) /\ \A r \in Counted(ours) : r <= x
  BY LongestIs
<1>2. PICK y \in Counted(theirs) : y = Longest(theirs) /\ \A r \in Counted(theirs) : r <= y
  BY LongestIs
<1>3. x \in Int /\ y \in Int
  BY DEF Counted
<1>4. ASSUME x < 0 \/ y >= x, NEW v \in ours, v > 0 PROVE \E w \in theirs : w >= v
  <2>1. v \in Counted(ours) /\ v \in Int
    BY <1>4 DEF Counted
  <2>2. v <= x /\ x <= y
    BY <1>1, <1>3, <1>4, <2>1
  <2>3. y > 0 /\ y >= v
    BY <1>3, <1>4, <2>1, <2>2
  <2>4. y \in theirs
    BY <1>2, <2>3 DEF Counted
  <2> QED
    BY <2>3, <2>4
<1>5. ASSUME \A v \in ours : v > 0 => \E w \in theirs : w >= v, ~(x < 0) PROVE y >= x
  <2>1. x \in ours /\ x > 0
    BY <1>1, <1>5 DEF Counted
  <2>2. PICK w \in theirs : w >= x
    BY <1>5, <2>1
  <2>3. w \in Int /\ w \in Counted(theirs)
    BY <1>3, <2>1, <2>2 DEF Counted
  <2> QED
    BY <1>2, <1>3, <2>2, <2>3
<1> QED
  BY <1>1, <1>2, <1>3, <1>4, <1>5

\* The delay of the last rule.
LEMMA DelayIsLast ==
    ASSUME NEW k \in Kinds, DelayInv(k), file \in Seq(Lines)
    PROVE  ruleSets[k].crawlDelay = LastDelay(Taken(file, k, "crawl-delay"))
<1> PICK taken : taken = Taken(file, k, "crawl-delay")
  OBVIOUS
<1>1. CASE taken = {} /\ ruleSets[k].crawlDelay = 0
  BY <1>1 DEF LastDelay
<1>2. CASE \E j \in taken : ruleSets[k].crawlDelay = file[j].value /\ \A i \in taken : i <= j
  <2>1. PICK j \in taken : ruleSets[k].crawlDelay = file[j].value /\ \A i \in taken : i <= j
    BY <1>2
  <2>2. taken \subseteq Int
    BY DEF Taken
  <2>3. Max(taken) = j
    BY <2>1, <2>2 DEF Max
  <2> QED
    BY <2>1, <2>3 DEF LastDelay
<1> QED
  BY <1>1, <1>2 DEF DelayInv

LEMMA RobotsInvSuffices ==
    ASSUME RobotsInv
    PROVE  ProtocolIsFollowed
<1>1. /\ file \in Seq(Lines) /\ ruleSets \in [Kinds -> RuleSet]
  BY DEF RobotsInv, RobotsTypeOK, RuleSet
<1>2. PICK k \in Kinds : k = IF ruleSets["specific"].active THEN "specific" ELSE "wildcard"
  BY DEF Kinds
<1>3. KindInv("specific") /\ KindInv(k)
  BY <1>2 DEF RobotsInv, Kinds
<1>4. ActiveRules = ruleSets[k]
  BY <1>2 DEF ActiveRules
<1>5. AgentOf(k) = Us
  BY <1>2, <1>3 DEF KindInv, AgentOf, Kinds, Us
<1>6. \A d \in {"disallow", "allow", "crawl-delay"} : Taken(file, k, d) = Uncut(d)
  BY <1>1, <1>5, UncutIsTaken
<1>7. ruleSets[k].disallow \in SUBSET Int /\ ruleSets[k].allow \in SUBSET Int
  <2>1. Lengths \cup {Elsewhere} \subseteq Int
    BY RobotsAssumption DEF Elsewhere
  <2> QED
    BY <1>1, <1>2, <2>1 DEF RuleSet
<1>8. /\ ruleSets[k].disallow = {file[j].value : j \in Uncut("disallow")}
      /\ ruleSets[k].allow = {file[j].value : j \in Uncut("allow")}
      /\ HasLongest(ruleSets[k].disallow) /\ HasLongest(ruleSets[k].allow)
  BY <1>3, <1>6 DEF KindInv, Values
<1>9. ruleSets[k].crawlDelay = LastDelay(Uncut("crawl-delay"))
  BY <1>1, <1>3, <1>6, DelayIsLast DEF KindInv
<1>10. ASSUME Plain
       PROVE  (PathAllowed <=> AllowedByProtocol) /\ ruleSets[k].crawlDelay = LastDelay(OurRules("crawl-delay"))
  <2>1. PathAllowed <=> \A v \in ruleSets[k].disallow : v > 0 => \E w \in ruleSets[k].allow : w >= v
    BY <1>4, <1>7, <1>8, VerdictByLongest DEF PathAllowed
  <2>2. /\ Uncut("disallow") = OurRules("disallow") /\ Uncut("allow") = OurRules("allow")
        /\ Uncut("crawl-delay") = OurRules("crawl-delay")
        /\ \A j \in OurRules("disallow") \cup OurRules("allow") : file[j].value = file[j].meaning
    BY <1>10 DEF Plain
  <2>3. PathAllowed <=> AllowedByProtocol
    BY <1>8, <2>1, <2>2 DEF AllowedByProtocol
  <2> QED
    BY <1>9, <2>2, <2>3
<1> QED
  BY <1>4, <1>8, <1>9, <1>10 DEF ProtocolIsFollowed

LEMMA RobotsInvariant == RobotsSpec => []RobotsInv
  BY RobotsInitially, RobotsKept, PTL DEF RobotsSpec

\* Every variable of the robots.txt parser has its type.
THEOREM RobotsTypes == RobotsSpec => []RobotsTypeOK
<1>1. RobotsInv => RobotsTypeOK
  BY DEF RobotsInv
<1> QED
  BY <1>1, RobotsInvariant, PTL

\* However long the robots.txt is, the parser applies the rules that the protocol
\* gives the crawler and that no empty line and no second agent cuts off, all of
\* them and no others; its verdict and delay are the protocol's where none is
\* cut off and none has a * or $.
THEOREM RobotsFollowProtocol == RobotsSpec => []ProtocolIsFollowed
<1>1. RobotsInv => ProtocolIsFollowed
  BY RobotsInvSuffices
<1> QED
  BY <1>1, RobotsInvariant, PTL
=============================================================================
