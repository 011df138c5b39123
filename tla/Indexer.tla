------------------------------ MODULE Indexer ------------------------------
(***************************************************************************)
(* The indexer: processes that read STREAM:docs_ready as one consumer      *)
(* group and write each document to Meilisearch, Qdrant, PostgreSQL and    *)
(* the Redis signals.                                                      *)
(*                                                                         *)
(* All messages of a batch are handled concurrently (asyncio.gather), and  *)
(* so are the four writes of a message; the message is acknowledged when   *)
(* the four have come to an end, well or badly.  What the indexes hold is  *)
(* reduced to the outcome of each write and to the rows of PostgreSQL.     *)
(***************************************************************************)
EXTENDS Streams, FiniteSets

CONSTANTS
    Consumers,     \* indexer processes
    Urls,
    DomainOf,      \* [Urls -> Domains]
    Domains,
    SeededDomains, \* the rows infra/postgres/init.sql puts in the domains table
    Forms,         \* subset of {"good", "bare", "garbled", "foreign"}
    BatchSize,
    DocsMaxLen,
    MaxRetries,    \* MAX_RETRIES
    MaxDocs,       \* bound: documents ever published
    MaxUpsets      \* bound: failing calls, crashes, stops and lost replies together

ASSUME IndexerAssumption ==
    /\ DomainOf \in [Urls -> Domains] /\ SeededDomains \subseteq Domains
    /\ Forms \subseteq {"good", "bare", "garbled", "foreign"}
    /\ BatchSize \in Nat \ {0} /\ DocsMaxLen \in Nat \ {0} /\ MaxRetries \in Nat \ {0}
    /\ MaxDocs \in Nat /\ MaxUpsets \in Nat

VARIABLES
    docs,      \* STREAM:docs_ready
    consumer,  \* [Consumers -> ConsumerState]
    row,       \* [Urls -> 0..MaxDocs]: the document the pages row shows, 0 without row
    domains,   \* rows of the domains table
    crawlLog,  \* rows of the crawl_log table: positions in docs, in order
    commits,   \* documents announced on CHANNEL:index_commits
    dlq,       \* STREAM:dlq
    outcome,   \* history: [Docs -> [Backends -> {"none", "ok", "bad"}]]
    failures,  \* failing calls so far
    upsets     \* crashes, stops and lost replies so far

vars == <<docs, consumer, row, domains, crawlLog, commits, dlq, outcome, failures, upsets>>
stores == <<row, domains, crawlLog, commits, outcome>>

-----------------------------------------------------------------------------
Backends == {"meili", "qdrant", "postgres", "signals"}
Docs == 1..MaxDocs

\* "bare": a document without an embedding; "garbled": not JSON; "foreign":
\* JSON that is not an IndexedDocument (other fields than this version's).
Payload == [url : Urls, form : Forms]
Url(i) == docs.log[i].url
Form(i) == docs.log[i].form
Good(i) == Form(i) \in {"good", "bare"}

\* Mutant of Writing: the acknowledgement follows the Meilisearch write.
WritingMeili(left) == [pc |-> IF "meili" \notin left THEN "ack" ELSE "write", left |-> left]

\* Per message: the writes under way, or what is left to do after them.  The
\* signals writer's HSET is followed by its PUBLISH, "commit".
Writing(left) == [pc |-> IF left = {} THEN "ack" ELSE "write", left |-> left]
Doing(pc) == [pc |-> pc, left |-> {}]
Begin(i) == CASE Form(i) = "garbled" -> Doing("ack")
              [] Form(i) = "foreign" -> Doing("fail")
              [] OTHER -> Writing(Backends)

NoRetries == [i \in Docs |-> 0]
Polling(running, retries) == [running |-> running, batch |-> {}, exited |-> FALSE,
                              msg |-> [i \in Docs |-> Doing("none")], retries |-> retries]
AtPoll(c) == consumer[c].batch = {} /\ ~consumer[c].exited
At(c, i, pc) == i \in consumer[c].batch /\ consumer[c].msg[i].pc = pc
Go(c, i, state) == consumer' = [consumer EXCEPT ![c].msg[i] = state]

\* The coroutine of a message returns; gather returns with the last one.
Without(s, i) == [s EXCEPT !.msg[i] = Doing("none"), !.batch = @ \ {i}]
Return(c, i) == consumer' = [consumer EXCEPT ![c] = Without(@, i)]

Upset == /\ failures + upsets < MaxUpsets
         /\ upsets' = upsets + 1
         /\ UNCHANGED failures
CallSucceeds == UNCHANGED <<failures, upsets>>
Failure == /\ failures + upsets < MaxUpsets
           /\ failures' = failures + 1
           /\ UNCHANGED upsets
\* stop() closes the PostgreSQL pool and the Redis connections under the writes.
ClosableCallFails(c) == IF consumer[c].running THEN Failure ELSE CallSucceeds

-----------------------------------------------------------------------------
Init ==
    /\ docs = EmptyStream
    /\ consumer = [c \in Consumers |-> Polling(TRUE, NoRetries)]
    /\ row = [u \in Urls |-> 0]
    /\ domains = SeededDomains
    /\ crawlLog = <<>> /\ commits = {} /\ dlq = {}
    /\ outcome = [i \in Docs |-> [b \in Backends |-> "none"]]
    /\ failures = 0 /\ upsets = 0

\* A processor's _publish_document.
Published(doc) ==
    /\ Len(docs.log) < MaxDocs
    /\ docs' \in XAdd(docs, doc, DocsMaxLen)
    /\ UNCHANGED <<consumer, stores, dlq, failures, upsets>>

Poll(c) ==
    LET batch == NextBatch(docs, BatchSize) IN
    /\ AtPoll(c) /\ consumer[c].running
    /\ batch # {}
    /\ docs' = XReadGroup(docs, BatchSize)
    /\ \/ /\ CallSucceeds
          /\ consumer' = [consumer EXCEPT ![c] = [@ EXCEPT !.batch = batch,
                               !.msg = [i \in Docs |-> IF i \in batch THEN Begin(i) ELSE Doing("none")]]]
       \/ Upset /\ UNCHANGED consumer
    /\ UNCHANGED <<stores, dlq>>

Exit(c) ==
    /\ AtPoll(c) /\ ~consumer[c].running
    /\ consumer' = [consumer EXCEPT ![c].exited = TRUE]
    /\ UNCHANGED <<docs, stores, dlq, failures, upsets>>

Outcome(i, b, result) == outcome' = [outcome EXCEPT ![i][b] = result]

\* One of the concurrent writes comes to an end; whatever it answers, the
\* other writes go on.
Ends(c, i, b, result) ==
    /\ Go(c, i, Writing(consumer[c].msg[i].left \ {b}))
    /\ Outcome(i, b, result)
Pending(c, i, b) == At(c, i, "write") /\ b \in consumer[c].msg[i].left

\* Mutant of WriteMeili: without return_exceptions an error ends the message.
WriteMeiliRaises(c, i) ==
    /\ Pending(c, i, "meili")
    /\ \/ CallSucceeds /\ Ends(c, i, "meili", "ok")
       \/ Failure /\ Return(c, i) /\ Outcome(i, "meili", "bad")
    /\ UNCHANGED <<docs, row, domains, crawlLog, commits, dlq>>

WriteMeili(c, i) ==
    /\ Pending(c, i, "meili")
    /\ \/ CallSucceeds /\ Ends(c, i, "meili", "ok")
       \/ Failure /\ Ends(c, i, "meili", "bad")
    /\ UNCHANGED <<docs, row, domains, crawlLog, commits, dlq>>

\* Without an embedding nothing is called, and that is a success.
WriteQdrant(c, i) ==
    /\ Pending(c, i, "qdrant")
    /\ \/ CallSucceeds /\ Ends(c, i, "qdrant", "ok")
       \/ Form(i) = "good" /\ Failure /\ Ends(c, i, "qdrant", "bad")
    /\ UNCHANGED <<docs, row, domains, crawlLog, commits, dlq>>

\* One transaction: the page, its domain, the log row.  The page row refers to
\* a domain that must be there when the page is inserted.  A COMMIT whose reply
\* gets lost has taken place.
Transaction(i) ==
    /\ row' = [row EXCEPT ![Url(i)] = i]
    /\ domains' = domains \cup {DomainOf[Url(i)]}
    /\ crawlLog' = Append(crawlLog, i)
RolledBack == UNCHANGED <<row, domains, crawlLog>>

\* Mutant of WritePostgres: a transaction that raises is run once more.
WritePostgresRetries(c, i) ==
    /\ Pending(c, i, "postgres")
    /\ \/ CallSucceeds /\ Transaction(i) /\ Ends(c, i, "postgres", "ok")
       \/ ClosableCallFails(c) /\ (Transaction(i) \/ RolledBack) /\ UNCHANGED <<consumer, outcome>>
    /\ UNCHANGED <<docs, commits, dlq>>

WritePostgres(c, i) ==
    /\ Pending(c, i, "postgres")
    /\ \/ /\ CallSucceeds
          /\ IF DomainOf[Url(i)] \in domains
             THEN Transaction(i) /\ Ends(c, i, "postgres", "ok")
             ELSE RolledBack /\ Ends(c, i, "postgres", "bad")
       \/ /\ ClosableCallFails(c)
          /\ (DomainOf[Url(i)] \in domains /\ Transaction(i)) \/ RolledBack
          /\ Ends(c, i, "postgres", "bad")
    /\ UNCHANGED <<docs, commits, dlq>>

\* HSET and EXPIRE, and then the PUBLISH that invalidates cached results.
WriteSignals(c, i) ==
    /\ Pending(c, i, "signals")
    /\ \/ /\ CallSucceeds
          /\ Go(c, i, Writing((consumer[c].msg[i].left \ {"signals"}) \cup {"commit"}))
          /\ UNCHANGED outcome
       \/ ClosableCallFails(c) /\ Ends(c, i, "signals", "bad")
    /\ UNCHANGED <<docs, row, domains, crawlLog, commits, dlq>>

Commit(c, i) ==
    /\ Pending(c, i, "commit")
    /\ Go(c, i, Writing(consumer[c].msg[i].left \ {"commit"}))
    /\ \/ /\ CallSucceeds
          /\ commits' = commits \cup {i}
          /\ Outcome(i, "signals", "ok")
       \/ /\ ClosableCallFails(c)
          /\ commits' \in {commits, commits \cup {i}}
          /\ Outcome(i, "signals", "bad")
    /\ UNCHANGED <<docs, row, domains, crawlLog, dlq>>

\* _ack swallows its errors; the retry count is dropped whatever happens.
Ack(c, i) ==
    /\ At(c, i, "ack")
    /\ \/ CallSucceeds /\ docs' = XAck(docs, i)
       \/ ClosableCallFails(c) /\ docs' \in {docs, XAck(docs, i)}
    /\ consumer' = [consumer EXCEPT ![c] = [Without(@, i) EXCEPT !.retries[i] = 0]]
    /\ UNCHANGED <<stores, dlq>>

\* _handle_failure: a retry is counted and slept on, the MaxRetries-th failure
\* goes to the dead-letter stream.
HandleFailure(c, i) ==
    LET retries == consumer[c].retries[i] + 1 IN
    /\ At(c, i, "fail")
    /\ \/ /\ retries >= MaxRetries /\ CallSucceeds
          /\ dlq' = dlq \cup {i} /\ Go(c, i, Doing("ack"))
       \/ /\ retries >= MaxRetries /\ ClosableCallFails(c)
          /\ dlq' \in {dlq, dlq \cup {i}} /\ Return(c, i)
       \/ /\ retries < MaxRetries /\ CallSucceeds
          /\ consumer' = [consumer EXCEPT ![c] = [@ EXCEPT !.retries[i] = retries,
                                                          !.msg[i] = Doing("backoff")]]
          /\ UNCHANGED dlq
    /\ UNCHANGED <<docs, stores>>

Wake(c, i) ==
    /\ At(c, i, "backoff")
    /\ Return(c, i)
    /\ UNCHANGED <<docs, stores, dlq, failures, upsets>>

\* The signal handler runs stop() beside the batch, which goes on.
Stop(c) ==
    /\ consumer[c].running /\ Upset
    /\ consumer' = [consumer EXCEPT ![c].running = FALSE]
    /\ UNCHANGED <<docs, stores, dlq>>

\* Mutant of Restart: starting recreates the group at "0".
RestartRecreatesGroup(c) ==
    /\ IF consumer[c].exited THEN CallSucceeds ELSE Upset
    /\ docs' = [docs EXCEPT !.cursor = 0, !.pending = {}]
    /\ consumer' = [consumer EXCEPT ![c] = Polling(TRUE, NoRetries)]
    /\ UNCHANGED <<stores, dlq>>

Restart(c) ==
    /\ IF consumer[c].exited THEN CallSucceeds ELSE Upset
    /\ consumer' = [consumer EXCEPT ![c] = Polling(TRUE, NoRetries)]
    /\ UNCHANGED <<docs, stores, dlq>>

Handle(c, i) ==
    \/ WriteMeili(c, i) \/ WriteQdrant(c, i) \/ WritePostgres(c, i)
    \/ WriteSignals(c, i) \/ Commit(c, i)
    \/ Ack(c, i) \/ HandleFailure(c, i) \/ Wake(c, i)

Next ==
    \/ \E doc \in Payload : Published(doc)
    \/ \E c \in Consumers :
          \/ Poll(c) \/ Exit(c) \/ Stop(c) \/ Restart(c)
          \/ \E i \in Docs : Handle(c, i)

Spec == Init /\ [][Next]_vars

\* The event loop resumes every coroutine whose call has returned, and every
\* backend call returns or times out.
FairSpec ==
    /\ Spec
    /\ \A c \in Consumers : /\ WF_vars(Poll(c) \/ Exit(c))
                            /\ \A i \in Docs : WF_vars(Handle(c, i))

-----------------------------------------------------------------------------
MsgState == [pc : {"none", "write", "ack", "fail", "backoff"}, left : SUBSET (Backends \cup {"commit"})]

\* The values the state ranges over.
TypeOK ==
    /\ docs \in StreamOf(Payload) /\ Len(docs.log) <= MaxDocs
    /\ consumer \in [Consumers ->
          [running : BOOLEAN, exited : BOOLEAN, batch : SUBSET Docs,
           msg : [Docs -> MsgState], retries : [Docs -> Nat]]]
    /\ row \in [Urls -> 0..MaxDocs]
    /\ domains \subseteq Domains
    /\ crawlLog \in Seq(Docs) /\ commits \subseteq Docs /\ dlq \subseteq Docs
    /\ outcome \in [Docs -> [Backends -> {"none", "ok", "bad"}]]
    /\ failures \in 0..MaxUpsets /\ upsets \in 0..MaxUpsets

Over(i) == i \in Entries(docs) /\ i <= docs.cursor /\ i \notin docs.pending

\* "Messages are ACK'd only after all writes complete": a document that was
\* delivered and is no longer pending has an outcome in every backend, and no
\* write of it is still under way anywhere.
AckedAfterWrites ==
    \A i \in Docs :
        (Over(i) /\ Good(i) /\ i >= docs.first) =>
            /\ \A b \in Backends : outcome[i][b] # "none"
            /\ \A c \in Consumers : i \notin consumer[c].batch

\* "Multiple indexer replicas without duplicate writes": the append-only crawl
\* log, and with it crawl_count and total_pages_indexed, counts a document
\* once, whatever acknowledgements fail and whoever restarts.
LoggedOnce ==
    \A k, l \in DOMAIN crawlLog : crawlLog[k] = crawlLog[l] => k = l

\* The group's entries as an abstract stream reader sees them.
Readers == INSTANCE StreamGroup WITH
    Entry <- Docs, phase <- [i \in Docs |-> Phase(docs, i)]

\* A document is delivered once, and acknowledged at most once after that: the
\* indexers implement StreamGroup.
RefinesStreamGroup == Readers!Spec

\* "A Meilisearch failure doesn't prevent Qdrant from writing": every write of a
\* delivered document comes to an end, whichever others fail, unless a process
\* stops or the stream was cut before it was read.
EveryBackendSettles ==
    \A i \in Docs :
        (i \in Entries(docs) /\ Good(i))
            ~> ((\A b \in Backends : outcome[i][b] # "none") \/ upsets > 0 \/ i < docs.first)

\* postgres_writer.py, _upsert_domain: the first crawl from a new domain creates
\* its domain record, so a write fails only if a call does.
NewDomainsAreIndexed ==
    \A i \in Docs : outcome[i]["postgres"] = "bad" => failures + upsets > 0

\* postgres_writer.py: the page row always reflects the latest crawl.
RowIsLatestCrawl ==
    [][\A u \in Urls : row'[u] >= row[u]]_vars
=============================================================================
