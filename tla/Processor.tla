----------------------------- MODULE Processor -----------------------------
(***************************************************************************)
(* The document processor: processes that read STREAM:crawl_complete as    *)
(* one consumer group, turn each crawled page into a document and publish  *)
(* it on STREAM:docs_ready.                                                *)
(*                                                                         *)
(* A consumer works through its batch one message at a time.  Each call to *)
(* Redis, MinIO or the thread pool is an await, so the steps of several    *)
(* consumers, their crashes and their stops interleave with it.  What the  *)
(* NLP stages compute is left out: a page yields a document or nothing.    *)
(***************************************************************************)
EXTENDS Streams

CONSTANTS
    Consumers,   \* processor processes
    BatchSize,   \* COUNT of the XREADGROUP
    CrawlMaxLen, \* MAXLEN of STREAM:crawl_complete ...
    DocsMaxLen,  \* ... and of STREAM:docs_ready
    MaxEvents,   \* bound: crawl events ever published
    MaxUpsets    \* bound: failing calls, crashes and stops together

ASSUME ProcessorAssumption ==
    /\ BatchSize \in Nat \ {0} /\ CrawlMaxLen \in Nat \ {0} /\ DocsMaxLen \in Nat \ {0}
    /\ MaxEvents \in Nat /\ MaxUpsets \in Nat

VARIABLES
    crawl,      \* STREAM:crawl_complete: a stream of Kinds
    docs,       \* STREAM:docs_ready: a stream of the events' positions in crawl
    consumer,   \* [Consumers -> ConsumerState]
    unreadable, \* history: events whose HTML MinIO did not give
    upsets

vars == <<crawl, docs, consumer, unreadable, upsets>>

-----------------------------------------------------------------------------
\* "other": a status other than success, or no key; "thin": a page the cleaner
\* makes nothing of.
Kinds == {"other", "thin", "page"}
Group == Entries(crawl)

\* A batch is a range of the stream, worked through in order; 1..0 is none.
State(pc, running, from, to) == [pc |-> pc, running |-> running, from |-> from, to |-> to]
Exited == State("exited", FALSE, 1, 0)
Polling(running) == State("poll", running, 1, 0)
At(c, pc) == consumer[c].pc = pc
Become(c, state) == consumer' = [consumer EXCEPT ![c] = state]
Go(c, pc) == Become(c, State(pc, consumer[c].running, consumer[c].from, consumer[c].to))
Message(c) == consumer[c].from
Published == {docs.log[k] : k \in Entries(docs)}

\* The consumer turns to the first message of what is left: an event that is
\* not a success is dismissed, for the others the HTML is fetched.  At the end
\* of the batch it is back at the poll.
Consuming(running, from, to) ==
    IF from > to
    THEN Polling(running)
    ELSE State(IF crawl.log[from] = "other" THEN "dismiss" ELSE "fetch", running, from, to)

\* Mutant of NextMessage: a return ends the batch, not the message.
NextMessageEndsBatch(c) == Become(c, Polling(consumer[c].running))

NextMessage(c) ==
    Become(c, Consuming(consumer[c].running, consumer[c].from + 1, consumer[c].to))

\* An exception outside the try block reaches _consume_loop: the rest of the
\* batch is forgotten.
AbandonBatch(c) == Become(c, Polling(consumer[c].running))

Upset == /\ upsets < MaxUpsets
         /\ upsets' = upsets + 1
\* A call fails: by itself, or because stop() closed the connections under it.
CallFails(c) == IF consumer[c].running THEN Upset ELSE UNCHANGED upsets
CallSucceeds == UNCHANGED upsets

\* Mutant of GiveUp: the message is tried again at once.
GiveUpRetries(c) == UNCHANGED consumer

\* The `except Exception` of _process_message: no acknowledgement, no retry.
GiveUp(c) == NextMessage(c)

\* XACK: what it leaves, when it is executed.
Acknowledged(c) == crawl' = XAck(crawl, Message(c))

-----------------------------------------------------------------------------
Init ==
    /\ crawl = EmptyStream
    /\ docs = EmptyStream
    /\ consumer = [c \in Consumers |-> Polling(TRUE)]
    /\ unreadable = {}
    /\ upsets = 0

\* A crawler's publishCrawlEvent.
Crawled(kind) ==
    /\ Len(crawl.log) < MaxEvents
    /\ crawl' \in XAdd(crawl, kind, CrawlMaxLen)
    /\ UNCHANGED <<docs, consumer, unreadable, upsets>>

\* Mutant of Poll: a plain XREAD, without the group.
PollWithoutGroup(c) ==
    /\ At(c, "poll") /\ consumer[c].running
    /\ NextBatch(crawl, BatchSize) # {}
    /\ Become(c, Consuming(TRUE, Unread(crawl), LastOfBatch(crawl, BatchSize)))
    /\ UNCHANGED <<crawl, docs, unreadable, upsets>>

\* XREADGROUP: the batch is pending from now on, even if the reply gets lost.
Poll(c) ==
    /\ At(c, "poll") /\ consumer[c].running
    /\ NextBatch(crawl, BatchSize) # {}
    /\ crawl' = XReadGroup(crawl, BatchSize)
    /\ \/ /\ CallSucceeds
          /\ Become(c, Consuming(TRUE, Unread(crawl), LastOfBatch(crawl, BatchSize)))
       \/ Upset /\ UNCHANGED consumer
    /\ UNCHANGED <<docs, unreadable>>

\* `while self._running` ends.
Exit(c) ==
    /\ At(c, "poll") /\ ~consumer[c].running
    /\ Become(c, Exited)
    /\ UNCHANGED <<crawl, docs, unreadable, upsets>>

\* _fetch_from_minio swallows every error: the HTML is just empty.
Fetch(c) ==
    /\ At(c, "fetch")
    /\ \/ CallSucceeds /\ Go(c, "pipeline") /\ UNCHANGED unreadable
       \/ Upset /\ Go(c, "dismiss") /\ unreadable' = unreadable \cup {Message(c)}
    /\ UNCHANGED <<crawl, docs>>

RunPipeline(c) ==
    /\ At(c, "pipeline")
    /\ \/ /\ CallSucceeds
          /\ Go(c, IF crawl.log[Message(c)] = "thin" THEN "dismiss" ELSE "publish")
       \/ Upset /\ GiveUp(c)
    /\ UNCHANGED <<crawl, docs, unreadable>>

\* Mutant of Publish: the document names the position after the batch's end.
PublishNext(c) ==
    /\ At(c, "publish")
    /\ docs' \in XAdd(docs, consumer[c].to + 1, DocsMaxLen)
    /\ Go(c, "ack")
    /\ UNCHANGED <<crawl, unreadable, upsets>>

\* Mutant of Publish: an XADD error is logged and the acknowledgement follows.
PublishGoesOn(c) ==
    /\ At(c, "publish")
    /\ \/ CallSucceeds /\ docs' \in XAdd(docs, Message(c), DocsMaxLen)
       \/ CallFails(c) /\ UNCHANGED docs
    /\ Go(c, "ack")
    /\ UNCHANGED <<crawl, unreadable>>

\* XADD to docs_ready; an XADD that raises may have been executed.
Publish(c) ==
    /\ At(c, "publish")
    /\ \/ /\ CallSucceeds
          /\ docs' \in XAdd(docs, Message(c), DocsMaxLen)
          /\ Go(c, "ack")
       \/ /\ CallFails(c)
          /\ docs' \in XAdd(docs, Message(c), DocsMaxLen) \cup {docs}
          /\ GiveUp(c)
    /\ UNCHANGED <<crawl, unreadable>>

\* The acknowledgements of the early returns: inside the try block.
Dismiss(c) ==
    /\ At(c, "dismiss")
    /\ \/ CallSucceeds /\ Acknowledged(c) /\ NextMessage(c)
       \/ CallFails(c) /\ (Acknowledged(c) \/ UNCHANGED crawl) /\ GiveUp(c)
    /\ UNCHANGED <<docs, unreadable>>

\* The last acknowledgement: outside of it.
Ack(c) ==
    /\ At(c, "ack")
    /\ \/ CallSucceeds /\ Acknowledged(c) /\ NextMessage(c)
       \/ CallFails(c) /\ (Acknowledged(c) \/ UNCHANGED crawl) /\ AbandonBatch(c)
    /\ UNCHANGED <<docs, unreadable>>

\* stop(): the flag is down, the batch in hand goes on.
Stop(c) ==
    /\ consumer[c].running /\ Upset
    /\ Become(c, State(consumer[c].pc, FALSE, consumer[c].from, consumer[c].to))
    /\ UNCHANGED <<crawl, docs, unreadable>>

\* Mutant of Restart: starting recreates the group at "0".
RestartRecreatesGroup(c) ==
    /\ IF At(c, "exited") THEN UNCHANGED upsets ELSE Upset
    /\ crawl' = [crawl EXCEPT !.cursor = 0, !.pending = {}]
    /\ Become(c, Polling(TRUE))
    /\ UNCHANGED <<docs, unreadable>>

\* The process dies, or has exited, and is started anew.
Restart(c) ==
    /\ IF At(c, "exited") THEN UNCHANGED upsets ELSE Upset
    /\ Become(c, Polling(TRUE))
    /\ UNCHANGED <<crawl, docs, unreadable>>

Work(c) == Poll(c) \/ Exit(c) \/ Fetch(c) \/ RunPipeline(c) \/ Publish(c)
              \/ Dismiss(c) \/ Ack(c)

Next ==
    \/ \E kind \in Kinds : Crawled(kind)
    \/ \E c \in Consumers : Work(c) \/ Stop(c) \/ Restart(c)

Spec == Init /\ [][Next]_vars

\* The event loop resumes a consumer when its call returns, and calls return.
FairSpec == Spec /\ \A c \in Consumers : WF_vars(Work(c))

-----------------------------------------------------------------------------
Pcs == {"poll", "fetch", "pipeline", "publish", "dismiss", "ack", "exited"}
Events == 1..MaxEvents
ConsumerState == [pc : Pcs, running : BOOLEAN, from : Nat \ {0}, to : 0..MaxEvents]

\* The values the state ranges over.
TypeOK ==
    /\ crawl \in StreamOf(Kinds) /\ Len(crawl.log) <= MaxEvents
    /\ docs \in StreamOf(Events)
    /\ consumer \in [Consumers -> ConsumerState]
    /\ unreadable \subseteq Events
    /\ upsets \in 0..MaxUpsets

Held(i) == {c \in Consumers : i \in consumer[c].from..consumer[c].to}

\* XREADGROUP gives a message to one replica, and whatever fails, the message
\* stays on the group's pending list for as long as that replica has it.
HeldByOneAndPending ==
    \A i \in Group : Held(i) # {} => i \in crawl.pending /\ \E c \in Consumers : Held(i) = {c}

\* "Multiple workers share the stream without duplicate processing": however
\* acknowledgements fail and processes die, a page yields at most one document.
PublishedOnce ==
    \A k, l \in Entries(docs) : docs.log[k] = docs.log[l] => k = l

\* A page leaves the pending list only after its document is on docs_ready, or
\* if MinIO did not give its HTML: a crash between the two calls loses no page
\* that looks processed.
AcknowledgedIsPublished ==
    \A i \in Group :
        (Phase(crawl, i) = "over" /\ crawl.log[i] = "page" /\ i >= crawl.first)
            => i \in Published \cup unreadable

\* The group's entries as an abstract stream reader sees them.
Readers == INSTANCE StreamGroup WITH
    Entry <- Events, phase <- [i \in Events |-> Phase(crawl, i)]

\* A message is delivered once, and acknowledged at most once after that: the
\* consumers implement StreamGroup.
RefinesStreamGroup == Readers!Spec

\* A crawled page becomes a document unless a call fails, a process stops, or
\* the stream was cut before it was read.
PageIsPublished ==
    \A i \in Events :
        (i \in Group /\ crawl.log[i] = "page")
            ~> (i \in Published \/ upsets > 0 \/ i < crawl.first)
=============================================================================
