--------------------------- MODULE LinkExtractor ---------------------------
(***************************************************************************)
(* The link extractor of the discovery service reads STREAM:crawl_complete *)
(* as a consumer group of its own, with one consumer, and hands over the   *)
(* links of each page, one call after the other.                           *)
(*                                                                         *)
(* An event is about a page: whether it is HTML, its depth, its links.  It *)
(* comes in one of two forms.  "fields" is what _process_event documents   *)
(* and reads: url, html, depth and domain as fields of the entry.  "data"  *)
(* is what publishCrawlEvent writes: one field, data, with JSON that holds *)
(* no HTML.  Nothing in the repository writes the form "fields".           *)
(***************************************************************************)
EXTENDS Streams, Selection

CONSTANTS
    Links,          \* what a page may link to ...
    Crawlable,      \* ... and what of that _should_crawl accepts
    Events,         \* set of [form, html, depth, links]: crawl events
    MaxDepth,       \* MAX_DEPTH
    MaxLinks,       \* MAX_LINKS_PER_PAGE
    CrawlMaxLen,    \* MAXLEN of the stream
    LinkBatch,      \* COUNT of the XREADGROUP
    MaxCrawled,     \* bound: events
    MaxUpsets       \* bound: failing calls and crashes of all watchers together

LinkAssumption ==
    /\ Crawlable \subseteq Links
    /\ Events \subseteq [form : {"data", "fields"}, html : BOOLEAN, depth : Nat, links : Seq(Links)]
    /\ MaxDepth \in Nat /\ MaxLinks \in Nat
    /\ CrawlMaxLen \in Nat \ {0} /\ LinkBatch \in Nat \ {0}
    /\ MaxCrawled \in Nat /\ MaxUpsets \in Nat

VARIABLES
    crawled,    \* STREAM:crawl_complete, with the group "link_extractor"
    extractor,  \* the loop: [pc, from, to, left]
    linked,     \* history: links handed over, as <<link, depth>>
    acked,      \* history: events that were acknowledged
    upsets

linkVars == <<crawled, extractor, linked, acked, upsets>>

-----------------------------------------------------------------------------
Extractor(pc, from, to, left) == [pc |-> pc, from |-> from, to |-> to, left |-> left]
Resting(pc) == Extractor(pc, 1, 0, <<>>)
Become(state) == extractor' = state
At(pc) == extractor.pc = pc

Upset == /\ upsets < MaxUpsets
         /\ upsets' = upsets + 1
CallSucceeds == UNCHANGED upsets

\* _extract_links and _filter_links: each link once, in order, without those
\* that _should_crawl turns down (blocked hosts, file types, length).
Firsts(links) == {i \in DOMAIN links : links[i] \in Crawlable /\ \A j \in 1..(i - 1) : links[j] # links[i]}
Kept(links) == Picked(links, Firsts(links))

\* _process_event: the links it will hand over.  A field that the entry does not
\* have is read as empty, and without HTML there are no links.
LinksOf(event) ==
    LET kept == Kept(event.links)
    IN  IF event.form # "fields" \/ event.depth >= MaxDepth \/ ~event.html THEN <<>>
        ELSE SubSeq(kept, 1, IF Len(kept) < MaxLinks THEN Len(kept) ELSE MaxLinks)

-----------------------------------------------------------------------------
InitLinks ==
    /\ crawled = EmptyStream
    /\ extractor = Resting("off")
    /\ linked = {} /\ acked = {}
    /\ upsets = 0

Publish(event) ==
    /\ Len(crawled.log) < MaxCrawled
    /\ crawled' \in XAdd(crawled, event, CrawlMaxLen)
    /\ UNCHANGED <<extractor, linked, acked, upsets>>

\* A crawler's publishCrawlEvent.
Crawled(event) == event.form = "data" /\ Publish(event)

\* Whoever keeps to the form that _process_event documents.
Described(event) == event.form = "fields" /\ Publish(event)

BeginLinks == Become(Resting("start")) /\ UNCHANGED <<crawled, linked, acked>>

\* The task is cancelled because the process ends, or the process dies.
CancelLinks == Become(Resting("off")) /\ UNCHANGED <<crawled, linked, acked>>

\* _ensure_consumer_group: an existing group is fine, another error is not.
EnsureConsumerGroup ==
    /\ At("start")
    /\ \/ CallSucceeds /\ Become(Resting("poll"))
       \/ Upset /\ Become(Resting("raised"))
    /\ UNCHANGED <<crawled, linked, acked>>

\* XREADGROUP: the batch is pending from now on, even if the reply gets lost.
ReadBatch ==
    /\ At("poll")
    /\ NextBatch(crawled, LinkBatch) # {}
    /\ crawled' = XReadGroup(crawled, LinkBatch)
    /\ \/ CallSucceeds /\ Become(Extractor("links", Unread(crawled), LastOfBatch(crawled, LinkBatch),
                                           LinksOf(crawled.log[Unread(crawled)])))
       \/ Upset /\ Become(Resting("poll"))
    /\ UNCHANGED <<linked, acked>>

\* Mutant of HandOver: the exception of one link is caught, and the next taken.
HandOverGoesOn ==
    /\ At("links") /\ extractor.left # <<>>
    /\ \/ /\ CallSucceeds
          /\ linked' = linked \cup {<<Head(extractor.left), crawled.log[extractor.from].depth + 1>>}
       \/ Upset /\ UNCHANGED linked
    /\ Become(Extractor("links", extractor.from, extractor.to, Tail(extractor.left)))
    /\ UNCHANGED <<crawled, acked>>

\* The next link of the event; an exception leaves the whole batch behind.
HandOver ==
    /\ At("links") /\ extractor.left # <<>>
    /\ \/ /\ CallSucceeds
          /\ linked' = linked \cup {<<Head(extractor.left), crawled.log[extractor.from].depth + 1>>}
          /\ Become(Extractor("links", extractor.from, extractor.to, Tail(extractor.left)))
       \/ Upset /\ Become(Resting("poll")) /\ UNCHANGED linked
    /\ UNCHANGED <<crawled, acked>>

\* XACK: what it does, and on to the next event of the batch.
AcknowledgeEvent(i) == crawled' = XAck(crawled, i) /\ acked' = acked \cup {i}

Acknowledge ==
    LET i == extractor.from IN
    /\ At("links") /\ extractor.left = <<>>
    /\ \/ /\ CallSucceeds /\ AcknowledgeEvent(i)
          /\ Become(IF i = extractor.to THEN Resting("poll")
                    ELSE Extractor("links", i + 1, extractor.to, LinksOf(crawled.log[i + 1])))
       \/ Upset /\ AcknowledgeEvent(i) /\ Become(Resting("poll"))
       \/ Upset /\ UNCHANGED <<crawled, acked>> /\ Become(Resting("poll"))
    /\ UNCHANGED linked

LinkSteps == EnsureConsumerGroup \/ ReadBatch \/ HandOver \/ Acknowledge
LinkWorld == \E event \in Events : Crawled(event) \/ Described(event)
LinkNext == LinkSteps \/ LinkWorld


-----------------------------------------------------------------------------
\* Every variable has its type, and the extractor is at an event it was given.
LinkTypeOK ==
    /\ crawled \in StreamOf(Events)
    /\ extractor \in [pc : {"off", "start", "raised", "poll", "links"}, from : Nat, to : Nat, left : Seq(Links)]
    /\ At("links") => extractor.from \in 1..extractor.to /\ extractor.to <= Len(crawled.log)
    /\ linked \subseteq Links \X Nat /\ acked \subseteq Nat
    /\ upsets \in 0..MaxUpsets

HandedOver(event) == \A k \in DOMAIN LinksOf(event) : <<LinksOf(event)[k], event.depth + 1>> \in linked

\* Of an event in the documented form, the acknowledgement comes only when all
\* its links were handed over, so a link that is lost belongs to an event that
\* stays pending (link_extractor.py:167: a failing on_url_found must not reach
\* the acknowledgement).  The crawler's own events have no links to lose.
AcknowledgedIsExtracted == \A i \in acked : HandedOver(crawled.log[i])

\* "For each completed page, it parses all <a href> links.  Links pointing to
\* unseen URLs are enqueued" (link_extractor.py:11-12): once the extractor is done
\* with a page that the crawler reported, its links were handed over.
CompletedPagesAreFollowed ==
    \A i \in acked : crawled.log[i].form = "data" => HandedOver([crawled.log[i] EXCEPT !.form = "fields"])
=============================================================================
