--------------------------- MODULE SitemapWatcher ---------------------------
(***************************************************************************)
(* The sitemap watcher of the discovery service: a loop that polls every   *)
(* domain's sitemaps and hands over each page that is new or whose lastmod *)
(* changed.  What it has seen it keeps in Redis, with a time to live.      *)
(*                                                                         *)
(* The sitemaps of an index are read concurrently and every call is an     *)
(* await: a page's memory is read, written, and only then is the page      *)
(* handed over.  A document is an index of documents or a list of pages;   *)
(* fetching, decompressing and parsing it is one step.  A sitemap that is  *)
(* reached in two ways, from two indexes or also as a candidate, is two    *)
(* documents: each way reads it for itself.                                *)
(***************************************************************************)
EXTENDS Integers, Sequences

CONSTANTS
    Domains,
    Documents,   \* sitemap files
    Candidates,  \* [Domains -> Seq(Documents)]: where a sitemap is looked for
    Children,    \* [Documents -> SUBSET Documents]: {} for a list of pages
    Pages,
    Listing,     \* [Documents -> Seq(Pages)]: <<>> for a file that is no sitemap
    Undated,     \* pages listed without lastmod ...
    Hollow,      \* ... and pages whose lastmod element is empty
    MaxVersions, \* bound: lastmod values of a page
    MaxUpsets    \* bound: failing calls and crashes of all watchers together

SitemapAssumption ==
    /\ Candidates \in [Domains -> Seq(Documents)]
    /\ Children \in [Documents -> SUBSET Documents]
    /\ Listing \in [Documents -> Seq(Pages)]
    /\ \A d, e \in Documents : d # e => Children[d] \cap Children[e] = {}
    /\ \A m \in Domains, d \in Documents : \A i \in DOMAIN Candidates[m] : Candidates[m][i] \notin Children[d]
    /\ Undated \subseteq Pages /\ Hollow \subseteq Pages
    /\ MaxVersions \in Nat \ {0} /\ MaxUpsets \in Nat

VARIABLES
    poller,    \* the loop of start(): "off", "start", "raised", "poll", "sleep"
    client,    \* the HTTP client is open
    domain,    \* [Domains -> Int]: the candidate a domain is at, 0 when done
    reader,    \* [Documents -> Reader]: the task that reads a document
    lastmod,   \* [Pages -> Nat]: what the sites list now, NoDate without
    memory,    \* [Pages -> Int]: SITEMAP:lastmod:{hash(url)}
    handed,    \* history: versions on_url_found has accepted
    dropped,   \* history: versions remembered, but lost on the way to it
    upsets

sitemapVars == <<poller, client, domain, reader, lastmod, memory, handed, dropped, upsets>>

-----------------------------------------------------------------------------
Absent == -1  \* no key
NoDate == 0   \* no lastmod; in memory, "seen"
AtRobots == -1 \* a domain whose robots.txt is being fetched
Version(p) == <<p, lastmod[p]>>

ReaderAt(pc, items) == [pc |-> pc, items |-> items]
Idle == ReaderAt("idle", <<>>)
Step(d, pc) == reader' = [reader EXCEPT ![d] = ReaderAt(pc, reader[d].items)]
Finish(d) == reader' = [reader EXCEPT ![d] = ReaderAt("done", <<>>)]
Raise(d) == reader' = [reader EXCEPT ![d] = ReaderAt("failed", <<>>)]
Item(d) == Head(reader[d].items)
NextItem(d) == reader' = [reader EXCEPT ![d] = ReaderAt("check", Tail(reader[d].items))]
Ended == {"done", "failed"}
Candidate(m) == Candidates[m][domain[m]]

Upset == /\ upsets < MaxUpsets
         /\ upsets' = upsets + 1
CallSucceeds == UNCHANGED upsets
\* An HTTP request also fails once stop() has closed the client.
RequestFails == IF client THEN Upset ELSE UNCHANGED upsets

-----------------------------------------------------------------------------
InitSitemap ==
    /\ poller = "off" /\ client = FALSE
    /\ domain = [m \in Domains |-> 0]
    /\ reader = [d \in Documents |-> Idle]
    /\ lastmod = [p \in Pages |-> IF p \in Undated THEN NoDate ELSE 1]
    /\ memory = [p \in Pages |-> Absent]
    /\ handed = {} /\ dropped = {}
    /\ upsets = 0

\* A site changes a page.
Modify(p) ==
    /\ p \notin Undated /\ lastmod[p] < MaxVersions
    /\ lastmod' = [lastmod EXCEPT ![p] = @ + 1]
    /\ UNCHANGED <<poller, client, domain, reader, memory, handed, dropped, upsets>>

BeginSitemap ==
    /\ poller' = "start" /\ client' = TRUE
    /\ UNCHANGED <<domain, reader, lastmod, memory, handed, dropped>>

\* The task is cancelled because the process ends, or the process dies.  hash()
\* of a string differs from process to process, so no other one finds its keys.
CancelSitemap ==
    /\ poller' = "off" /\ client' = FALSE
    /\ domain' = [m \in Domains |-> 0]
    /\ reader' = [d \in Documents |-> Idle]
    /\ memory' = [p \in Pages |-> Absent]
    /\ UNCHANGED <<lastmod, handed, dropped>>

\* SitemapWatcher.stop: the loop is not told.
CloseClient == /\ client' = FALSE
               /\ UNCHANGED <<poller, domain, reader, lastmod, memory, handed, dropped>>

\* _load_domains, the only call of start() that nothing guards.
LoadDomains ==
    /\ poller = "start"
    /\ \/ CallSucceeds /\ poller' = "sleep"
       \/ Upset /\ poller' = "raised"
    /\ UNCHANGED <<client, domain, reader, lastmod, memory, handed, dropped>>

PollAllDomains ==
    /\ poller = "sleep"
    /\ poller' = "poll" /\ domain' = [m \in Domains |-> AtRobots]
    /\ UNCHANGED <<client, reader, lastmod, memory, handed, dropped, upsets>>

\* _get_sitemap_from_robots swallows every error: the candidate that robots.txt
\* names is left out, and the standard places remain.
AskRobots(m) ==
    /\ domain[m] = AtRobots
    /\ \/ client /\ CallSucceeds /\ domain' = [domain EXCEPT ![m] = 1]
       \/ RequestFails /\ domain' = [domain EXCEPT ![m] = 2]
    /\ UNCHANGED <<poller, client, reader, lastmod, memory, handed, dropped>>

CycleEnds ==
    /\ poller = "poll" /\ \A m \in Domains : domain[m] = 0
    /\ poller' = "sleep"
    /\ UNCHANGED <<client, domain, reader, lastmod, memory, handed, dropped, upsets>>

\* _poll_domain: the next candidate, as long as one is left.
TryCandidate(m) ==
    /\ domain[m] > 0
    /\ IF domain[m] > Len(Candidates[m])
       THEN domain' = [domain EXCEPT ![m] = 0] /\ UNCHANGED reader
       ELSE /\ reader[Candidate(m)] = Idle
            /\ reader' = [reader EXCEPT ![Candidate(m)] = ReaderAt("fetch", <<>>)]
            /\ UNCHANGED domain
    /\ UNCHANGED <<poller, client, lastmod, memory, handed, dropped, upsets>>

\* A candidate that was read ends the domain's turn, an exception leads on.
CandidateEnds(m) ==
    /\ domain[m] \in DOMAIN Candidates[m] /\ reader[Candidate(m)].pc \in Ended
    /\ domain' = [domain EXCEPT ![m] = IF reader[Candidate(m)].pc = "done" THEN 0 ELSE @ + 1]
    /\ reader' = [reader EXCEPT ![Candidate(m)] = Idle]
    /\ UNCHANGED <<poller, client, lastmod, memory, handed, dropped, upsets>>

\* _fetch_sitemap and _process_sitemap: what the document lists at this time.
\* One that does not parse, now or ever, counts as read.
Fetch(d) ==
    /\ reader[d].pc = "fetch"
    /\ \/ /\ client /\ CallSucceeds
          /\ IF Children[d] # {}
             THEN reader' = [e \in Documents |-> IF e = d THEN ReaderAt("children", <<>>)
                                                 ELSE IF e \in Children[d] THEN ReaderAt("fetch", <<>>)
                                                 ELSE reader[e]]
             ELSE reader' = [reader EXCEPT ![d] =
                                ReaderAt("check", [i \in DOMAIN Listing[d] |-> Version(Listing[d][i])])]
       \/ RequestFails /\ Raise(d)
       \/ client /\ Upset /\ Finish(d)
    /\ UNCHANGED <<poller, client, domain, lastmod, memory, handed, dropped>>

\* The gather over the children ends; their exceptions were caught one by one.
ChildrenEnd(d) ==
    /\ reader[d].pc = "children" /\ \A e \in Children[d] : reader[e].pc \in Ended
    /\ reader' = [e \in Documents |-> IF e = d THEN ReaderAt("done", <<>>)
                                      ELSE IF e \in Children[d] THEN Idle ELSE reader[e]]
    /\ UNCHANGED <<poller, client, domain, lastmod, memory, handed, dropped, upsets>>

\* _is_new_or_changed, first half: any memory will do for a page without
\* lastmod, otherwise it has to be the same one.
Known(item) == IF item[2] = NoDate THEN memory[item[1]] # Absent ELSE memory[item[1]] = item[2]

\* An empty lastmod element raises before that, whenever the document is read.
Check(d) ==
    /\ reader[d].pc = "check"
    /\ \/ reader[d].items = <<>> /\ CallSucceeds /\ Finish(d)
       \/ reader[d].items # <<>> /\ Item(d)[1] \in Hollow /\ CallSucceeds /\ Raise(d)
       \/ /\ reader[d].items # <<>> /\ Item(d)[1] \notin Hollow
          /\ \/ CallSucceeds /\ IF Known(Item(d)) THEN NextItem(d) ELSE Step(d, "remember")
             \/ Upset /\ Raise(d)
    /\ UNCHANGED <<poller, client, domain, lastmod, memory, handed, dropped>>

\* Mutant of Remember: the lastmod is looked up once more.
RememberNewest(d) ==
    /\ reader[d].pc = "remember" /\ CallSucceeds
    /\ memory' = [memory EXCEPT ![Item(d)[1]] = lastmod[Item(d)[1]]]
    /\ Step(d, "report")
    /\ UNCHANGED <<poller, client, domain, lastmod, handed, dropped>>

\* Second half, SETEX: it may be executed and its answer lost.
Remember(d) ==
    LET remembered == [memory EXCEPT ![Item(d)[1]] = Item(d)[2]] IN
    /\ reader[d].pc = "remember"
    /\ \/ CallSucceeds /\ memory' = remembered /\ Step(d, "report") /\ UNCHANGED dropped
       \/ Upset /\ memory' = remembered /\ Raise(d) /\ dropped' = dropped \cup {Item(d)}
       \/ Upset /\ Raise(d) /\ UNCHANGED <<memory, dropped>>
    /\ UNCHANGED <<poller, client, domain, lastmod, handed>>

\* on_url_found; an exception ends the reading of this document.
Report(d) ==
    /\ reader[d].pc = "report"
    /\ \/ CallSucceeds /\ handed' = handed \cup {Item(d)} /\ NextItem(d) /\ UNCHANGED dropped
       \/ Upset /\ dropped' = dropped \cup {Item(d)} /\ Raise(d) /\ UNCHANGED handed
    /\ UNCHANGED <<poller, client, domain, lastmod, memory>>

\* Mutant of Expire: the keys are stored without a time to live.
ExpireNever(p) == memory[p] # Absent /\ UNCHANGED sitemapVars

\* A key's time is up (7 days, or two poll intervals without lastmod), or Redis
\* evicts it.
Expire(p) ==
    /\ memory[p] # Absent
    /\ memory' = [memory EXCEPT ![p] = Absent]
    /\ UNCHANGED <<poller, client, domain, reader, lastmod, handed, dropped, upsets>>

\* The code's own steps, and those of sites and Redis.
SitemapSteps ==
    \/ LoadDomains \/ PollAllDomains \/ CycleEnds
    \/ \E m \in Domains : AskRobots(m) \/ TryCandidate(m) \/ CandidateEnds(m)
    \/ \E d \in Documents : Fetch(d) \/ ChildrenEnd(d) \/ Check(d) \/ Remember(d) \/ Report(d)
SitemapWorld == \E p \in Pages : Modify(p) \/ Expire(p)
SitemapNext == SitemapSteps \/ SitemapWorld


-----------------------------------------------------------------------------
Items == Pages \X (0..MaxVersions)
ReaderStates == {"idle", "fetch", "children", "check", "remember", "report", "done", "failed"}

\* Every variable has its type; the steps of a document follow its items.
SitemapTypeOK ==
    /\ poller \in {"off", "start", "raised", "poll", "sleep"} /\ client \in BOOLEAN
    /\ domain \in [Domains -> {AtRobots} \cup Nat]
    /\ reader \in [Documents -> [pc : ReaderStates, items : Seq(Items)]]
    /\ lastmod \in [Pages -> 0..MaxVersions]
    /\ memory \in [Pages -> {Absent} \cup (0..MaxVersions)]
    /\ handed \subseteq Items /\ dropped \subseteq Items
    /\ upsets \in 0..MaxUpsets

\* What the watcher gets to see of sites that answer: the candidates up to the
\* first that does not raise, what they lead to, and of each list the pages in
\* front of the first empty lastmod.  Later candidates, and what comes after such
\* a page, are never read.
Raises(d) == Children[d] = {} /\ \E i \in DOMAIN Listing[d] : Listing[d][i] \in Hollow
Tried(m) == {Candidates[m][i] : i \in {j \in DOMAIN Candidates[m] : \A k \in 1..(j - 1) : Raises(Candidates[m][k])}}
IsRead(d) ==
    \A S \in SUBSET Documents :
        (\A m \in Domains : Tried(m) \subseteq S) /\ (\A e \in S : Children[e] \subseteq S) => d \in S
IsSeen(p) ==
    \E d \in Documents : /\ IsRead(d)
                         /\ \E i \in DOMAIN Listing[d] : /\ Listing[d][i] = p
                                                       /\ \A k \in 1..i : Listing[d][k] \notin Hollow

\* Versions whose memory is written and that are not yet handed over.
InHand == {Item(d) : d \in {e \in Documents : reader[e].pc = "report"}}

\* A version the watcher remembers, and will therefore pass over, was handed
\* over, is about to be, or was lost in a failure (sitemap.py:253, 302: memory
\* is written before on_url_found, by several documents at a time).
RememberedIsAccounted ==
    \A p \in Pages : memory[p] # Absent => <<p, memory[p]>> \in handed \cup dropped \cup InHand
=============================================================================
