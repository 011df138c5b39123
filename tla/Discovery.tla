----------------------------- MODULE Discovery -----------------------------
(***************************************************************************)
(* The discovery service: one process that runs the sitemap watcher, the   *)
(* certificate scanner, the link extractor, the WebSub start-up and the    *)
(* queue monitor as tasks.  The first task to raise ends all of them and   *)
(* the process; the container starts it again, unless it was stopped.      *)
(*                                                                         *)
(* Tasks interleave at their awaits and share nothing but the process and  *)
(* on_url_found, which module Frontier models.                             *)
(***************************************************************************)
EXTENDS Integers, Sequences

CONSTANTS
    Domains, Documents, Candidates, Children, Pages, Listing, Undated, Hollow, MaxVersions,
    Links, Crawlable, Events, MaxDepth, MaxLinks, CrawlMaxLen, LinkBatch, MaxCrawled,
    Hosts, Public, Certificates, MaxHosts, MaxWait, MaxRefusals, MaxMessages,
    Topics, MaxSecrets,
    Scenes,      \* bound: sets of watchers that get anything to do at a time
    MaxUpsets    \* bound: failing calls and crashes together

VARIABLES
    poller, client, domain, reader, lastmod, memory, handed, dropped,
    crawled, extractor, linked, acked,
    scanner, pending, refusals, certified, messages,
    renewal, session, caller, record, hub, requested, torn, heard, refused,
    monitor,   \* _monitor_queue_depth: "off", "look", "sleep", "ended"
    service,   \* the process: [pc, running]
    scene,     \* a member of Scenes: the others wait for their first answer
    upsets

Sitemap == INSTANCE SitemapWatcher
Link == INSTANCE LinkExtractor
Scan == INSTANCE CTLogScanner
Sub == INSTANCE WebSub

sitemapVars == <<poller, client, domain, reader, lastmod, memory, handed, dropped>>
linkVars == <<crawled, extractor, linked, acked>>
scanVars == <<scanner, pending, refusals, certified, messages>>
subVars == <<renewal, session, caller, record, hub, requested, torn, heard, refused>>
vars == <<sitemapVars, linkVars, scanVars, subVars, monitor, service, scene, upsets>>

Watchers == {"sitemap", "link_extractor", "ct_logs", "websub", "queue_monitor"}
ASSUME DiscoveryAssumption ==
    /\ Sitemap!SitemapAssumption /\ Link!LinkAssumption /\ Scan!ScannerAssumption /\ Sub!WebSubAssumption
    /\ Scenes \subseteq SUBSET Watchers

-----------------------------------------------------------------------------
Process(pc, running) == [pc |-> pc, running |-> running]
Up == service.pc = "up"
Stopping == service.pc # "down" /\ ~service.running

\* A task that ended with an exception.
SomeoneRaised == "raised" \in {poller, extractor.pc, renewal.pc}

Init ==
    /\ Sitemap!InitSitemap /\ Link!InitLinks /\ Scan!InitScanner /\ Sub!InitWebSub
    /\ monitor = "off"
    /\ service = Process("down", FALSE)
    /\ scene \in Scenes

Upset == /\ upsets < MaxUpsets
         /\ upsets' = upsets + 1

\* start(): the connection, and all tasks.  Without Redis it raises, and the
\* container starts it again.
StartFails ==
    /\ service.pc = "down" /\ Upset
    /\ UNCHANGED <<sitemapVars, linkVars, scanVars, subVars, monitor, service, scene>>

Start ==
    /\ service.pc = "down"
    /\ service' = Process("up", TRUE)
    /\ Sitemap!BeginSitemap /\ Link!BeginLinks /\ Scan!BeginScanner /\ Sub!BeginWebSub
    /\ monitor' = "look"
    /\ UNCHANGED <<scene, upsets>>

CancelTasks ==
    /\ Sitemap!CancelSitemap /\ Link!CancelLinks /\ Scan!CancelScanner /\ Sub!CancelWebSub
    /\ monitor' = "off"

\* Mutant of EndOnException: a task that raised is forgotten, the others go on.
EndOnExceptionGathers ==
    /\ Up /\ poller = "raised"
    /\ poller' = "off"
    /\ UNCHANGED <<client, domain, reader, lastmod, memory, handed, dropped, linkVars, scanVars, subVars,
                   monitor, service, scene, upsets>>

\* asyncio.wait returns at the first exception: the other tasks are cancelled,
\* main() returns, and the container is restarted.
EndOnException ==
    /\ Up /\ SomeoneRaised
    /\ CancelTasks
    /\ service' = Process(IF service.running THEN "down" ELSE "stopped", FALSE)
    /\ UNCHANGED <<scene, upsets>>

\* The process dies, or is killed.
Crash ==
    /\ Up /\ service.running /\ Upset
    /\ CancelTasks
    /\ service' = Process("down", FALSE)
    /\ UNCHANGED scene

\* SIGTERM: stop() tells the scanner and the monitor, and closes the clients of
\* the others.
Stop ==
    /\ Up /\ service.running /\ Upset
    /\ service' = Process("up", FALSE)
    /\ Scan!StopScanner /\ Sitemap!CloseClient /\ Sub!CloseSession
    /\ UNCHANGED <<linkVars, monitor, scene>>

\* Ten seconds later, SIGKILL.
Kill ==
    /\ Up /\ ~service.running
    /\ CancelTasks
    /\ service' = Process("stopped", FALSE)
    /\ UNCHANGED <<scene, upsets>>

\* _monitor_queue_depth swallows errors.
MonitorStep ==
    \/ monitor = "look" /\ monitor' = IF service.running THEN "sleep" ELSE "ended"
    \/ monitor = "sleep" /\ monitor' = "look"

\* The steps of each watcher, and what happens around it.
SitemapTask == "sitemap" \in scene /\ Sitemap!SitemapSteps /\ UNCHANGED <<linkVars, scanVars, subVars, monitor, service, scene>>
SitemapWorld == "sitemap" \in scene /\ Sitemap!SitemapWorld /\ UNCHANGED <<linkVars, scanVars, subVars, monitor, service, scene>>
LinkTask == "link_extractor" \in scene /\ Link!LinkSteps /\ UNCHANGED <<sitemapVars, scanVars, subVars, monitor, service, scene>>
LinkWorld == "link_extractor" \in scene /\ Link!LinkWorld /\ UNCHANGED <<sitemapVars, scanVars, subVars, monitor, service, scene>>
ScannerTask == "ct_logs" \in scene /\ Scan!ScannerSteps /\ UNCHANGED <<sitemapVars, linkVars, subVars, monitor, service, scene>>
ScannerWorld == "ct_logs" \in scene /\ Scan!ScannerWorld /\ UNCHANGED <<sitemapVars, linkVars, subVars, monitor, service, scene>>
WebSubTask == "websub" \in scene /\ Sub!WebSubSteps /\ UNCHANGED <<sitemapVars, linkVars, scanVars, monitor, service, scene>>
WebSubWorld == "websub" \in scene /\ Sub!WebSubWorld /\ UNCHANGED <<sitemapVars, linkVars, scanVars, monitor, service, scene>>
MonitorTask == "queue_monitor" \in scene /\ MonitorStep /\ UNCHANGED <<sitemapVars, linkVars, scanVars, subVars, service, scene, upsets>>

Lifecycle == Start \/ StartFails \/ EndOnException \/ Crash \/ Stop \/ Kill
Next ==
    \/ Lifecycle
    \/ SitemapTask \/ LinkTask \/ ScannerTask \/ WebSubTask \/ MonitorTask
    \/ SitemapWorld \/ LinkWorld \/ ScannerWorld \/ WebSubWorld

\* The container is started again, the event loop wakes start() after an
\* exception, and runs every task on; keys of the lastmod memory run out.
Fairness ==
    /\ WF_vars(Start) /\ WF_vars(EndOnException)
    /\ WF_vars(SitemapTask) /\ WF_vars(LinkTask) /\ WF_vars(ScannerTask) /\ WF_vars(WebSubTask)
    /\ \A p \in Pages : WF_vars("sitemap" \in scene /\ Sitemap!Expire(p) /\ UNCHANGED <<linkVars, scanVars, subVars, monitor, service, scene>>)

Spec == Init /\ [][Next]_vars /\ Fairness

-----------------------------------------------------------------------------
\* Every variable has its type, and without the process there are no tasks.
TypeOK ==
    /\ Sitemap!SitemapTypeOK /\ Link!LinkTypeOK /\ Scan!ScannerTypeOK /\ Sub!WebSubTypeOK
    /\ monitor \in {"off", "look", "sleep", "ended"}
    /\ service \in [pc : {"down", "up", "stopped"}, running : BOOLEAN]
    /\ scene \in Scenes
    /\ ~Up => /\ poller = "off" /\ extractor.pc = "off" /\ scanner.pc = "off" /\ renewal.pc = "off"
              /\ monitor = "off"

\* What the sitemap watcher remembers was dealt with; see SitemapWatcher.
RememberedIsAccounted == Sitemap!RememberedIsAccounted

\* An acknowledged crawl event in the documented form has no links left; see
\* LinkExtractor.
AcknowledgedIsExtracted == Link!AcknowledgedIsExtracted

\* The links of the pages that the crawler reports are followed; see LinkExtractor.
CompletedPagesAreFollowed == Link!CompletedPagesAreFollowed

\* The scanner waits as long as its refusals in a row say; see CTLogScanner.
BackoffFollowsRefusals == Scan!BackoffFollowsRefusals

\* A hub's genuine notification passes the check, unless it is signed in another
\* way than the code knows; see WebSub.
GenuineIsHeard == Sub!GenuineIsHeard

\* A page that the watcher gets to see is handed over in the end, unless it
\* changes again or the service is stopped: failures, candidates that cannot be
\* had and versions remembered too early are made up for by later cycles
\* (sitemap.py:84, 158, 302).  A page that only a later candidate lists, or that
\* follows one with an empty lastmod, is not (163, 250); see SitemapWatcher.
ListedIsHandedOver ==
    \A p \in {q \in Pages : Sitemap!IsSeen(q)}, v \in 0..MaxVersions :
        ("sitemap" \in scene /\ lastmod[p] = v)
            ~> (<<p, v>> \in handed \/ lastmod[p] # v \/ Stopping)

\* A watcher whose start failed is not left behind while the others run: in the
\* end all are in their loops, or the service was stopped (discovery/main.py:128:
\* the first exception ends the process, which is then started again).
WatchersComeUp ==
    <>[](\/ Stopping
         \/ /\ "sitemap" \in scene => poller \in {"poll", "sleep"}
            /\ "link_extractor" \in scene => extractor.pc \in {"poll", "links"}
            /\ "websub" \in scene => renewal.pc \in {"each", "done"})
=============================================================================
