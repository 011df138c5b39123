---------------------------- MODULE MCDiscovery ----------------------------
(***************************************************************************)
(* One domain whose robots.txt names an index of two page lists, with a    *)
(* plain list in the standard place; a page with lastmod is in both lists  *)
(* of the index, one without is in one, and one is behind an entry whose   *)
(* lastmod is empty and in the plain list, where it is seen when robots.txt *)
(* cannot be had.  A crawl event of the crawler, and events of the         *)
(* documented form with links, without HTML and at the depth limit; a      *)
(* certificate with a host to skip; one feed.  A watcher at a time, the    *)
(* scanner with the queue monitor.                                         *)
(***************************************************************************)
EXTENDS Discovery

MCDomains == {"site"}
MCDocuments == {"index", "a", "b", "plain"}
MCCandidates == [m \in MCDomains |-> <<"index", "plain">>]
MCChildren == [d \in MCDocuments |-> IF d = "index" THEN {"a", "b"} ELSE {}]
MCPages == {"dated", "undated", "hollow", "late"}
MCListing == [d \in MCDocuments |-> CASE d = "index" -> <<>>
                                      [] d = "a" -> <<"undated", "dated">>
                                      [] d = "b" -> <<"dated", "hollow", "late">>
                                      [] d = "plain" -> <<"dated", "late">>]
MCUndated == {"undated", "late", "hollow"}
MCHollow == {"hollow"}

MCLinks == {"near", "far", "advert"}
MCCrawlable == {"near", "far"}
MCEvents ==
    {[form |-> "data", html |-> TRUE, depth |-> 0, links |-> <<"near", "far">>],
     [form |-> "fields", html |-> TRUE, depth |-> 0, links |-> <<"near", "advert", "near", "far">>],
     [form |-> "fields", html |-> TRUE, depth |-> 2, links |-> <<"near">>],
     [form |-> "fields", html |-> FALSE, depth |-> 0, links |-> <<>>]}
MCCrawlerEvents == {event \in MCEvents : event.form = "data"}

MCHosts == {"public", "other", "local"}
MCPublic == {"public", "other"}
MCCertificates == {<<"local", "public", "other">>, <<"local">>, <<"public", "other", "public", "other">>}

MCLinksOnly == {{"link_extractor"}}
MCScenes == {{"sitemap"}, {"link_extractor"}, {"ct_logs", "queue_monitor"}, {"websub"}}
============================================================================
