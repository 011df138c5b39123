------------------------------- MODULE MCApi -------------------------------
(***************************************************************************)
(* The API: its searches through the cache, its live feed, and the pages   *)
(* that a search shows.  They share no state; a behaviour is about one of  *)
(* them.                                                                   *)
(*                                                                         *)
(* One page crawled at time 1, found by "x" and "y"; queries that differ   *)
(* in terms and mode, and, for the violation run, in `since` alone.  Three *)
(* connections, enough for one to leave and one to join while a third is   *)
(* being sent to; a crawl event to tell, one not to, documents.  Four      *)
(* documents of which an engine finds none, two or four and is asked for   *)
(* three; with K = 60 that scales to lcm(61, 62, 63).                      *)
(***************************************************************************)
EXTENDS ResultCache, LiveFeed, SearchPages

VARIABLE topic  \* "search", "feed" or "pages"

MCMatching == [d \in Docs |-> IF d = "old" THEN {"x"} ELSE {"x", "y"}]
MCCrawledAt == [d \in Docs |-> 1]
Query(term, mode, since) == [term |-> term, mode |-> mode, since |-> since]
Unlimited == {Query("x", "hybrid", 0), Query("y", "bm25", 0)}
Limited == {Query("x", "hybrid", 0), Query("x", "hybrid", 2)}

MCChannels == {"crawls", "documents"}
MCUnreported == {<<"crawls", 2>>}

MCDocuments == {"a", "b", "c", "nameless"}
MCRankings == {r \in SeqOf(MCDocuments, 4) : IsInjective(r) /\ Len(r) \in {0, 2, 4}}
MCBonuses == {[d \in MCDocuments |-> 1], [d \in MCDocuments |-> IF d = "b" THEN 4 ELSE IF d = "c" THEN 0 ELSE 1]}

\* Where they are not the topic, there is one search, which nobody reads.
Unread == CHOOSE s \in Searches : TRUE

ApiInit ==
    /\ Init /\ InitFeed /\ InitPages
    /\ \/ topic = "pages"
       \/ topic \in {"search", "feed"} /\ search = Unread

ApiNext ==
    \/ topic = "search" /\ Next /\ UNCHANGED <<feedVars, pagesVars, topic>>
    \/ topic = "feed" /\ FeedNext /\ UNCHANGED <<vars, pagesVars, topic>>
    \/ topic = "pages" /\ NextPage /\ UNCHANGED <<vars, feedVars, topic>>

allVars == <<vars, feedVars, pagesVars, topic>>
ApiSpec ==
    /\ ApiInit /\ [][ApiNext]_allVars
    /\ SearchFairness
    /\ WF_feedVars(topic = "feed" /\ FeedStep)
    /\ \A c \in Clients : WF_feedVars(topic = "feed" /\ Leave(c))
============================================================================
