---------------------------- MODULE SearchPages ----------------------------
(***************************************************************************)
(* A client of /search asks for one page after another.  Every request     *)
(* retrieves the best candidates of both engines anew, fuses the two lists *)
(* by reciprocal rank with a bonus for freshness and authority, and cuts   *)
(* the page out of the result.  A retriever that fails answers with an     *)
(* empty list.                                                             *)
(*                                                                         *)
(* Scores are scaled to integers: Scale is a common multiple of RRF_K + 1  *)
(* to RRF_K + CandidateCount, and the bonus counts the halves of freshness *)
(* and authority together.  An engine holds a document once: its id is     *)
(* made from its url.                                                      *)
(***************************************************************************)
EXTENDS Integers, Sequences, SequencesExt

CONSTANTS
    Documents,       \* what the engines hold
    Nameless,        \* hits without url
    Rankings,        \* set of sequences that an engine may find, best first
    Bonuses,         \* set of [Documents -> 0..4]
    PageSizes,
    CandidateCount,  \* 50
    RRF_K,           \* 60
    Scale,
    MaxFailures      \* bound: failing retrievals

ASSUME PagesAssumption ==
    /\ Nameless \subseteq Documents /\ Bonuses \subseteq [Documents -> 0..4]
    /\ \A r \in Rankings : r \in Seq(Documents) /\ IsInjective(r)
    /\ PageSizes \subseteq Nat \ {0} /\ CandidateCount \in Nat /\ MaxFailures \in Nat
    /\ RRF_K \in Nat /\ RRF_K >= 60
    /\ Scale \in Nat \ {0} /\ \A r \in 1..CandidateCount : Scale % (RRF_K + r) = 0

VARIABLES
    search,    \* the query: [mode, found, bonus, limit], found in each engine
    shown,     \* history: documents of the pages so far
    failed,    \* history: retrievers that failed for some page
    finished   \* a page came back short

pagesVars == <<search, shown, failed, finished>>

-----------------------------------------------------------------------------
Engines == {"bm25", "ann"}
EnginesOf(mode) == CASE mode = "hybrid" -> Engines [] mode = "bm25" -> {"bm25"} [] mode = "semantic" -> {"ann"}
Searches == [mode : {"hybrid", "bm25", "semantic"}, found : [Engines -> Rankings], bonus : Bonuses, limit : PageSizes]

InitPages ==
    /\ search \in Searches
    /\ shown = <<>> /\ failed = {} /\ finished = FALSE

Slice(list, from, count) ==
    SubSeq(list, from + 1, IF from + count < Len(list) THEN from + count ELSE Len(list))

\* Mutant of Retrieve: the page's offset is handed to the engines as well.
RetrieveFromOffset(list) == Slice(list, Len(shown), CandidateCount)

\* The engines are asked for the first candidates, whatever the page.
Retrieve(list) == Slice(list, 0, CandidateCount)

Rank(list, doc) == CHOOSE i \in DOMAIN list : list[i] = doc
Reciprocal(list, doc) == IF Contains(list, doc) THEN Scale \div (RRF_K + Rank(list, doc)) ELSE 0

\* Mutant of RrfScore: a hit of the second list replaces that of the first.
RrfScoreReplaces(hits, doc) == Reciprocal(IF Contains(hits["ann"], doc) THEN hits["ann"] ELSE hits["bm25"], doc)

RrfScore(hits, doc) == Reciprocal(hits["bm25"], doc) + Reciprocal(hits["ann"], doc)

\* 0.80 * min(1, rrf / 0.033) + 0.10 * (freshness + authority), times 660 * Scale.
Capped(score) == IF score < 528 * Scale THEN score ELSE 528 * Scale
Composite(bonus, hits, doc) == Capped(16000 * RrfScore(hits, doc)) + 33 * Scale * bonus[doc]

\* docs, and the order in which they are met.
Merged(hits) == {d \in ToSet(hits["bm25"]) \cup ToSet(hits["ann"]) : d \notin Nameless}
Met(hits, doc) == IF Contains(hits["bm25"], doc) THEN Rank(hits["bm25"], doc)
                  ELSE Len(hits["bm25"]) + Rank(hits["ann"], doc)

\* The order of the sort by score, which keeps that of docs among equals.
Precedes(bonus, hits, d, e) ==
    LET x == Composite(bonus, hits, d)
        y == Composite(bonus, hits, e)
    IN  x > y \/ (x = y /\ Met(hits, d) <= Met(hits, e))
UpTo(bonus, hits, d) == {e \in Merged(hits) : Precedes(bonus, hits, e, d)}

Fuse(bonus, hits) ==
    [i \in 1..Cardinality(Merged(hits)) |->
        CHOOSE d \in Merged(hits) : Cardinality(UpTo(bonus, hits, d)) = i]

\* fuse, bm25_only, ann_only: the latter two keep the engine's order.
Ranked(query, hits) ==
    CASE query.mode = "hybrid" -> Fuse(query.bonus, hits)
      [] query.mode = "bm25" -> hits["bm25"]
      [] query.mode = "semantic" -> hits["ann"]

\* What the engines answer to a request of the query.
Hits(query, failing) == [e \in Engines |-> IF e \in failing THEN <<>> ELSE Retrieve(query.found[e])]

\* A request for the next page; some of the retrievers asked fail.
NextPage ==
    \E failing \in SUBSET EnginesOf(search.mode) :
        LET page == Slice(Ranked(search, Hits(search, failing)), Len(shown), search.limit)
        IN  /\ ~finished /\ (failing # {} => Cardinality(failed) < MaxFailures)
            /\ shown' = shown \o page
            /\ failed' = failed \cup failing
            /\ finished' = (Len(page) < search.limit)
            /\ UNCHANGED search

PagesSpec == InitPages /\ [][NextPage]_pagesVars

-----------------------------------------------------------------------------
Candidates == {d \in Documents : \E e \in EnginesOf(search.mode) : Contains(Retrieve(search.found[e]), d)}
NamedCandidates == IF search.mode = "hybrid" THEN Candidates \ Nameless ELSE Candidates

\* As long as no retriever fails, the pages are cuts of one ranking: nothing is
\* shown twice, and who reads to the end has seen every candidate
\* (search.py:157, 188; fusion.py:162, 163).
PagesShowEachOnce ==
    failed = {} => /\ IsInjective(shown) /\ ToSet(shown) \subseteq NamedCandidates
                   /\ finished => ToSet(shown) = NamedCandidates

\* Place in the list of an engine; beyond the candidates all are equal.
Place(e, d) == LET list == Retrieve(search.found[e])
               IN  IF Contains(list, d) THEN Rank(list, d) ELSE CandidateCount + 1

\* Fusing and paging overturn no verdict on which everything agrees: a page that
\* both engines place at least as high, and that is at least as fresh and
\* reputable, is shown no later (fusion.py:141, 143, 155, 162).
UnanimityIsRespected ==
    failed = {} /\ search.mode = "hybrid" =>
        \A i, j \in DOMAIN shown : i < j =>
            LET x == shown[i] y == shown[j] IN
            ~ /\ \A e \in Engines : Place(e, y) <= Place(e, x)
              /\ search.bonus[y] >= search.bonus[x]
              /\ \E e \in Engines : Place(e, y) < Place(e, x)

\* Every variable has its type.
PagesTypeOK ==
    /\ search \in Searches
    /\ shown \in Seq(Documents) /\ failed \subseteq Engines /\ finished \in BOOLEAN
=============================================================================
