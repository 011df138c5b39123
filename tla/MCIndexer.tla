----------------------------- MODULE MCIndexer -----------------------------
(***************************************************************************)
(* An instance of Indexer: a page of a seeded domain and one of a domain   *)
(* that init.sql does not know.                                            *)
(***************************************************************************)
EXTENDS Indexer

MCDomainOf == [u \in Urls |-> IF u = "p" THEN "seeded" ELSE "new"]
=============================================================================
