---------------------------- MODULE MCFrontier ----------------------------
(***************************************************************************)
(* An instance of Frontier: a page with two spellings ("a" and "a/") and a *)
(* page "c" that collides with it: its only bit is one of the bits of "a". *)
(***************************************************************************)
EXTENDS Frontier

MCCanon == [u \in Urls |-> IF u = "a/" THEN "a" ELSE u]
MCHash == [u \in Urls |-> CASE u = "a"  -> {1, 2}
                            [] u = "a/" -> {1, 4}
                            [] u = "c"  -> {2}]
TwoReplicas == [h \in Handlers |-> IF h = "h1" THEN "r1" ELSE "r2"]
=============================================================================
