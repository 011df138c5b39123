----------------------------- MODULE MCCrawler -----------------------------
(***************************************************************************)
(* An instance of Crawler: one site whose page "p" is also reached through *)
(* a redirect from "r", and a page "s" its robots.txt disallows, which a   *)
(* malformed task names as well.                                           *)
(***************************************************************************)
EXTENDS Crawler

MCUrlOf == [t \in Tasks |-> CASE t = "t1" -> "p" [] t = "t2" -> "r" [] OTHER -> "s"]
AllRedirected == [t \in Tasks |-> "r"]
MCDomainOf == [u \in Urls |-> "site"]
MCAllowed == [u \in Urls |-> u # "s"]
MCRedirect == [u \in Urls |-> CASE u = "r" -> "p" [] OTHER -> NoUrl]
MCServes == [u \in Urls |-> IF u = "s" THEN "missing" ELSE "A"]
=============================================================================
