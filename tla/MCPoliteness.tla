---------------------------- MODULE MCPoliteness ----------------------------
(***************************************************************************)
(* What keeps the crawler polite: the pacing of its requests, and what it  *)
(* makes of a robots.txt.  A behaviour is about one of them.               *)
(*                                                                         *)
(* A host whose clock is a tick ahead and one in time, with gaps below and *)
(* above the longest wait.  Files of up to five lines, enough for a group, *)
(* another one, and a line in the wrong place.                             *)
(***************************************************************************)
EXTENDS RateLimiter, RobotsRules

VARIABLE topic  \* "pacing" or "robots"

MCOffset == [w \in Workers |-> IF w = "ahead" THEN 1 ELSE 0]

allVars == <<vars, robotsVars, topic>>
PolitenessInit == Init /\ InitRobots /\ topic \in {"pacing", "robots"}
PolitenessNext ==
    \/ topic = "pacing" /\ Next /\ UNCHANGED <<robotsVars, topic>>
    \/ topic = "robots" /\ RobotsNext /\ UNCHANGED <<vars, topic>>
PolitenessSpec == PolitenessInit /\ [][PolitenessNext]_allVars
=============================================================================
