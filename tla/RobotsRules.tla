---------------------------- MODULE RobotsRules ----------------------------
(***************************************************************************)
(* The robots.txt parser of the crawler, fed one line at a time, and what  *)
(* the robots exclusion protocol (RFC 9309) says of the same lines.        *)
(*                                                                         *)
(* The path that is asked for is fixed: of a rule it matters whether it    *)
(* matches the path, and how long it is.  For the parser a rule matches as *)
(* a prefix, character by character; for the protocol * and $ in it have a *)
(* meaning of their own.                                                   *)
(***************************************************************************)
EXTENDS Integers, Sequences, FiniteSetsExt

CONSTANTS
    Lengths,  \* lengths of rules that are a prefix of the path, 0 without value
    Patterns, \* lengths of rules with * or $ that match the path
    Delays,   \* crawl delays; 0 for a value that is not a number
    MaxLines  \* bound: lines of a file

ASSUME RobotsAssumption == Lengths \subseteq Nat /\ Patterns \subseteq Nat \ {0} /\ Delays \subseteq Nat /\ MaxLines \in Nat

VARIABLES
    file,     \* history: the lines so far
    ruleSets, \* wildcard and specific: [disallow, allow, crawlDelay, active]
    current   \* currentIsSpecific, currentIsWildcard, or "none"

robotsVars == <<file, ruleSets, current>>

-----------------------------------------------------------------------------
Elsewhere == -1  \* a rule for other paths

\* What a path is to the parser, its value, and to the protocol, its meaning.
Plainly(n) == [value |-> n, meaning |-> n]
Paths == {Plainly(n) : n \in Lengths \cup {Elsewhere}} \cup {[value |-> Elsewhere, meaning |-> n] : n \in Patterns}
PathLine(d, path) == [directive |-> d, value |-> path.value, meaning |-> path.meaning]
PathLines == UNION {{PathLine(d, path) : path \in Paths} : d \in {"disallow", "allow"}}

\* A line without its comment and its blanks; "" is empty, and "unknown" has no
\* colon or no directive that the parser knows.
Lines == PathLines
         \cup [directive : {"crawl-delay"}, value : Delays]
         \cup [directive : {"", "unknown"}, value : {0}]
         \cup [directive : {"user-agent"}, value : {"*", "RealtimeIndexer", "another"}]

Kinds == {"wildcard", "specific"}
NoRules == [disallow |-> {}, allow |-> {}, crawlDelay |-> 0, active |-> FALSE]
KindOf(agent) == CASE agent = "RealtimeIndexer" -> "specific"
                   [] agent = "*" -> "wildcard"
                   [] OTHER -> "none"

InitRobots ==
    /\ file = <<>>
    /\ ruleSets = [k \in Kinds |-> NoRules]
    /\ current = "none"

UserAgent(agent) ==
    /\ current' = KindOf(agent)
    /\ ruleSets' = IF KindOf(agent) = "none" THEN ruleSets
                   ELSE [ruleSets EXCEPT ![KindOf(agent)].active = TRUE]

\* Rules outside of the groups that matter are dropped.
Rule(line) ==
    /\ ruleSets' = IF current = "none" THEN ruleSets
                   ELSE CASE line.directive = "disallow" -> [ruleSets EXCEPT ![current].disallow = @ \cup {line.value}]
                          [] line.directive = "allow" -> [ruleSets EXCEPT ![current].allow = @ \cup {line.value}]
                          [] OTHER -> [ruleSets EXCEPT ![current].crawlDelay = line.value]
    /\ UNCHANGED current

\* An empty line, or one that is all comment.
EndOfGroup == current' = "none" /\ UNCHANGED ruleSets

ParseLine(line) ==
    /\ Len(file) < MaxLines
    /\ file' = Append(file, line)
    /\ CASE line.directive = "" -> EndOfGroup
         [] line.directive = "unknown" -> UNCHANGED <<ruleSets, current>>
         [] line.directive = "user-agent" -> UserAgent(line.value)
         [] OTHER -> Rule(line)

RobotsNext == \E line \in Lines : ParseLine(line)
RobotsSpec == InitRobots /\ [][RobotsNext]_robotsVars

-----------------------------------------------------------------------------
(* The verdict. *)

\* Mutant of ActiveRules: the groups of both are merged.
ActiveRulesMerged ==
    [ruleSets["wildcard"] EXCEPT !.disallow = @ \cup ruleSets["specific"].disallow,
                                 !.allow = @ \cup ruleSets["specific"].allow]

ActiveRules == IF ruleSets["specific"].active THEN ruleSets["specific"] ELSE ruleSets["wildcard"]

\* The longest rule that the path begins with; rules without value do not count.
Longest(rules) == Max({-1} \cup {r \in rules : r > 0})
PathAllowed ==
    LET longestDisallow == Longest(ActiveRules.disallow)
        longestAllow == Longest(ActiveRules.allow)
    IN  longestDisallow < 0 \/ longestAllow >= longestDisallow

-----------------------------------------------------------------------------
(* What the lines say: groups of rules, each for the agents named on the   *)
(* lines above it.                                                         *)

IsAgent(i) == file[i].directive = "user-agent"
IsRule(i) == file[i].directive \in {"disallow", "allow", "crawl-delay"}

\* Line i names an agent of the group that line j belongs to: nothing but further
\* agents comes between i and the group's rules.
NamesAgentOf(i, j) ==
    /\ IsAgent(i) /\ i < j /\ ~IsAgent(j)
    /\ \E k \in i..(j - 1) : /\ \A l \in i..k : ~IsRule(l)
                             /\ \A l \in (k + 1)..j : ~IsAgent(l)
GroupRules(agent) ==
    {j \in DOMAIN file : IsRule(j) /\ \E i \in DOMAIN file : NamesAgentOf(i, j) /\ file[i].value = agent}
Named(agent) == \E i \in DOMAIN file : IsAgent(i) /\ file[i].value = agent

\* The rules for this crawler: its own groups, or else those for everybody.  The
\* longest match decides, and allows in a draw; the last delay counts.
Us == IF Named("RealtimeIndexer") THEN "RealtimeIndexer" ELSE "*"
OurRules(d) == {j \in GroupRules(Us) : file[j].directive = d}
AllowedByProtocol ==
    \A j \in OurRules("disallow") : file[j].meaning > 0 =>
        \E i \in OurRules("allow") : file[i].meaning >= file[j].meaning
LastDelay(js) == IF js = {} THEN 0 ELSE file[Max(js)].value

\* Our rules that are not cut off from the line that names us, by an empty line
\* or by another agent of the same group.
Uncut(d) ==
    {j \in OurRules(d) : \E i \in 1..(j - 1) : /\ IsAgent(i) /\ file[i].value = Us
                                              /\ \A l \in (i + 1)..j : ~IsAgent(l) /\ file[l].directive # ""}

\* A file the parser is made for: no rule of ours is cut off, or a pattern.
Plain ==
    /\ \A d \in {"disallow", "allow", "crawl-delay"} : Uncut(d) = OurRules(d)
    /\ \A d \in {"disallow", "allow"} : \A j \in OurRules(d) : file[j].value = file[j].meaning

\* On every file the parser applies just the rules that the protocol gives us and
\* that are not cut off, wherever the groups are and however often an agent is
\* named: no other agent's, and the rules of everybody only where we are not
\* named.  On a plain file its verdict and delay are therefore the protocol's; on
\* others it loses what is cut off and takes patterns literally (robots.go:221,
\* 235, 275, 290, 303).
ProtocolIsFollowed ==
    /\ ActiveRules.disallow = {file[j].value : j \in Uncut("disallow")}
    /\ ActiveRules.allow = {file[j].value : j \in Uncut("allow")}
    /\ ActiveRules.crawlDelay = LastDelay(Uncut("crawl-delay"))
    /\ Plain => /\ PathAllowed <=> AllowedByProtocol
                /\ ActiveRules.crawlDelay = LastDelay(OurRules("crawl-delay"))

\* Every variable has its type.
RobotsTypeOK ==
    /\ file \in Seq(Lines)
    /\ ruleSets \in [Kinds -> [disallow : SUBSET (Lengths \cup {Elsewhere}), allow : SUBSET (Lengths \cup {Elsewhere}),
                               crawlDelay : Delays \cup {0}, active : BOOLEAN]]
    /\ current \in Kinds \cup {"none"}
=============================================================================
