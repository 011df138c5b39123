--------------------------- MODULE FrontierProofs ---------------------------
(***************************************************************************)
(* Theorems about Frontier, for any URLs, normalisation, hash functions,   *)
(* handlers, replicas and bounds.                                          *)
(***************************************************************************)
EXTENDS Frontier, TLAPS

\* Every reset is one of the counted upsets: what bounds the epoch.
TypeInv == TypeOK /\ epoch <= used.upsets

\* The initial state has its types.
LEMMA TypeInit == Init => TypeInv
  BY FrontierAssumption DEF Init, TypeInv, TypeOK, FrontierAssumption, Call, Idle

\* Scores are numbers, whatever the source.
LEMMA PriorityIsInt ==
    ASSUME NEW source \in DiscoverySource, NEW authority \in Int
    PROVE  Priority(source, authority) \in Int
  BY FrontierAssumption DEF FrontierAssumption, Priority, PriorityMap, DiscoverySource

\* Every URL has a page, and the bits of a page are bits of the filter.
LEMMA PageHasBits ==
    ASSUME NEW url \in Urls
    PROVE  Canon[url] \in Urls /\ BloomBits(url) = Hash[Canon[url]] /\ BloomBits(url) \subseteq Bits
  BY FrontierAssumption DEF FrontierAssumption, BloomBits, Normalise

\* Every step keeps the types.
LEMMA TypeStep == TypeInv /\ [Next]_vars => TypeInv'
<1> USE FrontierAssumption DEF FrontierAssumption, TypeInv
<1> SUFFICES ASSUME TypeInv, [Next]_vars PROVE TypeInv'
  OBVIOUS
<1>1. ASSUME NEW h \in Handlers, NEW url \in Urls, NEW source \in Watchers, Find(h, url, source)
      PROVE  TypeInv'
  BY <1>1 DEF Find, TypeOK, Call, Found
<1>2. ASSUME NEW h \in Handlers, AddSeen(h) PROVE TypeInv'
  <2>1. call[h].url \in Urls
    BY <1>2 DEF AddSeen, TypeOK, Call
  <2> QED
    BY <1>2, <2>1, PageHasBits DEF AddSeen, TypeOK, Call, Idle
<1>3. ASSUME NEW h \in Handlers, AddNew(h) PROVE TypeInv'
  <2>1. call[h].url \in Urls /\ call[h].source \in Watchers
    BY <1>3 DEF AddNew, TypeOK, Call
  <2>2. nextId \in 1..MaxTasks
    BY <1>3 DEF AddNew, Issue, TypeOK
  <2>3. Claimed(call[h], nextId) \in Call
    BY <2>1, <2>2 DEF Claimed, Call
  <2> QED
    BY <1>3, <2>1, <2>2, <2>3, PageHasBits DEF AddNew, Issue, TypeOK
<1>4. ASSUME NEW h \in Handlers, Push(h) PROVE TypeInv'
  <2>1. /\ call[h].url \in Urls /\ call[h].source \in Watchers
        /\ call[h].id \in 1..MaxTasks
    BY <1>4 DEF Push, TypeOK, Call
  <2>2. Priority(call[h].source, DefaultAuthority) \in Int
    BY <2>1, PriorityIsInt, DefaultAuthority \in Int, call[h].source \in DiscoverySource
    DEF DiscoverySource, DefaultAuthority
  <2> QED
    BY <1>4, <2>1, <2>2 DEF Push, TypeOK, Call, Idle, Member, DiscoverySource
<1>5. ASSUME NEW h \in Handlers, AddFails(h) PROVE TypeInv'
  <2>1. call[h].url \in Urls
    BY <1>5 DEF AddFails, TypeOK, Call
  <2>2. used' \in [bypass : 0..MaxBypass, upsets : 0..MaxUpsets] /\ epoch' <= used'.upsets
    BY <1>5 DEF AddFails, Spend, TypeOK
  <2> QED
    BY <1>5, <2>1, <2>2, PageHasBits DEF AddFails, Issue, Leave, TypeOK, Call, Idle
<1>6. ASSUME NEW h \in Handlers, PushFails(h) PROVE TypeInv'
  <2>1. call[h].id \in 1..MaxTasks
    BY <1>6 DEF PushFails, TypeOK, Call
  <2>2. used' \in [bypass : 0..MaxBypass, upsets : 0..MaxUpsets] /\ epoch' <= used'.upsets
    BY <1>6 DEF PushFails, Spend, TypeOK
  <2> QED
    BY <1>6, <2>1, <2>2 DEF PushFails, Leave, TypeOK, Call, Idle
<1>7. ASSUME NEW r \in Replicas, Crash(r) PROVE TypeInv'
  <2>1. \A h \in Handlers : call[h].pc = "claimed" => call[h].id \in 1..MaxTasks
    BY DEF TypeOK, Call
  <2>2. used' \in [bypass : 0..MaxBypass, upsets : 0..MaxUpsets] /\ epoch' <= used'.upsets
    BY <1>7 DEF Crash, Spend, TypeOK
  <2>3. call' \in [Handlers -> Call]
    BY <1>7 DEF Crash, TypeOK, Call, Idle
  <2>4. gone' \subseteq [id : 1..MaxTasks, how : {"taken", "lost", "discarded"}]
    BY <1>7, <2>1 DEF Crash, Leave, TypeOK
  <2> QED
    BY <1>7, <2>2, <2>3, <2>4 DEF Crash, TypeOK
<1>8. ASSUME NEW url \in Urls, NEW source \in DiscoverySource, NEW priority \in Int,
             NEW via \in {"submit", "seed"}, Bypass(url, source, priority, via)
      PROVE  TypeInv'
  <2>1. nextId \in 1..MaxTasks
    BY <1>8 DEF Bypass, Issue, TypeOK
  <2>2. used' \in [bypass : 0..MaxBypass, upsets : 0..MaxUpsets] /\ epoch' <= used'.upsets
    BY <1>8 DEF Bypass, Spend, TypeOK
  <2> QED
    BY <1>8, <2>1, <2>2, PageHasBits DEF Bypass, Issue, Member, TypeOK
<1>9. ASSUME NEW url \in Urls, Submit(url) PROVE TypeInv'
  <2>1. "manual" \in DiscoverySource /\ Priority("manual", SubmitAuthority) \in Int
    BY PriorityIsInt DEF DiscoverySource, SubmitAuthority
  <2> QED
    BY <1>8, <1>9, <2>1 DEF Submit
<1>10. ASSUME NEW url \in Urls, NEW source \in DiscoverySource, Seed(url, source) PROVE TypeInv'
  BY <1>8, <1>10 DEF Seed, SeedPriority
<1>11. ASSUME NEW url \in Urls, Remove(url) PROVE TypeInv'
  <2>1. used' \in [bypass : 0..MaxBypass, upsets : 0..MaxUpsets] /\ epoch' <= used'.upsets
    BY <1>11 DEF Remove, Spend, TypeOK
  <2> QED
    BY <1>11, <2>1 DEF Remove, Leave, TypeOK
<1>12. ASSUME Pop PROVE TypeInv'
  BY <1>12 DEF Pop, Leave, TypeOK
<1>13. ASSUME Clear PROVE TypeInv'
  <2>1. used' \in [bypass : 0..MaxBypass, upsets : 0..MaxUpsets] /\ epoch' <= used'.upsets
    BY <1>13 DEF Clear, Spend, TypeOK
  <2> QED
    BY <1>13, <2>1 DEF Clear, Leave, TypeOK
<1>14. ASSUME Reset PROVE TypeInv'
  <2>1. used' \in [bypass : 0..MaxBypass, upsets : 0..MaxUpsets] /\ epoch' <= used'.upsets
    BY <1>14 DEF Reset, Spend, TypeOK
  <2> QED
    BY <1>14, <2>1 DEF Reset, TypeOK
<1>15. CASE UNCHANGED vars
  BY <1>15 DEF vars, TypeOK
<1> QED
  BY <1>1, <1>2, <1>3, <1>4, <1>5, <1>6, <1>7, <1>9, <1>10, <1>11, <1>12, <1>13, <1>14, <1>15
  DEF Next, OnUrlFound

\* TypeOK holds in every state of the frontier.
THEOREM FrontierTypes == Spec => []TypeOK
<1>1. Spec => []TypeInv
  BY TypeInit, TypeStep, PTL DEF Spec
<1>2. TypeInv => TypeOK
  BY DEF TypeInv
<1> QED
  BY <1>1, <1>2, PTL

-----------------------------------------------------------------------------
(***************************************************************************)
(* Deduplication.  A page is claimed at most once between two resets       *)
(* because every claim leaves its bits in the filter; a page is turned     *)
(* away rightly because every bit was left by a claim.                     *)
(***************************************************************************)
Claims == {r \in issued : r.via = "filter" /\ r.epoch = epoch}

ClaimsSetBits == \A r \in Claims : Hash[r.page] \subseteq bits
BitsAreClaimed == \A b \in bits : \E r \in Claims : b \in Hash[r.page]
EpochsPast == (\A r \in issued : r.epoch <= epoch) /\ (\A g \in ignored : g.epoch <= epoch)

DedupInv == ClaimsSetBits /\ BitsAreClaimed /\ EpochsPast
               /\ ClaimedOncePerEpoch /\ IgnoredOnlyIfSeenOrCollision

\* No claim, no bit, no answer: the dedup invariant holds at first.
LEMMA DedupInit == Init => DedupInv
  BY DEF Init, DedupInv, Claims, ClaimsSetBits, BitsAreClaimed, EpochsPast,
         ClaimedOncePerEpoch, IgnoredOnlyIfSeenOrCollision

\* A handler claims a page: some bit of the page was missing, so no claim of
\* this epoch was for it.
LEMMA ClaimKeepsDedup ==
    ASSUME TypeInv, DedupInv, NEW url \in Urls,
           ~ProbablySeen(url), bits' = bits \cup BloomBits(url), Issue(url, "filter"),
           UNCHANGED <<ignored, epoch>>
    PROVE  DedupInv'
<1> DEFINE new == [id |-> nextId, page |-> Canon[url], via |-> "filter", epoch |-> epoch]
<1>1. issued' = issued \cup {new} /\ BloomBits(url) = Hash[Canon[url]]
  BY PageHasBits DEF Issue
<1>2. Claims' = Claims \cup {new}
  BY <1>1 DEF Claims
<1>3. ClaimsSetBits'
  BY <1>1, <1>2 DEF DedupInv, ClaimsSetBits
<1>4. BitsAreClaimed'
  BY <1>1, <1>2 DEF DedupInv, BitsAreClaimed
<1>5. EpochsPast'
  BY <1>1 DEF DedupInv, EpochsPast, TypeInv, TypeOK
<1>6. \A r \in Claims : r.page # Canon[url]
  BY <1>1 DEF DedupInv, ClaimsSetBits, ProbablySeen
<1>7. ClaimedOncePerEpoch'
  BY <1>1, <1>6 DEF DedupInv, ClaimedOncePerEpoch, Claims
<1>8. IgnoredOnlyIfSeenOrCollision'
  BY <1>1 DEF DedupInv, IgnoredOnlyIfSeenOrCollision
<1> QED
  BY <1>3, <1>4, <1>5, <1>7, <1>8 DEF DedupInv

\* A task that bypasses the filter touches no claim and no bit.
LEMMA BypassKeepsDedup ==
    ASSUME TypeInv, DedupInv, NEW url \in Urls, NEW via \in {"submit", "seed"}, Issue(url, via),
           UNCHANGED <<bits, ignored, epoch>>
    PROVE  DedupInv'
<1> DEFINE new == [id |-> nextId, page |-> Canon[url], via |-> via, epoch |-> epoch]
<1>1. issued' = issued \cup {new}
  BY DEF Issue
<1>2. Claims' = Claims
  BY <1>1 DEF Claims
<1> QED
  BY <1>1, <1>2 DEF DedupInv, ClaimsSetBits, BitsAreClaimed, EpochsPast, ClaimedOncePerEpoch,
         IgnoredOnlyIfSeenOrCollision, TypeInv, TypeOK

\* Every step keeps the dedup invariant.
LEMMA DedupStep == TypeInv /\ DedupInv /\ [Next]_vars => DedupInv'
<1> SUFFICES ASSUME TypeInv, DedupInv, [Next]_vars PROVE DedupInv'
  OBVIOUS
<1>1. ASSUME UNCHANGED <<bits, issued, ignored, epoch>> PROVE DedupInv'
  BY <1>1 DEF DedupInv, Claims, ClaimsSetBits, BitsAreClaimed, EpochsPast,
         ClaimedOncePerEpoch, IgnoredOnlyIfSeenOrCollision
<1>2. ASSUME NEW h \in Handlers, AddSeen(h) PROVE DedupInv'
  <2>1. call[h].url \in Urls
    BY <1>2 DEF AddSeen, TypeInv, TypeOK, Call
  <2>2. \A b \in Hash[Canon[call[h].url]] :
           \E r \in issued : r.via = "filter" /\ r.epoch = epoch /\ b \in Hash[r.page]
    BY <1>2, <2>1, PageHasBits DEF AddSeen, ProbablySeen, DedupInv, BitsAreClaimed, Claims
  <2>3. IgnoredOnlyIfSeenOrCollision'
    BY <1>2, <2>2 DEF AddSeen, DedupInv, IgnoredOnlyIfSeenOrCollision
  <2>4. EpochsPast'
    BY <1>2 DEF AddSeen, DedupInv, EpochsPast, TypeInv, TypeOK
  <2> QED
    BY <1>2, <2>3, <2>4 DEF AddSeen, DedupInv, Claims, ClaimsSetBits, BitsAreClaimed,
           ClaimedOncePerEpoch
<1>3. ASSUME NEW h \in Handlers, AddNew(h) PROVE DedupInv'
  <2>1. call[h].url \in Urls
    BY <1>3 DEF AddNew, TypeInv, TypeOK, Call
  <2> QED
    BY <1>3, <2>1, ClaimKeepsDedup DEF AddNew
<1>4. ASSUME NEW h \in Handlers, AddFails(h) PROVE DedupInv'
  <2>1. call[h].url \in Urls
    BY <1>4 DEF AddFails, TypeInv, TypeOK, Call
  <2> QED
    BY <1>1, <1>4, <2>1, ClaimKeepsDedup DEF AddFails
<1>5. ASSUME NEW url \in Urls, NEW source, NEW priority, NEW via \in {"submit", "seed"},
             Bypass(url, source, priority, via)
      PROVE  DedupInv'
  BY <1>5, BypassKeepsDedup DEF Bypass
<1>6. ASSUME Reset PROVE DedupInv'
  <2>1. epoch' = epoch + 1 /\ epoch \in Nat
    BY <1>6 DEF Reset, TypeInv, TypeOK
  <2>2. Claims' = {}
    BY <1>6, <2>1 DEF Reset, Claims, DedupInv, EpochsPast, TypeInv, TypeOK
  <2>3. EpochsPast'
    BY <1>6, <2>1 DEF Reset, DedupInv, EpochsPast, TypeInv, TypeOK
  <2> QED
    BY <1>6, <2>2, <2>3 DEF Reset, DedupInv, ClaimsSetBits, BitsAreClaimed,
           ClaimedOncePerEpoch, IgnoredOnlyIfSeenOrCollision
<1> QED
  BY FrontierAssumption, <1>1, <1>2, <1>3, <1>4, <1>5, <1>6
  DEF FrontierAssumption, Next, OnUrlFound, Find, Push, PushFails, Crash, Submit, Seed, Remove,
      Pop, Clear, vars

LEMMA DedupHolds == Spec => []DedupInv
<1>1. Init => TypeInv /\ DedupInv
  BY TypeInit, DedupInit
<1>2. TypeInv /\ DedupInv /\ [Next]_vars => (TypeInv /\ DedupInv)'
  BY TypeStep, DedupStep
<1> QED
  BY <1>1, <1>2, PTL DEF Spec

\* A page is claimed at most once between two resets, however handlers of any
\* replicas interleave (bloom_filter.py:108-122: BF.ADD decides and claims in one call).
THEOREM Deduplication == Spec => []ClaimedOncePerEpoch
<1>1. DedupInv => ClaimedOncePerEpoch
  BY DEF DedupInv
<1> QED
  BY DedupHolds, <1>1, PTL

\* A page the filter turned away has all its bits from pages claimed in the same
\* epoch: for any hash function, its only false answers are collisions.
THEOREM TurnedAwayRightly == Spec => []IgnoredOnlyIfSeenOrCollision
<1>1. DedupInv => IgnoredOnlyIfSeenOrCollision
  BY DEF DedupInv
<1> QED
  BY DedupHolds, <1>1, PTL

-----------------------------------------------------------------------------
(***************************************************************************)
(* Custody.  Ids are handed out once and in order, so a task that enters a *)
(* place is nowhere yet, and each action moves it from one place to one.   *)
(***************************************************************************)
Held == {h \in Handlers : call[h].pc = "claimed"}

Numbered == /\ \A r \in issued : r.id < nextId
            /\ \A r, s \in issued : r.id = s.id => r = s
PlacesNumbered == /\ \A h \in Held : call[h].id < nextId
                  /\ \A m \in queue : m.id < nextId
                  /\ \A x \in gone : x.id < nextId
Apart == /\ \A h, k \in Held : call[h].id = call[k].id => h = k
         /\ \A m, n \in queue : m.id = n.id => m = n
         /\ \A x, y \in gone : x.id = y.id => x = y
         /\ \A h \in Held : (\A m \in queue : call[h].id # m.id) /\ (\A x \in gone : call[h].id # x.id)
         /\ \A m \in queue, x \in gone : m.id # x.id
Somewhere == \A r \in issued : \/ \E h \in Held : call[h].id = r.id
                               \/ \E m \in queue : m.id = r.id
                               \/ \E x \in gone : x.id = r.id

CustodyInv == Numbered /\ PlacesNumbered /\ Apart /\ Somewhere

\* No task, no place.
LEMMA CustodyInit == Init => CustodyInv
  BY DEF Init, CustodyInv, Numbered, PlacesNumbered, Apart, Somewhere, Held, Idle

\* What the invariants say of ids, in the terms of the proofs below.
LEMMA Ids ==
    ASSUME TypeInv
    PROVE  /\ nextId \in Nat
           /\ \A r \in issued : r.id \in Nat
           /\ \A h \in Held : h \in Handlers /\ call[h].id \in Nat
           /\ \A m \in queue : m.id \in Nat
           /\ \A x \in gone : x.id \in Nat /\ x = [id |-> x.id, how |-> x.how]
           /\ DOMAIN call = Handlers
  BY FrontierAssumption DEF TypeInv, TypeOK, Call, FrontierAssumption, Held

\* Every step keeps the custody invariant.
LEMMA CustodyStep == TypeInv /\ CustodyInv /\ [Next]_vars => CustodyInv'
<1> SUFFICES ASSUME TypeInv, CustodyInv, [Next]_vars PROVE CustodyInv'
  OBVIOUS
<1>1. ASSUME UNCHANGED <<queue, nextId, issued, gone>>, Held' = Held,
             \A h \in Held : call'[h].id = call[h].id
      PROVE  CustodyInv'
  BY <1>1 DEF CustodyInv, Numbered, PlacesNumbered, Apart, Somewhere
<1>2. ASSUME NEW h \in Handlers, NEW url \in Urls, NEW source \in Watchers, Find(h, url, source)
      PROVE  CustodyInv'
  BY <1>1, <1>2, Ids DEF Find, Found, Held
<1>3. ASSUME NEW h \in Handlers, AddSeen(h) PROVE CustodyInv'
  BY <1>1, <1>3, Ids DEF AddSeen, Idle, Held
<1>4. ASSUME NEW h \in Handlers, AddNew(h) PROVE CustodyInv'
  <2>1. /\ nextId' = nextId + 1 /\ UNCHANGED <<queue, gone>>
        /\ issued' = issued \cup {[id |-> nextId, page |-> Canon[call[h].url], via |-> "filter", epoch |-> epoch]}
    BY <1>4 DEF AddNew, Issue
  <2>2. /\ h \notin Held /\ Held' = Held \cup {h}
        /\ call'[h].id = nextId /\ \A k \in Held : call'[k] = call[k]
    BY <1>4, Ids DEF AddNew, Claimed, Held
  <2>5. Numbered'
    BY <2>1, <2>2, Ids DEF CustodyInv, Numbered, PlacesNumbered
  <2>6. PlacesNumbered'
    BY <2>1, <2>2, Ids DEF CustodyInv, Numbered, PlacesNumbered
  <2>7. Apart'
    BY <2>1, <2>2, Ids DEF CustodyInv, Numbered, PlacesNumbered, Apart
  <2>8. Somewhere'
    BY <2>1, <2>2, Ids DEF CustodyInv, Numbered, PlacesNumbered, Somewhere
  <2> QED
    BY <2>5, <2>6, <2>7, <2>8 DEF CustodyInv
<1>5. ASSUME NEW h \in Handlers, Push(h) PROVE CustodyInv'
  <2> DEFINE m == Member(call[h].id, call[h].url, call[h].source,
                         Priority(call[h].source, DefaultAuthority))
  <2>1. queue' = queue \cup {m} /\ m.id = call[h].id /\ UNCHANGED <<nextId, issued, gone>>
    BY <1>5 DEF Push, Member
  <2>2. h \in Held /\ Held' = Held \ {h} /\ \A k \in Held' : call'[k] = call[k]
    BY <1>5, Ids DEF Push, Idle, Held
  <2> HIDE DEF m
  <2>5. Numbered'
    BY <2>1, <2>2, Ids DEF CustodyInv, Numbered, PlacesNumbered
  <2>6. PlacesNumbered'
    BY <2>1, <2>2, Ids DEF CustodyInv, Numbered, PlacesNumbered
  <2>7. Apart'
    BY <2>1, <2>2, Ids DEF CustodyInv, Numbered, PlacesNumbered, Apart
  <2>8. Somewhere'
    BY <2>1, <2>2, Ids DEF CustodyInv, Numbered, PlacesNumbered, Somewhere
  <2> QED
    BY <2>5, <2>6, <2>7, <2>8 DEF CustodyInv
<1>6. ASSUME NEW h \in Handlers, AddFails(h) PROVE CustodyInv'
  <2>1. Held' = Held /\ (\A k \in Held : call'[k] = call[k]) /\ UNCHANGED queue
    BY <1>6, Ids DEF AddFails, Idle, Held
  <2>2. CASE UNCHANGED <<nextId, issued, gone>>
    BY <1>1, <2>1, <2>2
  <2>3. CASE Issue(call[h].url, "filter") /\ Leave({nextId}, "lost")
    <3>1. /\ nextId' = nextId + 1
          /\ issued' = issued \cup {[id |-> nextId, page |-> Canon[call[h].url], via |-> "filter", epoch |-> epoch]}
          /\ gone' = gone \cup {[id |-> nextId, how |-> "lost"]}
      BY <2>3 DEF Issue, Leave
    <3>5. Numbered'
      BY <2>1, <3>1, Ids DEF CustodyInv, Numbered, PlacesNumbered
    <3>6. PlacesNumbered'
      BY <2>1, <3>1, Ids DEF CustodyInv, Numbered, PlacesNumbered
    <3>7. Apart'
      BY <2>1, <3>1, Ids DEF CustodyInv, Numbered, PlacesNumbered, Apart
    <3>8. Somewhere'
      <4>1. [id |-> nextId, how |-> "lost"] \in gone' /\ gone \subseteq gone'
        BY <3>1
      <4>2. \A r \in issued' : r \in issued \/ r.id = nextId
        BY <3>1
      <4> QED
        BY <2>1, <4>1, <4>2 DEF CustodyInv, Somewhere
    <3> QED
      BY <3>5, <3>6, <3>7, <3>8 DEF CustodyInv
  <2> QED
    BY <1>6, <2>2, <2>3 DEF AddFails
<1>7. ASSUME NEW h \in Handlers, PushFails(h) PROVE CustodyInv'
  <2>1. gone' = gone \cup {[id |-> call[h].id, how |-> "lost"]} /\ UNCHANGED <<nextId, issued, queue>>
    BY <1>7 DEF PushFails, Leave
  <2>2. h \in Held /\ Held' = Held \ {h} /\ \A k \in Held' : call'[k] = call[k]
    BY <1>7, Ids DEF PushFails, Idle, Held
  <2>5. Numbered'
    BY <2>1, <2>2, Ids DEF CustodyInv, Numbered, PlacesNumbered
  <2>6. PlacesNumbered'
    BY <2>1, <2>2, Ids DEF CustodyInv, Numbered, PlacesNumbered
  <2>7. Apart'
    BY <2>1, <2>2, Ids DEF CustodyInv, Numbered, PlacesNumbered, Apart
  <2>8. Somewhere'
    <3>1. [id |-> call[h].id, how |-> "lost"] \in gone' /\ gone \subseteq gone'
      BY <2>1
    <3>2. \A i : (\E k \in Held : call[k].id = i)
                    => (\E k \in Held' : call'[k].id = i) \/ (\E x \in gone' : x.id = i)
      BY <2>2, <3>1
    <3> QED
      BY <2>1, <3>1, <3>2 DEF CustodyInv, Somewhere
  <2> QED
    BY <2>5, <2>6, <2>7, <2>8 DEF CustodyInv
<1>8. ASSUME NEW r \in Replicas, Crash(r) PROVE CustodyInv'
  <2> DEFINE dying == {h \in Held : ReplicaOf[h] = r}
  <2>1. gone' = gone \cup {[id |-> call[h].id, how |-> "lost"] : h \in dying}
    BY <1>8 DEF Crash, Leave, Held
  <2>2. /\ Held' = Held \ dying /\ (\A k \in Held' : call'[k] = call[k])
        /\ UNCHANGED <<nextId, issued, queue>>
    BY <1>8, Ids DEF Crash, Idle, Held
  <2>3. \A x \in gone' : x \in gone \/ \E h \in dying : x = [id |-> call[h].id, how |-> "lost"]
    BY <2>1
  <2>4. dying \subseteq Held
    OBVIOUS
  <2> HIDE DEF dying
  <2>5. Numbered'
    BY <2>1, <2>2, <2>3, <2>4, Ids DEF CustodyInv, Numbered, PlacesNumbered
  <2>6. PlacesNumbered'
    BY <2>1, <2>2, <2>3, <2>4, Ids DEF CustodyInv, Numbered, PlacesNumbered
  <2>7. Apart'
    BY <2>1, <2>2, <2>3, <2>4, Ids DEF CustodyInv, Numbered, PlacesNumbered, Apart
  <2>8. Somewhere'
    <3>1. \A h \in dying : [id |-> call[h].id, how |-> "lost"] \in gone'
      BY <2>1 DEF dying
    <3>2. \A i : (\E h \in Held : call[h].id = i)
                    => (\E h \in Held' : call'[h].id = i) \/ (\E x \in gone' : x.id = i)
      BY <2>2, <3>1
    <3>3. gone \subseteq gone'
      BY <2>1
    <3> QED
      BY <2>2, <3>2, <3>3 DEF CustodyInv, Somewhere
  <2> QED
    BY <2>5, <2>6, <2>7, <2>8 DEF CustodyInv
<1>9. ASSUME NEW url, NEW source, NEW priority, NEW via, Bypass(url, source, priority, via)
      PROVE  CustodyInv'
  <2> DEFINE m == Member(nextId, url, source, priority)
  <2>1. /\ nextId' = nextId + 1 /\ UNCHANGED <<call, gone>>
        /\ issued' = issued \cup {[id |-> nextId, page |-> Canon[url], via |-> via, epoch |-> epoch]}
        /\ queue' = queue \cup {m} /\ m.id = nextId
    BY <1>9 DEF Bypass, Issue, Member
  <2>2. Held' = Held
    BY <2>1 DEF Held
  <2> HIDE DEF m
  <2>5. Numbered'
    BY <2>1, <2>2, Ids DEF CustodyInv, Numbered, PlacesNumbered
  <2>6. PlacesNumbered'
    BY <2>1, <2>2, Ids DEF CustodyInv, Numbered, PlacesNumbered
  <2>7. Apart'
    BY <2>1, <2>2, Ids DEF CustodyInv, Numbered, PlacesNumbered, Apart
  <2>8. Somewhere'
    BY <2>1, <2>2, Ids DEF CustodyInv, Numbered, PlacesNumbered, Somewhere
  <2> QED
    BY <2>5, <2>6, <2>7, <2>8 DEF CustodyInv
<1>10. ASSUME NEW left \in SUBSET queue, NEW how, queue' = queue \ left,
              gone' = gone \cup {[id |-> m.id, how |-> how] : m \in left},
              UNCHANGED <<call, nextId, issued>>
       PROVE  CustodyInv'
  <2>1. \A x \in gone' : x \in gone \/ \E m \in left : x = [id |-> m.id, how |-> how]
    BY <1>10
  <2>2. Held' = Held
    BY <1>10 DEF Held
  <2>5. Numbered'
    BY <1>10, <2>1, <2>2, Ids DEF CustodyInv, Numbered, PlacesNumbered
  <2>6. PlacesNumbered'
    BY <1>10, <2>1, <2>2, Ids DEF CustodyInv, Numbered, PlacesNumbered
  <2>7. Apart'
    BY <1>10, <2>1, <2>2, Ids DEF CustodyInv, Numbered, PlacesNumbered, Apart
  <2>8. Somewhere'
    <3>1. \A m \in left : [id |-> m.id, how |-> how] \in gone'
      BY <1>10
    <3>2. \A i : (\E m \in queue : m.id = i) => (\E m \in queue' : m.id = i) \/ (\E x \in gone' : x.id = i)
      BY <1>10, <3>1
    <3>3. gone \subseteq gone'
      BY <1>10
    <3> QED
      BY <1>10, <2>2, <3>2, <3>3 DEF CustodyInv, Somewhere
  <2> QED
    BY <2>5, <2>6, <2>7, <2>8 DEF CustodyInv
<1>11. ASSUME NEW m \in queue, NEW how, queue' = queue \ {m}, Leave({m.id}, how),
              UNCHANGED <<call, nextId, issued>>
       PROVE  CustodyInv'
  <2>1. gone' = gone \cup {[id |-> n.id, how |-> how] : n \in {m}}
    BY <1>11 DEF Leave
  <2> QED
    BY <1>10, <1>11, <2>1, {m} \in SUBSET queue
<1>12. ASSUME Clear PROVE CustodyInv'
  <2>1. gone' = gone \cup {[id |-> m.id, how |-> "discarded"] : m \in queue}
    BY <1>12 DEF Clear, Leave
  <2>2. queue' = queue \ queue /\ UNCHANGED <<call, nextId, issued>> /\ queue \in SUBSET queue
    BY <1>12 DEF Clear
  <2> QED
    BY <1>10, <2>1, <2>2
<1>13. ASSUME Reset \/ UNCHANGED vars PROVE CustodyInv'
  BY <1>1, <1>13 DEF Reset, vars, Held
<1> QED
  BY <1>2, <1>3, <1>4, <1>5, <1>6, <1>7, <1>8, <1>9, <1>11, <1>12, <1>13
  DEF Next, OnUrlFound, Submit, Seed, Remove, Pop

\* Custody is what OnePlacePerTask says.
LEMMA CustodyIsOnePlace == CustodyInv => OnePlacePerTask
<1> SUFFICES ASSUME CustodyInv, NEW r \in issued PROVE \E p \in Places(r.id) : Places(r.id) = {p}
  BY DEF OnePlacePerTask
<1>1. Places(r.id) # {}
  <2>1. CASE \E h \in Held : call[h].id = r.id
    <3>1. PICK h \in Held : call[h].id = r.id
      BY <2>1
    <3> QED
      BY <3>1, <<"hand", h>> \in Places(r.id) DEF Places, Held
  <2>2. CASE \E m \in queue : m.id = r.id
    <3>1. PICK m \in queue : m.id = r.id
      BY <2>2
    <3> QED
      BY <3>1, <<"queue", m>> \in Places(r.id) DEF Places
  <2>3. CASE \E x \in gone : x.id = r.id
    <3>1. PICK x \in gone : x.id = r.id
      BY <2>3
    <3> QED
      BY <3>1, <<"gone", x>> \in Places(r.id) DEF Places
  <2> QED
    BY <2>1, <2>2, <2>3 DEF CustodyInv, Somewhere
<1>2. \A p, q \in Places(r.id) : p = q
  BY DEF CustodyInv, Apart, Places, Held
<1> QED
  BY <1>1, <1>2

\* Every task that got past dedup is in exactly one place, in every state.
THEOREM Custody == Spec => []OnePlacePerTask
<1>1. Init => TypeInv /\ CustodyInv
  BY TypeInit, CustodyInit
<1>2. TypeInv /\ CustodyInv /\ [Next]_vars => (TypeInv /\ CustodyInv)'
  BY TypeStep, CustodyStep
<1> QED
  BY <1>1, <1>2, CustodyIsOnePlace, PTL DEF Spec

-----------------------------------------------------------------------------
(***************************************************************************)
(* Order.  Only a submission reaches a score of 158, so whatever is popped *)
(* while one is queued is a submission.                                    *)
(***************************************************************************)
SubmitScore == 158

ScoreInv ==
    /\ \A h \in Held : ~Submitted(call[h].id)
    /\ \A m \in queue : IF Submitted(m.id) THEN m.priority = SubmitScore ELSE m.priority < SubmitScore

\* The scores of the five sources, and of seeds, are below a submission's.
LEMMA SubmitOutranks ==
    /\ Priority("manual", SubmitAuthority) = SubmitScore
    /\ \A source \in Watchers : Priority(source, DefaultAuthority) < SubmitScore
    /\ SeedPriority < SubmitScore
  BY FrontierAssumption DEF FrontierAssumption, Priority, PriorityMap, SubmitAuthority,
     DefaultAuthority, SubmitScore, SeedPriority

\* Who is a submission changes only with a new id.
LEMMA NewTaskKeepsSubmitted ==
    ASSUME TypeInv, CustodyInv, NEW url, NEW via, Issue(url, via)
    PROVE  /\ \A i \in Int : i < nextId => (Submitted(i)' <=> Submitted(i))
           /\ \A i \in Int : i = nextId => (Submitted(i)' <=> via = "submit")
<1> DEFINE new == [id |-> nextId, page |-> Canon[url], via |-> via, epoch |-> epoch]
<1>1. issued' = issued \cup {new} /\ new.id = nextId /\ new.via = via
  BY DEF Issue
<1>2. \A r \in issued : r.id \in Int /\ r.id < nextId
  BY Ids DEF CustodyInv, Numbered
<1> HIDE DEF new
<1> QED
  BY <1>1, <1>2, Ids DEF Submitted

\* Every step keeps the scores apart.
LEMMA ScoreStep == TypeInv /\ CustodyInv /\ ScoreInv /\ [Next]_vars => ScoreInv'
<1> SUFFICES ASSUME TypeInv, CustodyInv, ScoreInv, [Next]_vars PROVE ScoreInv'
  OBVIOUS
<1>0. /\ \A h \in Held : call[h].id \in Int /\ call[h].id < nextId
      /\ \A m \in queue : m.id \in Int /\ m.id < nextId
  BY Ids DEF CustodyInv, PlacesNumbered
<1>1. ASSUME queue' \subseteq queue, UNCHANGED issued, Held' \subseteq Held,
             \A h \in Held' : call'[h] = call[h]
      PROVE  ScoreInv'
  BY <1>1 DEF ScoreInv, Submitted
<1>2. ASSUME NEW h \in Handlers, NEW url \in Urls, NEW source \in Watchers, Find(h, url, source)
      PROVE  ScoreInv'
  <2>1. Held' = Held /\ \A k \in Held : call'[k] = call[k]
    BY <1>2, Ids DEF Find, Found, Held
  <2> QED
    BY <1>1, <1>2, <2>1 DEF Find
<1>3. ASSUME NEW h \in Handlers, AddNew(h) PROVE ScoreInv'
  <2>1. /\ Held' = Held \cup {h} /\ call'[h].id = nextId
        /\ \A k \in Held : call'[k] = call[k]
    BY <1>3, Ids DEF AddNew, Claimed, Held
  <2>2. /\ \A i \in Int : i < nextId => (Submitted(i)' <=> Submitted(i))
        /\ \A i \in Int : i = nextId => ~Submitted(i)'
    BY <1>3, NewTaskKeepsSubmitted DEF AddNew
  <2>3. nextId \in Int /\ queue' = queue
    BY <1>3, Ids DEF AddNew
  <2>4. ASSUME NEW k \in Held' PROVE ~Submitted(call[k].id)'
    <3>1. CASE k = h
      BY <2>1, <2>2, <2>3, <3>1 DEF Submitted
    <3>2. CASE k \in Held
      BY <1>0, <2>1, <2>2, <3>2 DEF ScoreInv, Submitted
    <3> QED
      BY <2>1, <3>1, <3>2
  <2>5. ASSUME NEW m \in queue
        PROVE  IF Submitted(m.id)' THEN m.priority = SubmitScore ELSE m.priority < SubmitScore
    BY <1>0, <2>2 DEF ScoreInv, Submitted
  <2> QED
    BY <2>3, <2>4, <2>5 DEF ScoreInv, Submitted
<1>4. ASSUME NEW h \in Handlers, Push(h) PROVE ScoreInv'
  <2>1. call[h].source \in Watchers /\ h \in Held
    BY <1>4 DEF Push, TypeInv, TypeOK, Call, Held
  <2>2. Held' \subseteq Held /\ \A k \in Held' : call'[k] = call[k]
    BY <1>4, Ids DEF Push, Idle, Held
  <2>3. \A m \in queue' : m \in queue \/ (m.id = call[h].id /\ m.priority < SubmitScore)
    BY <1>4, <2>1, SubmitOutranks DEF Push, Member
  <2> QED
    BY <1>4, <2>1, <2>2, <2>3 DEF Push, ScoreInv, Submitted
<1>5. ASSUME NEW h \in Handlers, AddSeen(h) \/ AddFails(h) \/ PushFails(h) PROVE ScoreInv'
  <2>1. Held' \subseteq Held /\ (\A k \in Held' : call'[k] = call[k]) /\ UNCHANGED queue
    BY <1>5, Ids DEF AddSeen, AddFails, PushFails, Idle, Held
  <2>2. CASE UNCHANGED issued
    BY <1>1, <2>1, <2>2
  <2>3. CASE Issue(call[h].url, "filter")
    <3>1. \A i \in Int : i < nextId => (Submitted(i)' <=> Submitted(i))
      BY <2>3, NewTaskKeepsSubmitted
    <3> QED
      BY <1>0, <2>1, <3>1 DEF ScoreInv, Submitted
  <2> QED
    BY <1>5, <2>2, <2>3 DEF AddSeen, AddFails, PushFails
<1>6. ASSUME NEW r \in Replicas, Crash(r) PROVE ScoreInv'
  <2>1. Held' \subseteq Held /\ \A k \in Held' : call'[k] = call[k]
    BY <1>6, Ids DEF Crash, Idle, Held
  <2> QED
    BY <1>1, <1>6, <2>1 DEF Crash
<1>7. ASSUME NEW url, NEW source, NEW priority, NEW via, Bypass(url, source, priority, via),
             IF via = "submit" THEN priority = SubmitScore ELSE priority = SeedPriority
      PROVE  ScoreInv'
  <2>1. /\ \A i \in Int : i < nextId => (Submitted(i)' <=> Submitted(i))
        /\ \A i \in Int : i = nextId => (Submitted(i)' <=> via = "submit")
    BY <1>7, NewTaskKeepsSubmitted DEF Bypass
  <2>2. \A m \in queue' : m \in queue \/ (m.id = nextId /\ m.priority = priority)
    BY <1>7 DEF Bypass, Member
  <2>3. Held' = Held /\ UNCHANGED call
    BY <1>7 DEF Bypass, Held
  <2>4. ASSUME NEW k \in Held PROVE ~Submitted(call[k].id)'
    BY <1>0, <2>1, <2>3 DEF ScoreInv, Submitted
  <2>5. ASSUME NEW m \in queue'
        PROVE  IF Submitted(m.id)' THEN m.priority = SubmitScore ELSE m.priority < SubmitScore
    <3>1. CASE m \in queue
      BY <1>0, <2>1, <3>1 DEF ScoreInv, Submitted
    <3>2. CASE m.id = nextId /\ m.priority = priority
      <4>1. nextId \in Int
        BY Ids
      <4>2. Submitted(m.id)' <=> via = "submit"
        BY <2>1, <3>2, <4>1 DEF Submitted
      <4> QED
        BY <1>7, <3>2, <4>2, SubmitOutranks
    <3> QED
      BY <2>2, <3>1, <3>2
  <2> QED
    BY <2>3, <2>4, <2>5 DEF ScoreInv, Submitted
<1>8. ASSUME Pop \/ Clear \/ Reset \/ UNCHANGED vars \/ \E url \in Urls : Remove(url) PROVE ScoreInv'
  <2>1. queue' \subseteq queue /\ UNCHANGED <<call, issued>>
    BY <1>8 DEF Pop, Clear, Reset, Remove, vars
  <2> QED
    BY <1>1, <2>1 DEF Held
<1> QED
  BY <1>2, <1>3, <1>4, <1>5, <1>6, <1>7, <1>8, SubmitOutranks
  DEF Next, OnUrlFound, Submit, Seed

\* What leaves the queue for a crawler has the highest score.
LEMMA TakenIsHighest ==
    TypeInv /\ CustodyInv /\ ScoreInv /\ [Next]_vars =>
        \A x \in gone' \ gone :
           (x.how = "taken" /\ ~Submitted(x.id)) => ~\E m \in queue : Submitted(m.id)
<1> SUFFICES ASSUME TypeInv, ScoreInv, [Next]_vars, NEW x \in gone' \ gone,
                    x.how = "taken", ~Submitted(x.id), NEW n \in queue, Submitted(n.id)
             PROVE  FALSE
  OBVIOUS
<1>1. Pop
  BY DEF Next, OnUrlFound, Find, AddSeen, AddNew, Push, AddFails, PushFails, Crash, Submit, Seed,
         Bypass, Remove, Clear, Reset, Leave, vars
<1>2. PICK m \in queue : x.id = m.id /\ n.priority <= m.priority
  BY <1>1 DEF Pop, Leave
<1>3. m.priority \in Int /\ n.priority = SubmitScore /\ m.priority < SubmitScore
  BY <1>2 DEF ScoreInv, TypeInv, TypeOK
<1> QED
  BY <1>2, <1>3 DEF SubmitScore

\* A submitted URL is crawled before every other queued one.
THEOREM SubmissionsFirst == Spec => SubmittedFirst
<1>1. Init => TypeInv /\ CustodyInv /\ ScoreInv
  BY TypeInit, CustodyInit DEF Init, ScoreInv, Held, Idle
<1>2. TypeInv /\ CustodyInv /\ ScoreInv /\ [Next]_vars => (TypeInv /\ CustodyInv /\ ScoreInv)'
  BY TypeStep, CustodyStep, ScoreStep
<1>3. TypeInv /\ CustodyInv /\ ScoreInv /\ [Next]_vars
        => [\A x \in gone' \ gone :
              (x.how = "taken" /\ ~Submitted(x.id)) => ~\E m \in queue : Submitted(m.id)]_vars
  BY TakenIsHighest
<1> QED
  BY <1>1, <1>2, <1>3, PTL DEF Spec, SubmittedFirst

-----------------------------------------------------------------------------
(***************************************************************************)
(* The life of a task.  It waits in a handler's hand or in the queue; once *)
(* it has left, it was taken by a crawler, or is over.                     *)
(***************************************************************************)
Ticket == 1..MaxTasks
Waits(id) == (\E h \in Held : call[h].id = id) \/ (\E m \in queue : m.id = id)
IsGone(id) == \E x \in gone : x.id = id
IsTaken(id) == \E x \in gone : x.id = id /\ x.how = "taken"
TaskPhase(id) ==
    IF Waits(id) THEN "waiting" ELSE IF IsTaken(id) THEN "taken" ELSE IF IsGone(id) THEN "over" ELSE "unborn"
TaskPhases == [id \in Ticket |-> TaskPhase(id)]

Life == INSTANCE TaskQueue WITH Task <- Ticket, phase <- TaskPhases

\* Where no task comes, waits or leaves, every one is where it was.
LEMMA LifeGoesOn ==
    ASSUME \A id : Waits(id)' <=> Waits(id), gone' = gone
    PROVE  TaskPhases' = TaskPhases
  BY DEF TaskPhases, TaskPhase, IsTaken, IsGone

\* Tasks that leave were waiting, and go the one way they go.
LEMMA TasksLeave ==
    ASSUME CustodyInv, NEW ids \in SUBSET Ticket, NEW how \in {"taken", "lost", "discarded"},
           \A id \in ids : Waits(id), \A id : Waits(id)' <=> Waits(id) /\ id \notin ids,
           gone' = gone \cup {[id |-> i, how |-> how] : i \in ids}
    PROVE  /\ ids \subseteq Life!In("waiting")
           /\ TaskPhases' = [id \in Ticket |-> IF id \in ids THEN (IF how = "taken" THEN "taken" ELSE "over") ELSE TaskPhases[id]]
<1>1. \A id \in ids : ~IsGone(id)
  BY DEF CustodyInv, Apart, Waits, IsGone
<1>2. ASSUME NEW id \in ids
      PROVE  TaskPhase(id) = "waiting" /\ TaskPhase(id)' = IF how = "taken" THEN "taken" ELSE "over"
  <2>1. ~Waits(id)' /\ IsGone(id)'
    <3>1. [id |-> id, how |-> how] \in gone'
      OBVIOUS
    <3> QED
      BY <3>1 DEF IsGone
  <2>2. IsTaken(id)' <=> how = "taken"
    <3>1. \A x \in gone' : x.id = id => x = [id |-> id, how |-> how]
      BY <1>1 DEF IsGone
    <3>2. [id |-> id, how |-> how] \in gone'
      OBVIOUS
    <3> QED
      BY <3>1, <3>2 DEF IsTaken
  <2> QED
    BY <2>1, <2>2 DEF TaskPhase
<1>3. ASSUME NEW id, id \notin ids PROVE TaskPhase(id)' = TaskPhase(id)
  <2>1. \A x \in gone' : x.id = id => x \in gone
    BY <1>3
  <2>2. (IsGone(id)' <=> IsGone(id)) /\ (IsTaken(id)' <=> IsTaken(id))
    BY <2>1 DEF IsGone, IsTaken
  <2> QED
    BY <1>3, <2>2 DEF TaskPhase
<1>4. ids \subseteq Life!In("waiting")
  BY <1>2 DEF Life!In, TaskPhases
<1> QED
  BY <1>2, <1>3, <1>4 DEF TaskPhases

\* The next id is no task's yet.
LEMMA NextIsUnborn == ASSUME TypeInv, CustodyInv PROVE ~Waits(nextId) /\ ~IsGone(nextId) /\ ~IsTaken(nextId)
  BY Ids DEF CustodyInv, PlacesNumbered, Waits, IsGone, IsTaken

\* A new task waits, or is lost.
LEMMA TaskEnters ==
    ASSUME TypeInv, CustodyInv, NEW new \in Ticket, new = nextId,
           \/ (\A id : Waits(id)' <=> Waits(id) \/ id = new) /\ gone' = gone
           \/ (\A id : Waits(id)' <=> Waits(id)) /\ gone' = gone \cup {[id |-> new, how |-> "lost"]}
    PROVE  Life!Enter(new)
<1>1. ~Waits(new) /\ ~IsGone(new) /\ ~IsTaken(new)
  BY NextIsUnborn
<1>2. new \in Life!In("unborn")
  BY <1>1 DEF Life!In, TaskPhases, TaskPhase
<1>3. CASE (\A id : Waits(id)' <=> Waits(id) \/ id = new) /\ gone' = gone
  <2>1. \A id : TaskPhase(id)' = IF id = new THEN "waiting" ELSE TaskPhase(id)
    BY <1>3 DEF TaskPhase, IsTaken, IsGone
  <2> QED
    BY <1>2, <2>1 DEF Life!Enter, Life!Move, TaskPhases
<1>4. CASE (\A id : Waits(id)' <=> Waits(id)) /\ gone' = gone \cup {[id |-> new, how |-> "lost"]}
  <2>1. \A id : id # new => (IsGone(id)' <=> IsGone(id))
    BY <1>4 DEF IsGone
  <2>2. \A id : IsTaken(id)' <=> IsTaken(id)
    BY <1>4 DEF IsTaken
  <2>3. IsGone(new)'
    <3>1. [id |-> new, how |-> "lost"] \in gone'
      BY <1>4
    <3> QED
      BY <3>1 DEF IsGone
  <2>4. \A id : TaskPhase(id)' = IF id = new THEN "over" ELSE TaskPhase(id)
    BY <1>1, <1>4, <2>1, <2>2, <2>3 DEF TaskPhase
  <2> QED
    BY <1>2, <2>4 DEF Life!Enter, Life!Move, TaskPhases
<1> QED
  BY <1>3, <1>4

\* Waiting tasks leave as a step of TaskQueue says.
LEMMA TasksGo ==
    ASSUME CustodyInv, NEW ids \in SUBSET Ticket, NEW how \in {"taken", "lost", "discarded"},
           how = "taken" => \E id \in ids : ids = {id},
           \A id \in ids : Waits(id), \A id : Waits(id)' <=> Waits(id) /\ id \notin ids,
           gone' = gone \cup {[id |-> i, how |-> how] : i \in ids}
    PROVE  [Life!Next]_TaskPhases
<1>1. /\ ids \subseteq Life!In("waiting")
      /\ TaskPhases' = [id \in Ticket |-> IF id \in ids THEN (IF how = "taken" THEN "taken" ELSE "over") ELSE TaskPhases[id]]
  BY TasksLeave
<1>2. CASE ids = {}
  BY <1>1, <1>2 DEF TaskPhases
<1>3. CASE how = "taken"
  <2>1. PICK id \in Ticket : ids = {id}
    BY <1>3
  <2>2. Life!Take(id)
    BY <1>1, <1>3, <2>1 DEF Life!Take, Life!Move
  <2> QED
    BY <2>2 DEF Life!Next
<1>4. CASE ids # {} /\ how # "taken"
  <2>1. Life!End(ids)
    BY <1>1, <1>4 DEF Life!End, Life!Move
  <2> QED
    BY <2>1 DEF Life!Next
<1> QED
  BY <1>2, <1>3, <1>4

\* Every step of the frontier is a step of TaskQueue, or moves no task.
LEMMA LifeStep == TypeInv /\ CustodyInv /\ [Next]_vars => [Life!Next]_TaskPhases
<1> SUFFICES ASSUME TypeInv, CustodyInv, [Next]_vars PROVE [Life!Next]_TaskPhases
  OBVIOUS
<1>1. ASSUME NEW h \in Handlers, NEW url \in Urls, NEW source \in Watchers, Find(h, url, source)
      PROVE  TaskPhases' = TaskPhases
  <2>1. Held' = Held /\ (\A k \in Held : call'[k] = call[k]) /\ UNCHANGED <<queue, gone>>
    BY <1>1, Ids DEF Find, Found, Held
  <2> QED
    BY <2>1, LifeGoesOn DEF Waits
<1>2. ASSUME NEW h \in Handlers, AddSeen(h) PROVE TaskPhases' = TaskPhases
  <2>1. Held' = Held /\ (\A k \in Held : call'[k] = call[k]) /\ UNCHANGED <<queue, gone>>
    BY <1>2, Ids DEF AddSeen, Idle, Held
  <2> QED
    BY <2>1, LifeGoesOn DEF Waits
<1>3. ASSUME NEW h \in Handlers, AddNew(h) PROVE Life!Enter(nextId) /\ nextId \in Ticket
  <2>1. /\ h \notin Held /\ Held' = Held \cup {h}
        /\ call'[h].id = nextId /\ \A k \in Held : call'[k] = call[k]
    BY <1>3, Ids DEF AddNew, Claimed, Held
  <2>2. UNCHANGED <<queue, gone>> /\ nextId \in Ticket
    BY <1>3 DEF AddNew, Issue, Ticket, TypeInv, TypeOK
  <2>3. \A id : Waits(id)' <=> Waits(id) \/ id = nextId
    BY <2>1, <2>2 DEF Waits
  <2> QED
    BY <2>2, <2>3, TaskEnters
<1>4. ASSUME NEW h \in Handlers, Push(h) PROVE TaskPhases' = TaskPhases
  <2>1. PICK m : queue' = queue \cup {m} /\ m.id = call[h].id /\ gone' = gone
    BY <1>4 DEF Push, Member
  <2>2. h \in Held /\ Held' = Held \ {h} /\ \A k \in Held' : call'[k] = call[k]
    BY <1>4, Ids DEF Push, Idle, Held
  <2>3. \A id : Waits(id)' <=> Waits(id)
    BY <2>1, <2>2 DEF Waits
  <2> QED
    BY <2>1, <2>3, LifeGoesOn
<1>5. ASSUME NEW h \in Handlers, AddFails(h) PROVE [Life!Next]_TaskPhases
  <2>1. Held' = Held /\ (\A k \in Held : call'[k] = call[k]) /\ UNCHANGED queue
    BY <1>5, Ids DEF AddFails, Idle, Held
  <2>2. \A id : Waits(id)' <=> Waits(id)
    BY <2>1 DEF Waits
  <2>3. CASE gone' = gone
    BY <2>2, <2>3, LifeGoesOn
  <2>4. CASE nextId <= MaxTasks /\ gone' = gone \cup {[id |-> nextId, how |-> "lost"]}
    <3>1. nextId \in Ticket
      BY <2>4 DEF Ticket, TypeInv, TypeOK
    <3>2. Life!Enter(nextId)
      BY <2>2, <2>4, <3>1, TaskEnters
    <3> QED
      BY <3>1, <3>2 DEF Life!Next
  <2> QED
    BY <1>5, <2>3, <2>4 DEF AddFails, Issue, Leave
<1>6. ASSUME NEW fallen \in SUBSET Held, Held' = Held \ fallen, \A k \in Held' : call'[k] = call[k], UNCHANGED queue,
             gone' = gone \cup {[id |-> i, how |-> "lost"] : i \in {call[h].id : h \in fallen}}
      PROVE  [Life!Next]_TaskPhases
  <2>1. PICK ids : ids = {call[h].id : h \in fallen}
    OBVIOUS
  <2>2. ids \in SUBSET Ticket
    BY <2>1 DEF Held, TypeInv, TypeOK, Call, Ticket
  <2>3. \A id \in ids : Waits(id)
    BY <2>1 DEF Waits
  <2>4. \A id : Waits(id)' <=> Waits(id) /\ id \notin ids
    <3>1. \A h \in fallen : (\A k \in Held' : call[k].id # call[h].id) /\ (\A m \in queue : m.id # call[h].id)
      BY <1>6 DEF CustodyInv, Apart
    <3>2. \A h \in Held : h \in Held' \/ h \in fallen
      BY <1>6
    <3> QED
      BY <1>6, <2>1, <3>1, <3>2 DEF Waits
  <2> QED
    BY <1>6, <2>1, <2>2, <2>3, <2>4, TasksGo
<1>7. ASSUME NEW h \in Handlers, PushFails(h) PROVE [Life!Next]_TaskPhases
  <2>1. gone' = gone \cup {[id |-> i, how |-> "lost"] : i \in {call[k].id : k \in {h}}} /\ UNCHANGED queue
    BY <1>7 DEF PushFails, Leave
  <2>2. h \in Held /\ Held' = Held \ {h} /\ \A k \in Held' : call'[k] = call[k]
    BY <1>7, Ids DEF PushFails, Idle, Held
  <2> QED
    BY <1>6, <2>1, <2>2, {h} \in SUBSET Held
<1>8. ASSUME NEW r \in Replicas, Crash(r) PROVE [Life!Next]_TaskPhases
  <2>1. PICK fallen \in SUBSET Held : fallen = {h \in Held : ReplicaOf[h] = r}
    OBVIOUS
  <2>2. {h \in {k \in Handlers : ReplicaOf[k] = r} : call[h].pc = "claimed"} = fallen
    BY <2>1 DEF Held
  <2>3. gone' = gone \cup {[id |-> i, how |-> "lost"] : i \in {call[h].id : h \in fallen}} /\ UNCHANGED queue
    BY <1>8, <2>2 DEF Crash, Leave
  <2>4. Held' = Held \ fallen /\ (\A k \in Held' : call'[k] = call[k])
    BY <1>8, <2>1, Ids DEF Crash, Idle, Held
  <2> QED
    BY <1>6, <2>3, <2>4
<1>9. ASSUME NEW url, NEW source, NEW priority, NEW via, Bypass(url, source, priority, via)
      PROVE  Life!Enter(nextId) /\ nextId \in Ticket
  <2>1. PICK m : m = Member(nextId, url, source, priority)
    OBVIOUS
  <2>2. nextId \in Ticket
    BY <1>9 DEF Bypass, Issue, Ticket, TypeInv, TypeOK
  <2>3. queue' = queue \cup {m} /\ m.id = nextId /\ UNCHANGED <<call, gone>>
    BY <1>9, <2>1 DEF Bypass, Member
  <2>4. \A id : Waits(id)' <=> Waits(id) \/ id = nextId
    BY <2>3 DEF Waits, Held
  <2> QED
    BY <2>2, <2>3, <2>4, TaskEnters
<1>10. ASSUME NEW left \in SUBSET queue, NEW how \in {"taken", "discarded"}, queue' = queue \ left, UNCHANGED call,
              how = "taken" => \E m \in left : left = {m},
              gone' = gone \cup {[id |-> i, how |-> how] : i \in {m.id : m \in left}}
       PROVE  [Life!Next]_TaskPhases
  <2>1. PICK ids : ids = {m.id : m \in left}
    OBVIOUS
  <2>2. ids \in SUBSET Ticket
    BY <2>1 DEF TypeInv, TypeOK, Ticket
  <2>3. \A id \in ids : Waits(id)
    BY <2>1 DEF Waits
  <2>4. \A id : Waits(id)' <=> Waits(id) /\ id \notin ids
    <3>1. \A m \in left : (\A n \in queue' : n.id # m.id) /\ (\A h \in Held : call[h].id # m.id)
      BY <1>10 DEF CustodyInv, Apart
    <3>2. \A m \in queue : m \in queue' \/ m \in left
      BY <1>10
    <3>3. Held' = Held
      BY <1>10 DEF Held
    <3> QED
      BY <1>10, <2>1, <3>1, <3>2, <3>3 DEF Waits
  <2>5. how = "taken" => \E id \in ids : ids = {id}
    BY <1>10, <2>1
  <2>6. gone' = gone \cup {[id |-> i, how |-> how] : i \in ids}
    BY <1>10, <2>1
  <2> QED
    BY <2>2, <2>3, <2>4, <2>5, <2>6, TasksGo, how \in {"taken", "lost", "discarded"}
<1>11. ASSUME NEW m \in queue, NEW how \in {"taken", "discarded"}, queue' = queue \ {m}, Leave({m.id}, how), UNCHANGED call
       PROVE  [Life!Next]_TaskPhases
  <2>1. {n.id : n \in {m}} = {m.id} /\ {m} \in SUBSET queue
    OBVIOUS
  <2> QED
    BY <1>10, <1>11, <2>1 DEF Leave
<1>12. ASSUME Clear PROVE [Life!Next]_TaskPhases
  <2>1. gone' = gone \cup {[id |-> i, how |-> "discarded"] : i \in {m.id : m \in queue}}
    BY <1>12 DEF Clear, Leave
  <2>2. queue' = queue \ queue /\ UNCHANGED call /\ queue \in SUBSET queue
    BY <1>12 DEF Clear
  <2> QED
    BY <1>10, <2>1, <2>2
<1>13. ASSUME Reset \/ UNCHANGED vars PROVE TaskPhases' = TaskPhases
  <2>1. UNCHANGED <<call, queue, gone>>
    BY <1>13 DEF Reset, vars
  <2> QED
    BY <2>1, LifeGoesOn DEF Waits, Held
<1> QED
  BY <1>1, <1>2, <1>3, <1>4, <1>5, <1>7, <1>8, <1>9, <1>11, <1>12, <1>13
  DEF Next, OnUrlFound, Submit, Seed, Remove, Pop, Life!Next

\* The frontier implements TaskQueue: a task that passed the filter or bypassed
\* it enters the queue once, BZPOPMAX gives it to one crawler, and nothing
\* brings it back (redis_queue.py, _on_url_found).
THEOREM TasksEnterOnce == Spec => Life!Spec
<1>1. Init => Life!Init
  <2>1. ASSUME Init PROVE \A id \in Ticket : TaskPhase(id) = "unborn"
    BY <2>1 DEF Init, TaskPhase, Waits, IsTaken, IsGone, Held, Idle
  <2> QED
    BY <2>1 DEF Life!Init, TaskPhases
<1>2. Spec => [](TypeInv /\ CustodyInv)
  <2>1. Init => TypeInv /\ CustodyInv
    BY TypeInit, CustodyInit
  <2>2. TypeInv /\ CustodyInv /\ [Next]_vars => (TypeInv /\ CustodyInv)'
    BY TypeStep, CustodyStep
  <2> QED
    BY <2>1, <2>2, PTL DEF Spec
<1> QED
  BY <1>1, <1>2, LifeStep, PTL DEF Spec, Life!Spec
=============================================================================
