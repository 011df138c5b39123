-------------------------- MODULE DiscoveryProofs --------------------------
(***************************************************************************)
(* Theorems about Discovery, for any sites, sitemaps, crawl events, topics *)
(* and scenes and any bounds.  Each watcher sees the steps of the service  *)
(* as its own steps, its begin, its cancellation or the closing of its     *)
(* client; its invariant is kept by each of these.                         *)
(***************************************************************************)
EXTENDS Discovery, StreamProofs, Selection, FiniteSetTheorems

-----------------------------------------------------------------------------
\* What a step of the service is for each watcher.
LEMMA WebSubFrame ==
    ASSUME [Next]_vars
    PROVE  Sub!WebSubNext \/ Sub!BeginWebSub \/ Sub!CancelWebSub \/ Sub!CloseSession \/ UNCHANGED subVars
  BY DEF Next, Lifecycle, Start, StartFails, EndOnException, Crash, Stop, Kill, CancelTasks,
         SitemapTask, SitemapWorld, LinkTask, LinkWorld, ScannerTask, ScannerWorld,
         WebSubTask, WebSubWorld, MonitorTask, vars, Sub!WebSubNext

LEMMA SitemapFrame ==
    ASSUME [Next]_vars
    PROVE  \/ Sitemap!SitemapNext \/ Sitemap!BeginSitemap \/ Sitemap!CancelSitemap \/ Sitemap!CloseClient
           \/ UNCHANGED sitemapVars
  BY DEF Next, Lifecycle, Start, StartFails, EndOnException, Crash, Stop, Kill, CancelTasks,
         SitemapTask, SitemapWorld, LinkTask, LinkWorld, ScannerTask, ScannerWorld,
         WebSubTask, WebSubWorld, MonitorTask, vars, Sitemap!SitemapNext

LEMMA LinkFrame ==
    ASSUME [Next]_vars
    PROVE  Link!LinkNext \/ Link!BeginLinks \/ Link!CancelLinks \/ UNCHANGED linkVars
  BY DEF Next, Lifecycle, Start, StartFails, EndOnException, Crash, Stop, Kill, CancelTasks,
         SitemapTask, SitemapWorld, LinkTask, LinkWorld, ScannerTask, ScannerWorld,
         WebSubTask, WebSubWorld, MonitorTask, vars, Link!LinkNext

LEMMA ScannerFrame ==
    ASSUME [Next]_vars
    PROVE  \/ Scan!ScannerNext \/ Scan!BeginScanner \/ Scan!CancelScanner \/ Scan!StopScanner
           \/ UNCHANGED scanVars
  BY DEF Next, Lifecycle, Start, StartFails, EndOnException, Crash, Stop, Kill, CancelTasks,
         SitemapTask, SitemapWorld, LinkTask, LinkWorld, ScannerTask, ScannerWorld,
         WebSubTask, WebSubWorld, MonitorTask, vars, Scan!ScannerNext

-----------------------------------------------------------------------------
(***************************************************************************)
(* WebSub.  The secret a hub will sign with is the one it was last given;  *)
(* of a topic that is not torn, at most one call is under way, and the     *)
(* hub has that call's secret as soon as the call is to be recorded.       *)
(***************************************************************************)
Secret(t) == IF hub[t].asked # Sub!None THEN hub[t].asked ELSE hub[t].active
OnTopic(w, t) == Sub!Busy(w) /\ caller[w].topic = t
Recording(t) == \E w \in Sub!Subscribers : OnTopic(w, t) /\ caller[w].pc = "record"

OneCall(t) == \A v, w \in Sub!Subscribers : OnTopic(v, t) /\ OnTopic(w, t) => v = w
CallIsKnown(t) ==
    \A w \in Sub!Subscribers : OnTopic(w, t) /\ caller[w].pc = "record" => Secret(t) \in {Sub!None, caller[w].secret}
RecordIsKnown(t) == Secret(t) # Sub!None /\ Sub!Recorded(t) /\ ~Recording(t) => record[t].secret = Secret(t)

WebSubTypes ==
    /\ caller \in [Sub!Subscribers -> {Sub!NoCall} \cup
                      [pc : {"request", "record", "expire"}, topic : Topics, secret : 1..MaxSecrets]]
    /\ record \in [Topics -> [secret : 0..MaxSecrets, soon : BOOLEAN, lasting : BOOLEAN]]
    /\ hub \in [Topics -> [asked : 0..MaxSecrets, active : 0..MaxSecrets]]
    /\ requested \in 0..MaxSecrets

WebSubInv ==
    /\ WebSubTypes
    /\ \A t \in Topics \ torn : OneCall(t) /\ CallIsKnown(t) /\ RecordIsKnown(t)

LEMMA WebSubInitially == Init => WebSubInv
  BY DiscoveryAssumption DEF DiscoveryAssumption, Init, WebSubInv, WebSubTypes, OneCall, CallIsKnown, RecordIsKnown,
     OnTopic, Secret, Sub!InitWebSub, Sub!WebSubAssumption, Sub!NoRecord, Sub!Recorded, Sub!None, Sub!NoCall, Sub!Busy

\* The fields of a call under way.
LEMMA CallFields ==
    ASSUME WebSubInv, NEW w \in Sub!Subscribers, Sub!Busy(w)
    PROVE  caller[w] \in [pc : {"request", "record", "expire"}, topic : Topics, secret : 1..MaxSecrets]
  BY DEF WebSubInv, WebSubTypes, Sub!Busy

\* A topic keeps its invariant when no call on it, no secret and no record of
\* it changes, except that calls end other than at the record.
LEMMA TopicUntouched ==
    ASSUME NEW t, OneCall(t), CallIsKnown(t), RecordIsKnown(t),
           \A w \in Sub!Subscribers : OnTopic(w, t)' => OnTopic(w, t) /\ caller'[w].secret = caller[w].secret
                                                       /\ (caller'[w].pc = "record" <=> caller[w].pc = "record"),
           \A w \in Sub!Subscribers : OnTopic(w, t) /\ caller[w].pc = "record" => OnTopic(w, t)',
           Secret(t)' \in {Sub!None, Secret(t)},
           ~Sub!Recorded(t)' \/ (Sub!Recorded(t) /\ record'[t].secret = record[t].secret)
    PROVE  OneCall(t)' /\ CallIsKnown(t)' /\ RecordIsKnown(t)'
  BY DEF OneCall, CallIsKnown, RecordIsKnown, Recording

\* A new call: on a topic that stays whole it is the only one.
LEMMA SubscribeStep ==
    ASSUME WebSubInv, NEW w \in Sub!Subscribers, NEW u \in Topics, ~Sub!Busy(w), Sub!Subscribe(w, u),
           UNCHANGED <<record, hub>>
    PROVE  WebSubInv'
<1> USE DEF Sub!None
<1>1. PICK call : /\ call = Sub!Call("request", u, requested + 1)
                  /\ call \in [pc : {"request", "record", "expire"}, topic : Topics, secret : 1..MaxSecrets]
                  /\ call # Sub!NoCall /\ call.pc = "request" /\ call.topic = u
  BY DiscoveryAssumption DEF DiscoveryAssumption, Sub!WebSubAssumption, WebSubInv, WebSubTypes, Sub!Subscribe, Sub!Call, Sub!NoCall
<1>2. caller' = [caller EXCEPT ![w] = call]
  BY <1>1 DEF Sub!Subscribe, Sub!Put
<1>3. WebSubTypes'
  BY <1>1, <1>2, DiscoveryAssumption
     DEF DiscoveryAssumption, Sub!WebSubAssumption, WebSubInv, WebSubTypes, Sub!Subscribe
<1>4. ASSUME NEW t \in Topics \ torn' PROVE OneCall(t)' /\ CallIsKnown(t)' /\ RecordIsKnown(t)'
  <2>1. t \notin torn /\ (t = u => ~Sub!Subscribing(t))
    BY <1>4 DEF Sub!Subscribe
  <2>2. OneCall(t) /\ CallIsKnown(t) /\ RecordIsKnown(t)
    BY <2>1 DEF WebSubInv
  <2>3. \A v \in Sub!Subscribers : v # w => caller'[v] = caller[v]
    BY <1>2 DEF WebSubInv, WebSubTypes
  <2>4. caller'[w] = call
    BY <1>2 DEF WebSubInv, WebSubTypes
  <2>5. \A v \in Sub!Subscribers : v # w => (OnTopic(v, t)' <=> OnTopic(v, t))
    BY <2>3 DEF OnTopic, Sub!Busy
  <2>6. Secret(t)' = Secret(t) /\ record'[t] = record[t]
    BY DEF Secret
  <2>7. CASE t = u
    <3>1. \A v \in Sub!Subscribers : ~OnTopic(v, t)
      BY <2>1, <2>7 DEF OnTopic, Sub!Subscribing
    <3>2. \A v \in Sub!Subscribers : OnTopic(v, t)' => v = w
      BY <2>5, <3>1
    <3>3. ~Recording(t) /\ (\A v \in Sub!Subscribers : OnTopic(v, t)' => caller'[v].pc = "request")
      BY <1>1, <2>4, <3>1, <3>2 DEF Recording
    <3> QED
      BY <2>2, <2>6, <3>2, <3>3 DEF OneCall, CallIsKnown, RecordIsKnown, Sub!Recorded
  <2>8. CASE t # u
    <3>1. ~OnTopic(w, t) /\ ~OnTopic(w, t)'
      BY <1>1, <2>4, <2>8 DEF OnTopic, Sub!Busy
    <3> QED
      BY <2>2, <2>3, <2>5, <2>6, <3>1, TopicUntouched DEF Sub!Recorded
  <2> QED
    BY <2>7, <2>8
<1> QED
  BY <1>3, <1>4 DEF WebSubInv

\* The call's own steps.
LEMMA RequestStep ==
    ASSUME WebSubInv, NEW w \in Sub!Subscribers, Sub!Request(w)
    PROVE  WebSubInv'
<1> USE DEF Sub!None, Sub!Recorded
<1>1. PICK t \in Topics, s \in 1..MaxSecrets :
            Sub!Busy(w) /\ caller[w] = Sub!Call("request", t, s) /\ caller[w].topic = t /\ caller[w].secret = s
                        /\ caller[w].pc = "request"
  BY CallFields DEF Sub!Request, Sub!Call
<1>2. PICK call, given : /\ caller' = [caller EXCEPT ![w] = call] /\ hub' = [hub EXCEPT ![t] = given]
                         /\ given.active = hub[t].active
                         /\ \/ call = Sub!Call("record", t, s) /\ given.asked = s /\ (torn' = torn \/ Sub!Alone(w, t))
                            \/ call = Sub!NoCall /\ given.asked = hub[t].asked /\ torn' = torn
                            \/ call = Sub!NoCall /\ given.asked = s /\ t \in torn'
                         /\ given \in [asked : 0..MaxSecrets, active : 0..MaxSecrets]
  <2>1. hub[t] \in [asked : 0..MaxSecrets, active : 0..MaxSecrets] /\ hub = [hub EXCEPT ![t] = hub[t]]
    BY DEF WebSubInv, WebSubTypes
  <2>2. [hub EXCEPT ![t].asked = s] = [hub EXCEPT ![t] = [hub[t] EXCEPT !.asked = s]]
    BY DEF WebSubInv, WebSubTypes
  <2>3. /\ [hub[t] EXCEPT !.asked = s].asked = s /\ [hub[t] EXCEPT !.asked = s].active = hub[t].active
        /\ [hub[t] EXCEPT !.asked = s] \in [asked : 0..MaxSecrets, active : 0..MaxSecrets]
    BY <2>1
  <2>4. \/ /\ hub' = [hub EXCEPT ![t].asked = s] /\ caller' = [caller EXCEPT ![w] = Sub!Call("record", t, s)]
           /\ torn' = torn \/ Sub!Alone(w, t)
        \/ hub' = hub /\ caller' = [caller EXCEPT ![w] = Sub!NoCall] /\ torn' = torn
        \/ hub' = [hub EXCEPT ![t].asked = s] /\ caller' = [caller EXCEPT ![w] = Sub!NoCall] /\ t \in torn'
    BY <1>1 DEF Sub!Request, Sub!Put, Sub!Tear, Sub!Mend
  <2> QED
    BY <2>1, <2>2, <2>3, <2>4
<1>3. torn \ {t} \subseteq torn' /\ UNCHANGED <<record, requested>>
  BY <1>1 DEF Sub!Request, Sub!Tear, Sub!Mend
<1>4. \A v \in Sub!Subscribers : v # w => caller'[v] = caller[v]
  BY <1>2 DEF WebSubInv, WebSubTypes
<1>5. caller'[w] = call /\ hub'[t] = given /\ \A u \in Topics : u # t => hub'[u] = hub[u]
  BY <1>2 DEF WebSubInv, WebSubTypes
<1>6. WebSubTypes'
  <2>1. call \in {Sub!NoCall} \cup [pc : {"request", "record", "expire"}, topic : Topics, secret : 1..MaxSecrets]
    BY <1>2 DEF Sub!Call
  <2> QED
    BY <1>2, <1>3, <2>1 DEF WebSubInv, WebSubTypes
<1>7. \A v \in Sub!Subscribers, u \in Topics : v # w => (OnTopic(v, u)' <=> OnTopic(v, u))
  BY <1>4 DEF OnTopic, Sub!Busy
<1>8. ASSUME NEW u \in Topics \ torn' PROVE OneCall(u)' /\ CallIsKnown(u)' /\ RecordIsKnown(u)'
  <2>1. u \notin torn => OneCall(u) /\ CallIsKnown(u) /\ RecordIsKnown(u)
    BY <1>8 DEF WebSubInv
  <2>2. record'[u] = record[u]
    BY <1>3
  <2>3. CASE u = t /\ call = Sub!Call("record", t, s) /\ given.asked = s /\ (torn' = torn \/ Sub!Alone(w, t))
    <3>1. OnTopic(w, u) /\ OnTopic(w, u)' /\ caller'[w].pc = "record" /\ caller'[w].secret = s
      BY <1>1, <1>5, <2>3 DEF OnTopic, Sub!Busy, Sub!Call, Sub!NoCall
    <3>2. \A v \in Sub!Subscribers : OnTopic(v, u) => v = w
      BY <1>8, <2>1, <2>3, <3>1 DEF OneCall, Sub!Alone, OnTopic
    <3>21. \A v \in Sub!Subscribers : OnTopic(v, u)' => v = w
      BY <1>7, <3>2
    <3>3. Secret(u)' = s
      BY <1>5, <2>3 DEF Secret
    <3>4. Recording(u)'
      BY <3>1 DEF Recording
    <3> QED
      BY <3>1, <3>21, <3>3, <3>4 DEF OneCall, CallIsKnown, RecordIsKnown
  <2>4. CASE u # t \/ (call = Sub!NoCall /\ given.asked = hub[t].asked /\ torn' = torn)
    <3>0. u \notin torn
      BY <1>3, <1>8, <2>4
    <3>1. Secret(u)' = Secret(u)
      BY <1>2, <1>5, <2>4 DEF Secret
    <3>2. OnTopic(w, u)' => u = t /\ call # Sub!NoCall
      BY <1>2, <1>5 DEF OnTopic, Sub!Busy, Sub!Call, Sub!NoCall
    <3>3. ~(OnTopic(w, u) /\ caller[w].pc = "record")
      BY <1>1
    <3> QED
      BY <1>4, <1>7, <2>1, <2>2, <2>4, <3>0, <3>1, <3>2, <3>3, TopicUntouched
  <2> QED
    BY <1>2, <1>8, <2>3, <2>4
<1> QED
  BY <1>6, <1>8 DEF WebSubInv

LEMMA StoreRecordStep ==
    ASSUME WebSubInv, NEW w \in Sub!Subscribers, Sub!StoreRecord(w)
    PROVE  WebSubInv'
<1> USE DEF Sub!None, Sub!Recorded
<1>1. PICK t \in Topics, s \in 1..MaxSecrets :
            Sub!Busy(w) /\ caller[w] = Sub!Call("record", t, s) /\ caller[w].topic = t /\ caller[w].secret = s
                        /\ caller[w].pc = "record"
  BY CallFields DEF Sub!StoreRecord, Sub!Call
<1>2. PICK call, rec : /\ caller' = [caller EXCEPT ![w] = call] /\ record' = [record EXCEPT ![t] = rec]
                       /\ rec \in [secret : 0..MaxSecrets, soon : BOOLEAN, lasting : BOOLEAN]
                       /\ \/ call = Sub!Call("expire", t, s) /\ rec.secret = s
                          \/ call = Sub!NoCall /\ t \in torn'
  <2>1. record[t] \in [secret : 0..MaxSecrets, soon : BOOLEAN, lasting : BOOLEAN] /\ record = [record EXCEPT ![t] = record[t]]
    BY DEF WebSubInv, WebSubTypes
  <2>2. PICK stored : stored = [secret |-> s, soon |-> FALSE, lasting |-> record[t].lasting]
    OBVIOUS
  <2>21. stored \in [secret : 0..MaxSecrets, soon : BOOLEAN, lasting : BOOLEAN] /\ stored.secret = s
    BY <2>1, <2>2
  <2>22. [record EXCEPT ![t] = [secret |-> s, soon |-> FALSE, lasting |-> @.lasting]] = [record EXCEPT ![t] = stored]
    BY <2>2
  <2>3. \/ /\ caller' = [caller EXCEPT ![w] = Sub!Call("expire", t, s)]
           /\ record' = [record EXCEPT ![t] = stored]
        \/ /\ caller' = [caller EXCEPT ![w] = Sub!NoCall] /\ t \in torn'
           /\ record' = record \/ record' = [record EXCEPT ![t] = stored]
    BY <1>1, <2>22 DEF Sub!StoreRecord, Sub!Put, Sub!Tear
  <2>4. CASE caller' = [caller EXCEPT ![w] = Sub!Call("expire", t, s)] /\ record' = [record EXCEPT ![t] = stored]
    BY <2>21, <2>4
  <2>5. CASE caller' = [caller EXCEPT ![w] = Sub!NoCall] /\ t \in torn' /\ record' = record
    BY <2>1, <2>5
  <2>6. CASE caller' = [caller EXCEPT ![w] = Sub!NoCall] /\ t \in torn'
             /\ record' = [record EXCEPT ![t] = stored]
    BY <2>21, <2>6
  <2> QED
    BY <2>3, <2>4, <2>5, <2>6
<1>3. torn \subseteq torn' /\ UNCHANGED <<hub, requested>>
  BY DEF Sub!StoreRecord, Sub!Tear
<1>4. \A v \in Sub!Subscribers : v # w => caller'[v] = caller[v]
  BY <1>2 DEF WebSubInv, WebSubTypes
<1>5. caller'[w] = call /\ record'[t] = rec /\ \A u \in Topics : u # t => record'[u] = record[u]
  BY <1>2 DEF WebSubInv, WebSubTypes
<1>6. WebSubTypes'
  <2>1. call \in {Sub!NoCall} \cup [pc : {"request", "record", "expire"}, topic : Topics, secret : 1..MaxSecrets]
    BY <1>2 DEF Sub!Call
  <2> QED
    BY <1>2, <1>3, <2>1 DEF WebSubInv, WebSubTypes
<1>7. \A v \in Sub!Subscribers, u \in Topics : v # w => (OnTopic(v, u)' <=> OnTopic(v, u))
  BY <1>4 DEF OnTopic, Sub!Busy
<1>8. ASSUME NEW u \in Topics \ torn' PROVE OneCall(u)' /\ CallIsKnown(u)' /\ RecordIsKnown(u)'
  <2>1. OneCall(u) /\ CallIsKnown(u) /\ RecordIsKnown(u)
    BY <1>3, <1>8 DEF WebSubInv
  <2>2. Secret(u)' = Secret(u)
    BY <1>3 DEF Secret
  <2>3. CASE u = t
    <3>1. OnTopic(w, u) /\ Secret(u) \in {0, s}
      BY <1>1, <2>1, <2>3 DEF OnTopic, CallIsKnown
    <3>2. \A v \in Sub!Subscribers : OnTopic(v, u)' => v = w
      BY <1>7, <2>1, <3>1 DEF OneCall
    <3>3. call = Sub!Call("expire", t, s) /\ record'[u].secret = s
      BY <1>2, <1>5, <1>8, <2>3
    <3>4. caller'[w].pc # "record"
      BY <1>5, <3>3 DEF Sub!Call
    <3> QED
      BY <2>2, <3>1, <3>2, <3>3, <3>4 DEF OneCall, CallIsKnown, RecordIsKnown
  <2>4. CASE u # t
    <3>1. ~OnTopic(w, u) /\ ~OnTopic(w, u)'
      BY <1>1, <1>2, <1>5, <2>4 DEF OnTopic, Sub!Busy, Sub!Call
    <3> QED
      BY <1>4, <1>5, <1>7, <2>1, <2>2, <2>4, <3>1, TopicUntouched
  <2> QED
    BY <2>3, <2>4
<1> QED
  BY <1>6, <1>8 DEF WebSubInv

LEMMA SetLifetimeStep ==
    ASSUME WebSubInv, NEW w \in Sub!Subscribers, Sub!SetLifetime(w)
    PROVE  WebSubInv'
<1>0. PICK t \in Topics : t = caller[w].topic
  BY CallFields DEF Sub!SetLifetime
<1>01. record[t] \in [secret : 0..MaxSecrets, soon : BOOLEAN, lasting : BOOLEAN] /\ record = [record EXCEPT ![t] = record[t]]
  BY DEF WebSubInv, WebSubTypes
<1>02. PICK short : short = [record[t] EXCEPT !.lasting = @ /\ ~Sub!Recorded(t)]
  OBVIOUS
<1>03. short \in [secret : 0..MaxSecrets, soon : BOOLEAN, lasting : BOOLEAN] /\ short.secret = record[t].secret
  BY <1>01, <1>02
<1>04. record' \in {record, [record EXCEPT ![t] = short]}
  BY <1>0, <1>02 DEF Sub!SetLifetime
<1>05. record' \in [Topics -> [secret : 0..MaxSecrets, soon : BOOLEAN, lasting : BOOLEAN]]
       /\ \A u \in Topics : record'[u].secret = record[u].secret
  <2>1. CASE record' = record
    BY <2>1 DEF WebSubInv, WebSubTypes
  <2>2. CASE record' = [record EXCEPT ![t] = short]
    <3>1. record'[t] = short /\ \A u \in Topics : u # t => record'[u] = record[u]
      BY <2>2 DEF WebSubInv, WebSubTypes
    <3>2. \A u \in Topics : record'[u].secret = record[u].secret
      BY <1>03, <3>1
    <3> HIDE <1>02
    <3> QED
      BY <1>03, <2>2, <3>2 DEF WebSubInv, WebSubTypes
  <2> QED
    BY <1>04, <2>1, <2>2
<1>1. caller' = [caller EXCEPT ![w] = Sub!NoCall] /\ UNCHANGED <<hub, requested, torn>>
  BY DEF Sub!SetLifetime, Sub!Put
<1>2. \A v \in Sub!Subscribers : v # w => caller'[v] = caller[v]
  BY <1>1 DEF WebSubInv, WebSubTypes
<1>3. caller[w].pc = "expire" /\ caller'[w] = Sub!NoCall
  BY <1>1 DEF Sub!SetLifetime, WebSubInv, WebSubTypes
<1>4. \A v \in Sub!Subscribers, u \in Topics : OnTopic(v, u)' => v # w /\ OnTopic(v, u)
  BY <1>2, <1>3 DEF OnTopic, Sub!Busy
<1>5. \A v \in Sub!Subscribers, u \in Topics : OnTopic(v, u) /\ v # w => OnTopic(v, u)'
  BY <1>2 DEF OnTopic, Sub!Busy
<1>6. WebSubTypes'
  BY <1>05, <1>1 DEF WebSubInv, WebSubTypes
<1>7. ASSUME NEW u \in Topics \ torn' PROVE OneCall(u)' /\ CallIsKnown(u)' /\ RecordIsKnown(u)'
  <2>1. OneCall(u) /\ CallIsKnown(u) /\ RecordIsKnown(u)
    BY <1>1, <1>7 DEF WebSubInv
  <2>2. Secret(u)' = Secret(u) /\ record'[u].secret = record[u].secret
    BY <1>05, <1>1 DEF Secret
  <2> QED
    BY <1>2, <1>3, <1>4, <1>5, <2>1, <2>2, TopicUntouched DEF Sub!Recorded
<1> QED
  BY <1>6, <1>7 DEF WebSubInv

\* The hub's steps, and the ends of a record: no call changes.
LEMMA WorldStep ==
    ASSUME WebSubInv, NEW t \in Topics,
           \/ Sub!Verify(t) \/ Sub!ComesNear(t) \/ Sub!RunsOut(t) \/ Sub!Evict(t) \/ Sub!LeaseEnds(t)
           \/ \E method \in Sub!Methods : Sub!Notify(t, method)
    PROVE  WebSubInv'
<1> USE DEF Sub!None, Sub!Recorded, Sub!NoRecord
<1>1. UNCHANGED <<caller, requested, torn>>
  BY DEF Sub!Verify, Sub!Notify, Sub!ComesNear, Sub!RunsOut, Sub!Evict, Sub!LeaseEnds
<1>2. /\ record[t] \in [secret : 0..MaxSecrets, soon : BOOLEAN, lasting : BOOLEAN]
      /\ hub[t] \in [asked : 0..MaxSecrets, active : 0..MaxSecrets]
      /\ record \in [Topics -> [secret : 0..MaxSecrets, soon : BOOLEAN, lasting : BOOLEAN]]
      /\ hub \in [Topics -> [asked : 0..MaxSecrets, active : 0..MaxSecrets]]
      /\ 0 \in 0..MaxSecrets
  BY DiscoveryAssumption DEF DiscoveryAssumption, Sub!WebSubAssumption, WebSubInv, WebSubTypes
<1>3. PICK rec \in [secret : 0..MaxSecrets, soon : BOOLEAN, lasting : BOOLEAN], given \in [asked : 0..MaxSecrets, active : 0..MaxSecrets] :
            /\ record' = [record EXCEPT ![t] = rec] /\ rec.secret \in {0, record[t].secret}
            /\ hub' = [hub EXCEPT ![t] = given]
            /\ (IF given.asked # 0 THEN given.asked ELSE given.active) \in {0, Secret(t)}
  <2>1. record = [record EXCEPT ![t] = record[t]] /\ hub = [hub EXCEPT ![t] = hub[t]]
        /\ (IF hub[t].asked # 0 THEN hub[t].asked ELSE hub[t].active) = Secret(t)
    BY <1>2 DEF Secret
  <2>2. CASE Sub!Verify(t)
    <3>1. PICK given : given = [asked |-> 0, active |-> hub[t].asked]
      OBVIOUS
    <3>11. [hub EXCEPT ![t] = [asked |-> 0, active |-> hub[t].asked]] = [hub EXCEPT ![t] = given]
      BY <3>1
    <3>2. /\ given \in [asked : 0..MaxSecrets, active : 0..MaxSecrets] /\ hub' = [hub EXCEPT ![t] = given]
          /\ hub[t].asked # 0 /\ record' = record /\ given.asked = 0 /\ given.active = hub[t].asked
      BY <1>2, <2>2, <3>1, <3>11 DEF Sub!Verify
    <3>3. (IF given.asked # 0 THEN given.asked ELSE given.active) = Secret(t)
      BY <3>2 DEF Secret
    <3>4. PICK rec : rec = record[t]
      OBVIOUS
    <3>5. /\ rec \in [secret : 0..MaxSecrets, soon : BOOLEAN, lasting : BOOLEAN]
          /\ record' = [record EXCEPT ![t] = rec] /\ rec.secret = record[t].secret
      BY <1>2, <2>1, <3>2, <3>4
    <3> QED
      BY <3>2, <3>3, <3>5
  <2>3. CASE \E method \in Sub!Methods : Sub!Notify(t, method)
    <3>1. record' = record /\ hub' = hub
      BY <2>3 DEF Sub!Notify
    <3> QED
      BY <1>2, <2>1, <3>1
  <2>4. CASE Sub!ComesNear(t)
    <3>1. PICK rec : rec = [record[t] EXCEPT !.soon = TRUE]
      OBVIOUS
    <3>2. rec \in [secret : 0..MaxSecrets, soon : BOOLEAN, lasting : BOOLEAN] /\ rec.secret = record[t].secret
      BY <1>2, <3>1
    <3>3. record' = [record EXCEPT ![t] = rec] /\ hub' = hub
      BY <1>2, <2>4, <3>1 DEF Sub!ComesNear
    <3> QED
      BY <1>2, <2>1, <3>2, <3>3
  <2>5. CASE Sub!RunsOut(t) \/ Sub!Evict(t)
    <3>1. PICK rec : rec = [secret |-> 0, soon |-> FALSE, lasting |-> TRUE]
      OBVIOUS
    <3>2. rec \in [secret : 0..MaxSecrets, soon : BOOLEAN, lasting : BOOLEAN] /\ rec.secret = 0
      BY <1>2, <3>1
    <3>3. record' = [record EXCEPT ![t] = rec] /\ hub' = hub
      BY <2>5, <3>1 DEF Sub!RunsOut, Sub!Evict
    <3> QED
      BY <1>2, <2>1, <3>2, <3>3
  <2>6. CASE Sub!LeaseEnds(t)
    <3>1. PICK given : given = [hub[t] EXCEPT !.active = 0]
      OBVIOUS
    <3>2. given \in [asked : 0..MaxSecrets, active : 0..MaxSecrets] /\ given.asked = hub[t].asked /\ given.active = 0
      BY <1>2, <3>1
    <3>3. hub' = [hub EXCEPT ![t] = given] /\ record' = record
      BY <1>2, <2>6, <3>1 DEF Sub!LeaseEnds
    <3> QED
      BY <1>2, <2>1, <3>2, <3>3
  <2> QED
    BY <2>2, <2>3, <2>4, <2>5, <2>6
<1>4. WebSubTypes'
  BY <1>1, <1>3 DEF WebSubInv, WebSubTypes
<1>5. \A w \in Sub!Subscribers, u \in Topics : (OnTopic(w, u)' <=> OnTopic(w, u)) /\ caller'[w] = caller[w]
  BY <1>1 DEF OnTopic, Sub!Busy
<1>6. ASSUME NEW u \in Topics \ torn' PROVE OneCall(u)' /\ CallIsKnown(u)' /\ RecordIsKnown(u)'
  <2>1. OneCall(u) /\ CallIsKnown(u) /\ RecordIsKnown(u)
    BY <1>1, <1>6 DEF WebSubInv
  <2>2. Secret(u)' \in {0, Secret(u)} /\ record'[u].secret \in {0, record[u].secret}
    <3>1. CASE u = t
      <4>1. hub'[u].asked \in Nat /\ hub'[u] \in [asked : 0..MaxSecrets, active : 0..MaxSecrets]
        BY <1>2, <1>3, <3>1
      <4> QED
        BY <1>2, <1>3, <3>1, <4>1 DEF Secret
    <3>2. CASE u # t
      BY <1>2, <1>3, <1>6, <3>2 DEF Secret
    <3> QED
      BY <3>1, <3>2
  <2>3. ~Sub!Recorded(u)' \/ (Sub!Recorded(u) /\ record'[u].secret = record[u].secret)
    BY <2>2
  <2> QED
    BY <1>5, <2>1, <2>2, <2>3, TopicUntouched
<1> QED
  BY <1>4, <1>6 DEF WebSubInv

\* With the process its calls end, and tear what they were about.
LEMMA WebSubCancelled == ASSUME WebSubInv, Sub!CancelWebSub PROVE WebSubInv'
<1>1. \A w \in Sub!Subscribers : caller'[w] = Sub!NoCall
  BY DEF Sub!CancelWebSub
<1>2. WebSubTypes'
  BY DEF WebSubInv, WebSubTypes, Sub!CancelWebSub
<1>3. ASSUME NEW u \in Topics \ torn' PROVE OneCall(u)' /\ CallIsKnown(u)' /\ RecordIsKnown(u)'
  <2>1. u \notin torn /\ \A w \in Sub!Subscribers : ~OnTopic(w, u)
    BY <1>3 DEF Sub!CancelWebSub, Sub!Subscribing, OnTopic
  <2>2. \A w \in Sub!Subscribers : ~OnTopic(w, u)'
    BY <1>1 DEF OnTopic, Sub!Busy
  <2>3. Secret(u)' = Secret(u) /\ record'[u] = record[u]
    BY DEF Sub!CancelWebSub, Secret
  <2>4. OneCall(u) /\ CallIsKnown(u) /\ RecordIsKnown(u)
    BY <2>1 DEF WebSubInv
  <2> QED
    BY <2>1, <2>2, <2>3, <2>4, TopicUntouched DEF Sub!Recorded
<1> QED
  BY <1>2, <1>3 DEF WebSubInv

\* Steps that touch neither calls, secrets, records nor what is torn.
LEMMA WebSubQuiet ==
    ASSUME WebSubInv, UNCHANGED <<caller, record, hub, requested, torn>>
    PROVE  WebSubInv'
  BY DEF WebSubInv, WebSubTypes, OneCall, CallIsKnown, RecordIsKnown, Recording, OnTopic, Secret,
         Sub!Busy, Sub!Recorded

LEMMA WebSubKept == WebSubInv /\ [Next]_vars => WebSubInv'
<1> SUFFICES ASSUME WebSubInv, [Next]_vars PROVE WebSubInv'
  OBVIOUS
<1>1. CASE Sub!BeginWebSub \/ Sub!CloseSession \/ UNCHANGED subVars
  BY <1>1, WebSubQuiet DEF Sub!BeginWebSub, Sub!CloseSession, subVars
<1>2. CASE Sub!CancelWebSub
  BY <1>2, WebSubCancelled
<1>3. CASE Sub!WebSubSteps
  <2>1. CASE Sub!ListSubscriptions \/ Sub!RenewalEnds
    BY <2>1, WebSubQuiet DEF Sub!ListSubscriptions, Sub!RenewalEnds
  <2>2. ASSUME NEW t \in Topics, Sub!RenewNext(t) PROVE WebSubInv'
    <3>1. CASE Sub!Subscribe("renewal", t)
      BY <2>2, <3>1, SubscribeStep DEF Sub!RenewNext, Sub!Subscribers
    <3>2. CASE UNCHANGED <<caller, requested, torn>>
      BY <2>2, <3>2, WebSubQuiet DEF Sub!RenewNext
    <3> QED
      BY <2>2, <3>1, <3>2 DEF Sub!RenewNext
  <2>3. ASSUME NEW w \in Sub!Subscribers, Sub!Request(w) \/ Sub!StoreRecord(w) \/ Sub!SetLifetime(w)
        PROVE  WebSubInv'
    BY <2>3, RequestStep, StoreRecordStep, SetLifetimeStep
  <2> QED
    BY <1>3, <2>1, <2>2, <2>3 DEF Sub!WebSubSteps
<1>4. CASE Sub!WebSubWorld
  <2>1. ASSUME NEW t \in Topics, Sub!OperatorSubscribes(t) PROVE WebSubInv'
    BY <2>1, SubscribeStep DEF Sub!OperatorSubscribes, Sub!Subscribers
  <2> QED
    BY <1>4, <2>1, WorldStep DEF Sub!WebSubWorld
<1> QED
  BY <1>1, <1>2, <1>3, <1>4, WebSubFrame DEF Sub!WebSubNext

\* Once subscriptions of a topic have settled, and the last to go through by itself
\* came after any that failed half way or overlapped, the hub's notifications pass
\* the check, without a signature or signed with SHA-256: what its record holds is
\* the secret the hub was last given.  One signed by another method is refused
\* whatever the secrets are, and is not spoken of (websub.py:102-121, 204, 234-247).
THEOREM NotificationsPass == Spec => []GenuineIsHeard
<1>1. WebSubInv => GenuineIsHeard
  BY DEF WebSubInv, GenuineIsHeard, Sub!GenuineIsHeard, Sub!Passes, Sub!Subscribing, RecordIsKnown,
         Recording, OnTopic, Secret
<1> QED
  BY WebSubInitially, WebSubKept, <1>1, PTL DEF Spec

-----------------------------------------------------------------------------
(***************************************************************************)
(* The certificate scanner.  Before a wait the next one is twice the last, *)
(* up to the limit, as often as attempts failed since a connection opened. *)
(*                                                                         *)
(* The provers know nothing of powers.  That powers of two are natural     *)
(* numbers and double is the hypothesis of the theorem, a fact of          *)
(* arithmetic and not of this system.                                      *)
(***************************************************************************)
PowersOfTwo == 2 ^ 0 = 1 /\ \A n \in Nat : 2 ^ n \in Nat \ {0} /\ 2 ^ (n + 1) = 2 * 2 ^ n

\* The wait after n attempts.
WaitAfter(n) == Scan!Least(2 ^ n, MaxWait)

ScannerInv ==
    /\ scanner \in [pc : {"off", "connect", "stream", "closed", "sleep", "ended"}, running : BOOLEAN,
                    backoff : 1..MaxWait]
    /\ refusals \in 0..MaxRefusals
    /\ scanner.pc \in {"connect", "stream", "closed"} => scanner.backoff = WaitAfter(refusals)
    /\ scanner.pc = "sleep" => refusals > 0 /\ scanner.backoff = WaitAfter(refusals - 1)

LEMMA Waits ==
    ASSUME PowersOfTwo
    PROVE  /\ WaitAfter(0) = 1
           /\ \A n \in 1..MaxRefusals : WaitAfter(n) = Scan!Least(2 * WaitAfter(n - 1), MaxWait)
           /\ WaitAfter(MaxRefusals) = MaxWait /\ WaitAfter(MaxRefusals - 1) = MaxWait
<1>1. MaxWait \in Nat \ {0} /\ MaxRefusals \in Nat \ {0} /\ 2 ^ (MaxRefusals - 1) >= MaxWait
  BY DiscoveryAssumption DEF DiscoveryAssumption, Scan!ScannerAssumption
<1>2. WaitAfter(0) = 1
  BY <1>1 DEF PowersOfTwo, WaitAfter, Scan!Least
<1>3. ASSUME NEW n \in 1..MaxRefusals
      PROVE  2 ^ n = 2 * 2 ^ (n - 1) /\ 2 ^ (n - 1) \in Nat
  <2>1. n - 1 \in Nat /\ (n - 1) + 1 = n
    BY <1>1
  <2>2. 2 ^ ((n - 1) + 1) = 2 * 2 ^ (n - 1) /\ 2 ^ (n - 1) \in Nat
    BY <2>1 DEF PowersOfTwo
  <2> QED
    BY <2>1, <2>2
<1>4. \A n \in 1..MaxRefusals : WaitAfter(n) = Scan!Least(2 * WaitAfter(n - 1), MaxWait)
  BY <1>1, <1>3 DEF WaitAfter, Scan!Least
<1>5. WaitAfter(MaxRefusals - 1) = MaxWait /\ WaitAfter(MaxRefusals) = MaxWait
  BY <1>1, <1>3 DEF WaitAfter, Scan!Least
<1> QED
  BY <1>2, <1>4, <1>5

LEMMA ScannerInitially == ASSUME PowersOfTwo, Init PROVE ScannerInv
<1>1. MaxWait \in Nat \ {0} /\ MaxRefusals \in Nat \ {0}
  BY DiscoveryAssumption DEF DiscoveryAssumption, Scan!ScannerAssumption
<1> QED
  BY <1>1 DEF Init, Scan!InitScanner, Scan!Scanner, ScannerInv

LEMMA ScannerKept == ASSUME PowersOfTwo, ScannerInv, [Next]_vars PROVE ScannerInv'
<1>1. MaxWait \in Nat \ {0} /\ MaxRefusals \in Nat \ {0}
  BY DiscoveryAssumption DEF DiscoveryAssumption, Scan!ScannerAssumption
<1>2. /\ scanner.pc \in {"off", "connect", "stream", "closed", "sleep", "ended"}
      /\ scanner.running \in BOOLEAN /\ scanner.backoff \in 1..MaxWait /\ refusals \in 0..MaxRefusals
  BY DEF ScannerInv
<1> USE DEF Scan!Scanner, Scan!Become, Scan!At
<1>3. CASE Scan!BeginScanner
  BY <1>1, <1>3, Waits DEF Scan!BeginScanner, ScannerInv
<1>4. CASE Scan!CancelScanner
  BY <1>1, <1>4 DEF Scan!CancelScanner, ScannerInv
<1>5. CASE Scan!StopScanner
  BY <1>2, <1>5 DEF Scan!StopScanner, ScannerInv, WaitAfter
<1>6. CASE Scan!Connect
  <2>1. scanner.pc = "connect" /\ scanner.backoff = WaitAfter(refusals)
    BY <1>6 DEF Scan!Connect, ScannerInv
  <2>2. CASE scanner' = Scan!Scanner("stream", scanner.running, 1) /\ refusals' = 0
    <3>1. WaitAfter(refusals') = 1
      BY <2>2, Waits
    <3> QED
      BY <1>1, <1>2, <2>2, <3>1 DEF ScannerInv, WaitAfter
  <2>3. CASE scanner' = Scan!Scanner("closed", scanner.running, scanner.backoff) /\ refusals' = refusals
    BY <1>1, <1>2, <2>1, <2>3 DEF ScannerInv, WaitAfter
  <2> QED
    BY <1>6, <2>2, <2>3 DEF Scan!Connect
<1>7. CASE Scan!Disconnect \/ Scan!Discover \/ \E certificate \in Certificates : Scan!Receive(certificate)
  BY <1>1, <1>2, <1>7 DEF Scan!Disconnect, Scan!Discover, Scan!Receive, ScannerInv, WaitAfter
<1>8. CASE Scan!Sleep
  <2>1. scanner.pc = "closed" /\ scanner.backoff = WaitAfter(refusals)
    BY <1>8 DEF Scan!Sleep, ScannerInv
  <2>2. CASE scanner.running
    <3>1. scanner' = Scan!Scanner("sleep", TRUE, scanner.backoff) /\ refusals' = Scan!Least(refusals + 1, MaxRefusals)
      BY <1>2, <1>8, <2>2 DEF Scan!Sleep
    <3>2. refusals' \in 1..MaxRefusals /\ (refusals' - 1 = refusals \/ (refusals = MaxRefusals /\ refusals' - 1 = MaxRefusals - 1))
      BY <1>1, <1>2, <3>1 DEF Scan!Least
    <3>3. WaitAfter(refusals' - 1) = WaitAfter(refusals)
      BY <3>2, Waits
    <3>4. WaitAfter(refusals' - 1) = scanner'.backoff
      BY <2>1, <3>1, <3>3
    <3> QED
      BY <1>2, <3>1, <3>2, <3>4 DEF ScannerInv, WaitAfter
  <2>3. CASE ~scanner.running
    BY <1>1, <1>2, <1>8, <2>3 DEF Scan!Sleep, ScannerInv
  <2> QED
    BY <2>2, <2>3
<1>9. CASE Scan!Wake
  <2>1. refusals > 0 /\ scanner.backoff = WaitAfter(refusals - 1) /\ refusals' = refusals
    BY <1>9 DEF Scan!Wake, ScannerInv
  <2>2. WaitAfter(refusals) = Scan!Least(2 * scanner.backoff, MaxWait)
    BY <1>2, <2>1, Waits
  <2> QED
    BY <1>1, <1>2, <1>9, <2>1, <2>2 DEF Scan!Wake, Scan!Least, ScannerInv, WaitAfter
<1>10. CASE UNCHANGED scanVars
  BY <1>10 DEF scanVars, ScannerInv, WaitAfter
<1> QED
  BY <1>3, <1>4, <1>5, <1>6, <1>7, <1>8, <1>9, <1>10, ScannerFrame
  DEF Scan!ScannerNext, Scan!ScannerSteps, Scan!ScannerWorld

\* The n-th wait in a row is 2^(n-1) seconds and never above the limit: only a
\* connection that opened, or a new process, starts the count over (ct_logs.py:112).
THEOREM WaitsFollowRefusals == PowersOfTwo => (Spec => []BackoffFollowsRefusals)
<1> SUFFICES ASSUME PowersOfTwo PROVE Spec => []BackoffFollowsRefusals
  OBVIOUS
<1>1. Init => ScannerInv
  BY ScannerInitially
<1>2. ScannerInv /\ [Next]_vars => ScannerInv'
  BY ScannerKept
<1>3. ScannerInv => BackoffFollowsRefusals
  BY DEF ScannerInv, BackoffFollowsRefusals, Scan!BackoffFollowsRefusals, Scan!At, WaitAfter
<1> QED
  BY <1>1, <1>2, <1>3, PTL DEF Spec

-----------------------------------------------------------------------------
(***************************************************************************)
(* Sitemaps.  A reader about to remember or report holds what it is about, *)
(* and the documents of an index rest unless the index waits for them: so  *)
(* no reading in progress is started over, and what one has remembered is  *)
(* reported or lost by it.                                                 *)
(***************************************************************************)
Readers == [pc : Sitemap!ReaderStates, items : Seq(Sitemap!Items)]

SitemapTypes ==
    /\ domain \in [Domains -> {Sitemap!AtRobots} \cup Nat]
    /\ reader \in [Documents -> Readers]
    /\ lastmod \in [Pages -> 0..MaxVersions]
    /\ memory \in [Pages -> {Sitemap!Absent} \cup (0..MaxVersions)]

ReadersHaveItems == \A d \in Documents : reader[d].pc \in {"remember", "report"} => reader[d].items # <<>>
ChildrenIdle == \A d \in Documents : reader[d].pc # "children" => \A e \in Children[d] : reader[e] = Sitemap!Idle

ReadersInv == SitemapTypes /\ ReadersHaveItems /\ ChildrenIdle
SitemapInv == ReadersInv /\ RememberedIsAccounted

LEMMA SitemapConstants == Sitemap!SitemapAssumption
  BY DiscoveryAssumption DEF DiscoveryAssumption

LEMMA SitemapInitially == Init => SitemapInv
<1> SUFFICES ASSUME Init PROVE SitemapInv
  OBVIOUS
<1> USE SitemapConstants DEF Init, Sitemap!InitSitemap, Sitemap!SitemapAssumption, Sitemap!NoDate, Sitemap!Absent
<1>1. Sitemap!Idle \in Readers /\ Sitemap!Idle.pc = "idle"
  BY DEF Readers, Sitemap!Idle, Sitemap!ReaderAt, Sitemap!ReaderStates
<1>2. SitemapTypes
  BY <1>1 DEF SitemapTypes
<1>3. ReadersHaveItems /\ ChildrenIdle
  BY <1>1 DEF ReadersHaveItems, ChildrenIdle
<1>4. RememberedIsAccounted
  BY DEF RememberedIsAccounted, Sitemap!RememberedIsAccounted
<1> QED
  BY <1>2, <1>3, <1>4 DEF SitemapInv, ReadersInv

\* What a reader with items is at, and what follows it.
LEMMA ItemFields ==
    ASSUME ReadersInv, NEW d \in Documents, reader[d].items # <<>>
    PROVE  /\ Sitemap!Item(d) \in Sitemap!Items /\ Sitemap!Item(d)[1] \in Pages /\ Sitemap!Item(d)[2] \in 0..MaxVersions
           /\ Sitemap!Item(d) = <<Sitemap!Item(d)[1], Sitemap!Item(d)[2]>>
           /\ Tail(reader[d].items) \in Seq(Sitemap!Items)
<1>1. reader[d].items \in Seq(Sitemap!Items)
  BY DEF ReadersInv, SitemapTypes, Readers
<1>2. Sitemap!Item(d) \in Sitemap!Items /\ Tail(reader[d].items) \in Seq(Sitemap!Items)
  BY <1>1 DEF Sitemap!Item
<1> QED
  BY <1>2 DEF Sitemap!Items

\* A reader that is under way, or a candidate's, goes to another state.
LEMMA ReaderMoves ==
    ASSUME ReadersInv, NEW d \in Documents, NEW state \in Readers,
           reader[d].pc # "children", state.pc # "children",
           state.pc \in {"remember", "report"} => state.items # <<>>,
           (reader[d].pc # "idle" /\ state.pc # "idle") \/ \A e \in Documents : d \notin Children[e],
           reader' = [reader EXCEPT ![d] = state], lastmod' = lastmod,
           domain' \in [Domains -> {Sitemap!AtRobots} \cup Nat],
           memory' \in [Pages -> {Sitemap!Absent} \cup (0..MaxVersions)]
    PROVE  ReadersInv'
<1> USE DEF ReadersInv
<1>1. SitemapTypes'
  BY DEF SitemapTypes
<1>2. reader'[d] = state /\ \A e \in Documents : e # d => reader'[e] = reader[e]
  BY DEF SitemapTypes
<1>3. ReadersHaveItems'
  BY <1>2 DEF ReadersHaveItems
<1>4. ASSUME NEW e \in Documents, (reader[e].pc # "children")', NEW x \in Children[e] PROVE (reader[x] = Sitemap!Idle)'
  <2>1. reader[e].pc # "children" /\ x \in Documents /\ reader[x] = Sitemap!Idle
    BY <1>2, <1>4, SitemapConstants DEF ChildrenIdle, Sitemap!SitemapAssumption
  <2>2. x # d
    BY <2>1 DEF Sitemap!Idle, Sitemap!ReaderAt
  <2> QED
    BY <1>2, <2>1, <2>2
<1> QED
  BY <1>1, <1>3, <1>4 DEF ChildrenIdle

\* Memory only shrinks, and what was in hand still is, or was handed or lost.
LEMMA StaysAccounted ==
    ASSUME RememberedIsAccounted, handed \subseteq handed', dropped \subseteq dropped',
           \A p \in Pages : memory'[p] \in {Sitemap!Absent, memory[p]},
           \A e \in Documents : reader[e].pc = "report" =>
               \/ (reader[e].pc = "report")' /\ Sitemap!Item(e)' = Sitemap!Item(e)
               \/ Sitemap!Item(e) \in handed' \cup dropped'
    PROVE  RememberedIsAccounted'
<1>1. Sitemap!InHand \subseteq Sitemap!InHand' \cup handed' \cup dropped'
  BY DEF Sitemap!InHand
<1> QED
  BY <1>1 DEF RememberedIsAccounted, Sitemap!RememberedIsAccounted

\* The states a reader goes to, and their fields.
LEMMA ReaderStatesFields ==
    ASSUME NEW pc \in Sitemap!ReaderStates, NEW items \in Seq(Sitemap!Items)
    PROVE  /\ Sitemap!ReaderAt(pc, items) \in Readers
           /\ Sitemap!ReaderAt(pc, items).pc = pc /\ Sitemap!ReaderAt(pc, items).items = items
  BY DEF Sitemap!ReaderAt, Readers

\* The candidate a domain is at is a document, and no index lists it.
LEMMA CandidateFields ==
    ASSUME ReadersInv, NEW m \in Domains, domain[m] > 0, domain[m] <= Len(Candidates[m])
    PROVE  Sitemap!Candidate(m) \in Documents /\ \A e \in Documents : Sitemap!Candidate(m) \notin Children[e]
<1>1. Candidates[m] \in Seq(Documents) /\ domain[m] \in 1..Len(Candidates[m])
  BY SitemapConstants DEF Sitemap!SitemapAssumption, ReadersInv, SitemapTypes, Sitemap!AtRobots
<1> QED
  BY <1>1, SitemapConstants DEF Sitemap!SitemapAssumption, Sitemap!Candidate

LEMMA TryCandidateStep ==
    ASSUME SitemapInv, NEW m \in Domains, Sitemap!TryCandidate(m)
    PROVE  SitemapInv'
<1> USE DEF SitemapInv
<1>1. UNCHANGED <<lastmod, memory, handed, dropped>>
      /\ domain[m] \in Nat /\ domain[m] > 0 /\ domain \in [Domains -> {Sitemap!AtRobots} \cup Nat]
      /\ memory \in [Pages -> {Sitemap!Absent} \cup (0..MaxVersions)]
  BY DEF Sitemap!TryCandidate, ReadersInv, SitemapTypes, Sitemap!AtRobots
<1>2. CASE domain[m] > Len(Candidates[m])
  <2>1. domain' = [domain EXCEPT ![m] = 0] /\ UNCHANGED reader
    BY <1>2 DEF Sitemap!TryCandidate
  <2>2. ReadersInv'
    BY <1>1, <2>1 DEF ReadersInv, SitemapTypes, ReadersHaveItems, ChildrenIdle
  <2> QED
    BY <1>1, <2>1, <2>2, StaysAccounted DEF Sitemap!Item
<1>3. CASE ~(domain[m] > Len(Candidates[m]))
  <2>1. PICK c \in Documents, state \in Readers :
              /\ c = Sitemap!Candidate(m) /\ \A e \in Documents : c \notin Children[e]
              /\ reader[c] = Sitemap!Idle /\ state.pc = "fetch" /\ reader' = [reader EXCEPT ![c] = state]
              /\ domain' = domain
    <3>1. domain[m] <= Len(Candidates[m])
      BY <1>1, <1>3, SitemapConstants DEF Sitemap!SitemapAssumption
    <3>2. "fetch" \in Sitemap!ReaderStates /\ <<>> \in Seq(Sitemap!Items)
      BY DEF Sitemap!ReaderStates
    <3> QED
      BY <1>1, <1>3, <3>1, <3>2, CandidateFields, ReaderStatesFields DEF Sitemap!TryCandidate
  <2>2. reader[c].pc = "idle"
    BY <2>1 DEF Sitemap!Idle, Sitemap!ReaderAt
  <2>3. ReadersInv'
    BY <1>1, <2>1, <2>2, ReaderMoves
  <2>4. \A e \in Documents : e # c => reader'[e] = reader[e]
    BY <2>1 DEF ReadersInv, SitemapTypes
  <2> QED
    BY <1>1, <2>2, <2>3, <2>4, StaysAccounted DEF Sitemap!Item
<1> QED
  BY <1>2, <1>3

LEMMA CandidateEndsStep ==
    ASSUME SitemapInv, NEW m \in Domains, Sitemap!CandidateEnds(m)
    PROVE  SitemapInv'
<1> USE DEF SitemapInv
<1>1. UNCHANGED <<lastmod, memory, handed, dropped>> /\ domain[m] > 0 /\ domain[m] <= Len(Candidates[m])
      /\ memory \in [Pages -> {Sitemap!Absent} \cup (0..MaxVersions)]
  <2>1. /\ UNCHANGED <<lastmod, memory, handed, dropped>> /\ domain[m] \in DOMAIN Candidates[m]
        /\ memory \in [Pages -> {Sitemap!Absent} \cup (0..MaxVersions)]
    BY DEF Sitemap!CandidateEnds, ReadersInv, SitemapTypes
  <2>2. Candidates[m] \in Seq(Documents)
    BY SitemapConstants DEF Sitemap!SitemapAssumption
  <2>3. domain[m] \in 1..Len(Candidates[m])
    BY <2>1, <2>2
  <2> QED
    BY <2>1, <2>3
<1>2. PICK c \in Documents : c = Sitemap!Candidate(m) /\ \A e \in Documents : c \notin Children[e]
  BY <1>1, CandidateFields
<1>3. reader[c].pc \in {"done", "failed"} /\ reader' = [reader EXCEPT ![c] = Sitemap!Idle]
  BY <1>2 DEF Sitemap!CandidateEnds, Sitemap!Ended
<1>4. Sitemap!Idle \in Readers /\ Sitemap!Idle.pc = "idle"
  BY DEF Readers, Sitemap!Idle, Sitemap!ReaderAt, Sitemap!ReaderStates
<1>5. domain' \in [Domains -> {Sitemap!AtRobots} \cup Nat]
  <2>1. domain[m] \in Nat /\ domain \in [Domains -> {Sitemap!AtRobots} \cup Nat]
    BY <1>1 DEF ReadersInv, SitemapTypes, Sitemap!AtRobots
  <2>2. domain' = [domain EXCEPT ![m] = 0] \/ domain' = [domain EXCEPT ![m] = domain[m] + 1]
    BY DEF Sitemap!CandidateEnds
  <2> QED
    BY <2>1, <2>2
<1>6. ReadersInv'
  BY <1>1, <1>2, <1>3, <1>4, <1>5, ReaderMoves
<1>7. \A e \in Documents : e # c => reader'[e] = reader[e]
  BY <1>3 DEF ReadersInv, SitemapTypes
<1> QED
  BY <1>1, <1>3, <1>6, <1>7, StaysAccounted DEF Sitemap!Item

\* An index: it waits, and its documents are read, or they end with it.
LEMMA IndexStep ==
    ASSUME SitemapInv, NEW d \in Documents, NEW own \in Readers, NEW theirs \in Readers,
           reader' = [e \in Documents |-> IF e = d THEN own ELSE IF e \in Children[d] THEN theirs ELSE reader[e]],
           reader[d].pc \in {"fetch", "children"}, own.pc \in {"children", "done"},
           \A e \in Children[d] : reader[e].pc \in {"idle", "done", "failed"},
           theirs.pc \in {"fetch", "idle"}, own.pc = "done" => theirs = Sitemap!Idle,
           UNCHANGED <<domain, lastmod, memory, handed, dropped>>
    PROVE  SitemapInv'
<1> USE DEF SitemapInv
<1>1. SitemapTypes'
  BY DEF ReadersInv, SitemapTypes
<1>2. reader'[d] = own /\ \A e \in Documents : e # d => reader'[e] = IF e \in Children[d] THEN theirs ELSE reader[e]
  OBVIOUS
<1>3. ReadersHaveItems'
  BY <1>2 DEF ReadersInv, ReadersHaveItems
<1>4. Sitemap!Idle.pc = "idle"
  BY DEF Sitemap!Idle, Sitemap!ReaderAt
<1>5. ASSUME NEW x \in Documents, (reader[x].pc # "children")', NEW y \in Children[x] PROVE (reader[y] = Sitemap!Idle)'
  <2>1. y \in Documents /\ \A z \in Documents : z # x => y \notin Children[z]
    BY SitemapConstants DEF Sitemap!SitemapAssumption
  <2>2. CASE x = d
    <3>1. theirs = Sitemap!Idle /\ y # d
      BY <1>2, <1>5, <2>2
    <3> QED
      BY <1>2, <2>1, <2>2, <3>1
  <2>3. CASE x # d
    <3>1. reader[x].pc # "children"
      BY <1>2, <1>5, <2>3
    <3>2. reader[y] = Sitemap!Idle
      BY <3>1 DEF ReadersInv, ChildrenIdle
    <3>3. y # d /\ y \notin Children[d]
      BY <1>4, <2>1, <2>3, <3>2
    <3> QED
      BY <1>2, <2>1, <3>2, <3>3
  <2> QED
    BY <2>2, <2>3
<1>6. ReadersInv'
  BY <1>1, <1>3, <1>5 DEF ReadersInv, ChildrenIdle
<1>7. ASSUME NEW e \in Documents, reader[e].pc = "report" PROVE reader'[e] = reader[e]
  BY <1>2, <1>7
<1>8. \A p \in Pages : memory'[p] \in {Sitemap!Absent, memory[p]}
  OBVIOUS
<1> QED
  BY <1>6, <1>7, <1>8, StaysAccounted DEF Sitemap!Item

\* A reader under way moves on: what it had in hand, it still has or gave up.
LEMMA ReaderGoesOn ==
    ASSUME SitemapInv, NEW d \in Documents, NEW state \in Readers,
           reader[d].pc \in {"fetch", "check", "remember", "report"},
           state.pc \in {"check", "remember", "report", "done", "failed"},
           state.pc \in {"remember", "report"} => state.items # <<>>,
           reader' = [reader EXCEPT ![d] = state], UNCHANGED <<domain, lastmod, memory>>,
           handed \subseteq handed', dropped \subseteq dropped',
           reader[d].pc = "report" => Sitemap!Item(d) \in handed' \cup dropped'
    PROVE  SitemapInv'
<1> USE DEF SitemapInv
<1>1. ReadersInv'
  BY ReaderMoves DEF ReadersInv, SitemapTypes
<1>2. \A e \in Documents : e # d => reader'[e] = reader[e]
  BY DEF ReadersInv, SitemapTypes
<1> QED
  BY <1>1, <1>2, StaysAccounted DEF Sitemap!Item

LEMMA FetchStep == ASSUME SitemapInv, NEW d \in Documents, Sitemap!Fetch(d) PROVE SitemapInv'
<1>1. reader[d].pc = "fetch" /\ UNCHANGED <<domain, lastmod, memory, handed, dropped>>
  BY DEF Sitemap!Fetch
<1>2. <<>> \in Seq(Sitemap!Items) /\ {"fetch", "children", "check", "done", "failed"} \subseteq Sitemap!ReaderStates
  BY DEF Sitemap!ReaderStates
<1>3. CASE Sitemap!Raise(d) \/ Sitemap!Finish(d)
  BY <1>1, <1>2, <1>3, ReaderStatesFields, ReaderGoesOn DEF Sitemap!Raise, Sitemap!Finish
<1>4. CASE /\ Children[d] # {}
           /\ reader' = [e \in Documents |-> IF e = d THEN Sitemap!ReaderAt("children", <<>>)
                                             ELSE IF e \in Children[d] THEN Sitemap!ReaderAt("fetch", <<>>)
                                             ELSE reader[e]]
  <2>1. \A e \in Children[d] : reader[e].pc = "idle"
    BY <1>1 DEF SitemapInv, ReadersInv, ChildrenIdle, Sitemap!Idle, Sitemap!ReaderAt
  <2> QED
    <3>1. PICK own \in Readers : own = Sitemap!ReaderAt("children", <<>>) /\ own.pc = "children"
      BY <1>2, ReaderStatesFields
    <3>2. PICK theirs \in Readers : theirs = Sitemap!ReaderAt("fetch", <<>>) /\ theirs.pc = "fetch"
      BY <1>2, ReaderStatesFields
    <3>3. reader' = [e \in Documents |-> IF e = d THEN own ELSE IF e \in Children[d] THEN theirs ELSE reader[e]]
      BY <1>4, <3>1, <3>2
    <3> QED
      BY <1>1, <2>1, <3>1, <3>2, <3>3, IndexStep
<1>5. CASE reader' = [reader EXCEPT ![d] =
                         Sitemap!ReaderAt("check", [i \in DOMAIN Listing[d] |-> Sitemap!Version(Listing[d][i])])]
  <2>1. PICK items : items = [i \in DOMAIN Listing[d] |-> Sitemap!Version(Listing[d][i])]
    OBVIOUS
  <2>2. Listing[d] \in Seq(Pages)
    BY SitemapConstants DEF Sitemap!SitemapAssumption
  <2>3. \A i \in 1..Len(Listing[d]) : Sitemap!Version(Listing[d][i]) \in Sitemap!Items
    BY <2>2 DEF SitemapInv, ReadersInv, SitemapTypes, Sitemap!Version, Sitemap!Items
  <2>4. Len(Listing[d]) \in Nat /\ items \in [1..Len(Listing[d]) -> Sitemap!Items]
    BY <2>1, <2>2, <2>3
  <2>5. items \in Seq(Sitemap!Items)
    BY <2>4
  <2> QED
    BY <1>1, <1>2, <1>5, <2>1, <2>5, ReaderStatesFields, ReaderGoesOn
<1> QED
  BY <1>3, <1>4, <1>5 DEF Sitemap!Fetch

LEMMA ChildrenEndStep == ASSUME SitemapInv, NEW d \in Documents, Sitemap!ChildrenEnd(d) PROVE SitemapInv'
<1>1. <<>> \in Seq(Sitemap!Items) /\ {"idle", "done"} \subseteq Sitemap!ReaderStates
  BY DEF Sitemap!ReaderStates
<1>2. /\ Sitemap!Idle \in Readers /\ Sitemap!Idle.pc = "idle"
      /\ Sitemap!ReaderAt("done", <<>>) \in Readers /\ Sitemap!ReaderAt("done", <<>>).pc = "done"
  BY <1>1, ReaderStatesFields DEF Sitemap!Idle
<1> QED
  BY <1>2, IndexStep DEF Sitemap!ChildrenEnd, Sitemap!Ended

LEMMA CheckStep == ASSUME SitemapInv, NEW d \in Documents, Sitemap!Check(d) PROVE SitemapInv'
<1>1. reader[d].pc = "check" /\ UNCHANGED <<domain, lastmod, memory, handed, dropped>>
  BY DEF Sitemap!Check
<1>2. /\ {"check", "remember", "done", "failed"} \subseteq Sitemap!ReaderStates
      /\ <<>> \in Seq(Sitemap!Items) /\ reader[d].items \in Seq(Sitemap!Items)
  BY DEF Sitemap!ReaderStates, SitemapInv, ReadersInv, SitemapTypes, Readers
<1>3. CASE Sitemap!Finish(d) \/ Sitemap!Raise(d)
  BY <1>1, <1>2, <1>3, ReaderStatesFields, ReaderGoesOn DEF Sitemap!Finish, Sitemap!Raise
<1>4. CASE reader[d].items # <<>> /\ Sitemap!NextItem(d)
  <2>1. Tail(reader[d].items) \in Seq(Sitemap!Items)
    BY <1>4, ItemFields DEF SitemapInv
  <2>2. PICK state \in Readers : state = Sitemap!ReaderAt("check", Tail(reader[d].items)) /\ state.pc = "check"
    BY <1>2, <2>1, ReaderStatesFields
  <2>3. reader' = [reader EXCEPT ![d] = state]
    BY <1>4, <2>2 DEF Sitemap!NextItem
  <2> QED
    BY <1>1, <2>2, <2>3, ReaderGoesOn
<1>5. CASE reader[d].items # <<>> /\ Sitemap!Step(d, "remember")
  <2>1. PICK state \in Readers : /\ state.pc = "remember" /\ state.items = reader[d].items
                                 /\ reader' = [reader EXCEPT ![d] = state]
    BY <1>2, <1>5, ReaderStatesFields DEF Sitemap!Step
  <2> QED
    BY <1>1, <1>5, <2>1, ReaderGoesOn
<1> QED
  BY <1>3, <1>4, <1>5 DEF Sitemap!Check

\* The memory is written while the version is still in hand.
LEMMA RememberStep == ASSUME SitemapInv, NEW d \in Documents, Sitemap!Remember(d) PROVE SitemapInv'
<1>1. /\ reader[d].pc = "remember" /\ reader[d].items # <<>> /\ reader[d].items \in Seq(Sitemap!Items)
      /\ UNCHANGED <<domain, lastmod, handed>> /\ dropped \subseteq dropped'
  BY DEF Sitemap!Remember, SitemapInv, ReadersInv, ReadersHaveItems, SitemapTypes, Readers
<1>2. /\ {"report", "failed"} \subseteq Sitemap!ReaderStates /\ <<>> \in Seq(Sitemap!Items)
      /\ Sitemap!ReaderAt("failed", <<>>) \in Readers /\ Sitemap!ReaderAt("failed", <<>>).pc = "failed"
  <2>1. {"report", "failed"} \subseteq Sitemap!ReaderStates /\ <<>> \in Seq(Sitemap!Items)
    BY DEF Sitemap!ReaderStates
  <2> QED
    BY <2>1, ReaderStatesFields
<1>3. PICK page \in Pages, version \in 0..MaxVersions : Sitemap!Item(d) = <<page, version>>
  BY <1>1, ItemFields DEF SitemapInv
<1>4. CASE Sitemap!Raise(d) /\ UNCHANGED <<memory, dropped>>
  BY <1>1, <1>2, <1>4, ReaderGoesOn DEF Sitemap!Raise
<1>5. CASE /\ memory' = [memory EXCEPT ![page] = version]
           /\ \/ Sitemap!Step(d, "report") /\ UNCHANGED dropped
              \/ Sitemap!Raise(d) /\ dropped' = dropped \cup {Sitemap!Item(d)}
  <2>1. PICK state \in Readers : /\ reader' = [reader EXCEPT ![d] = state] /\ state.pc \in {"report", "failed"}
                                 /\ state.pc = "report" => state.items = reader[d].items
                                 /\ state.pc = "failed" => Sitemap!Item(d) \in dropped'
    BY <1>1, <1>2, <1>5, ReaderStatesFields DEF Sitemap!Step, Sitemap!Raise
  <2>2. memory' \in [Pages -> {Sitemap!Absent} \cup (0..MaxVersions)]
    BY <1>5 DEF SitemapInv, ReadersInv, SitemapTypes
  <2>3. ReadersInv'
    BY <1>1, <2>1, <2>2, ReaderMoves DEF SitemapInv, ReadersInv, SitemapTypes
  <2>4. reader'[d] = state /\ \A e \in Documents : e # d => reader'[e] = reader[e]
    BY <2>1 DEF SitemapInv, ReadersInv, SitemapTypes
  <2>5. <<page, version>> \in Sitemap!InHand' \cup dropped'
    <3>1. CASE state.pc = "report"
      <4>1. Sitemap!Item(d)' = Sitemap!Item(d) /\ (reader[d].pc = "report")'
        BY <2>1, <2>4, <3>1 DEF Sitemap!Item
      <4> QED
        BY <1>3, <4>1 DEF Sitemap!InHand
    <3>2. CASE state.pc = "failed"
      BY <1>3, <2>1, <3>2
    <3> QED
      BY <2>1, <3>1, <3>2
  <2>6. Sitemap!InHand \subseteq Sitemap!InHand'
    BY <1>1, <2>4 DEF Sitemap!InHand, Sitemap!Item
  <2>7. \A p \in Pages : memory'[p] = IF p = page THEN version ELSE memory[p]
    BY <1>5 DEF SitemapInv, ReadersInv, SitemapTypes
  <2> QED
    BY <1>1, <2>3, <2>5, <2>6, <2>7 DEF SitemapInv, RememberedIsAccounted, Sitemap!RememberedIsAccounted
<1> QED
  BY <1>3, <1>4, <1>5 DEF Sitemap!Remember

LEMMA ReportStep == ASSUME SitemapInv, NEW d \in Documents, Sitemap!Report(d) PROVE SitemapInv'
<1>1. /\ reader[d].pc = "report" /\ reader[d].items # <<>>
      /\ UNCHANGED <<domain, lastmod, memory>>
      /\ handed \subseteq handed' /\ dropped \subseteq dropped' /\ Sitemap!Item(d) \in handed' \cup dropped'
  BY DEF Sitemap!Report, SitemapInv, ReadersInv, ReadersHaveItems
<1>2. /\ {"check", "failed"} \subseteq Sitemap!ReaderStates /\ <<>> \in Seq(Sitemap!Items)
      /\ Tail(reader[d].items) \in Seq(Sitemap!Items)
  BY <1>1, ItemFields DEF Sitemap!ReaderStates, SitemapInv
<1>3. Sitemap!NextItem(d) \/ Sitemap!Raise(d)
  BY DEF Sitemap!Report
<1>4. PICK state \in Readers : reader' = [reader EXCEPT ![d] = state] /\ state.pc \in {"check", "failed"}
  <2>1. CASE Sitemap!NextItem(d)
    <3>1. PICK state \in Readers : state = Sitemap!ReaderAt("check", Tail(reader[d].items)) /\ state.pc = "check"
      BY <1>2, ReaderStatesFields
    <3> QED
      BY <2>1, <3>1 DEF Sitemap!NextItem
  <2>2. CASE Sitemap!Raise(d)
    <3>1. PICK state \in Readers : state = Sitemap!ReaderAt("failed", <<>>) /\ state.pc = "failed"
      BY <1>2, ReaderStatesFields
    <3> QED
      BY <2>2, <3>1 DEF Sitemap!Raise
  <2> QED
    BY <1>3, <2>1, <2>2
<1> QED
  BY <1>1, <1>4, ReaderGoesOn

\* Without the process there are no readers and no memory.
LEMMA SitemapCancelled == ASSUME SitemapInv, Sitemap!CancelSitemap PROVE SitemapInv'
<1>1. Sitemap!Idle \in Readers /\ Sitemap!Idle.pc = "idle"
  BY DEF Readers, Sitemap!Idle, Sitemap!ReaderAt, Sitemap!ReaderStates
<1>2. SitemapTypes'
  BY <1>1 DEF SitemapInv, ReadersInv, SitemapTypes, Sitemap!CancelSitemap
<1>3. ReadersHaveItems' /\ ChildrenIdle'
  BY <1>1, SitemapConstants DEF ReadersHaveItems, ChildrenIdle, Sitemap!CancelSitemap, Sitemap!SitemapAssumption
<1>4. RememberedIsAccounted'
  BY DEF RememberedIsAccounted, Sitemap!RememberedIsAccounted, Sitemap!CancelSitemap
<1> QED
  BY <1>2, <1>3, <1>4 DEF SitemapInv, ReadersInv

\* Steps that leave the readers alone, and of the memory what they do not drop.
LEMMA ReadersRest ==
    ASSUME SitemapInv, UNCHANGED <<reader, handed, dropped>>,
           domain' \in [Domains -> {Sitemap!AtRobots} \cup Nat], lastmod' \in [Pages -> 0..MaxVersions],
           memory' = memory \/ \E p \in Pages : memory' = [memory EXCEPT ![p] = Sitemap!Absent]
    PROVE  SitemapInv'
<1>1. SitemapTypes /\ memory \in [Pages -> {Sitemap!Absent} \cup (0..MaxVersions)]
  BY DEF SitemapInv, ReadersInv, SitemapTypes
<1>2. SitemapTypes' /\ \A p \in Pages : memory'[p] \in {Sitemap!Absent, memory[p]}
  BY <1>1 DEF SitemapTypes
<1>3. ReadersInv'
  BY <1>2 DEF SitemapInv, ReadersInv, ReadersHaveItems, ChildrenIdle
<1> QED
  BY <1>2, <1>3, StaysAccounted DEF SitemapInv, Sitemap!Item

LEMMA SitemapKept == SitemapInv /\ [Next]_vars => SitemapInv'
<1> SUFFICES ASSUME SitemapInv, [Next]_vars PROVE SitemapInv'
  OBVIOUS
<1>1. /\ domain \in [Domains -> {Sitemap!AtRobots} \cup Nat] /\ lastmod \in [Pages -> 0..MaxVersions]
      /\ memory \in [Pages -> {Sitemap!Absent} \cup (0..MaxVersions)] /\ MaxVersions \in Nat
  BY SitemapConstants DEF SitemapInv, ReadersInv, SitemapTypes, Sitemap!SitemapAssumption
<1>2. CASE Sitemap!BeginSitemap \/ Sitemap!CloseClient \/ UNCHANGED sitemapVars
  BY <1>1, <1>2, ReadersRest DEF Sitemap!BeginSitemap, Sitemap!CloseClient, sitemapVars
<1>3. CASE Sitemap!CancelSitemap
  BY <1>3, SitemapCancelled
<1>4. CASE Sitemap!LoadDomains \/ Sitemap!PollAllDomains \/ Sitemap!CycleEnds
  BY <1>1, <1>4, ReadersRest DEF Sitemap!LoadDomains, Sitemap!PollAllDomains, Sitemap!CycleEnds, Sitemap!AtRobots
<1>5. ASSUME NEW m \in Domains, Sitemap!AskRobots(m) PROVE SitemapInv'
  <2>1. UNCHANGED <<reader, lastmod, memory, handed, dropped>>
        /\ domain' \in [Domains -> {Sitemap!AtRobots} \cup Nat]
    BY <1>1, <1>5 DEF Sitemap!AskRobots
  <2> QED
    BY <1>1, <2>1, ReadersRest
<1>6. ASSUME NEW p \in Pages, Sitemap!Modify(p) PROVE SitemapInv'
  <2>1. lastmod' \in [Pages -> 0..MaxVersions]
    BY <1>1, <1>6 DEF Sitemap!Modify
  <2> QED
    BY <1>1, <1>6, <2>1, ReadersRest DEF Sitemap!Modify
<1>7. ASSUME NEW p \in Pages, Sitemap!Expire(p) PROVE SitemapInv'
  BY <1>1, <1>7, ReadersRest DEF Sitemap!Expire
<1> QED
  BY <1>2, <1>3, <1>4, <1>5, <1>6, <1>7, SitemapFrame, TryCandidateStep, CandidateEndsStep,
     FetchStep, ChildrenEndStep, CheckStep, RememberStep, ReportStep
  DEF Sitemap!SitemapNext, Sitemap!SitemapSteps, Sitemap!SitemapWorld

\* A version the watcher remembers was handed over, is about to be, or was lost
\* in a failure: concurrent readings, restarts and lost answers leave no page
\* that is passed over without a trace (sitemap.py:253, 302).
THEOREM MemoryIsAccounted == Spec => []RememberedIsAccounted
<1>1. SitemapInv => RememberedIsAccounted
  BY DEF SitemapInv
<1> QED
  BY SitemapInitially, SitemapKept, <1>1, PTL DEF Spec

-----------------------------------------------------------------------------
(***************************************************************************)
(* Selections.  That a place has as many places up to it as its number     *)
(* says is a bijection between places and numbers: counting takes the part *)
(* of an induction over the list.                                          *)
(***************************************************************************)
LEMMA InOrderFacts ==
    ASSUME NEW places \in SUBSET Nat, IsFiniteSet(places)
    PROVE  \E n \in Nat : \E f \in [1..n -> places] :
               /\ n = Cardinality(places) /\ f = InOrder(places)
               /\ \A i \in places : \E k \in 1..n : f[k] = i
               /\ \A j, k \in 1..n : j < k => f[j] < f[k]
<1>1. PICK n \in Nat : n = Cardinality(places) /\ IsFiniteSet(places)
  BY FS_CardinalityType
<1>2. PICK upTo : upTo = [i \in places |-> {j \in places : j <= i}]
  OBVIOUS
<1>3. ASSUME NEW i \in places
      PROVE  /\ upTo[i] \in SUBSET places /\ i \in upTo[i] /\ IsFiniteSet(upTo[i])
             /\ Cardinality(upTo[i]) \in 1..n
  <2>1. upTo[i] \in SUBSET places /\ i \in upTo[i]
    BY <1>2
  <2>2. IsFiniteSet(upTo[i]) /\ Cardinality(upTo[i]) <= n
    BY <1>1, <2>1, FS_Subset
  <2>3. Cardinality(upTo[i]) \in Nat /\ Cardinality(upTo[i]) # 0
    BY <2>1, <2>2, FS_CardinalityType, FS_EmptySet
  <2> QED
    BY <2>1, <2>2, <2>3
<1>4. PICK pos : pos = [i \in places |-> Cardinality(upTo[i])]
  OBVIOUS
<1>5. ASSUME NEW i \in places, NEW j \in places, i < j PROVE pos[i] < pos[j]
  <2>1. upTo[i] \in SUBSET upTo[j] /\ j \notin upTo[i]
    <3>1. \A h \in places : h \in Nat
      OBVIOUS
    <3>2. upTo[i] = {h \in places : h <= i} /\ upTo[j] = {h \in places : h <= j}
      BY <1>2
    <3>3. \A h \in places : h <= i => h <= j
      BY <1>5, <3>1
    <3>4. ~(j <= i)
      BY <1>5, <3>1
    <3> QED
      BY <3>2, <3>3, <3>4
  <2>2. /\ Cardinality(upTo[i]) <= Cardinality(upTo[j])
        /\ Cardinality(upTo[j]) = Cardinality(upTo[i]) => upTo[j] = upTo[i]
    BY <1>3, <2>1, FS_Subset
  <2>3. j \in upTo[j]
    BY <1>3
  <2>4. Cardinality(upTo[i]) \in 1..n /\ Cardinality(upTo[j]) \in 1..n
    BY <1>3
  <2> QED
    BY <1>4, <2>1, <2>2, <2>3, <2>4
<1>6. pos \in [places -> 1..n]
  BY <1>3, <1>4
<1>7. \A i, j \in places : pos[i] = pos[j] => i = j
  <2>1. ASSUME NEW i \in places, NEW j \in places, pos[i] = pos[j] PROVE i = j
    <3>1. i \in Nat /\ j \in Nat /\ pos[i] \in Nat /\ pos[j] \in Nat
      BY <1>6
    <3>2. ~(i < j) /\ ~(j < i)
      BY <1>5, <2>1, <3>1
    <3> QED
      BY <3>1, <3>2
  <2> QED
    BY <2>1
<1>8. pos \in Surjection(places, 1..n)
  <2>1. pos \in Injection(places, 1..n)
    BY <1>6, <1>7 DEF Injection, IsInjective
  <2>2. IsFiniteSet(1..n) /\ Cardinality(1..n) = n
    BY FS_Interval
  <2> QED
    BY <1>1, <2>1, <2>2, FS_Injection
<1>9. \A k \in 1..n : \E i \in places : pos[i] = k
  BY <1>8 DEF Surjection
<1>10. PICK f : f = InOrder(places)
  OBVIOUS
<1>11. f = [k \in 1..n |-> f[k]] /\ \A k \in 1..n : f[k] = Nth(places, k)
  BY <1>1, <1>10 DEF InOrder
<1>12. ASSUME NEW k \in 1..n PROVE f[k] \in places /\ pos[f[k]] = k
  <2>1. \A i \in places : pos[i] = Cardinality({j \in places : j <= i})
    BY <1>2, <1>4
  <2>2. \E i \in places : Cardinality({j \in places : j <= i}) = k
    BY <1>9, <2>1
  <2>3. f[k] \in places /\ Cardinality({j \in places : j <= f[k]}) = k
    BY <1>11, <2>2 DEF Nth
  <2> QED
    BY <2>1, <2>3
<1>13. f \in [1..n -> places]
  BY <1>11, <1>12
<1>14. ASSUME NEW i \in places PROVE \E k \in 1..n : f[k] = i
  <2>1. pos[i] \in 1..n
    BY <1>6
  <2> QED
    BY <1>7, <1>12, <2>1
<1>15. ASSUME NEW j \in 1..n, NEW k \in 1..n, j < k PROVE f[j] < f[k]
  <2>1. PICK a \in places, b \in places : a = f[j] /\ b = f[k] /\ pos[a] = j /\ pos[b] = k
    BY <1>12
  <2>2. a \in Nat /\ b \in Nat /\ a # b /\ ~(b < a)
    BY <1>5, <1>15, <2>1
  <2> QED
    BY <2>1, <2>2
<1> QED
  BY <1>1, <1>10, <1>13, <1>14, <1>15

LEMMA SelectionNames ==
    ASSUME NEW s, NEW places
    PROVE  Link!Picked(s, places) = Picked(s, places) /\ Scan!Picked(s, places) = Picked(s, places)
<1>1. Link!Cardinality(places) = Cardinality(places) /\ Scan!Cardinality(places) = Cardinality(places)
  BY DEF Link!Cardinality, Scan!Cardinality, Cardinality
<1>2. Link!InOrder(places) = InOrder(places) /\ Scan!InOrder(places) = InOrder(places)
  BY DEF Link!InOrder, Scan!InOrder, InOrder, Link!Nth, Scan!Nth, Nth, Link!Cardinality, Scan!Cardinality, Cardinality
<1> QED
  BY <1>1, <1>2 DEF Link!Picked, Scan!Picked, Picked

\* One of the places is the first.
LEMMA FirstPlace ==
    ASSUME NEW places \in SUBSET Nat, IsFiniteSet(places), places # {}
    PROVE  \E i \in places : \A j \in places : i <= j
<1> PICK n \in Nat : \E f \in [1..n -> places] :
          /\ \A i \in places : \E k \in 1..n : f[k] = i
          /\ \A j, k \in 1..n : j < k => f[j] < f[k]
  BY InOrderFacts
<1>1. PICK f \in [1..n -> places] :
          /\ \A i \in places : \E k \in 1..n : f[k] = i
          /\ \A j, k \in 1..n : j < k => f[j] < f[k]
  OBVIOUS
<1>2. 1 \in 1..n
  <2>1. PICK h \in places : TRUE
    OBVIOUS
  <2>2. \E k \in 1..n : f[k] = h
    BY <1>1
  <2> QED
    BY <2>2
<1>3. ASSUME NEW j \in places PROVE f[1] <= j
  <2>1. PICK k \in 1..n : f[k] = j
    BY <1>1
  <2>2. 1 < k => f[1] < j
    BY <1>1, <1>2, <2>1
  <2>3. f[1] \in places /\ \A i \in places : i \in Nat
    BY <1>2
  <2>4. f[1] \in Nat /\ j \in Nat
    BY <2>3
  <2>5. k = 1 \/ 1 < k
    BY <2>1
  <2> QED
    BY <2>1, <2>2, <2>4, <2>5
<1> QED
  BY <1>2, <1>3

\* A list has the elements of s at the places, and different ones if those are.
ListsPlaces(list, n, s, places) ==
    /\ \A k \in 1..n : \E i \in places : list[k] = s[i]
    /\ \A i \in places : \E k \in 1..n : list[k] = s[i]
    /\ (\A i, j \in places : s[i] = s[j] => i = j) => \A j, k \in 1..n : list[j] = list[k] => j = k

LEMMA PickedFacts ==
    ASSUME NEW places \in SUBSET Nat, IsFiniteSet(places), NEW s, NEW n \in Nat, n = Cardinality(places)
    PROVE  ListsPlaces(Picked(s, places), n, s, places)
<1> PICK picked : picked = Picked(s, places)
  OBVIOUS
<1>1. PICK f \in [1..n -> places] :
          /\ f = InOrder(places)
          /\ \A i \in places : \E k \in 1..n : f[k] = i
          /\ \A j, k \in 1..n : j < k => f[j] < f[k]
  BY InOrderFacts
<1>2. picked = [k \in 1..n |-> s[f[k]]]
  BY <1>1 DEF Picked
<1>3. \A k \in 1..n : \E i \in places : picked[k] = s[i]
  <2>1. \A k \in 1..n : f[k] \in places /\ picked[k] = s[f[k]]
    BY <1>2
  <2> QED
    BY <2>1
<1>4. ASSUME NEW i \in places PROVE \E k \in 1..n : picked[k] = s[i]
  <2>1. PICK k \in 1..n : f[k] = i
    BY <1>1
  <2> QED
    BY <1>2, <2>1
<1>5. ASSUME NEW j \in 1..n, NEW k \in 1..n, f[j] = f[k] PROVE j = k
  <2>1. f[j] \in Nat /\ f[k] \in Nat
    <3>1. f[j] \in places /\ f[k] \in places /\ \A i \in places : i \in Nat
      OBVIOUS
    <3> QED
      BY <3>1
  <2>2. ~(j < k) /\ ~(k < j)
    BY <1>1, <1>5, <2>1
  <2> QED
    BY <2>2
<1>6. ASSUME \A i, j \in places : s[i] = s[j] => i = j
      PROVE  \A j, k \in 1..n : picked[j] = picked[k] => j = k
  <2>1. ASSUME NEW j \in 1..n, NEW k \in 1..n, picked[j] = picked[k] PROVE j = k
    <3>1. s[f[j]] = s[f[k]]
      BY <1>2, <2>1
    <3>2. f[j] = f[k]
      BY <1>6, <3>1
    <3> QED
      BY <1>5, <3>2
  <2> QED
    BY <2>1
<1>7. ListsPlaces(picked, n, s, places)
  BY <1>3, <1>4, <1>6, Zenon DEF ListsPlaces
<1> QED
  BY <1>7

-----------------------------------------------------------------------------
(***************************************************************************)
(* Links.  Of the event the extractor is at, each link was handed over or  *)
(* is still left; the log behind it only grows.                            *)
(***************************************************************************)
LinkSet(event) == {Link!LinksOf(event)[k] : k \in DOMAIN Link!LinksOf(event)}
IsLinked(x, event) == <<x, event.depth + 1>> \in linked
IsLeft(x) == \E j \in DOMAIN extractor.left : extractor.left[j] = x

ExtractorInv ==
    extractor.pc = "links" =>
        LET event == crawled.log[extractor.from] IN
        /\ extractor.from \in 1..extractor.to /\ extractor.to \in Nat /\ extractor.to <= Len(crawled.log)
        /\ extractor.left \in Seq(LinkSet(event))
        /\ \A x \in LinkSet(event) : IsLinked(x, event) \/ IsLeft(x)

LinkInv ==
    /\ crawled \in StreamOf(Events) /\ Len(crawled.log) <= MaxCrawled
    /\ acked \subseteq 1..Len(crawled.log)
    /\ ExtractorInv /\ AcknowledgedIsExtracted

\* The links of a page that may be crawled.
CrawlableOf(links) == {links[i] : i \in DOMAIN links} \cap Crawlable

\* Kept lists each of them once, whatever the page repeats.
LEMMA KeptFacts ==
    ASSUME NEW links, NEW length \in Nat, DOMAIN links = 1..length
    PROVE  /\ Link!Kept(links) \in Seq(CrawlableOf(links))
           /\ Len(Link!Kept(links)) = Cardinality(CrawlableOf(links))
           /\ \A x \in CrawlableOf(links) : \E k \in DOMAIN Link!Kept(links) : Link!Kept(links)[k] = x
           /\ \A j, k \in DOMAIN Link!Kept(links) : Link!Kept(links)[j] = Link!Kept(links)[k] => j = k
<1>2. PICK firsts \in SUBSET Nat : firsts = Link!Firsts(links) /\ IsFiniteSet(firsts) /\ firsts \subseteq 1..length
  <2>1. Link!Firsts(links) \subseteq 1..length /\ IsFiniteSet(1..length)
    BY FS_Interval DEF Link!Firsts
  <2>2. IsFiniteSet(Link!Firsts(links))
    BY <2>1, FS_Subset
  <2> QED
    BY <2>1, <2>2
<1>3. \A i \in firsts : links[i] \in CrawlableOf(links) /\ \A j \in 1..(i - 1) : links[j] # links[i]
  BY <1>2 DEF Link!Firsts, CrawlableOf
<1>4. ASSUME NEW i \in firsts, NEW j \in firsts, links[i] = links[j] PROVE i = j
  <2>1. i \in 1..length /\ j \in 1..length
    BY <1>2
  <2>2. ~(i < j) /\ ~(j < i)
    BY <1>3, <1>4, <2>1
  <2> QED
    BY <2>1, <2>2
<1>5. ASSUME NEW x \in CrawlableOf(links) PROVE \E i \in firsts : links[i] = x
  <2>1. PICK S \in SUBSET Nat : S = {i \in 1..length : links[i] = x} /\ IsFiniteSet(S)
    <3>1. IsFiniteSet(1..length) /\ {i \in 1..length : links[i] = x} \in SUBSET (1..length)
      BY FS_Interval
    <3>2. IsFiniteSet({i \in 1..length : links[i] = x})
      BY <3>1, FS_Subset
    <3> QED
      BY <3>2
  <2>2. S # {} /\ x \in Crawlable
    BY <2>1 DEF CrawlableOf
  <2>3. PICK i \in S : \A j \in S : i <= j
    BY <2>1, <2>2, FirstPlace
  <2>4. i \in 1..length /\ links[i] = x
    BY <2>1
  <2>5. ASSUME NEW j \in 1..(i - 1) PROVE links[j] # links[i]
    <3>1. j \in 1..length /\ ~(i <= j)
      BY <2>4
    <3> QED
      BY <2>1, <2>3, <2>4, <3>1
  <2>6. i \in firsts
    BY <1>2, <2>2, <2>4, <2>5 DEF Link!Firsts
  <2> QED
    BY <2>4, <2>6
<1>6. PICK n \in Nat, kept \in Seq(CrawlableOf(links)) :
          /\ kept = Picked(links, firsts) /\ Len(kept) = n
          /\ \A i \in firsts : \E k \in 1..n : kept[k] = links[i]
          /\ \A j, k \in 1..n : kept[j] = kept[k] => j = k
  <2>1. \A i \in firsts : links[i] \in CrawlableOf(links)
    BY <1>3
  <2>2. \A i, j \in firsts : links[i] = links[j] => i = j
    BY <1>4
  <2>3. PICK n \in Nat : n = Cardinality(firsts)
    BY <1>2, FS_CardinalityType
  <2>4. PICK kept : kept = Picked(links, firsts)
    OBVIOUS
  <2>5. /\ \A k \in 1..n : \E i \in firsts : kept[k] = links[i]
        /\ \A i \in firsts : \E k \in 1..n : kept[k] = links[i]
        /\ \A j, k \in 1..n : kept[j] = kept[k] => j = k
    <3>1. ListsPlaces(kept, n, links, firsts)
      BY <1>2, <2>3, <2>4, PickedFacts
    <3> QED
      BY <2>2, <3>1, Zenon DEF ListsPlaces
  <2>6. \A k \in 1..n : kept[k] \in CrawlableOf(links)
    BY <2>1, <2>5
  <2>7. kept \in Seq(CrawlableOf(links)) /\ Len(kept) = n
    <3>1. kept = [k \in 1..n |-> links[InOrder(firsts)[k]]]
      BY <2>3, <2>4 DEF Picked
    <3>2. kept \in [1..n -> CrawlableOf(links)]
      BY <2>6, <3>1
    <3> QED
      BY <3>2
  <2> QED
    BY <2>4, <2>5, <2>7
<1>7. Link!Kept(links) = kept
  BY <1>2, <1>6, SelectionNames DEF Link!Kept
<1>8. DOMAIN kept = 1..n
  BY <1>6
<1>9. ASSUME NEW x \in CrawlableOf(links) PROVE \E k \in 1..n : kept[k] = x
  <2>1. PICK i \in firsts : links[i] = x
    BY <1>5
  <2> QED
    BY <1>6, <2>1
<1>10. n = Cardinality(CrawlableOf(links))
  <2>1. kept \in Injection(1..n, CrawlableOf(links)) /\ kept \in Surjection(1..n, CrawlableOf(links))
    <3>1. kept \in [1..n -> CrawlableOf(links)]
      BY <1>6, <1>8
    <3> QED
      BY <1>6, <1>9, <3>1 DEF Injection, IsInjective, Surjection
  <2>2. IsFiniteSet(1..n) /\ Cardinality(1..n) = n
    BY <1>6, FS_Interval
  <2>3. /\ IsFiniteSet(CrawlableOf(links))
        /\ Cardinality(CrawlableOf(links)) = Cardinality(1..n) <=> kept \in Injection(1..n, CrawlableOf(links))
    BY <2>1, <2>2, FS_Surjection
  <2> QED
    BY <2>1, <2>2, <2>3
<1> QED
  BY <1>6, <1>7, <1>8, <1>9, <1>10

\* What an event leads to: its page's crawlable links if there are not too many.
LEMMA LinksOfFacts ==
    ASSUME NEW event \in Events
    PROVE  /\ Link!LinksOf(event) \in Seq(CrawlableOf(event.links))
           /\ Link!LinksOf(event) \in Seq(LinkSet(event))
           /\ Link!LinksOf(event) # <<>> => event.form = "fields" /\ event.html /\ event.depth < MaxDepth
           /\ event.form = "fields" /\ event.html /\ event.depth < MaxDepth /\ Cardinality(CrawlableOf(event.links)) <= MaxLinks =>
                  CrawlableOf(event.links) \subseteq LinkSet(event)
<1>1. /\ event.links \in Seq(Links) /\ event.depth \in Nat /\ event.html \in BOOLEAN /\ event.form \in {"data", "fields"}
      /\ MaxLinks \in Nat /\ MaxDepth \in Nat
  BY DiscoveryAssumption DEF DiscoveryAssumption, Link!LinkAssumption
<1>2. PICK links : links = event.links /\ DOMAIN links = 1..Len(links) /\ Len(links) \in Nat
  BY <1>1
<1>3. PICK S : S = CrawlableOf(links)
  OBVIOUS
<1>4. PICK kept : kept = Link!Kept(links)
  OBVIOUS
<1>5. kept \in Seq(S) /\ Len(kept) = Cardinality(S) /\ \A x \in S : \E k \in DOMAIN kept : kept[k] = x
  BY <1>2, <1>3, <1>4, KeptFacts
<1>6. PICK m \in 0..Len(kept) :
          /\ m = IF Len(kept) < MaxLinks THEN Len(kept) ELSE MaxLinks
          /\ Len(kept) <= MaxLinks => m = Len(kept)
  BY <1>1, <1>5
<1>7. SubSeq(kept, 1, m) = [k \in 1..m |-> kept[k]]
  BY <1>5, <1>6
<1>8. PICK given : given = Link!LinksOf(event)
  OBVIOUS
<1>9. given = IF event.form # "fields" \/ event.depth >= MaxDepth \/ ~event.html THEN <<>> ELSE SubSeq(kept, 1, m)
  <2>1. m = IF Len(kept) < MaxLinks THEN Len(kept) ELSE MaxLinks
    BY <1>6, Zenon
  <2>2. given = IF event.form # "fields" \/ event.depth >= MaxDepth \/ ~event.html THEN <<>>
                ELSE SubSeq(kept, 1, IF Len(kept) < MaxLinks THEN Len(kept) ELSE MaxLinks)
    BY <1>2, <1>4, <1>8, Zenon DEF Link!LinksOf
  <2> QED
    BY <2>1, <2>2, Zenon
<1>10. given = <<>> \/ (event.form = "fields" /\ event.html /\ event.depth < MaxDepth /\ given = [k \in 1..m |-> kept[k]])
  BY <1>1, <1>7, <1>9
<1>11. ASSUME event.form = "fields", event.html, event.depth < MaxDepth PROVE given = [k \in 1..m |-> kept[k]]
  BY <1>1, <1>7, <1>9, <1>11
<1>12. given \in Seq(S)
  <2>1. CASE given = <<>>
    BY <2>1
  <2>2. CASE given = [k \in 1..m |-> kept[k]]
    <3>1. \A k \in 1..m : kept[k] \in S
      BY <1>5, <1>6
    <3> QED
      BY <2>2, <3>1
  <2> QED
    BY <1>10, <2>1, <2>2
<1>13. given \in Seq(LinkSet(event))
  <2>1. \A k \in DOMAIN given : given[k] \in LinkSet(event)
    BY <1>8 DEF LinkSet
  <2> QED
    BY <1>12, <2>1
<1>14. ASSUME event.form = "fields", event.html, event.depth < MaxDepth, Cardinality(S) <= MaxLinks, NEW x \in S
       PROVE  x \in LinkSet(event)
  <2>1. m = Len(kept) /\ DOMAIN kept = 1..Len(kept)
    <3>1. Len(kept) <= MaxLinks
      BY <1>5, <1>14, Zenon
    <3>2. m = Len(kept)
      BY <1>6, <3>1, Zenon
    <3>3. DOMAIN kept = 1..Len(kept)
      BY <1>5
    <3> QED
      BY <3>2, <3>3
  <2>2. given = [k \in 1..m |-> kept[k]]
    BY <1>11, <1>14
  <2>3. PICK k \in 1..m : kept[k] = x
    BY <1>5, <2>1
  <2>4. k \in DOMAIN given /\ given[k] = x
    BY <2>2, <2>3
  <2> QED
    BY <1>8, <2>4 DEF LinkSet
<1>15. given # <<>> => event.form = "fields" /\ event.html /\ event.depth < MaxDepth
  BY <1>10
<1> QED
  BY <1>2, <1>3, <1>8, <1>12, <1>13, <1>14, <1>15

\* The stream's commands under the name the extractor knows them by.
LEMMA StreamCommands ==
    ASSUME NEW s, NEW x, NEW n
    PROVE  /\ Link!XAdd(s, x, n) = XAdd(s, x, n) /\ Link!XReadGroup(s, n) = XReadGroup(s, n)
           /\ Link!XAck(s, x) = XAck(s, x) /\ Link!NextBatch(s, n) = NextBatch(s, n)
           /\ Link!Unread(s) = Unread(s) /\ Link!LastOfBatch(s, n) = LastOfBatch(s, n)
           /\ Link!EmptyStream = EmptyStream
  BY DEF Link!XAdd, XAdd, Link!XReadGroup, XReadGroup, Link!XAck, XAck, Link!NextBatch, NextBatch,
         Link!Unread, Unread, Link!LastOfBatch, LastOfBatch, Link!EmptyStream, EmptyStream

\* No event was published, and none is read.
LEMMA LinkInitially == Init => LinkInv
<1>1. EmptyStream \in StreamOf(Events) /\ Len(EmptyStream.log) = 0 /\ MaxCrawled \in Nat
  BY EmptyIsStream, DiscoveryAssumption DEF DiscoveryAssumption, Link!LinkAssumption
<1> QED
  BY <1>1, StreamCommands DEF Init, Link!InitLinks, LinkInv, ExtractorInv, AcknowledgedIsExtracted,
     Link!AcknowledgedIsExtracted, Link!Resting, Link!Extractor

\* An extractor that reads no event knows of no link.
LEMMA NotAtLinks == ASSUME extractor'.pc # "links" PROVE ExtractorInv'
  BY DEF ExtractorInv

\* What was acknowledged stays extracted while the log and what was handed over grow.
LEMMA ExtractedStays ==
    ASSUME LinkInv, linked \subseteq linked', acked' = acked,
           crawled' \in StreamOf(Events), Len(crawled.log) <= Len(crawled'.log),
           \A i \in 1..Len(crawled.log) : crawled'.log[i] = crawled.log[i]
    PROVE  AcknowledgedIsExtracted' /\ acked' \subseteq 1..Len(crawled'.log)
<1>1. /\ Len(crawled.log) \in Nat /\ Len(crawled'.log) \in Nat /\ acked \subseteq 1..Len(crawled.log)
      /\ Link!AcknowledgedIsExtracted
  BY StreamFields DEF LinkInv, AcknowledgedIsExtracted
<1>2. acked' \subseteq 1..Len(crawled'.log)
  BY <1>1
<1>3. Link!AcknowledgedIsExtracted'
  BY <1>1 DEF Link!AcknowledgedIsExtracted, Link!HandedOver
<1> QED
  BY <1>2, <1>3 DEF AcknowledgedIsExtracted

\* An event that begins has all its links left.
LEMMA EventBegins ==
    ASSUME NEW from \in Nat \ {0}, NEW to \in Nat, from <= to, to <= Len(crawled'.log),
           crawled' \in StreamOf(Events),
           extractor' = Link!Extractor("links", from, to, Link!LinksOf(crawled'.log[from]))
    PROVE  ExtractorInv'
<1>1. crawled'.log \in Seq(Events) /\ Len(crawled'.log) \in Nat
  BY StreamFields
<1>2. PICK event \in Events : event = crawled'.log[from]
  BY <1>1
<1>3. extractor'.from = from /\ extractor'.to = to /\ extractor'.left = Link!LinksOf(event)
  BY <1>2 DEF Link!Extractor
<1>4. extractor'.left \in Seq(LinkSet(event))
  BY <1>3, LinksOfFacts
<1>5. \A x \in LinkSet(event) : IsLeft(x)'
  BY <1>3 DEF LinkSet, IsLeft
<1> QED
  BY <1>2, <1>3, <1>4, <1>5 DEF ExtractorInv

\* An event is published, in either form: nothing the extractor is at changes.
LEMMA PublishStep == ASSUME LinkInv, NEW event \in Events, Link!Publish(event) PROVE LinkInv'
<1>1. /\ crawled \in StreamOf(Events) /\ CrawlMaxLen \in Nat \ {0}
      /\ MaxCrawled \in Nat /\ Len(crawled.log) < MaxCrawled
  BY DiscoveryAssumption DEF DiscoveryAssumption, Link!LinkAssumption, LinkInv, Link!Publish
<1>2. crawled' \in XAdd(crawled, event, CrawlMaxLen) /\ UNCHANGED <<extractor, linked, acked>>
  BY StreamCommands DEF Link!Publish
<1>3. /\ crawled' \in StreamOf(Events) /\ Len(crawled'.log) = Len(crawled.log) + 1 /\ Len(crawled.log) \in Nat
      /\ \A i \in 1..Len(crawled.log) : crawled'.log[i] = crawled.log[i]
  BY <1>1, <1>2, XAddAppends, StreamFields DEF Entries
<1>4. AcknowledgedIsExtracted' /\ acked' \subseteq 1..Len(crawled'.log)
  BY <1>2, <1>3, ExtractedStays
<1>5. ExtractorInv'
  <2>1. CASE extractor.pc = "links"
    <3>1. extractor.from \in 1..Len(crawled.log) /\ extractor.to <= Len(crawled'.log)
      BY <1>3, <2>1 DEF LinkInv, ExtractorInv
    <3>2. crawled'.log[extractor.from] = crawled.log[extractor.from]
      BY <1>3, <3>1
    <3> QED
      BY <1>2, <2>1, <3>1, <3>2 DEF LinkInv, ExtractorInv, IsLinked, IsLeft
  <2>2. CASE extractor.pc # "links"
    BY <1>2, <2>2, NotAtLinks
  <2> QED
    BY <2>1, <2>2
<1> QED
  BY <1>1, <1>3, <1>4, <1>5 DEF LinkInv

\* Steps after which the extractor reads no event, and the log is the same.
LEMMA NoEventStep ==
    ASSUME LinkInv, extractor'.pc # "links", UNCHANGED <<linked, acked>>,
           crawled' \in StreamOf(Events), crawled'.log = crawled.log
    PROVE  LinkInv'
  BY NotAtLinks, ExtractedStays, StreamFields DEF LinkInv

LEMMA ReadBatchStep == ASSUME LinkInv, Link!ReadBatch PROVE LinkInv'
<1>1. /\ crawled \in StreamOf(Events) /\ LinkBatch \in Nat \ {0} /\ NextBatch(crawled, LinkBatch) # {}
      /\ crawled' = XReadGroup(crawled, LinkBatch) /\ UNCHANGED <<linked, acked>>
  BY DiscoveryAssumption, StreamCommands DEF DiscoveryAssumption, Link!LinkAssumption, LinkInv, Link!ReadBatch
<1>2. /\ crawled' \in StreamOf(Events) /\ crawled'.log = crawled.log
      /\ LastOfBatch(crawled, LinkBatch) \in Unread(crawled)..Len(crawled.log)
      /\ Unread(crawled) \in Nat \ {0}
  BY <1>1, XReadGroupIsStream, UnreadIsBehind
<1>3. CASE extractor' = Link!Resting("poll")
  BY <1>1, <1>2, <1>3, NoEventStep DEF Link!Resting, Link!Extractor
<1>4. CASE extractor' = Link!Extractor("links", Unread(crawled), LastOfBatch(crawled, LinkBatch),
                                       Link!LinksOf(crawled.log[Unread(crawled)]))
  <2>1. ExtractorInv'
    BY <1>2, <1>4, EventBegins, StreamFields
  <2>2. AcknowledgedIsExtracted' /\ acked' \subseteq 1..Len(crawled'.log)
    BY <1>1, <1>2, ExtractedStays, StreamFields
  <2> QED
    BY <1>2, <2>1, <2>2 DEF LinkInv
<1> QED
  BY <1>3, <1>4, StreamCommands DEF Link!ReadBatch, Link!Become

LEMMA HandOverStep == ASSUME LinkInv, Link!HandOver PROVE LinkInv'
<1>1. /\ extractor.pc = "links" /\ extractor.left # <<>> /\ UNCHANGED <<crawled, acked>>
      /\ crawled \in StreamOf(Events) /\ Len(crawled.log) \in Nat
  BY StreamFields DEF Link!HandOver, Link!At, LinkInv
<1>2. PICK event : event = crawled.log[extractor.from]
  OBVIOUS
<1>3. CASE extractor' = Link!Resting("poll") /\ UNCHANGED linked
  BY <1>1, <1>3, NoEventStep DEF Link!Resting, Link!Extractor
<1>4. CASE /\ linked' = linked \cup {<<Head(extractor.left), event.depth + 1>>}
           /\ extractor' = Link!Extractor("links", extractor.from, extractor.to, Tail(extractor.left))
  <2>1. /\ extractor'.from = extractor.from /\ extractor'.to = extractor.to /\ extractor'.left = Tail(extractor.left)
    BY <1>4 DEF Link!Extractor
  <2>2. PICK left : left = extractor.left /\ left \in Seq(LinkSet(event)) /\ left # <<>>
    BY <1>1, <1>2 DEF LinkInv, ExtractorInv
  <2>3. Tail(left) \in Seq(LinkSet(event))
    BY <2>2
  <2>4. \A j \in DOMAIN left : left[j] = Head(left) \/ \E k \in DOMAIN Tail(left) : Tail(left)[k] = left[j]
    <3>1. ASSUME NEW j \in DOMAIN left, j # 1 PROVE j - 1 \in DOMAIN Tail(left) /\ Tail(left)[j - 1] = left[j]
      BY <2>2, <3>1
    <3>2. left[1] = Head(left)
      BY <2>2
    <3> QED
      BY <3>1, <3>2
  <2>5. ASSUME NEW x \in LinkSet(event) PROVE IsLinked(x, event)' \/ IsLeft(x)'
    <3>1. IsLinked(x, event) \/ IsLeft(x)
      BY <1>1, <1>2 DEF LinkInv, ExtractorInv
    <3>2. CASE IsLinked(x, event)
      BY <1>4, <3>2 DEF IsLinked
    <3>3. CASE IsLeft(x)
      <4>1. PICK j \in DOMAIN left : left[j] = x
        BY <2>2, <3>3 DEF IsLeft
      <4>2. CASE x = Head(left)
        BY <1>4, <2>2, <4>2 DEF IsLinked
      <4>3. CASE x # Head(left)
        BY <2>1, <2>2, <2>4, <4>1, <4>3 DEF IsLeft
      <4> QED
        BY <4>2, <4>3
    <3> QED
      BY <3>1, <3>2, <3>3
  <2>6. ExtractorInv'
    BY <1>1, <1>2, <2>1, <2>2, <2>3, <2>5 DEF LinkInv, ExtractorInv
  <2>7. AcknowledgedIsExtracted' /\ acked' \subseteq 1..Len(crawled'.log)
    BY <1>1, <1>4, ExtractedStays
  <2> QED
    BY <1>1, <2>6, <2>7 DEF LinkInv
<1> QED
  BY <1>2, <1>3, <1>4 DEF Link!HandOver, Link!Become

\* The acknowledgement: with nothing left, every link was handed over.
LEMMA AcknowledgeStep == ASSUME LinkInv, Link!Acknowledge PROVE LinkInv'
<1>1. /\ extractor.pc = "links" /\ extractor.left = <<>> /\ UNCHANGED linked
      /\ crawled \in StreamOf(Events) /\ Len(crawled.log) \in Nat
  BY StreamFields DEF Link!Acknowledge, Link!At, LinkInv
<1>2. PICK i \in 1..Len(crawled.log) : i = extractor.from /\ i <= extractor.to
                                       /\ extractor.to \in Nat /\ extractor.to <= Len(crawled.log)
  BY <1>1 DEF LinkInv, ExtractorInv
<1>3. CASE UNCHANGED <<crawled, acked>> /\ extractor' = Link!Resting("poll")
  BY <1>1, <1>3, NoEventStep DEF Link!Resting, Link!Extractor
<1>4. CASE /\ crawled' = XAck(crawled, i) /\ acked' = acked \cup {i}
           /\ \/ extractor' = Link!Resting("poll")
              \/ /\ i # extractor.to
                 /\ extractor' = Link!Extractor("links", i + 1, extractor.to, Link!LinksOf(crawled.log[i + 1]))
  <2>1. crawled' \in StreamOf(Events) /\ crawled'.log = crawled.log
    BY <1>1, <1>4, XAckIsStream
  <2>2. \A x \in LinkSet(crawled.log[i]) : IsLinked(x, crawled.log[i])
    BY <1>1, <1>2 DEF LinkInv, ExtractorInv, IsLeft
  <2>3. \A k \in DOMAIN Link!LinksOf(crawled.log[i]) :
            <<Link!LinksOf(crawled.log[i])[k], crawled.log[i].depth + 1>> \in linked
    BY <2>2 DEF LinkSet, IsLinked
  <2>4. Link!AcknowledgedIsExtracted
    BY DEF LinkInv, AcknowledgedIsExtracted
  <2>5. AcknowledgedIsExtracted'
    BY <1>1, <1>4, <2>1, <2>3, <2>4 DEF AcknowledgedIsExtracted, Link!AcknowledgedIsExtracted, Link!HandedOver
  <2>6. acked' \subseteq 1..Len(crawled'.log)
    BY <1>2, <1>4, <2>1 DEF LinkInv
  <2>7. ExtractorInv'
    <3>1. CASE extractor' = Link!Resting("poll")
      BY <3>1, NotAtLinks DEF Link!Resting, Link!Extractor
    <3>2. CASE /\ i # extractor.to
               /\ extractor' = Link!Extractor("links", i + 1, extractor.to, Link!LinksOf(crawled.log[i + 1]))
      BY <1>1, <1>2, <2>1, <3>2, EventBegins
    <3> QED
      BY <1>4, <3>1, <3>2
  <2> QED
    BY <2>1, <2>5, <2>6, <2>7 DEF LinkInv
<1> QED
  BY <1>2, <1>3, <1>4, StreamCommands DEF Link!Acknowledge, Link!AcknowledgeEvent, Link!Become

LEMMA LinkKept == LinkInv /\ [Next]_vars => LinkInv'
<1> SUFFICES ASSUME LinkInv, [Next]_vars PROVE LinkInv'
  OBVIOUS
<1>1. crawled \in StreamOf(Events)
  BY DEF LinkInv
<1>2. CASE Link!BeginLinks \/ Link!CancelLinks \/ Link!EnsureConsumerGroup
  <2>1. extractor'.pc # "links" /\ UNCHANGED <<crawled, linked, acked>>
    BY <1>2 DEF Link!BeginLinks, Link!CancelLinks, Link!EnsureConsumerGroup, Link!Become, Link!Resting, Link!Extractor
  <2> QED
    BY <1>1, <2>1, NoEventStep
<1>3. CASE UNCHANGED linkVars
  BY <1>3 DEF linkVars, LinkInv, ExtractorInv, IsLinked, IsLeft, AcknowledgedIsExtracted, Link!AcknowledgedIsExtracted,
              Link!HandedOver
<1> QED
  BY <1>2, <1>3, LinkFrame, PublishStep, ReadBatchStep, HandOverStep, AcknowledgeStep
  DEF Link!LinkNext, Link!LinkSteps, Link!LinkWorld, Link!Crawled, Link!Described

\* An event in the form that _process_event documents is acknowledged only when
\* all its links were handed over, through failing calls and restarts
\* (link_extractor.py:167).  An event as the crawler writes it has none; what that
\* comes to is said by LinksStemFromFields below.
THEOREM AcknowledgedAfterLinks == Spec => []AcknowledgedIsExtracted
<1>1. LinkInv => AcknowledgedIsExtracted
  BY DEF LinkInv
<1> QED
  BY LinkInitially, LinkKept, <1>1, PTL DEF Spec

\* The crawl events as an abstract stream reader sees them.
CrawlEvents == 1..MaxCrawled
LinkReaders == INSTANCE StreamGroup WITH
    Entry <- CrawlEvents, phase <- [i \in CrawlEvents |-> Phase(crawled, i)]

LEMMA LinkGroupStep == LinkInv /\ [Next]_vars => [LinkReaders!Next]_([i \in CrawlEvents |-> Phase(crawled, i)])
<1> SUFFICES ASSUME LinkInv, [Next]_vars
             PROVE  \/ LinkReaders!Next
                    \/ [i \in CrawlEvents |-> Phase(crawled, i)]' = [i \in CrawlEvents |-> Phase(crawled, i)]
  OBVIOUS
<1> DEFINE phase == [i \in CrawlEvents |-> Phase(crawled, i)]
<1>1. /\ crawled \in StreamOf(Events) /\ Len(crawled.log) \in Nat /\ Len(crawled.log) <= MaxCrawled
      /\ MaxCrawled \in Nat /\ CrawlMaxLen \in Nat \ {0} /\ LinkBatch \in Nat \ {0}
      /\ CrawlEvents \subseteq Nat \ {0}
  BY DiscoveryAssumption, StreamFields DEF DiscoveryAssumption, Link!LinkAssumption, LinkInv, CrawlEvents
<1>2. ASSUME NEW event \in Events, Link!Publish(event)
      PROVE  \E i \in CrawlEvents, trimmed \in SUBSET CrawlEvents : LinkReaders!Add(i, trimmed)
  <2> DEFINE new == Len(crawled.log) + 1
             trimmed == {j \in CrawlEvents : Phase(crawled, j) = "waiting" /\ j < crawled'.first}
  <2>1. crawled' \in XAdd(crawled, event, CrawlMaxLen) /\ Len(crawled.log) < MaxCrawled
    BY <1>2, StreamCommands DEF Link!Publish
  <2>2. new \in CrawlEvents /\ Phase(crawled, new) = "absent"
    BY <1>1, <2>1 DEF CrawlEvents, Phase, Entries
  <2>3. \A j \in CrawlEvents : Phase(crawled', j) = IF j = new THEN "waiting"
                                 ELSE IF Phase(crawled, j) = "waiting" /\ j < crawled'.first THEN "over"
                                 ELSE Phase(crawled, j)
    BY <1>1, <2>1, XAddPhase
  <2>4. phase' = [j \in CrawlEvents |-> CASE j = new -> "waiting"
                                          [] j \in trimmed -> "over"
                                          [] OTHER -> phase[j]]
    <3>1. ASSUME NEW j \in CrawlEvents
          PROVE  Phase(crawled', j) = CASE j = new -> "waiting"
                                        [] j \in trimmed -> "over"
                                        [] OTHER -> phase[j]
      <4>1. new \notin trimmed
        BY <2>2
      <4> QED
        BY <2>3, <4>1
    <3> QED
      BY <3>1 DEF CrawlEvents
  <2>5. new \in LinkReaders!In("absent") /\ trimmed \subseteq LinkReaders!In("waiting")
    BY <2>2 DEF LinkReaders!In
  <2> HIDE DEF new, trimmed
  <2>6. LinkReaders!Add(new, trimmed)
    BY <2>4, <2>5 DEF LinkReaders!Add
  <2>7. trimmed \in SUBSET CrawlEvents
    BY DEF trimmed
  <2> QED
    BY <2>2, <2>6, <2>7
<1>3. ASSUME Link!ReadBatch PROVE \E batch \in SUBSET CrawlEvents : LinkReaders!Deliver(batch)
  <2> DEFINE batch == NextBatch(crawled, LinkBatch)
  <2>1. crawled' = XReadGroup(crawled, LinkBatch) /\ batch # {}
    BY <1>3, StreamCommands DEF Link!ReadBatch
  <2>2. batch \subseteq CrawlEvents
    BY <1>1, <2>1, XReadGroupIsStream, UnreadIsBehind DEF NextBatch, CrawlEvents
  <2>3. \A i \in CrawlEvents : /\ i \in batch => Phase(crawled, i) = "waiting"
                               /\ Phase(crawled', i) = IF i \in batch THEN "pending" ELSE Phase(crawled, i)
    BY <1>1, <2>1, XReadGroupPhase
  <2> HIDE DEF batch
  <2>4. LinkReaders!Deliver(batch)
    BY <2>1, <2>2, <2>3 DEF LinkReaders!Deliver, LinkReaders!In, LinkReaders!Move, CrawlEvents
  <2> QED
    BY <2>2, <2>4
<1>4. ASSUME NEW i, crawled' = XAck(crawled, i), crawled' # crawled
      PROVE  \E j \in CrawlEvents : LinkReaders!Acknowledge(j)
  <2>1. i \in crawled.pending
    BY <1>1, <1>4, StreamFields DEF XAck
  <2>2. i \in CrawlEvents
    BY <1>1, <2>1, StreamFields DEF CrawlEvents
  <2>3. Phase(crawled, i) = "pending" /\ \A j \in CrawlEvents :
           Phase(crawled', j) = IF j = i THEN "over" ELSE Phase(crawled, j)
    BY <1>1, <1>4, <2>1, XAckPhase
  <2> QED
    BY <2>2, <2>3 DEF LinkReaders!Acknowledge, LinkReaders!In, LinkReaders!Move, CrawlEvents
<1>5. ASSUME crawled' = crawled PROVE phase' = phase
  BY <1>5 DEF CrawlEvents
<1>6. \/ crawled' = crawled
      \/ \E event \in Events : Link!Publish(event)
      \/ Link!ReadBatch
      \/ \E i : crawled' = XAck(crawled, i)
  BY LinkFrame, StreamCommands
  DEF Link!LinkNext, Link!LinkSteps, Link!LinkWorld, Link!Crawled, Link!Described, Link!BeginLinks, Link!CancelLinks,
      Link!EnsureConsumerGroup, Link!HandOver, Link!Acknowledge, Link!AcknowledgeEvent, linkVars
<1> QED
  BY <1>2, <1>3, <1>4, <1>5, <1>6 DEF LinkReaders!Next

\* The extractor implements StreamGroup: a crawl event is read once, is over
\* when it is acknowledged, and stays pending for ever when its links or its
\* acknowledgement failed.
THEOREM ExtractorReadsOnce == Spec => LinkReaders!Spec
<1>1. Init => LinkReaders!Init
  BY StreamCommands DEF Init, Link!InitLinks, LinkReaders!Init, EmptyStream, Phase, Entries, CrawlEvents
<1>2. Spec => []LinkInv
  BY LinkInitially, LinkKept, PTL DEF Spec
<1> QED
  BY <1>1, <1>2, LinkGroupStep, PTL DEF Spec, LinkReaders!Spec

-----------------------------------------------------------------------------
(***************************************************************************)
(* What the extractor hands over.  The links it has left come from the     *)
(* filter, and the event they belong to is not too deep.                   *)
(***************************************************************************)

\* What was handed over is crawlable, and not too deep (link_extractor.py:194).
OnlyCrawlable == linked \subseteq Crawlable \X (1..MaxDepth)

ExtractorTypes ==
    /\ extractor \in [pc : {"off", "start", "raised", "poll", "links"}, from : Nat, to : Nat, left : Seq(Crawlable)]
    /\ extractor.pc = "links" /\ extractor.left # <<>> => crawled.log[extractor.from].depth < MaxDepth

LinkTypes == ExtractorTypes /\ OnlyCrawlable

LEMMA SequenceOfMore == ASSUME NEW S, NEW T, S \subseteq T, NEW s \in Seq(S) PROVE s \in Seq(T)
  OBVIOUS

\* An extractor without an event.
LEMMA RestingTypes ==
    ASSUME NEW pc \in {"off", "start", "raised", "poll"}, extractor' = Link!Resting(pc)
    PROVE  ExtractorTypes'
<1>1. Link!Resting(pc) \in [pc : {"off", "start", "raised", "poll", "links"}, from : Nat, to : Nat, left : Seq(Crawlable)]
      /\ Link!Resting(pc).left = <<>>
  BY DEF Link!Resting, Link!Extractor
<1> QED
  BY <1>1 DEF ExtractorTypes

LEMMA EventTypes ==
    ASSUME crawled \in StreamOf(Events), NEW from \in 1..Len(crawled.log), NEW to \in Nat,
           extractor' = Link!Extractor("links", from, to, Link!LinksOf(crawled.log[from])), crawled'.log = crawled.log
    PROVE  ExtractorTypes'
<1>1. crawled.log \in Seq(Events) /\ from \in Nat
  BY StreamFields
<1>2. PICK event \in Events : event = crawled.log[from]
  BY <1>1
<1>3. PICK left : left = Link!LinksOf(event)
  OBVIOUS
<1>4. left \in Seq(CrawlableOf(event.links)) /\ (left # <<>> => event.depth < MaxDepth)
  BY <1>3, LinksOfFacts
<1>5. left \in Seq(Crawlable)
  <2>1. CrawlableOf(event.links) \subseteq Crawlable
    BY DEF CrawlableOf
  <2> QED
    BY <1>4, <2>1, SequenceOfMore
<1>6. extractor' = [pc |-> "links", from |-> from, to |-> to, left |-> left]
  BY <1>2, <1>3 DEF Link!Extractor
<1>7. extractor' \in [pc : {"off", "start", "raised", "poll", "links"}, from : Nat, to : Nat, left : Seq(Crawlable)]
  BY <1>1, <1>5, <1>6
<1>8. extractor'.from = from /\ extractor'.left = left
  BY <1>6
<1> QED
  BY <1>2, <1>4, <1>7, <1>8 DEF ExtractorTypes

LEMMA LinkTypesInitially == Init => LinkTypes
<1>1. ASSUME Init PROVE LinkTypes
  <2>1. extractor = [pc |-> "off", from |-> 1, to |-> 0, left |-> <<>>] /\ linked = {}
    BY <1>1 DEF Init, Link!InitLinks, Link!Resting, Link!Extractor
  <2> QED
    BY <2>1 DEF LinkTypes, ExtractorTypes, OnlyCrawlable
<1> QED
  BY <1>1

LEMMA LinkTypesKept == ASSUME LinkInv, LinkTypes, [Next]_vars PROVE LinkTypes'
<1>1. crawled \in StreamOf(Events) /\ crawled.log \in Seq(Events) /\ Len(crawled.log) \in Nat
  BY StreamFields DEF LinkInv
<1>2. CASE Link!BeginLinks \/ Link!CancelLinks \/ Link!EnsureConsumerGroup
  <2>1. linked' = linked
    BY <1>2 DEF Link!BeginLinks, Link!CancelLinks, Link!EnsureConsumerGroup
  <2>2. \E pc \in {"off", "start", "raised", "poll"} : extractor' = Link!Resting(pc)
    BY <1>2 DEF Link!BeginLinks, Link!CancelLinks, Link!EnsureConsumerGroup, Link!Become
  <2> QED
    BY <2>1, <2>2, RestingTypes DEF LinkTypes, OnlyCrawlable
<1>3. ASSUME NEW event \in Events, Link!Publish(event) PROVE LinkTypes'
  <2>1. CrawlMaxLen \in Nat \ {0} /\ crawled' \in XAdd(crawled, event, CrawlMaxLen) /\ UNCHANGED <<extractor, linked>>
    BY <1>3, DiscoveryAssumption, StreamCommands DEF DiscoveryAssumption, Link!LinkAssumption, Link!Publish
  <2>2. \A i \in 1..Len(crawled.log) : crawled'.log[i] = crawled.log[i]
    BY <1>1, <2>1, XAddAppends DEF Entries
  <2>3. extractor.pc = "links" => extractor.from \in 1..Len(crawled.log)
    BY <1>1 DEF LinkInv, ExtractorInv
  <2> QED
    BY <2>1, <2>2, <2>3 DEF LinkTypes, ExtractorTypes, OnlyCrawlable
<1>4. CASE Link!ReadBatch
  <2>1. /\ LinkBatch \in Nat \ {0} /\ NextBatch(crawled, LinkBatch) # {}
        /\ crawled' = XReadGroup(crawled, LinkBatch) /\ UNCHANGED linked
    BY <1>4, DiscoveryAssumption, StreamCommands DEF DiscoveryAssumption, Link!LinkAssumption, Link!ReadBatch
  <2>2. /\ crawled'.log = crawled.log /\ LastOfBatch(crawled, LinkBatch) \in Unread(crawled)..Len(crawled.log)
        /\ Unread(crawled) \in Nat \ {0}
    BY <1>1, <2>1, XReadGroupIsStream, UnreadIsBehind
  <2>3. PICK from \in 1..Len(crawled.log), to \in Nat : from = Unread(crawled) /\ to = LastOfBatch(crawled, LinkBatch)
    BY <1>1, <2>2
  <2>4. \/ extractor' = Link!Resting("poll")
        \/ extractor' = Link!Extractor("links", from, to, Link!LinksOf(crawled.log[from]))
    BY <1>4, <2>3, StreamCommands DEF Link!ReadBatch, Link!Become
  <2>5. ExtractorTypes'
    BY <1>1, <2>2, <2>4, RestingTypes, EventTypes
  <2> QED
    BY <2>1, <2>5 DEF LinkTypes, OnlyCrawlable
<1>5. CASE Link!HandOver
  <2>1. /\ extractor.pc = "links" /\ extractor.left # <<>> /\ crawled' = crawled
        /\ extractor.from \in 1..Len(crawled.log)
    BY <1>1, <1>5 DEF Link!HandOver, Link!At, LinkInv, ExtractorInv
  <2>2. PICK event \in Events : event = crawled.log[extractor.from]
    BY <1>1, <2>1
  <2>3. event.depth \in Nat /\ MaxDepth \in Nat /\ event.depth < MaxDepth
    BY <2>1, <2>2, DiscoveryAssumption DEF DiscoveryAssumption, Link!LinkAssumption, LinkTypes, ExtractorTypes
  <2>4. PICK left \in Seq(Crawlable) : left = extractor.left /\ Head(left) \in Crawlable /\ Tail(left) \in Seq(Crawlable)
    BY <2>1 DEF LinkTypes, ExtractorTypes
  <2>5. CASE extractor' = Link!Resting("poll") /\ UNCHANGED linked
    BY <2>5, RestingTypes DEF LinkTypes, OnlyCrawlable
  <2>6. CASE /\ linked' = linked \cup {<<Head(left), event.depth + 1>>}
             /\ extractor' = Link!Extractor("links", extractor.from, extractor.to, Tail(left))
    <3>1. OnlyCrawlable'
      BY <2>3, <2>4, <2>6 DEF LinkTypes, OnlyCrawlable
    <3>2. extractor' = [pc |-> "links", from |-> extractor.from, to |-> extractor.to, left |-> Tail(left)]
      BY <2>6 DEF Link!Extractor
    <3>3. extractor.from \in Nat /\ extractor.to \in Nat
      BY DEF LinkTypes, ExtractorTypes
    <3>4. extractor' \in [pc : {"off", "start", "raised", "poll", "links"}, from : Nat, to : Nat, left : Seq(Crawlable)]
      BY <2>4, <3>2, <3>3
    <3>5. crawled'.log[extractor'.from].depth < MaxDepth
      BY <2>1, <2>2, <2>3, <3>2
    <3> QED
      BY <3>1, <3>4, <3>5 DEF LinkTypes, ExtractorTypes
  <2> QED
    BY <1>5, <2>2, <2>4, <2>5, <2>6 DEF Link!HandOver, Link!Become
<1>6. CASE Link!Acknowledge
  <2>1. /\ extractor.pc = "links" /\ linked' = linked
        /\ extractor.from \in 1..extractor.to /\ extractor.to \in Nat /\ extractor.to <= Len(crawled.log)
    BY <1>1, <1>6 DEF Link!Acknowledge, Link!At, LinkInv, ExtractorInv
  <2>2. crawled'.log = crawled.log
    <3>1. crawled' = crawled \/ crawled' = Link!XAck(crawled, extractor.from)
      BY <1>6 DEF Link!Acknowledge, Link!AcknowledgeEvent
    <3>2. crawled' = crawled \/ crawled' = XAck(crawled, extractor.from)
      BY <3>1, StreamCommands
    <3> QED
      BY <1>1, <3>2, XAckIsStream
  <2>3. \/ extractor' = Link!Resting("poll")
        \/ /\ extractor.from # extractor.to
           /\ extractor' = Link!Extractor("links", extractor.from + 1, extractor.to, Link!LinksOf(crawled.log[extractor.from + 1]))
    BY <1>6 DEF Link!Acknowledge, Link!Become
  <2>4. CASE extractor' = Link!Resting("poll")
    BY <2>1, <2>4, RestingTypes DEF LinkTypes, OnlyCrawlable
  <2>5. CASE extractor.from # extractor.to /\ extractor' = Link!Extractor("links", extractor.from + 1, extractor.to, Link!LinksOf(crawled.log[extractor.from + 1]))
    <3>1. PICK from \in 1..Len(crawled.log), to \in Nat : from = extractor.from + 1 /\ to = extractor.to
      BY <1>1, <2>1, <2>5
    <3>2. ExtractorTypes'
      BY <1>1, <2>2, <2>5, <3>1, EventTypes
    <3> QED
      BY <2>1, <3>2 DEF LinkTypes, OnlyCrawlable
  <2> QED
    BY <2>3, <2>4, <2>5
<1>7. CASE UNCHANGED linkVars
  BY <1>7 DEF linkVars, LinkTypes, ExtractorTypes, OnlyCrawlable
<1> QED
  BY <1>2, <1>3, <1>4, <1>5, <1>6, <1>7, LinkFrame
  DEF Link!LinkNext, Link!LinkSteps, Link!LinkWorld, Link!Crawled, Link!Described

LEMMA LinkTypesInvariant == Spec => [](LinkInv /\ LinkTypes)
<1>1. LinkInv /\ LinkTypes /\ [Next]_vars => (LinkInv /\ LinkTypes)'
  BY LinkKept, LinkTypesKept
<1> QED
  BY LinkInitially, LinkTypesInitially, <1>1, PTL DEF Spec

\* The log only grows, and none of it is rewritten.
LEMMA LogGrows ==
    ASSUME LinkInv, [Next]_vars
    PROVE  Len(crawled.log) <= Len(crawled'.log) /\ \A i \in 1..Len(crawled.log) : crawled'.log[i] = crawled.log[i]
<1>1. crawled \in StreamOf(Events) /\ Len(crawled.log) \in Nat /\ CrawlMaxLen \in Nat \ {0} /\ LinkBatch \in Nat \ {0}
  BY DiscoveryAssumption, StreamFields DEF DiscoveryAssumption, Link!LinkAssumption, LinkInv
<1>2. ASSUME NEW event \in Events, Link!Publish(event)
      PROVE  Len(crawled.log) <= Len(crawled'.log) /\ \A i \in 1..Len(crawled.log) : crawled'.log[i] = crawled.log[i]
  <2>1. crawled' \in XAdd(crawled, event, CrawlMaxLen)
    BY <1>2, StreamCommands DEF Link!Publish
  <2> QED
    BY <1>1, <2>1, XAddAppends DEF Entries
<1>3. CASE Link!ReadBatch
  <2>1. crawled' = XReadGroup(crawled, LinkBatch) /\ NextBatch(crawled, LinkBatch) # {}
    BY <1>3, StreamCommands DEF Link!ReadBatch
  <2>2. crawled'.log = crawled.log
    BY <1>1, <2>1, XReadGroupIsStream
  <2> QED
    BY <1>1, <2>2
<1>4. CASE Link!Acknowledge
  <2>1. crawled' = crawled \/ crawled' = XAck(crawled, extractor.from)
    BY <1>4, StreamCommands DEF Link!Acknowledge, Link!AcknowledgeEvent
  <2>2. crawled'.log = crawled.log
    BY <1>1, <2>1, XAckIsStream
  <2> QED
    BY <1>1, <2>2
<1>5. CASE crawled' = crawled
  BY <1>1, <1>5
<1> QED
  BY <1>2, <1>3, <1>4, <1>5, LinkFrame
  DEF Link!LinkNext, Link!LinkSteps, Link!LinkWorld, Link!Crawled, Link!Described, Link!BeginLinks, Link!CancelLinks,
      Link!EnsureConsumerGroup, Link!HandOver, linkVars

\* A link that was handed over stems from an event in the documented form, about
\* an HTML page that has the link and is not too deep.
Stems(item, event) ==
    /\ event.form = "fields" /\ event.html /\ event.depth < MaxDepth
    /\ item[1] \in CrawlableOf(event.links) /\ item[2] = event.depth + 1

LinksStem == \A item \in linked : \E i \in 1..Len(crawled.log) : Stems(item, crawled.log[i])

LEMMA LinksStemKept == ASSUME LinkInv, LinksStem, [Next]_vars PROVE LinksStem'
<1>1. /\ crawled.log \in Seq(Events) /\ Len(crawled.log) \in Nat /\ Len(crawled'.log) \in Nat
      /\ Len(crawled.log) <= Len(crawled'.log) /\ \A i \in 1..Len(crawled.log) : crawled'.log[i] = crawled.log[i]
  <2>1. LinkInv'
    BY LinkKept
  <2>2. /\ crawled.log \in Seq(Events) /\ Len(crawled.log) \in Nat /\ (crawled \in StreamOf(Events))'
    BY <2>1, StreamFields DEF LinkInv
  <2>3. Len(crawled'.log) \in Nat
    BY <2>2, StreamFields
  <2> QED
    BY <2>2, <2>3, LogGrows
<1>2. ASSUME NEW item, NEW i \in 1..Len(crawled.log), Stems(item, crawled.log[i])
      PROVE  \E j \in 1..Len(crawled'.log) : Stems(item, crawled'.log[j])
  <2>1. i \in 1..Len(crawled'.log) /\ crawled'.log[i] = crawled.log[i]
    BY <1>1
  <2> QED
    BY <1>2, <2>1
<1>3. \A item \in linked' : item \in linked \/ \E i \in 1..Len(crawled.log) : Stems(item, crawled.log[i])
  <2>1. CASE Link!HandOver
    <3>1. /\ extractor.pc = "links" /\ extractor.left # <<>> /\ extractor.from \in 1..Len(crawled.log)
      BY <1>1, <2>1 DEF Link!HandOver, Link!At, LinkInv, ExtractorInv
    <3>2. PICK i \in 1..Len(crawled.log), event \in Events : i = extractor.from /\ event = crawled.log[i]
      BY <1>1, <3>1
    <3>3. extractor.left \in Seq(LinkSet(event))
      BY <3>1, <3>2 DEF LinkInv, ExtractorInv
    <3>4. PICK x \in LinkSet(event) : x = Head(extractor.left)
      BY <3>1, <3>3
    <3>5. PICK item : item = <<x, event.depth + 1>>
      OBVIOUS
    <3>6. linked' = linked \/ linked' = linked \cup {item}
      BY <2>1, <3>2, <3>4, <3>5 DEF Link!HandOver
    <3>7. Link!LinksOf(event) \in Seq(CrawlableOf(event.links)) /\ Link!LinksOf(event) # <<>>
      <4>1. Link!LinksOf(event) \in Seq(CrawlableOf(event.links))
        BY LinksOfFacts
      <4>2. DOMAIN Link!LinksOf(event) # {}
        BY <3>4 DEF LinkSet
      <4> QED
        BY <4>1, <4>2
    <3>8. x \in CrawlableOf(event.links)
      BY <3>4, <3>7 DEF LinkSet
    <3>9. event.form = "fields" /\ event.html /\ event.depth < MaxDepth
      BY <3>7, LinksOfFacts
    <3>10. Stems(item, event)
      BY <3>5, <3>8, <3>9 DEF Stems
    <3> QED
      BY <3>2, <3>6, <3>10
  <2>2. CASE linked' = linked
    BY <2>2
  <2> QED
    BY <2>1, <2>2, LinkFrame
    DEF Link!LinkNext, Link!LinkSteps, Link!LinkWorld, Link!Crawled, Link!Described, Link!Publish, Link!BeginLinks,
        Link!CancelLinks, Link!EnsureConsumerGroup, Link!ReadBatch, Link!Acknowledge, linkVars
<1>4. ASSUME NEW item \in linked' PROVE \E j \in 1..Len(crawled'.log) : Stems(item, crawled'.log[j])
  <2>1. PICK i \in 1..Len(crawled.log) : Stems(item, crawled.log[i])
    BY <1>3, <1>4 DEF LinksStem
  <2> QED
    BY <1>2, <2>1
<1> QED
  BY <1>4 DEF LinksStem

\* Every crawlable link of a page whose event came in the documented form and was
\* acknowledged was handed over, if the page is not too deep and has no more of
\* them than the limit, however often it repeats them (link_extractor.py:196-208).
LinksAreHandedOver ==
    \A i \in acked : LET event == crawled.log[i] IN
        event.form = "fields" /\ event.html /\ event.depth < MaxDepth /\ Cardinality(CrawlableOf(event.links)) <= MaxLinks =>
            \A x \in CrawlableOf(event.links) : IsLinked(x, event)

\* As long as the crawlers alone write the stream, no link ever goes on to the
\* frontier (main.go:302-307 against link_extractor.py:189-200).
CrawlersLeadNowhere == (\A i \in 1..Len(crawled.log) : crawled.log[i].form = "data") => linked = {}

\* The form of the event decides.  From events in the form that _process_event
\* documents the crawlable links of a page go on, all of them once the event is
\* acknowledged, and nothing else does; from the events that publishCrawlEvent
\* writes nothing ever does.
THEOREM LinksStemFromFields == Spec => [](LinksAreHandedOver /\ LinksStem /\ CrawlersLeadNowhere)
<1>1. ASSUME LinkInv PROVE LinksAreHandedOver
  <2>1. ASSUME NEW i \in acked, NEW event, event = crawled.log[i], event.form = "fields", event.html, event.depth < MaxDepth,
               Cardinality(CrawlableOf(event.links)) <= MaxLinks, NEW x \in CrawlableOf(event.links)
        PROVE  IsLinked(x, event)
    <3>1. event \in Events
      BY <1>1, <2>1, StreamFields DEF LinkInv
    <3>2. x \in LinkSet(event)
      BY <2>1, <3>1, LinksOfFacts
    <3>3. PICK k \in DOMAIN Link!LinksOf(event) : x = Link!LinksOf(event)[k]
      BY <3>2 DEF LinkSet
    <3> QED
      BY <1>1, <2>1, <3>3 DEF LinkInv, AcknowledgedIsExtracted, Link!AcknowledgedIsExtracted, Link!HandedOver, IsLinked
  <2> QED
    BY <2>1 DEF LinksAreHandedOver
<1>2. LinksStem => CrawlersLeadNowhere
  BY DEF LinksStem, Stems, CrawlersLeadNowhere
<1>3. Init => LinksStem
  BY DEF Init, Link!InitLinks, LinksStem
<1>4. LinkInv /\ LinksStem /\ [Next]_vars => (LinkInv /\ LinksStem)'
  BY LinkKept, LinksStemKept
<1>5. LinkInv /\ LinksStem => LinksAreHandedOver /\ LinksStem /\ CrawlersLeadNowhere
  BY <1>1, <1>2
<1> QED
  BY LinkInitially, <1>3, <1>4, <1>5, PTL DEF Spec

-----------------------------------------------------------------------------
(***************************************************************************)
(* Types.  What the invariants above leave open, watcher by watcher: each  *)
(* lemma ending in Kept is an invariant that every step of the service     *)
(* keeps; DiscoveryInv is all of them.                                     *)
(***************************************************************************)

\* The failures counted are within their bound.
LEMMA UpsetsCounted == [Next]_vars => upsets' = upsets \/ (upsets < MaxUpsets /\ upsets' = upsets + 1)
<1> SUFFICES ASSUME [Next]_vars PROVE upsets' = upsets \/ (upsets < MaxUpsets /\ upsets' = upsets + 1)
  OBVIOUS
<1>1. CASE Lifecycle
  BY <1>1 DEF Lifecycle, Start, StartFails, EndOnException, Crash, Stop, Kill, Upset
<1>2. CASE MonitorTask \/ UNCHANGED vars
  BY <1>2 DEF MonitorTask, vars
<1>3. CASE SitemapTask \/ SitemapWorld
  BY <1>3 DEF SitemapTask, SitemapWorld, Sitemap!SitemapSteps, Sitemap!SitemapWorld, Sitemap!LoadDomains, Sitemap!PollAllDomains,
     Sitemap!CycleEnds, Sitemap!AskRobots, Sitemap!TryCandidate, Sitemap!CandidateEnds, Sitemap!Fetch, Sitemap!ChildrenEnd,
     Sitemap!Check, Sitemap!Remember, Sitemap!Report, Sitemap!Modify, Sitemap!Expire,
     Sitemap!Upset, Sitemap!CallSucceeds, Sitemap!RequestFails
<1>4. CASE LinkTask \/ LinkWorld
  BY <1>4 DEF LinkTask, LinkWorld, Link!LinkSteps, Link!LinkWorld, Link!EnsureConsumerGroup, Link!ReadBatch, Link!HandOver,
     Link!Acknowledge, Link!Crawled, Link!Described, Link!Publish, Link!Upset, Link!CallSucceeds
<1>5. CASE ScannerTask \/ ScannerWorld
  BY <1>5 DEF ScannerTask, ScannerWorld, Scan!ScannerSteps, Scan!ScannerWorld, Scan!Connect, Scan!Discover, Scan!Sleep,
     Scan!Wake, Scan!Disconnect, Scan!Receive, Scan!Upset, Scan!CallSucceeds
<1>6. CASE WebSubTask \/ WebSubWorld
  BY <1>6 DEF WebSubTask, WebSubWorld, Sub!WebSubSteps, Sub!WebSubWorld, Sub!ListSubscriptions, Sub!RenewalEnds, Sub!RenewNext,
     Sub!Request, Sub!StoreRecord, Sub!SetLifetime, Sub!OperatorSubscribes, Sub!Verify, Sub!Notify, Sub!ComesNear, Sub!RunsOut,
     Sub!Evict, Sub!LeaseEnds, Sub!Upset, Sub!CallSucceeds, Sub!RequestFails
<1> QED
  BY <1>1, <1>2, <1>3, <1>4, <1>5, <1>6 DEF Next

-----------------------------------------------------------------------------
\* The scanner's queue of hosts.
LEMMA HostsArePublic == ASSUME NEW certificate \in Certificates PROVE Scan!HostsOf(certificate) \in Seq(Public)
<1>1. certificate \in Seq(Hosts) /\ MaxHosts \in Nat
  BY DiscoveryAssumption DEF DiscoveryAssumption, Scan!ScannerAssumption
<1>2. PICK length \in Nat : length = Scan!Least(Len(certificate), MaxHosts)
  BY <1>1 DEF Scan!Least
<1>3. PICK places \in SUBSET Nat :
          /\ places = {i \in 1..length : certificate[i] \in Public} /\ IsFiniteSet(places)
  <2>1. IsFiniteSet(1..length) /\ {i \in 1..length : certificate[i] \in Public} \in SUBSET (1..length)
    BY FS_Interval
  <2>2. IsFiniteSet({i \in 1..length : certificate[i] \in Public})
    BY <2>1, FS_Subset
  <2> QED
    BY <2>2
<1>4. PICK n \in Nat : n = Cardinality(places)
  BY <1>3, FS_CardinalityType
<1>5. PICK hosts : hosts = Picked(certificate, places)
  OBVIOUS
<1>6. Scan!HostsOf(certificate) = hosts
  BY <1>2, <1>3, <1>5, SelectionNames DEF Scan!HostsOf
<1>7. ListsPlaces(hosts, n, certificate, places)
  BY <1>3, <1>4, <1>5, PickedFacts
<1>8. \A k \in 1..n : hosts[k] \in Public
  BY <1>3, <1>7 DEF ListsPlaces
<1>9. hosts = [k \in 1..n |-> certificate[InOrder(places)[k]]]
  BY <1>4, <1>5 DEF Picked
<1>10. hosts \in [1..n -> Public]
  BY <1>8, <1>9
<1> QED
  BY <1>6, <1>10

ScannerTypes ==
    /\ scanner \in [pc : {"off", "connect", "stream", "closed", "sleep", "ended"}, running : BOOLEAN, backoff : 1..MaxWait]
    /\ pending \in Seq(Public) /\ refusals \in 0..MaxRefusals
    /\ certified \subseteq Public /\ messages \in 0..MaxMessages

LEMMA ScannerTypesKept == ASSUME ScannerTypes, [Next]_vars PROVE ScannerTypes'
<1>1. MaxWait \in Nat \ {0} /\ MaxRefusals \in Nat \ {0} /\ MaxMessages \in Nat
  BY DiscoveryAssumption DEF DiscoveryAssumption, Scan!ScannerAssumption
<1>2. /\ scanner.pc \in {"off", "connect", "stream", "closed", "sleep", "ended"}
      /\ scanner.running \in BOOLEAN /\ scanner.backoff \in 1..MaxWait
  BY DEF ScannerTypes
<1> USE DEF Scan!Scanner, Scan!Become, Scan!At
<1>3. CASE Scan!BeginScanner
  BY <1>1, <1>3 DEF Scan!BeginScanner, ScannerTypes
<1>4. CASE Scan!CancelScanner
  <2>1. <<>> \in Seq(Public)
    OBVIOUS
  <2> QED
    BY <1>1, <1>4, <2>1 DEF Scan!CancelScanner, ScannerTypes
<1>9. CASE Scan!StopScanner
  BY <1>2, <1>9 DEF Scan!StopScanner, ScannerTypes
<1>10. CASE Scan!Connect
  <2>1. scanner' \in [pc : {"off", "connect", "stream", "closed", "sleep", "ended"}, running : BOOLEAN, backoff : 1..MaxWait]
    BY <1>1, <1>2, <1>10 DEF Scan!Connect
  <2>2. refusals' \in 0..MaxRefusals
    BY <1>1, <1>10 DEF Scan!Connect, ScannerTypes
  <2> QED
    BY <1>10, <2>1, <2>2 DEF Scan!Connect, ScannerTypes
<1>11. CASE Scan!Disconnect
  BY <1>2, <1>11 DEF Scan!Disconnect, ScannerTypes
<1>5. CASE Scan!Sleep \/ Scan!Wake
  BY <1>1, <1>2, <1>5 DEF Scan!Sleep, Scan!Wake, Scan!Least, ScannerTypes
<1>6. CASE Scan!Discover
  <2>1. Head(pending) \in Public /\ Tail(pending) \in Seq(Public) /\ <<>> \in Seq(Public)
    BY <1>6 DEF Scan!Discover, ScannerTypes
  <2> QED
    BY <1>6, <2>1 DEF Scan!Discover, ScannerTypes
<1>7. ASSUME NEW certificate \in Certificates, Scan!Receive(certificate) PROVE ScannerTypes'
  <2>1. PICK hosts \in Seq(Public) : hosts = Scan!HostsOf(certificate)
    BY HostsArePublic
  <2>2. /\ messages < MaxMessages /\ messages' = messages + 1
        /\ (pending' = hosts /\ scanner' = scanner) \/ (scanner' = Scan!Scanner("closed", scanner.running, scanner.backoff) /\ pending' = pending)
        /\ UNCHANGED <<refusals, certified>>
    BY <1>7, <2>1 DEF Scan!Receive
  <2>3. pending' \in Seq(Public)
    BY <2>1, <2>2 DEF ScannerTypes
  <2>4. scanner' \in [pc : {"off", "connect", "stream", "closed", "sleep", "ended"}, running : BOOLEAN, backoff : 1..MaxWait]
    BY <1>2, <2>2 DEF ScannerTypes
  <2>5. messages' \in 0..MaxMessages
    BY <1>1, <2>2 DEF ScannerTypes
  <2> QED
    BY <2>2, <2>3, <2>4, <2>5 DEF ScannerTypes
<1>8. CASE UNCHANGED scanVars
  BY <1>8 DEF scanVars, ScannerTypes
<1> QED
  BY <1>3, <1>4, <1>5, <1>6, <1>7, <1>8, <1>9, <1>10, <1>11, ScannerFrame
  DEF Scan!ScannerNext, Scan!ScannerSteps, Scan!ScannerWorld
LEMMA ScannerTypesInitially == Init => ScannerTypes
<1>1. MaxWait \in Nat \ {0} /\ MaxRefusals \in Nat \ {0} /\ MaxMessages \in Nat
  BY DiscoveryAssumption DEF DiscoveryAssumption, Scan!ScannerAssumption
<1>2. <<>> \in Seq(Public)
  OBVIOUS
<1> QED
  BY <1>1, <1>2 DEF Init, Scan!InitScanner, Scan!Scanner, ScannerTypes

-----------------------------------------------------------------------------
\* What the sitemap watcher hands over or loses is an item of a document.
SitemapRest ==
    /\ poller \in {"off", "start", "raised", "poll", "sleep"} /\ client \in BOOLEAN
    /\ handed \subseteq Sitemap!Items /\ dropped \subseteq Sitemap!Items

LEMMA SitemapMoves ==
    ASSUME Sitemap!SitemapNext
    PROVE  /\ client' = client
           /\ poller' = poller \/ (poller # "off" /\ poller' \in {"poll", "sleep", "raised"})
           /\ \/ handed' = handed /\ dropped' = dropped
              \/ \E d \in Documents :
                    /\ reader[d].pc \in {"remember", "report"}
                    /\ handed' \subseteq handed \cup {Sitemap!Item(d)}
                    /\ dropped' \subseteq dropped \cup {Sitemap!Item(d)}
<1>1. CASE Sitemap!LoadDomains \/ Sitemap!PollAllDomains \/ Sitemap!CycleEnds
  BY <1>1 DEF Sitemap!LoadDomains, Sitemap!PollAllDomains, Sitemap!CycleEnds
<1>2. ASSUME NEW m \in Domains, Sitemap!AskRobots(m) \/ Sitemap!TryCandidate(m) \/ Sitemap!CandidateEnds(m)
      PROVE  UNCHANGED <<poller, client, handed, dropped>>
  BY <1>2 DEF Sitemap!AskRobots, Sitemap!TryCandidate, Sitemap!CandidateEnds
<1>3. ASSUME NEW d \in Documents, Sitemap!Fetch(d) \/ Sitemap!ChildrenEnd(d) \/ Sitemap!Check(d)
      PROVE  UNCHANGED <<poller, client, handed, dropped>>
  BY <1>3 DEF Sitemap!Fetch, Sitemap!ChildrenEnd, Sitemap!Check
<1>4. ASSUME NEW d \in Documents, Sitemap!Remember(d) \/ Sitemap!Report(d)
      PROVE  /\ UNCHANGED <<poller, client>> /\ reader[d].pc \in {"remember", "report"}
             /\ handed' \subseteq handed \cup {Sitemap!Item(d)}
             /\ dropped' \subseteq dropped \cup {Sitemap!Item(d)}
  BY <1>4 DEF Sitemap!Remember, Sitemap!Report
<1>5. ASSUME NEW p \in Pages, Sitemap!Modify(p) \/ Sitemap!Expire(p)
      PROVE  UNCHANGED <<poller, client, handed, dropped>>
  BY <1>5 DEF Sitemap!Modify, Sitemap!Expire
<1> QED
  BY <1>1, <1>2, <1>3, <1>4, <1>5 DEF Sitemap!SitemapNext, Sitemap!SitemapSteps, Sitemap!SitemapWorld

LEMMA SitemapRestKept == ASSUME SitemapInv, SitemapRest, [Next]_vars PROVE SitemapRest'
<1>1. CASE Sitemap!SitemapNext
  <2>1. PICK pc \in {"off", "start", "raised", "poll", "sleep"} : poller' = pc
    BY <1>1, SitemapMoves DEF SitemapRest
  <2>2. client' \in BOOLEAN
    BY <1>1, SitemapMoves, Zenon DEF SitemapRest
  <2>3. ASSUME NEW d \in Documents, reader[d].pc \in {"remember", "report"} PROVE Sitemap!Item(d) \in Sitemap!Items
    BY <2>3, ItemFields DEF SitemapInv, ReadersInv, ReadersHaveItems
  <2>4. handed' \subseteq Sitemap!Items /\ dropped' \subseteq Sitemap!Items
    BY <1>1, <2>3, SitemapMoves DEF SitemapRest
  <2> QED
    BY <2>1, <2>2, <2>4 DEF SitemapRest
<1>2. CASE Sitemap!BeginSitemap \/ Sitemap!CancelSitemap \/ Sitemap!CloseClient \/ UNCHANGED sitemapVars
  BY <1>2 DEF Sitemap!BeginSitemap, Sitemap!CancelSitemap, Sitemap!CloseClient, sitemapVars, SitemapRest
<1> QED
  BY <1>1, <1>2, SitemapFrame

LEMMA SitemapRestInitially == Init => SitemapRest
  BY DEF Init, Sitemap!InitSitemap, SitemapRest

\* What the WebSub start-up has left is topics, and so is what it hears of.
WebSubRest ==
    /\ renewal \in [pc : {"off", "start", "raised", "each", "done"}, left : SUBSET Topics] /\ session \in BOOLEAN
    /\ torn \subseteq Topics /\ heard \subseteq Topics /\ refused \subseteq Topics

LEMMA WebSubMoves ==
    ASSUME WebSubInv, WebSubRest, Sub!WebSubNext
    PROVE  /\ session' = session
           /\ renewal' = renewal \/ (renewal.pc # "off" /\ \E pc \in {"each", "done", "raised"}, left \in SUBSET Topics :
                                         renewal' = [pc |-> pc, left |-> left])
           /\ torn' \subseteq Topics /\ heard' \subseteq Topics /\ refused' \subseteq Topics
<1>1. /\ renewal.left \in SUBSET Topics /\ {t \in Topics : Sub!Recorded(t)} \in SUBSET Topics /\ {} \in SUBSET Topics
      /\ torn \subseteq Topics /\ heard \subseteq Topics /\ refused \subseteq Topics
  BY DEF WebSubRest
<1>2. CASE Sub!ListSubscriptions \/ Sub!RenewalEnds
  BY <1>1, <1>2 DEF Sub!ListSubscriptions, Sub!RenewalEnds, Sub!Renewing
<1>3. ASSUME NEW t \in Topics, Sub!RenewNext(t)
      PROVE  /\ session' = session /\ renewal.pc # "off"
             /\ \E pc \in {"each", "raised"}, left \in SUBSET Topics : renewal' = [pc |-> pc, left |-> left]
             /\ torn' \subseteq Topics /\ heard' = heard /\ refused' = refused
  <2>1. renewal.left \ {t} \in SUBSET Topics
    BY <1>1
  <2> QED
    BY <1>1, <1>3, <2>1 DEF Sub!RenewNext, Sub!Renewing, Sub!Subscribe
<1>4. ASSUME NEW w \in Sub!Subscribers, Sub!Request(w) \/ Sub!StoreRecord(w) \/ Sub!SetLifetime(w)
      PROVE  UNCHANGED <<renewal, session, heard, refused>> /\ torn' \subseteq Topics
  <2>1. Sub!Busy(w)
    BY <1>4 DEF Sub!Request, Sub!StoreRecord, Sub!SetLifetime
  <2>2. caller[w].topic \in Topics
    BY <2>1, CallFields
  <2> QED
    BY <1>1, <1>4, <2>2 DEF Sub!Request, Sub!StoreRecord, Sub!SetLifetime, Sub!Tear, Sub!Mend
<1>5. ASSUME NEW t \in Topics,
             \/ Sub!OperatorSubscribes(t) \/ Sub!Verify(t) \/ Sub!ComesNear(t) \/ Sub!RunsOut(t) \/ Sub!Evict(t)
             \/ Sub!LeaseEnds(t) \/ \E method \in Sub!Methods : Sub!Notify(t, method)
      PROVE  /\ UNCHANGED <<renewal, session>>
             /\ torn' \subseteq Topics /\ heard' \subseteq Topics /\ refused' \subseteq Topics
  BY <1>1, <1>5 DEF Sub!OperatorSubscribes, Sub!Subscribe, Sub!Verify, Sub!Notify, Sub!ComesNear, Sub!RunsOut, Sub!Evict, Sub!LeaseEnds
<1> QED
  BY <1>1, <1>2, <1>3, <1>4, <1>5 DEF Sub!WebSubNext, Sub!WebSubSteps, Sub!WebSubWorld

LEMMA WebSubRestKept == ASSUME WebSubInv, WebSubRest, [Next]_vars PROVE WebSubRest'
<1>1. CASE Sub!WebSubNext
  <2>1. session' \in BOOLEAN
    BY <1>1, WebSubMoves, Zenon DEF WebSubRest
  <2>2. renewal' \in [pc : {"off", "start", "raised", "each", "done"}, left : SUBSET Topics]
    BY <1>1, WebSubMoves DEF WebSubRest
  <2> QED
    BY <1>1, <2>1, <2>2, WebSubMoves DEF WebSubRest
<1>2. CASE Sub!BeginWebSub \/ Sub!CancelWebSub
  <2>1. renewal' \in [pc : {"off", "start", "raised", "each", "done"}, left : SUBSET Topics]
    BY <1>2 DEF Sub!BeginWebSub, Sub!CancelWebSub, Sub!Renewing
  <2>2. session' \in BOOLEAN /\ torn' \subseteq Topics /\ heard' \subseteq Topics /\ refused' \subseteq Topics
    BY <1>2 DEF Sub!BeginWebSub, Sub!CancelWebSub, WebSubRest
  <2> QED
    BY <2>1, <2>2 DEF WebSubRest
<1>3. CASE Sub!CloseSession \/ UNCHANGED subVars
  BY <1>3 DEF Sub!CloseSession, subVars, WebSubRest
<1> QED
  BY <1>1, <1>2, <1>3, WebSubFrame

LEMMA WebSubRestInitially == Init => WebSubRest
<1>1. [pc |-> "off", left |-> {}] \in [pc : {"off", "start", "raised", "each", "done"}, left : SUBSET Topics]
  OBVIOUS
<1> QED
  BY <1>1 DEF Init, Sub!InitWebSub, WebSubRest

-----------------------------------------------------------------------------
\* The process: its tasks are off without it.
TasksOff ==
    /\ poller = "off" /\ extractor.pc = "off" /\ scanner.pc = "off" /\ renewal.pc = "off"
    /\ monitor = "off"

ProcessTypes ==
    /\ monitor \in {"off", "look", "sleep", "ended"}
    /\ service \in [pc : {"down", "up", "stopped"}, running : BOOLEAN]
    /\ scene \in Scenes /\ upsets \in 0..MaxUpsets
    /\ ~Up => TasksOff

LEMMA CancelledAreOff == ASSUME CancelTasks PROVE TasksOff'
  BY DEF CancelTasks, TasksOff, Sitemap!CancelSitemap, Link!CancelLinks, Link!Become, Link!Resting, Link!Extractor,
     Scan!CancelScanner, Scan!Scanner, Sub!CancelWebSub, Sub!Renewing

\* A task that is off takes no step.
LEMMA LinkStaysOff == ASSUME Link!LinkNext, extractor.pc = "off" PROVE extractor' = extractor
  BY DEF Link!LinkNext, Link!LinkSteps, Link!LinkWorld, Link!EnsureConsumerGroup, Link!ReadBatch, Link!HandOver,
     Link!Acknowledge, Link!Crawled, Link!Described, Link!Publish, Link!At

LEMMA ScannerStaysOff == ASSUME Scan!ScannerNext, scanner.pc = "off" PROVE scanner' = scanner
  BY DEF Scan!ScannerNext, Scan!ScannerSteps, Scan!ScannerWorld, Scan!Connect, Scan!Discover, Scan!Sleep, Scan!Wake,
     Scan!Disconnect, Scan!Receive, Scan!At

LEMMA TasksStayOff == ASSUME WebSubInv, WebSubRest, [Next]_vars, ~Up, ~Up', TasksOff PROVE TasksOff'
<1>1. CASE Start \/ EndOnException \/ Crash \/ Stop \/ Kill
  BY <1>1 DEF Start, EndOnException, Crash, Stop, Kill, Up, Process
<1>2. CASE StartFails \/ UNCHANGED vars
  BY <1>2 DEF StartFails, sitemapVars, linkVars, scanVars, subVars, vars, TasksOff
<1>3. CASE SitemapTask \/ SitemapWorld
  <2>1. Sitemap!SitemapNext /\ UNCHANGED <<extractor, scanner, renewal, monitor>>
    BY <1>3 DEF SitemapTask, SitemapWorld, Sitemap!SitemapNext, linkVars, scanVars, subVars
  <2> QED
    BY <2>1, SitemapMoves DEF TasksOff
<1>4. CASE LinkTask \/ LinkWorld
  <2>1. Link!LinkNext /\ UNCHANGED <<poller, scanner, renewal, monitor>>
    BY <1>4 DEF LinkTask, LinkWorld, Link!LinkNext, sitemapVars, scanVars, subVars
  <2> QED
    BY <2>1, LinkStaysOff DEF TasksOff
<1>5. CASE ScannerTask \/ ScannerWorld
  <2>1. Scan!ScannerNext /\ UNCHANGED <<poller, extractor, renewal, monitor>>
    BY <1>5 DEF ScannerTask, ScannerWorld, Scan!ScannerNext, sitemapVars, linkVars, subVars
  <2> QED
    BY <2>1, ScannerStaysOff DEF TasksOff
<1>6. CASE WebSubTask \/ WebSubWorld
  <2>1. Sub!WebSubNext /\ UNCHANGED <<poller, extractor, scanner, monitor>>
    BY <1>6 DEF WebSubTask, WebSubWorld, Sub!WebSubNext, sitemapVars, linkVars, scanVars
  <2> QED
    BY <2>1, WebSubMoves DEF TasksOff
<1>7. CASE MonitorTask
  BY <1>7 DEF MonitorTask, MonitorStep, TasksOff
<1> QED
  BY <1>1, <1>2, <1>3, <1>4, <1>5, <1>6, <1>7 DEF Next, Lifecycle

LEMMA ProcessTypesKept == ASSUME WebSubInv, WebSubRest, ProcessTypes, [Next]_vars PROVE ProcessTypes'
<1>1. upsets' \in 0..MaxUpsets
  <2>1. MaxUpsets \in Nat
    BY DiscoveryAssumption DEF DiscoveryAssumption, Scan!ScannerAssumption
  <2> QED
    BY <2>1, UpsetsCounted DEF ProcessTypes
<1>2. /\ scene' = scene
      /\ monitor' = monitor \/ monitor' \in {"off", "look", "sleep", "ended"}
      /\ \/ service' = service
         \/ CancelTasks /\ \E pc \in {"down", "stopped"} : service' = Process(pc, FALSE)
         \/ \E running \in BOOLEAN : service' = Process("up", running)
  BY DEF Next, Lifecycle, Start, StartFails, EndOnException, Crash, Stop, Kill, CancelTasks, MonitorTask, MonitorStep,
     SitemapTask, SitemapWorld, LinkTask, LinkWorld, ScannerTask, ScannerWorld, WebSubTask, WebSubWorld, vars
<1>3. service' \in [pc : {"down", "up", "stopped"}, running : BOOLEAN]
  <2>1. ASSUME NEW pc \in {"down", "up", "stopped"}, NEW running \in BOOLEAN
        PROVE  Process(pc, running) \in [pc : {"down", "up", "stopped"}, running : BOOLEAN]
    BY DEF Process
  <2>2. CASE service' = service
    BY <2>2 DEF ProcessTypes
  <2>3. ASSUME NEW pc \in {"down", "stopped"}, service' = Process(pc, FALSE)
        PROVE  service' \in [pc : {"down", "up", "stopped"}, running : BOOLEAN]
    BY <2>1, <2>3
  <2>4. ASSUME NEW running \in BOOLEAN, service' = Process("up", running)
        PROVE  service' \in [pc : {"down", "up", "stopped"}, running : BOOLEAN]
    BY <2>1, <2>4
  <2> QED
    BY <1>2, <2>2, <2>3, <2>4
<1>4. ASSUME ~Up' PROVE TasksOff'
  <2>1. CASE CancelTasks
    BY <2>1, CancelledAreOff
  <2>2. CASE service' = service
    <3>1. ~Up
      BY <1>4, <2>2 DEF Up
    <3> QED
      BY <1>4, <3>1, TasksStayOff DEF ProcessTypes
  <2>3. ASSUME NEW running \in BOOLEAN, service' = Process("up", running) PROVE FALSE
    BY <1>4, <2>3 DEF Up, Process
  <2> QED
    BY <1>2, <2>1, <2>2, <2>3
<1> QED
  BY <1>1, <1>2, <1>3, <1>4 DEF ProcessTypes

LEMMA ProcessTypesInitially == Init => ProcessTypes
<1>1. MaxUpsets \in Nat
  BY DiscoveryAssumption DEF DiscoveryAssumption, Scan!ScannerAssumption
<1> QED
  BY <1>1 DEF Init, Sitemap!InitSitemap, Link!InitLinks, Link!Resting, Link!Extractor, Scan!InitScanner, Scan!Scanner,
     Sub!InitWebSub, Process, ProcessTypes, TasksOff, Up

\* All of it together: what every step keeps of every watcher.
DiscoveryInv ==
    /\ WebSubInv /\ WebSubRest
    /\ SitemapInv /\ SitemapRest
    /\ LinkInv /\ LinkTypes
    /\ ScannerTypes /\ ProcessTypes

LEMMA LinkTypeOKHolds == ASSUME LinkInv, LinkTypes, upsets \in 0..MaxUpsets PROVE Link!LinkTypeOK
<1>1. Crawlable \subseteq Links /\ MaxDepth \in Nat
  BY DiscoveryAssumption DEF DiscoveryAssumption, Link!LinkAssumption
<1>2. crawled \in Link!StreamOf(Events)
  BY DEF LinkInv, StreamOf, Link!StreamOf
<1>3. extractor \in [pc : {"off", "start", "raised", "poll", "links"}, from : Nat, to : Nat, left : Seq(Links)]
  <2>1. PICK left \in Seq(Crawlable) : left = extractor.left
    BY DEF LinkTypes, ExtractorTypes
  <2>2. extractor.left \in Seq(Links)
    BY <1>1, <2>1, SequenceOfMore
  <2> QED
    BY <2>2 DEF LinkTypes, ExtractorTypes
<1>4. extractor.pc = "links" => extractor.from \in 1..extractor.to /\ extractor.to <= Len(crawled.log)
  BY DEF LinkInv, ExtractorInv
<1>5. linked \subseteq Links \X Nat
  BY <1>1 DEF LinkTypes, OnlyCrawlable
<1>6. acked \subseteq Nat
  BY DEF LinkInv
<1> QED
  BY <1>2, <1>3, <1>4, <1>5, <1>6 DEF Link!LinkTypeOK, Link!At

\* Every variable of every watcher has its type, and without the process there
\* are no tasks: whatever ends it takes all of them along (discovery/main.py:128-147).
THEOREM DiscoveryTypes == Spec => []TypeOK
<1>1. Init => DiscoveryInv
  BY WebSubInitially, WebSubRestInitially, SitemapInitially, SitemapRestInitially, LinkInitially, LinkTypesInitially,
     ScannerTypesInitially, ProcessTypesInitially DEF DiscoveryInv
<1>2. DiscoveryInv /\ [Next]_vars => DiscoveryInv'
  BY WebSubKept, WebSubRestKept, SitemapKept, SitemapRestKept, LinkKept, LinkTypesKept, ScannerTypesKept, ProcessTypesKept
  DEF DiscoveryInv
<1>3. ASSUME DiscoveryInv PROVE TypeOK
  <2>1. Sitemap!SitemapTypeOK
    BY <1>3 DEF DiscoveryInv, SitemapInv, ReadersInv, SitemapTypes, Readers, SitemapRest, ProcessTypes, Sitemap!SitemapTypeOK
  <2>2. Link!LinkTypeOK
    BY <1>3, LinkTypeOKHolds DEF DiscoveryInv, ProcessTypes
  <2>3. Scan!ScannerTypeOK
    BY <1>3 DEF DiscoveryInv, ScannerTypes, ProcessTypes, Scan!ScannerTypeOK
  <2>4. Sub!WebSubTypeOK
    BY <1>3 DEF DiscoveryInv, WebSubInv, WebSubTypes, WebSubRest, ProcessTypes, Sub!WebSubTypeOK
  <2> QED
    BY <1>3, <2>1, <2>2, <2>3, <2>4 DEF DiscoveryInv, ProcessTypes, TasksOff, TypeOK
<1> QED
  BY <1>1, <1>2, <1>3, PTL DEF Spec
=============================================================================
