------------------------------- MODULE WebSub -------------------------------
(***************************************************************************)
(* WebSub subscriptions of the discovery service: at start-up the records  *)
(* that run out within the hour are renewed.  A subscription is a request  *)
(* with a new secret to the hub, then a record of it in Redis, then the    *)
(* record's time to live.  A notification is checked against the record.   *)
(*                                                                         *)
(* The hub and the callers of subscribe and of the two handlers are        *)
(* outside of this repository.  A secret is named by its number.           *)
(***************************************************************************)
EXTENDS Integers

CONSTANTS
    Topics,
    MaxSecrets,  \* bound: subscriptions ever requested
    MaxUpsets    \* bound: failing calls and crashes of all watchers together

WebSubAssumption == MaxSecrets \in Nat /\ MaxUpsets \in Nat

VARIABLES
    renewal,     \* start(): [pc, left], the topics whose record is still to be seen
    session,     \* the HTTP client is open
    caller,      \* [Subscribers -> Call]: the calls of subscribe under way
    record,      \* [Topics -> [secret, soon, lasting]]: WEBSUB:sub:{hash}; its expires_at
                 \* is within the hour; it has no time to live
    hub,         \* [Topics -> [asked, active]]: the hub's secrets, None without
    requested,   \* secrets handed out so far
    torn,        \* history: topics a subscription of which failed half way or overlapped
                 \* with another, and none has gone through since
    heard,       \* history: topics a notification of which was taken up ...
    refused,     \* ... or turned down
    upsets

webSubVars == <<renewal, session, caller, record, hub, requested, torn, heard, refused, upsets>>

-----------------------------------------------------------------------------
Subscribers == {"renewal", "operator"}
None == 0
NoRecord == [secret |-> None, soon |-> FALSE, lasting |-> TRUE]
Recorded(t) == record[t].secret # None

NoCall == [pc |-> "idle"]
Call(pc, t, secret) == [pc |-> pc, topic |-> t, secret |-> secret]
Busy(w) == caller[w] # NoCall
Subscribing(t) == \E w \in Subscribers : Busy(w) /\ caller[w].topic = t
Put(w, call) == caller' = [caller EXCEPT ![w] = call]
Renewing(pc, left) == renewal' = [pc |-> pc, left |-> left]

Upset == /\ upsets < MaxUpsets
         /\ upsets' = upsets + 1
CallSucceeds == UNCHANGED upsets
\* A request also fails once stop() has closed the client.
RequestFails == IF session THEN Upset ELSE UNCHANGED upsets
Tear(t) == torn' = torn \cup {t}
Alone(w, t) == \A v \in Subscribers \ {w} : ~(Busy(v) /\ caller[v].topic = t)
Mend(w, t) == torn' = IF Alone(w, t) THEN torn \ {t} ELSE torn

-----------------------------------------------------------------------------
InitWebSub ==
    /\ renewal = [pc |-> "off", left |-> {}] /\ session = FALSE
    /\ caller = [w \in Subscribers |-> NoCall]
    /\ record = [t \in Topics |-> NoRecord]
    /\ hub = [t \in Topics |-> [asked |-> None, active |-> None]]
    /\ requested = 0 /\ torn = {} /\ heard = {} /\ refused = {}
    /\ upsets = 0

BeginWebSub ==
    /\ Renewing("start", {}) /\ session' = TRUE
    /\ UNCHANGED <<caller, record, hub, requested, torn, heard, refused>>

\* The task is cancelled because the process ends, or the process dies: with it
\* the calls of subscribe.
CancelWebSub ==
    /\ Renewing("off", {}) /\ session' = FALSE
    /\ caller' = [w \in Subscribers |-> NoCall]
    /\ torn' = torn \cup {t \in Topics : Subscribing(t)}
    /\ UNCHANGED <<record, hub, requested, heard, refused>>

\* WebSubSubscriber.stop
CloseSession == session' = FALSE /\ UNCHANGED <<renewal, caller, record, hub, requested, torn, heard, refused>>

\* KEYS WEBSUB:sub:*
ListSubscriptions ==
    /\ renewal.pc = "start"
    /\ \/ CallSucceeds /\ Renewing("each", {t \in Topics : Recorded(t)})
       \/ Upset /\ Renewing("raised", {})
    /\ UNCHANGED <<session, caller, record, hub, requested, torn, heard, refused>>

\* Who subscribes while a subscription of the topic is under way tears it.
Subscribe(w, t) ==
    /\ requested < MaxSecrets /\ requested' = requested + 1
    /\ Put(w, Call("request", t, requested + 1))
    /\ torn' = IF Subscribing(t) THEN torn \cup {t} ELSE torn

\* HGETALL of the next record: gone, far from its end, or to be renewed.
RenewNext(t) ==
    /\ renewal.pc = "each" /\ ~Busy("renewal") /\ t \in renewal.left
    /\ \/ /\ CallSucceeds /\ Renewing("each", renewal.left \ {t})
          /\ IF Recorded(t) /\ record[t].soon
             THEN Subscribe("renewal", t)
             ELSE UNCHANGED <<caller, requested, torn>>
       \/ Upset /\ Renewing("raised", {}) /\ UNCHANGED <<caller, requested, torn>>
    /\ UNCHANGED <<session, record, hub, heard, refused>>

RenewalEnds ==
    /\ renewal.pc = "each" /\ ~Busy("renewal") /\ renewal.left = {}
    /\ Renewing("done", {})
    /\ UNCHANGED <<session, caller, record, hub, requested, torn, heard, refused, upsets>>

\* Somebody subscribes to a topic.
OperatorSubscribes(t) ==
    /\ renewal.pc \in {"each", "done"} /\ ~Busy("operator")
    /\ Subscribe("operator", t)
    /\ UNCHANGED <<renewal, session, record, hub, heard, refused, upsets>>

\* Mutant of Request: the answer's status is not looked at.
RequestUnchecked(w) ==
    LET call == caller[w] IN
    /\ Busy(w) /\ call.pc = "request"
    /\ \/ /\ session /\ CallSucceeds /\ Put(w, Call("record", call.topic, call.secret))
          /\ hub' = [hub EXCEPT ![call.topic].asked = call.secret] /\ UNCHANGED torn
       \/ RequestFails /\ Put(w, Call("record", call.topic, call.secret)) /\ UNCHANGED <<hub, torn>>
    /\ UNCHANGED <<renewal, session, record, requested, heard, refused>>

\* The POST to the hub: accepted, turned down, or accepted with the answer lost.
\* All three end in True or False; nothing is raised.  An accepted request makes
\* good for earlier ones, if no other is under way.
Request(w) ==
    LET call == caller[w]
        accepted == [hub EXCEPT ![call.topic].asked = call.secret]
    IN  /\ Busy(w) /\ call.pc = "request"
        /\ \/ session /\ CallSucceeds /\ Put(w, Call("record", call.topic, call.secret)) /\ hub' = accepted /\ Mend(w, call.topic)
           \/ RequestFails /\ Put(w, NoCall) /\ UNCHANGED <<hub, torn>>
           \/ session /\ Upset /\ Put(w, NoCall) /\ hub' = accepted /\ Tear(call.topic)
        /\ UNCHANGED <<renewal, session, record, requested, heard, refused>>

\* HSET: an error may come before or after it is executed.  A new key has no time
\* to live, an old one keeps what it has.
StoreRecord(w) ==
    LET call == caller[w]
        stored == [record EXCEPT ![call.topic] = [secret |-> call.secret, soon |-> FALSE, lasting |-> @.lasting]]
    IN  /\ Busy(w) /\ call.pc = "record"
        /\ \/ CallSucceeds /\ Put(w, Call("expire", call.topic, call.secret)) /\ record' = stored /\ UNCHANGED torn
           \/ Upset /\ Put(w, NoCall) /\ Tear(call.topic) /\ record' \in {record, stored}
        /\ UNCHANGED <<renewal, session, hub, requested, heard, refused>>

\* EXPIRE: an error may come before or after it is executed.
SetLifetime(w) ==
    LET t == caller[w].topic
        expiring == [record EXCEPT ![t].lasting = @ /\ ~Recorded(t)]
    IN  /\ Busy(w) /\ caller[w].pc = "expire" /\ Put(w, NoCall)
        /\ \/ CallSucceeds /\ record' = expiring
           \/ Upset /\ record' \in {record, expiring}
        /\ UNCHANGED <<renewal, session, hub, requested, torn, heard, refused>>

\* handle_verification answers every challenge: from now on the hub signs with
\* the secret it was last given.
Verify(t) ==
    /\ hub[t].asked # None
    /\ hub' = [hub EXCEPT ![t] = [asked |-> None, active |-> hub[t].asked]]
    /\ UNCHANGED <<renewal, session, caller, record, requested, torn, heard, refused, upsets>>

\* The X-Hub-Signature of a genuine notification: the method is the hub's choice.
Methods == {"none", "sha256", "other"}

\* handle_notification and _verify_signature, for a notification that the hub signs
\* with its secret: without a signature it passes; one of another method than
\* SHA-256 is refused; one of SHA-256 is checked with the record's secret, and
\* passes where there is no record.
Passes(t, method) ==
    \/ method = "none"
    \/ method = "sha256" /\ (~Recorded(t) \/ record[t].secret = hub[t].active)

\* handle_notification: the pages that the body names, in whatever form, are
\* handed over one by one, or an exception of on_url_found goes to the caller.
Notify(t, method) ==
    /\ hub[t].active # None
    /\ \/ Passes(t, method) /\ CallSucceeds /\ heard' = heard \cup {t} /\ UNCHANGED refused
       \/ Passes(t, method) /\ Upset /\ UNCHANGED <<heard, refused>>
       \/ ~Passes(t, method) /\ CallSucceeds /\ refused' = refused \cup {t} /\ UNCHANGED heard
    /\ UNCHANGED <<renewal, session, caller, record, hub, requested, torn>>

\* A week goes by: the record comes near its end, ...
ComesNear(t) ==
    /\ Recorded(t) /\ ~record[t].soon
    /\ record' = [record EXCEPT ![t].soon = TRUE]
    /\ UNCHANGED <<renewal, session, caller, hub, requested, torn, heard, refused, upsets>>

\* ... its time to live is over, and the hub's lease comes to its end.
RunsOut(t) ==
    /\ Recorded(t) /\ ~record[t].lasting
    /\ record' = [record EXCEPT ![t] = NoRecord]
    /\ UNCHANGED <<renewal, session, caller, hub, requested, torn, heard, refused, upsets>>

\* maxmemory-policy allkeys-lru: any record may go.
Evict(t) ==
    /\ Recorded(t) /\ Upset
    /\ record' = [record EXCEPT ![t] = NoRecord]
    /\ UNCHANGED <<renewal, session, caller, hub, requested, torn, heard, refused>>

LeaseEnds(t) ==
    /\ hub[t].active # None
    /\ hub' = [hub EXCEPT ![t].active = None]
    /\ UNCHANGED <<renewal, session, caller, record, requested, torn, heard, refused, upsets>>

WebSubSteps ==
    \/ ListSubscriptions \/ RenewalEnds
    \/ \E t \in Topics : RenewNext(t)
    \/ \E w \in Subscribers : Request(w) \/ StoreRecord(w) \/ SetLifetime(w)
WebSubWorld ==
    \E t \in Topics :
        \/ OperatorSubscribes(t) \/ Verify(t) \/ ComesNear(t) \/ RunsOut(t) \/ Evict(t) \/ LeaseEnds(t)
        \/ \E method \in Methods : Notify(t, method)
WebSubNext == WebSubSteps \/ WebSubWorld


-----------------------------------------------------------------------------
\* Every variable has its type.
WebSubTypeOK ==
    /\ renewal \in [pc : {"off", "start", "raised", "each", "done"}, left : SUBSET Topics] /\ session \in BOOLEAN
    /\ caller \in [Subscribers -> {NoCall} \cup [pc : {"request", "record", "expire"}, topic : Topics, secret : 1..MaxSecrets]]
    /\ record \in [Topics -> [secret : 0..MaxSecrets, soon : BOOLEAN, lasting : BOOLEAN]]
    /\ hub \in [Topics -> [asked : 0..MaxSecrets, active : 0..MaxSecrets]]
    /\ requested \in 0..MaxSecrets
    /\ torn \subseteq Topics /\ heard \subseteq Topics /\ refused \subseteq Topics
    /\ upsets \in 0..MaxUpsets

\* Once subscriptions of a topic have settled and the hub has verified the last,
\* the hub's notifications pass the check, without a signature or signed with
\* SHA-256, through renewals, restarts and records that end.  A subscription that
\* failed half way, or two at a time, may leave another secret in the record; that
\* lasts until the next that goes through by itself (websub.py:102-121, 234-247).
GenuineIsHeard ==
    \A t \in Topics, method \in {"none", "sha256"} :
        (hub[t].active # None /\ hub[t].asked = None /\ ~Subscribing(t) /\ t \notin torn) => Passes(t, method)
=============================================================================
