---------------------------- MODULE StreamProofs ----------------------------
(***************************************************************************)
(* What XADD, XREADGROUP and XACK do to a stream, stated once for every    *)
(* component that reads one: its values stay streams, and each command     *)
(* moves the entries it names, and no other, one phase on.                 *)
(***************************************************************************)
EXTENDS Streams, TLAPS

\* The fields of a stream.
LEMMA StreamFields ==
    ASSUME NEW Payload, NEW s \in StreamOf(Payload)
    PROVE  /\ s = [log |-> s.log, first |-> s.first, cursor |-> s.cursor, pending |-> s.pending]
           /\ s.log \in Seq(Payload) /\ Len(s.log) \in Nat
           /\ s.first \in Nat \ {0} /\ s.cursor \in Nat
           /\ s.first <= Len(s.log) + 1 /\ s.cursor <= Len(s.log)
           /\ s.pending \subseteq 1..s.cursor
  BY DEF StreamOf

\* A new stream is one.
LEMMA EmptyIsStream == ASSUME NEW Payload PROVE EmptyStream \in StreamOf(Payload) /\ Len(EmptyStream.log) = 0
  BY DEF EmptyStream, StreamOf

\* The first entry the group has not been given lies behind all it was given.
LEMMA UnreadIsBehind ==
    ASSUME NEW Payload, NEW s \in StreamOf(Payload)
    PROVE  Unread(s) \in Nat \ {0} /\ Unread(s) > s.cursor /\ Unread(s) >= s.first
             /\ Unread(s) <= Len(s.log) + 1
  BY StreamFields DEF Unread

\* XADD appends one entry, moves no other, and cuts at most the head.
LEMMA XAddAppends ==
    ASSUME NEW Payload, NEW s \in StreamOf(Payload), NEW x \in Payload,
           NEW maxlen \in Nat \ {0}, NEW t \in XAdd(s, x, maxlen)
    PROVE  /\ t \in StreamOf(Payload)
           /\ Len(t.log) = Len(s.log) + 1 /\ t.log[Len(t.log)] = x
           /\ \A i \in Entries(s) : t.log[i] = s.log[i]
           /\ t.cursor = s.cursor /\ t.pending = s.pending
           /\ s.first <= t.first /\ t.first <= Len(t.log)
<1>2. PICK f \in s.first..(Len(s.log) + 1) :
         t = [log |-> Append(s.log, x), first |-> f, cursor |-> s.cursor, pending |-> s.pending]
  BY DEF XAdd
<1>3. /\ Append(s.log, x) \in Seq(Payload) /\ Len(Append(s.log, x)) = Len(s.log) + 1
      /\ Append(s.log, x)[Len(s.log) + 1] = x
      /\ \A i \in 1..Len(s.log) : Append(s.log, x)[i] = s.log[i]
  BY StreamFields
<1>4. t \in StreamOf(Payload)
  BY <1>2, <1>3, StreamFields DEF StreamOf
<1> QED
  BY <1>2, <1>3, <1>4, StreamFields DEF Entries

\* XREADGROUP keeps a stream a stream.
LEMMA XReadGroupIsStream ==
    ASSUME NEW Payload, NEW s \in StreamOf(Payload), NEW n \in Nat \ {0}, NextBatch(s, n) # {}
    PROVE  LET t == XReadGroup(s, n) IN
           /\ t \in StreamOf(Payload)
           /\ t.log = s.log /\ t.first = s.first
           /\ t.cursor = LastOfBatch(s, n) /\ t.pending = s.pending \cup NextBatch(s, n)
           /\ LastOfBatch(s, n) \in Unread(s)..Len(s.log)
<1> DEFINE t == XReadGroup(s, n)
<1>1. t = [log |-> s.log, first |-> s.first, cursor |-> LastOfBatch(s, n),
           pending |-> s.pending \cup NextBatch(s, n)]
  BY DEF XReadGroup
<1>2. LastOfBatch(s, n) \in Unread(s)..Len(s.log)
  BY StreamFields, UnreadIsBehind DEF NextBatch, LastOfBatch
<1>3. s.pending \cup NextBatch(s, n) \subseteq 1..LastOfBatch(s, n)
  BY <1>2, StreamFields, UnreadIsBehind DEF NextBatch
<1>4. t \in StreamOf(Payload)
  BY <1>1, <1>2, <1>3, StreamFields, UnreadIsBehind DEF StreamOf
<1> QED
  BY <1>1, <1>2, <1>4

\* XACK keeps a stream a stream.
LEMMA XAckIsStream ==
    ASSUME NEW Payload, NEW s \in StreamOf(Payload), NEW i
    PROVE  /\ XAck(s, i) \in StreamOf(Payload)
           /\ XAck(s, i).log = s.log /\ XAck(s, i).first = s.first
           /\ XAck(s, i).cursor = s.cursor /\ XAck(s, i).pending = s.pending \ {i}
  BY StreamFields DEF StreamOf, XAck

-----------------------------------------------------------------------------
\* XADD: the new entry waits; waiting entries that are cut off are over.
LEMMA XAddPhase ==
    ASSUME NEW Payload, NEW s \in StreamOf(Payload), NEW x \in Payload,
           NEW maxlen \in Nat \ {0}, NEW t \in XAdd(s, x, maxlen), NEW i \in Nat \ {0}
    PROVE  Phase(t, i) = IF i = Len(s.log) + 1 THEN "waiting"
                         ELSE IF Phase(s, i) = "waiting" /\ i < t.first THEN "over"
                         ELSE Phase(s, i)
<1>1. /\ Len(t.log) = Len(s.log) + 1 /\ t.cursor = s.cursor /\ t.pending = s.pending
      /\ s.first <= t.first /\ t.first <= Len(t.log)
      /\ t \in StreamOf(Payload)
  BY XAddAppends
<1> QED
  BY <1>1, StreamFields DEF Phase, Entries, Unread

\* XREADGROUP: the entries of the batch were waiting and are pending.
LEMMA XReadGroupPhase ==
    ASSUME NEW Payload, NEW s \in StreamOf(Payload), NEW n \in Nat \ {0}, NextBatch(s, n) # {},
           NEW i \in Nat \ {0}
    PROVE  /\ i \in NextBatch(s, n) => Phase(s, i) = "waiting"
           /\ Phase(XReadGroup(s, n), i) = IF i \in NextBatch(s, n) THEN "pending" ELSE Phase(s, i)
<1> DEFINE t == XReadGroup(s, n)
<1>1. /\ t.log = s.log /\ t.first = s.first /\ t.cursor = LastOfBatch(s, n)
      /\ t.pending = s.pending \cup NextBatch(s, n)
      /\ LastOfBatch(s, n) \in Unread(s)..Len(s.log)
  BY XReadGroupIsStream
<1>2. i \in NextBatch(s, n) => Phase(s, i) = "waiting"
  BY <1>1, StreamFields, UnreadIsBehind DEF NextBatch, Phase, Entries
<1>3. Unread(t) = LastOfBatch(s, n) + 1
  BY <1>1, StreamFields, UnreadIsBehind DEF Unread
<1> HIDE DEF t
<1>4. Phase(t, i) = IF i \in NextBatch(s, n) THEN "pending" ELSE Phase(s, i)
  BY <1>1, <1>3, StreamFields, UnreadIsBehind DEF NextBatch, Phase, Entries
<1> QED
  BY <1>2, <1>4 DEF t

\* XACK: the entry was pending and is over.
LEMMA XAckPhase ==
    ASSUME NEW Payload, NEW s \in StreamOf(Payload), NEW j \in s.pending, NEW i \in Nat \ {0}
    PROVE  /\ Phase(s, j) = "pending"
           /\ Phase(XAck(s, j), i) = IF i = j THEN "over" ELSE Phase(s, i)
  BY XAckIsStream, StreamFields, UnreadIsBehind DEF Phase, Entries, Unread
=============================================================================
