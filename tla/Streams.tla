------------------------------ MODULE Streams ------------------------------
(***************************************************************************)
(* A Redis Stream with one consumer group, as the services use it: XADD    *)
(* with an approximate MAXLEN, XREADGROUP with the id ">" and XACK.        *)
(*                                                                         *)
(* An entry is named by its position in the log.  XADD may drop any number *)
(* of the oldest entries as long as MAXLEN stay; the group's cursor and    *)
(* its pending list know nothing of that.                                  *)
(***************************************************************************)
EXTENDS Integers, Sequences

\* XGROUP CREATE ... id="0" mkstream=True.
EmptyStream == [log |-> <<>>, first |-> 1, cursor |-> 0, pending |-> {}]

Entries(s) == 1..Len(s.log)

\* The first entry the group has not been given, if it is still there.
Unread(s) == IF s.cursor < s.first THEN s.first ELSE s.cursor + 1

\* XADD with MAXLEN ~ maxlen: the streams that may result.
XAdd(s, x, maxlen) ==
    LET length == Len(s.log) + 1
        trims  == {f \in s.first..length : f = s.first \/ length - f + 1 >= maxlen}
    IN  {[log |-> Append(s.log, x), first |-> f, cursor |-> s.cursor, pending |-> s.pending] : f \in trims}

\* XREADGROUP COUNT n with ">": the entries it returns ...
LastOfBatch(s, n) == IF Unread(s) + n - 1 < Len(s.log) THEN Unread(s) + n - 1 ELSE Len(s.log)
NextBatch(s, n) == Unread(s)..LastOfBatch(s, n)

\* ... and the stream it leaves: they are pending until acknowledged.
XReadGroup(s, n) ==
    [log |-> s.log, first |-> s.first, cursor |-> LastOfBatch(s, n),
     pending |-> s.pending \cup NextBatch(s, n)]

XAck(s, i) == [log |-> s.log, first |-> s.first, cursor |-> s.cursor, pending |-> s.pending \ {i}]

\* Where an entry stands from the group's point of view.
Phase(s, i) ==
    CASE i \notin Entries(s)                                        -> "absent"
      [] i \in Entries(s) /\ i \in s.pending                        -> "pending"
      [] i \in Entries(s) /\ i \notin s.pending /\ i >= Unread(s)    -> "waiting"
      [] i \in Entries(s) /\ i \notin s.pending /\ ~(i >= Unread(s)) -> "over"

\* The values a stream of the given payloads ranges over.
StreamOf(Payload) ==
    {s \in [log : Seq(Payload), first : Nat \ {0}, cursor : Nat, pending : SUBSET (Nat \ {0})] :
        /\ s.first <= Len(s.log) + 1
        /\ s.cursor <= Len(s.log)
        /\ s.pending \subseteq 1..s.cursor}
=============================================================================
