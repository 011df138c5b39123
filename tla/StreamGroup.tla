---------------------------- MODULE StreamGroup ----------------------------
(***************************************************************************)
(* What a stream with a consumer group promises its readers, whoever they  *)
(* are: an entry waits, is handed out once, and is over once it has been   *)
(* acknowledged.  Nothing is handed out twice and nothing comes back; an   *)
(* entry that is never acknowledged stays pending for ever.                *)
(***************************************************************************)
EXTENDS Integers

CONSTANT Entry

VARIABLE phase  \* [Entry -> {"absent", "waiting", "pending", "over"}]

In(p) == {i \in Entry : phase[i] = p}
Move(ids, p) == phase' = [i \in Entry |-> IF i \in ids THEN p ELSE phase[i]]

Init == phase = [i \in Entry |-> "absent"]

\* A producer adds the next entry; the oldest waiting ones may fall off.
Add(i, dropped) ==
    /\ i \in In("absent")
    /\ dropped \subseteq In("waiting")
    /\ phase' = [j \in Entry |-> CASE j = i -> "waiting"
                                  [] j \in dropped -> "over"
                                  [] OTHER -> phase[j]]

\* A reader gets a batch of the waiting entries.
Deliver(batch) == /\ batch # {} /\ batch \subseteq In("waiting")
                  /\ Move(batch, "pending")

Acknowledge(i) == /\ i \in In("pending")
                  /\ Move({i}, "over")

Next ==
    \/ \E i \in Entry, dropped \in SUBSET Entry : Add(i, dropped)
    \/ \E batch \in SUBSET Entry : Deliver(batch)
    \/ \E i \in Entry : Acknowledge(i)

Spec == Init /\ [][Next]_phase
=============================================================================
