----------------------------- MODULE TaskQueue -----------------------------
(***************************************************************************)
(* What the URL queue promises about tasks, unlike a stream with a group:  *)
(* a task enters it once, is taken by at most one crawler, and nothing     *)
(* brings it back.  A task may be lost at every stage, also on its way in; *)
(* then it is over, as it is once its crawl has been told of.              *)
(***************************************************************************)

CONSTANT Task

VARIABLE phase  \* [Task -> {"unborn", "waiting", "taken", "over"}]

In(p) == {t \in Task : phase[t] = p}
Move(tasks, p) == phase' = [t \in Task |-> IF t \in tasks THEN p ELSE phase[t]]

Init == phase \in [Task -> {"unborn", "waiting"}]

\* A task passes the filter or bypasses it, and waits, or is lost at once.
Enter(t) == /\ t \in In("unborn")
            /\ Move({t}, "waiting") \/ Move({t}, "over")

Take(t) == /\ t \in In("waiting")
           /\ Move({t}, "taken")

\* Tasks are dealt with, discarded, or lost together.
End(tasks) == /\ tasks # {} /\ tasks \subseteq In("waiting") \cup In("taken")
              /\ Move(tasks, "over")

Next ==
    \/ \E t \in Task : Enter(t) \/ Take(t)
    \/ \E tasks \in SUBSET Task : End(tasks)

Spec == Init /\ [][Next]_phase
=============================================================================
