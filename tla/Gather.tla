------------------------------- MODULE Gather -------------------------------
(***************************************************************************)
(* What get_events_from_server promises its callers (federation.py): "A    *)
(* mapping of the Event ID to the Event(or EventError)".  Answers arrive   *)
(* in any order; the call returns once every requested event has one, and  *)
(* the mapping it returned does not change any more.                       *)
(***************************************************************************)
CONSTANTS Wanted, Answers, NoAnswer

VARIABLES answer, returned

Init ==
    /\ answer = [e \in Wanted |-> NoAnswer]
    /\ returned = FALSE

Answer(e, a) ==
    /\ ~returned
    /\ answer' = [answer EXCEPT ![e] = a]
    /\ UNCHANGED returned

Return ==
    /\ ~returned
    /\ \A e \in Wanted : answer[e] # NoAnswer
    /\ returned' = TRUE
    /\ UNCHANGED answer

Next == Return \/ \E e \in Wanted, a \in Answers : Answer(e, a)

Spec == Init /\ [][Next]_<<answer, returned>>
=============================================================================
