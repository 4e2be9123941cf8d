----------------------------- MODULE EventStore -----------------------------
(***************************************************************************)
(* What the event storage promises to the readers of events: an event      *)
(* appears at once, with its row and both of its images, never changes     *)
(* afterwards, and a crossing is recorded as one event at most.            *)
(***************************************************************************)
CONSTANTS Ids, Keys, NoKey

VARIABLE event       \* the crossing that each complete event records

Init == event = [e \in Ids |-> NoKey]

Record(e, k) ==
  /\ event[e] = NoKey
  /\ \A f \in Ids : event[f] # k
  /\ event' = [event EXCEPT ![e] = k]

Next == \E e \in Ids, k \in Keys : Record(e, k)

Spec == Init /\ [][Next]_event
=============================================================================
