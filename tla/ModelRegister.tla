---------------------------- MODULE ModelRegister ----------------------------
(* What /model promises: the default model and the model of one Thread       *)
(* change together or not at all.                                            *)
CONSTANTS Threads, Models

VARIABLES default, thread

vars == <<default, thread>>

Init == default \in Models /\ thread \in [Threads -> Models]

Change(t, m) == default' = m /\ thread' = [thread EXCEPT ![t] = m]

Next == \E t \in Threads, m \in Models : Change(t, m)

Spec == Init /\ [][Next]_vars

=============================================================================
