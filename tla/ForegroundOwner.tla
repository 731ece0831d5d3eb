--------------------------- MODULE ForegroundOwner ---------------------------
(***************************************************************************)
(* What the foreground promises a client of the application: one owner at  *)
(* a time; an Operation's fate is decided once, while it owns the          *)
(* foreground; a begun Operation tells exactly that fate before it gives   *)
(* the foreground up; nobody takes it over once closing has begun.  It is  *)
(* not promised that an owner leaves.                                      *)
(***************************************************************************)
CONSTANTS Ops, Exclusives, Nobody

VARIABLES owner,   \* who holds the foreground
          closed,  \* has closing begun?
          begun,   \* Operations whose work was started
          fate,    \* the decided outcome of each Operation, or "open"
          told,    \* the outcome its terminal event names, or "open"
          repeated \* Operations whose cancellation was told twice

vars == <<owner, closed, begun, fate, told, repeated>>

Fates == {"completed", "failed", "cancelled"}

Init ==
    /\ owner = Nobody
    /\ closed = FALSE
    /\ begun = {}
    /\ fate = [o \in Ops |-> "open"]
    /\ told = [o \in Ops |-> "open"]
    /\ repeated = {}

Take(a) ==
    /\ owner = Nobody /\ ~closed
    /\ owner' = a
    /\ UNCHANGED <<closed, begun, fate, told, repeated>>

\* An Operation is begun at most once, whatever was decided about it before.
Begin(o) ==
    /\ owner = o /\ o \notin begun
    /\ begun' = begun \cup {o}
    /\ UNCHANGED <<owner, closed, fate, told, repeated>>

Decide(o, f) ==
    /\ owner = o /\ fate[o] = "open"
    /\ fate' = [fate EXCEPT ![o] = f]
    /\ UNCHANGED <<owner, closed, begun, told, repeated>>

Tell(o) ==
    /\ owner = o /\ o \in begun
    /\ fate[o] # "open" /\ told[o] = "open"
    /\ told' = [told EXCEPT ![o] = fate[o]]
    /\ UNCHANGED <<owner, closed, begun, fate, repeated>>

Leave(a) ==
    /\ owner = a
    /\ a \in begun => told[a] # "open"
    /\ owner' = Nobody
    /\ UNCHANGED <<closed, begun, fate, told, repeated>>

\* A request task that cleans up after an Operation task that never ran tells
\* its fate and leaves in one step.
TellAndLeave(o) ==
    /\ owner = o /\ o \in begun
    /\ fate[o] # "open" /\ told[o] = "open"
    /\ told' = [told EXCEPT ![o] = fate[o]]
    /\ owner' = Nobody
    /\ UNCHANGED <<closed, begun, fate, repeated>>

\* The request task of a cancelled Operation that has told and not left tells
\* it again, once, and leaves in its place.
TellAgainAndLeave(o) ==
    /\ owner = o /\ told[o] = "cancelled" /\ o \notin repeated
    /\ repeated' = repeated \cup {o}
    /\ owner' = Nobody
    /\ UNCHANGED <<closed, begun, fate, told>>

Close ==
    /\ closed' = TRUE
    /\ UNCHANGED <<owner, begun, fate, told, repeated>>

Next ==
    \/ \E a \in Ops \cup Exclusives : Take(a) \/ Leave(a)
    \/ \E o \in Ops : Begin(o) \/ Tell(o) \/ TellAndLeave(o) \/ TellAgainAndLeave(o)
    \/ \E o \in Ops, f \in Fates : Decide(o, f)
    \/ Close

Spec == Init /\ [][Next]_vars
=============================================================================
