----------------------------- MODULE SerialStore -----------------------------
(* What the Application database promises: one transaction at a time, in     *)
(* the order the requests were admitted, each applied whole or not at all.   *)
EXTENDS Naturals, Sequences

CONSTANTS Requests

VARIABLES line,     \* admitted and not settled, oldest first
          applied,  \* requests that took effect, in order
          settled   \* requests whose fate is known

vars == <<line, applied, settled>>

Init == line = <<>> /\ applied = <<>> /\ settled = {}

Admit(r) ==
    /\ r \notin settled /\ \A i \in 1..Len(line) : line[i] # r
    /\ line' = Append(line, r)
    /\ UNCHANGED <<applied, settled>>

Refuse(r) ==
    /\ r \notin settled /\ \A i \in 1..Len(line) : line[i] # r
    /\ settled' = settled \cup {r}
    /\ UNCHANGED <<line, applied>>

Settle ==
    /\ line # <<>>
    /\ line' = Tail(line) /\ settled' = settled \cup {Head(line)}
    /\ applied' \in {applied, Append(applied, Head(line))}

Next == Settle \/ \E r \in Requests : Admit(r) \/ Refuse(r)

Spec == Init /\ [][Next]_vars

=============================================================================
