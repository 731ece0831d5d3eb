-------------------------- MODULE Foreground_proofs --------------------------
(***************************************************************************)
(* What is proved of the work that the foreground lease serializes: the     *)
(* Operations themselves (OperationController), then the /model change      *)
(* (ModelTransaction), which runs as one of its exclusive tasks.  The two   *)
(* share neither state nor names.                                           *)
(*                                                                          *)
(* The inductive invariant of OperationController and what follows from it  *)
(* for any number of Operations and exclusive tasks; then that of           *)
(* ModelTransaction, for any number of processes, Threads and models.       *)
(***************************************************************************)
EXTENDS OperationController, ModelTransaction, TLAPS

\* An Operation is active while its request prepares it, while its task has
\* not run its finally clause, and, if the task died before its first step or
\* left past that clause, until the request task has cleaned up in its place:
\* for ever, if that request has returned.
Live(o) ==
    \/ request[o] \in {"reserved", "emitting"}
    \/ task[o] \in {"created", "announcing", "running", "committing", "publishing",
                   "finalizing"}
    \/ task[o] = "left" /\ request[o] # "raised"
    \/ task[o] = "dead" /\ request[o] \in {"ready", "joining", "cleanup"}

Ownership ==
    /\ lease \in Ops \/ activeId \in Ops => lease = activeId
    /\ \A x \in Exclusives : exclusive[x] = "held" <=> lease = x
    /\ \A o \in Ops : activeId = o <=> Live(o)

\* How far the request task and the Operation task can be apart.
Coupling == \A o \in Ops :
    /\ request[o] \in {"idle", "reserved", "emitting", "rejected", "aborted"}
       => task[o] = "none"
    /\ request[o] = "ready"
       => task[o] \in {"created", "announcing", "running", "publishing", "dead"}
    /\ request[o] = "joining" => task[o] # "none"
    /\ request[o] = "cleanup" => task[o] \in {"dead", "left"}
    /\ request[o] = "raised" => task[o] \in {"none", "done", "left", "dead"}
    /\ request[o] = "returned" => task[o] \notin {"none", "created", "dead"}

\* The phases each point of an active Operation can see.
PhaseOf(o) ==
    CASE request[o] = "reserved" -> {"reserved"}
      [] request[o] = "emitting" -> {"starting", "cancelling"}
      [] task[o] = "created" -> IF o \in taskCancel THEN {"cancelling"}
                                ELSE {"running", "cancelling"}
      [] task[o] = "running" -> {"running", "cancelling", "committed"}
      [] task[o] = "committing" -> {"committing"}
      [] task[o] \in {"announcing", "left", "dead"} -> {"cancelling"}
      [] OTHER -> {"cancelling", "committed"}

PhaseInv ==
    /\ activeId = Nobody => phase = "none" /\ committed = "none"
    /\ phase = "committed" <=> committed # "none"
    /\ \A o \in Ops : activeId = o => phase \in PhaseOf(o) /\ outcome[o] = committed
    /\ \A o \in taskCancel : task[o] # "none"

\* What a true acknowledgement fixes, and that nothing else makes a start
\* cancelling whose task is not cancelled.
AckInv == \A o \in Ops :
    /\ request[o] \in {"idle", "reserved"} => ackedIn[o] = "never"
    /\ task[o] = "none" => outcome[o] = "none"
    /\ ackedIn[o] # "never" => outcome[o] = "none"
    /\ ackedIn[o] # "never" /\ activeId = o => phase = "cancelling"
    /\ ackedIn[o] = "starting" => task[o] \notin {"running", "committing"}
    /\ task[o] \in {"announcing", "left"} => ackedIn[o] = "starting"
    /\ /\ request[o] = "emitting" \/ (task[o] = "created" /\ o \notin taskCancel)
       /\ activeId = o /\ phase = "cancelling"
       => ackedIn[o] = "starting"

Verdict(o) == IF outcome[o] = "none" THEN "cancelled" ELSE outcome[o]

\* What has been published, by where the two tasks are.
LogOf(o) ==
    /\ Len(published[o]) > 0 => published[o][1] = "started"
    /\ Len(published[o]) > 1 => published[o][2] = Verdict(o)
    /\ Len(published[o]) > 2 => published[o][3] = "cancelled"

PublishedInv == \A o \in Ops :
    /\ LogOf(o)
    /\ request[o] \in {"idle", "reserved", "emitting"} => Len(published[o]) = 0
    /\ task[o] = "none" => Len(published[o]) \in {0, 1}
    /\ \/ task[o] \in {"created", "announcing", "running", "committing", "publishing"}
       \/ task[o] = "dead" /\ request[o] # "raised"
       => Len(published[o]) = 1
    /\ \/ task[o] \in {"finalizing", "done"}
       \/ task[o] = "dead" /\ request[o] = "raised"
       \/ task[o] = "left" /\ request[o] # "raised"
       => Len(published[o]) = 2
    /\ task[o] = "left" /\ request[o] = "raised" => Len(published[o]) = 3

IInv == TypeOK /\ Ownership /\ Coupling /\ PhaseInv /\ AckInv /\ PublishedInv

-----------------------------------------------------------------------------

\* Nothing published.
LEMMA Empty == ASSUME NEW S PROVE <<>> \in Seq(S) /\ Len(<<>>) = 0
  OBVIOUS

\* Publishing once more.
LEMMA Grow == ASSUME NEW S, NEW s \in Seq(S), NEW e \in S
              PROVE  /\ Append(s, e) \in Seq(S)
                     /\ Len(Append(s, e)) = Len(s) + 1
                     /\ \A i \in 1..Len(s) : Append(s, e)[i] = s[i]
                     /\ Append(s, e)[Len(s) + 1] = e
                     /\ Len(s) \in Nat
  OBVIOUS

\* What was published stays.
LEMMA KeepFirst == ASSUME NEW S, NEW s \in Seq(S), NEW e \in S
                   PROVE  /\ Len(s) = 1 => Append(s, e)[1] = s[1]
                          /\ Len(s) = 2 => Append(s, e)[1] = s[1] /\ Append(s, e)[2] = s[2]
  OBVIOUS

LEMMA PublishEffect ==
    ASSUME NEW o \in Ops, NEW e \in Events,
           published \in [Ops -> Seq(Events)], Publish(o, e)
    PROVE  /\ published' \in [Ops -> Seq(Events)]
           /\ Len(published[o]) = 0 => Len(published'[o]) = 1 /\ published'[o][1] = e
           /\ Len(published[o]) = 1 => /\ Len(published'[o]) = 2
                                      /\ published'[o][1] = published[o][1]
                                      /\ published'[o][2] = e
           /\ Len(published[o]) = 2 => /\ Len(published'[o]) = 3
                                      /\ published'[o][1] = published[o][1]
                                      /\ published'[o][2] = published[o][2]
                                      /\ published'[o][3] = e
           /\ \A p \in Ops \ {o} : published'[p] = published[p]
  <1>1. published[o] \in Seq(Events)
    OBVIOUS
  <1>2. published' = [published EXCEPT ![o] = Append(published[o], e)]
    BY DEF Publish
  <1>3. published'[o] = Append(published[o], e)
    BY <1>2
  <1>4. /\ published' \in [Ops -> Seq(Events)]
        /\ Append(published[o], e)[Len(published[o]) + 1] = e
        /\ Len(Append(published[o], e)) = Len(published[o]) + 1
    BY <1>1, <1>2, Grow
  <1>5. \A p \in Ops \ {o} : published'[p] = published[p]
    BY <1>2
  <1>6. Len(published[o]) = 0 => Len(published'[o]) = 1 /\ published'[o][1] = e
    BY <1>1, <1>3, Grow
  <1>7. Len(published[o]) = 1 => /\ Len(published'[o]) = 2
                                /\ published'[o][1] = published[o][1]
                                /\ published'[o][2] = e
    <2> SUFFICES ASSUME Len(published[o]) = 1
                 PROVE  /\ Len(published'[o]) = 2
                        /\ published'[o][1] = published[o][1]
                        /\ published'[o][2] = e
      OBVIOUS
    <2>2. Append(published[o], e)[1] = published[o][1]
      BY <1>1, KeepFirst
    <2>3. Len(published[o]) + 1 = 2
      OBVIOUS
    <2>4. QED
      BY <1>3, <1>4, <2>2, <2>3
  <1>8. Len(published[o]) = 2 => /\ Len(published'[o]) = 3
                                /\ published'[o][1] = published[o][1]
                                /\ published'[o][2] = published[o][2]
                                /\ published'[o][3] = e
    <2> SUFFICES ASSUME Len(published[o]) = 2
                 PROVE  /\ Len(published'[o]) = 3
                        /\ published'[o][1] = published[o][1]
                        /\ published'[o][2] = published[o][2]
                        /\ published'[o][3] = e
      OBVIOUS
    <2>2. /\ Append(published[o], e)[1] = published[o][1]
          /\ Append(published[o], e)[2] = published[o][2]
      BY <1>1, KeepFirst
    <2>3. Len(published[o]) + 1 = 3
      OBVIOUS
    <2>4. QED
      BY <1>3, <1>4, <2>2, <2>3
  <1>9. QED
    BY <1>4, <1>5, <1>6, <1>7, <1>8

LEMMA InitInv == Init => IInv
  <1> SUFFICES ASSUME Init PROVE IInv
    OBVIOUS
  <1> USE OpsAssumption DEF Init
  <1>1. TypeOK
    BY Empty DEF TypeOK, Phases, Events, Terminals, RequestStates, TaskStates, ShutdownStates
  <1>2. Ownership
    BY DEF Ownership, Live
  <1>3. Coupling
    BY DEF Coupling
  <1>4. PhaseInv
    BY DEF PhaseInv
  <1>5. AckInv
    BY DEF AckInv
  <1>6. PublishedInv
    <2>1. \A o \in Ops : Len(published[o]) = 0
      BY Empty
    <2>2. ASSUME NEW o \in Ops PROVE LogOf(o)
      <3>1. /\ ~(Len(published[o]) > 0) /\ ~(Len(published[o]) > 1)
            /\ ~(Len(published[o]) > 2)
        BY <2>1
      <3>2. QED
        BY <3>1 DEF LogOf
    <2>3. QED
      BY <2>1, <2>2 DEF PublishedInv
  <1> QED BY <1>1, <1>2, <1>3, <1>4, <1>5, <1>6 DEF IInv

THEOREM Inductive == IInv /\ [Next]_vars => IInv'
  <1> SUFFICES ASSUME IInv, [Next]_vars PROVE IInv'
    OBVIOUS
  <1> USE OpsAssumption DEF IInv
  <1>1. ASSUME NEW o \in Ops, Reserve(o) PROVE IInv'
    <2> USE <1>1 DEF Reserve, CanAcquire, Move, tasks, exclusives, history, closer
    <2>1. TypeOK'
      BY DEF TypeOK, Phases, Events, Terminals, RequestStates, TaskStates, ShutdownStates
    <2>2. Ownership'
      BY DEF TypeOK, Ownership, Live, Coupling
    <2>3. Coupling'
      BY DEF TypeOK, Coupling, Ownership, Live
    <2>4. PhaseInv'
      BY DEF TypeOK, PhaseInv, PhaseOf, Ownership, Live, Coupling, AckInv
    <2>5. AckInv'
      BY DEF TypeOK, AckInv, Ownership, Live, PhaseInv, PhaseOf, Coupling
    <2>6. PublishedInv'
      BY DEF TypeOK, PublishedInv, Ownership, Terminals, LogOf, Live, Coupling, PhaseInv, PhaseOf, Verdict
    <2> QED BY <2>1, <2>2, <2>3, <2>4, <2>5, <2>6
  <1>2. ASSUME NEW o \in Ops, Reject(o) PROVE IInv'
    <2> USE <1>2 DEF Reject, Move, control, tasks, exclusives, history, closer
    <2>1. TypeOK'
      BY DEF TypeOK, Phases, Events, Terminals, RequestStates, TaskStates, ShutdownStates
    <2>2. Ownership'
      BY DEF TypeOK, Ownership, Live, Coupling
    <2>3. Coupling'
      BY DEF TypeOK, Coupling, Ownership, Live
    <2>4. PhaseInv'
      BY DEF TypeOK, PhaseInv, PhaseOf, Ownership, Live, Coupling, AckInv
    <2>5. AckInv'
      BY DEF TypeOK, AckInv, Ownership, Live, PhaseInv, PhaseOf, Coupling
    <2>6. PublishedInv'
      BY DEF TypeOK, PublishedInv, Ownership, Terminals, LogOf, Live, Coupling, PhaseInv, PhaseOf, Verdict
    <2> QED BY <2>1, <2>2, <2>3, <2>4, <2>5, <2>6
  <1>3. ASSUME NEW o \in Ops, Abort(o) PROVE IInv'
    <2> USE <1>3 DEF Abort, ClearActive, Release, Move, control, tasks, exclusives, history, closer
    <2>1. TypeOK'
      BY DEF TypeOK, Phases, Events, Terminals, RequestStates, TaskStates, ShutdownStates
    <2>2. Ownership'
      BY DEF TypeOK, Ownership, Live, Coupling
    <2>3. Coupling'
      BY DEF TypeOK, Coupling, Ownership, Live
    <2>4. PhaseInv'
      BY DEF TypeOK, PhaseInv, PhaseOf, Ownership, Live, Coupling, AckInv
    <2>5. AckInv'
      BY DEF TypeOK, AckInv, Ownership, Live, PhaseInv, PhaseOf, Coupling
    <2>6. PublishedInv'
      BY DEF TypeOK, PublishedInv, Ownership, Terminals, LogOf, Live, Coupling, PhaseInv, PhaseOf, Verdict
    <2> QED BY <2>1, <2>2, <2>3, <2>4, <2>5, <2>6
  <1>4. ASSUME NEW o \in Ops, StartReserved(o) PROVE IInv'
    <2> USE <1>4 DEF StartReserved, Move, tasks, exclusives, history, closer
    <2>1. TypeOK'
      BY DEF TypeOK, Phases, Events, Terminals, RequestStates, TaskStates, ShutdownStates
    <2>2. Ownership'
      BY DEF TypeOK, Ownership, Live, Coupling
    <2>3. Coupling'
      BY DEF TypeOK, Coupling, Ownership, Live
    <2>4. PhaseInv'
      BY DEF TypeOK, PhaseInv, PhaseOf, Ownership, Live, Coupling, AckInv
    <2>5. AckInv'
      BY DEF TypeOK, AckInv, Ownership, Live, PhaseInv, PhaseOf, Coupling
    <2>6. PublishedInv'
      BY DEF TypeOK, PublishedInv, Ownership, Terminals, LogOf, Live, Coupling, PhaseInv, PhaseOf, Verdict
    <2> QED BY <2>1, <2>2, <2>3, <2>4, <2>5, <2>6
  <1>5. ASSUME NEW o \in Ops, EmitStarted(o) PROVE IInv'
    <2> USE <1>5 DEF EmitStarted, Publish, Move, exclusives, closer
    <2>1. TypeOK'
      BY DEF TypeOK, Phases, Events, Terminals, RequestStates, TaskStates, ShutdownStates
    <2>2. Ownership'
      BY DEF TypeOK, Ownership, Live, Coupling
    <2>3. Coupling'
      BY DEF TypeOK, Coupling, Ownership, Live
    <2>4. PhaseInv'
      BY DEF TypeOK, PhaseInv, PhaseOf, Ownership, Live, Coupling, AckInv
    <2>5. AckInv'
      BY DEF TypeOK, AckInv, Ownership, Live, PhaseInv, PhaseOf, Coupling
    <2>6. PublishedInv'
      BY Grow DEF TypeOK, PublishedInv, Ownership, Terminals, LogOf, Live, Coupling, PhaseInv, PhaseOf, Verdict
    <2> QED BY <2>1, <2>2, <2>3, <2>4, <2>5, <2>6
  <1>6. ASSUME NEW o \in Ops, EmitStartedFails(o) PROVE IInv'
    <2> USE <1>6 DEF EmitStartedFails, ClearActive, Release, Move, tasks, exclusives, closer
    <2>1. TypeOK'
      <3>1. published' \in [Ops -> Seq(Events)]
        <4>1. published \in [Ops -> Seq(Events)] /\ "started" \in Events
          BY DEF TypeOK, Events
        <4>2. UNCHANGED published \/ Publish(o, "started")
          OBVIOUS
        <4>3. QED
          BY <4>1, <4>2, PublishEffect
      <3>2. QED
        BY <3>1 DEF TypeOK, Phases, Events, Terminals, RequestStates, TaskStates, ShutdownStates
    <2>2. Ownership'
      BY DEF TypeOK, Ownership, Live, Coupling
    <2>3. Coupling'
      BY DEF TypeOK, Coupling, Ownership, Live
    <2>4. PhaseInv'
      BY DEF TypeOK, PhaseInv, PhaseOf, Ownership, Live, Coupling, AckInv
    <2>5. AckInv'
      BY DEF TypeOK, AckInv, Ownership, Live, PhaseInv, PhaseOf, Coupling
    <2>6. PublishedInv'
      <3>1. request[o] = "emitting" /\ task[o] = "none" /\ Len(published[o]) = 0
        BY DEF Coupling, PublishedInv
      <3>2. CASE UNCHANGED published
        BY <3>1, <3>2 DEF TypeOK, PublishedInv, LogOf, Verdict
      <3>3. CASE Publish(o, "started")
        <4>1. published \in [Ops -> Seq(Events)] /\ "started" \in Events
          BY DEF TypeOK, Events
        <4>2. /\ Len(published'[o]) = 1 /\ published'[o][1] = "started"
              /\ \A p \in Ops \ {o} : published'[p] = published[p]
          BY <3>1, <3>3, <4>1, PublishEffect
        <4>3. QED
          BY <3>1, <4>2 DEF TypeOK, PublishedInv, LogOf, Verdict
      <3>4. QED
        BY <3>2, <3>3
    <2> QED BY <2>1, <2>2, <2>3, <2>4, <2>5, <2>6
  <1>7. ASSUME NEW o \in Ops, RequestReturns(o) PROVE IInv'
    <2> USE <1>7 DEF RequestReturns, Move, control, tasks, exclusives, history, closer
    <2>1. TypeOK'
      BY DEF TypeOK, Phases, Events, Terminals, RequestStates, TaskStates, ShutdownStates
    <2>2. Ownership'
      BY DEF TypeOK, Ownership, Live, Coupling
    <2>3. Coupling'
      BY DEF TypeOK, Coupling, Ownership, Live
    <2>4. PhaseInv'
      BY DEF TypeOK, PhaseInv, PhaseOf, Ownership, Live, Coupling, AckInv
    <2>5. AckInv'
      BY DEF TypeOK, AckInv, Ownership, Live, PhaseInv, PhaseOf, Coupling
    <2>6. PublishedInv'
      BY DEF TypeOK, PublishedInv, Ownership, Terminals, LogOf, Live, Coupling, PhaseInv, PhaseOf, Verdict
    <2> QED BY <2>1, <2>2, <2>3, <2>4, <2>5, <2>6
  <1>8. ASSUME NEW o \in Ops, RequestCancelled(o) PROVE IInv'
    <2> USE <1>8 DEF RequestCancelled, Move, exclusives, history, closer
    <2>1. TypeOK'
      BY DEF TypeOK, Phases, Events, Terminals, RequestStates, TaskStates, ShutdownStates
    <2>2. Ownership'
      BY DEF TypeOK, Ownership, Live, Coupling
    <2>3. Coupling'
      BY DEF TypeOK, Coupling, Ownership, Live
    <2>4. PhaseInv'
      BY DEF TypeOK, PhaseInv, PhaseOf, Ownership, Live, Coupling, AckInv
    <2>5. AckInv'
      BY DEF TypeOK, AckInv, Ownership, Live, PhaseInv, PhaseOf, Coupling
    <2>6. PublishedInv'
      BY DEF TypeOK, PublishedInv, Ownership, Terminals, LogOf, Live, Coupling, PhaseInv, PhaseOf, Verdict
    <2> QED BY <2>1, <2>2, <2>3, <2>4, <2>5, <2>6
  <1>9. ASSUME NEW o \in Ops, RequestJoined(o) PROVE IInv'
    <2> USE <1>9 DEF RequestJoined, TaskOver, Move, control, tasks, exclusives, history, closer
    <2>1. TypeOK'
      <3>1. request' \in [Ops -> RequestStates]
        <4>1. PICK to \in {"cleanup", "raised"} : request' = [request EXCEPT ![o] = to]
          OBVIOUS
        <4>2. request \in [Ops -> RequestStates] /\ to \in RequestStates
          BY <4>1 DEF TypeOK, RequestStates
        <4> QED
          BY <4>1, <4>2
      <3>2. reqCancel' \subseteq Ops /\ starterTask' \in Ops \cup {Nobody}
        BY DEF TypeOK
      <3> QED
        BY <3>1, <3>2 DEF TypeOK
    <2>2. Ownership'
      BY DEF TypeOK, Ownership, Live, Coupling
    <2>3. Coupling'
      <3>0. task' = task /\ request \in [Ops -> RequestStates] /\ Coupling
        BY DEF TypeOK
      <3>1. CASE activeId = o
        <4>1. task[o] \in {"left", "dead"}
          BY <3>1 DEF Ownership, Live
        <4>2. request' = [request EXCEPT ![o] = "cleanup"]
          BY <3>1
        <4> QED
          BY <3>0, <4>1, <4>2 DEF Coupling
      <3>2. CASE activeId # o
        <4>1. task[o] \in {"done", "left", "dead"}
          OBVIOUS
        <4>2. request' = [request EXCEPT ![o] = "raised"]
          BY <3>2
        <4> QED
          BY <3>0, <4>1, <4>2 DEF Coupling
      <3>3. QED
        BY <3>1, <3>2
    <2>4. PhaseInv'
      BY DEF TypeOK, PhaseInv, PhaseOf, Ownership, Live, Coupling, AckInv
    <2>5. AckInv'
      BY DEF TypeOK, AckInv, Ownership, Live, PhaseInv, PhaseOf, Coupling
    <2>6. PublishedInv'
      BY DEF TypeOK, PublishedInv, Ownership, Terminals, LogOf, Live, Coupling, PhaseInv, PhaseOf, Verdict
    <2> QED BY <2>1, <2>2, <2>3, <2>4, <2>5, <2>6
  <1>10. ASSUME NEW o \in Ops, RequestCleanup(o) PROVE IInv'
    <2> USE <1>10 DEF RequestCleanup, ClearActive, Release, Move, tasks, exclusives, closer
    <2>1. TypeOK'
      <3>1. published' \in [Ops -> Seq(Events)]
        <4>1. published \in [Ops -> Seq(Events)] /\ "cancelled" \in Events
          BY DEF TypeOK, Events
        <4>2. UNCHANGED published \/ Publish(o, "cancelled")
          OBVIOUS
        <4>3. QED
          BY <4>1, <4>2, PublishEffect
      <3>2. QED
        BY <3>1 DEF TypeOK, Phases, Events, Terminals, RequestStates, TaskStates, ShutdownStates
    <2>2. Ownership'
      BY DEF TypeOK, Ownership, Live, Coupling
    <2>3. Coupling'
      BY DEF TypeOK, Coupling, Ownership, Live
    <2>4. PhaseInv'
      BY DEF TypeOK, PhaseInv, PhaseOf, Ownership, Live, Coupling, AckInv
    <2>5. AckInv'
      BY DEF TypeOK, AckInv, Ownership, Live, PhaseInv, PhaseOf, Coupling
    <2>6. PublishedInv'
      <3>1. activeId = o /\ phase = "cancelling" /\ outcome[o] = "none"
        BY DEF TypeOK, Ownership, Live, Coupling, PhaseInv, PhaseOf
      <3>2. task[o] \in {"dead", "left"}
        BY DEF Coupling
      <3>3. /\ published \in [Ops -> Seq(Events)] /\ "cancelled" \in Events
            /\ Publish(o, "cancelled")
        BY <3>1 DEF TypeOK, Events
      <3>4. CASE task[o] = "dead"
        <4>1. Len(published[o]) = 1 /\ published[o][1] = "started"
          BY <3>4 DEF PublishedInv, LogOf
        <4>2. /\ Len(published'[o]) = 2
              /\ published'[o][1] = "started" /\ published'[o][2] = "cancelled"
              /\ \A p \in Ops \ {o} : published'[p] = published[p]
          BY <4>1, <3>3, PublishEffect
        <4>3. LogOf(o)'
          <5>1. ~(Len(published'[o]) > 2)
            BY <4>2
          <5>2. QED
            BY <3>1, <4>2, <5>1 DEF LogOf, Verdict
        <4>4. \A p \in Ops \ {o} : LogOf(p)'
          BY <4>2 DEF PublishedInv, LogOf, Verdict
        <4>5. QED
          BY <3>1, <3>4, <4>1, <4>2, <4>3, <4>4 DEF TypeOK, PublishedInv
      <3>5. CASE task[o] = "left"
        <4>1. /\ Len(published[o]) = 2 /\ published[o][1] = "started"
              /\ published[o][2] = "cancelled"
          BY <3>1, <3>5 DEF PublishedInv, LogOf, Verdict
        <4>2. /\ Len(published'[o]) = 3
              /\ published'[o][1] = "started" /\ published'[o][2] = "cancelled"
              /\ published'[o][3] = "cancelled"
              /\ \A p \in Ops \ {o} : published'[p] = published[p]
          BY <4>1, <3>3, PublishEffect
        <4>3. QED
          BY <3>1, <3>5, <4>1, <4>2 DEF TypeOK, PublishedInv, LogOf, Verdict
      <3>6. QED
        BY <3>2, <3>4, <3>5
    <2> QED BY <2>1, <2>2, <2>3, <2>4, <2>5, <2>6
  <1>11. ASSUME NEW o \in Ops, InvokeStarts(o) PROVE IInv'
    <2> USE <1>11 DEF InvokeStarts, Move, control, requests, exclusives, history, closer
    <2>1. TypeOK'
      BY DEF TypeOK, Phases, Events, Terminals, RequestStates, TaskStates, ShutdownStates
    <2>2. Ownership'
      BY DEF TypeOK, Ownership, Live, Coupling
    <2>3. Coupling'
      BY DEF TypeOK, Coupling, Ownership, Live
    <2>4. PhaseInv'
      BY DEF TypeOK, PhaseInv, PhaseOf, Ownership, Live, Coupling, AckInv
    <2>5. AckInv'
      BY DEF TypeOK, AckInv, Ownership, Live, PhaseInv, PhaseOf, Coupling
    <2>6. PublishedInv'
      BY DEF TypeOK, PublishedInv, Ownership, Terminals, LogOf, Live, Coupling, PhaseInv, PhaseOf, Verdict
    <2> QED BY <2>1, <2>2, <2>3, <2>4, <2>5, <2>6
  <1>12. ASSUME NEW o \in Ops, InvokeDies(o) PROVE IInv'
    <2> USE <1>12 DEF InvokeDies, Move, control, requests, exclusives, history, closer
    <2>1. TypeOK'
      BY DEF TypeOK, Phases, Events, Terminals, RequestStates, TaskStates, ShutdownStates
    <2>2. Ownership'
      <3>1. request[o] \in {"ready", "joining"}
        BY DEF TypeOK, RequestStates, Coupling
      <3>2. QED
        BY <3>1 DEF TypeOK, Ownership, Live
    <2>3. Coupling'
      BY DEF TypeOK, Coupling, Ownership, Live
    <2>4. PhaseInv'
      BY DEF TypeOK, PhaseInv, PhaseOf, Ownership, Live, Coupling, AckInv
    <2>5. AckInv'
      BY DEF TypeOK, AckInv, Ownership, Live, PhaseInv, PhaseOf, Coupling
    <2>6. PublishedInv'
      BY DEF TypeOK, PublishedInv, Ownership, Terminals, LogOf, Live, Coupling, PhaseInv, PhaseOf, Verdict
    <2> QED BY <2>1, <2>2, <2>3, <2>4, <2>5, <2>6
  <1>13. ASSUME NEW o \in Ops, CommitBegins(o) PROVE IInv'
    <2> USE <1>13 DEF CommitBegins, StarterWoken, Move, requests, exclusives, history, closer
    <2>1. TypeOK'
      BY DEF TypeOK, Phases, Events, Terminals, RequestStates, TaskStates, ShutdownStates
    <2>2. Ownership'
      BY DEF TypeOK, Ownership, Live, Coupling
    <2>3. Coupling'
      BY DEF TypeOK, Coupling, Ownership, Live
    <2>4. PhaseInv'
      BY DEF TypeOK, PhaseInv, PhaseOf, Ownership, Live, Coupling, AckInv
    <2>5. AckInv'
      BY DEF TypeOK, AckInv, Ownership, Live, PhaseInv, PhaseOf, Coupling
    <2>6. PublishedInv'
      BY DEF TypeOK, PublishedInv, Ownership, Terminals, LogOf, Live, Coupling, PhaseInv, PhaseOf, Verdict
    <2> QED BY <2>1, <2>2, <2>3, <2>4, <2>5, <2>6
  <1>14. ASSUME NEW o \in Ops, CommitEnds(o) PROVE IInv'
    <2> USE <1>14 DEF CommitEnds, Terminals, Move, requests, exclusives, closer
    <2>1. TypeOK'
      BY DEF TypeOK, Phases, Events, Terminals, RequestStates, TaskStates, ShutdownStates
    <2>2. Ownership'
      BY DEF TypeOK, Ownership, Live, Coupling
    <2>3. Coupling'
      BY DEF TypeOK, Coupling, Ownership, Live
    <2>4. PhaseInv'
      BY DEF TypeOK, PhaseInv, PhaseOf, Ownership, Live, Coupling, AckInv
    <2>5. AckInv'
      BY DEF TypeOK, AckInv, Ownership, Live, PhaseInv, PhaseOf, Coupling
    <2>6. PublishedInv'
      BY DEF TypeOK, PublishedInv, Ownership, Terminals, LogOf, Live, Coupling, PhaseInv, PhaseOf, Verdict
    <2> QED BY <2>1, <2>2, <2>3, <2>4, <2>5, <2>6
  <1>15. ASSUME NEW o \in Ops, FactoryExits(o) PROVE IInv'
    <2> USE <1>15 DEF FactoryExits, StarterWoken, Terminals, Move, requests, exclusives, closer
    <2>1. TypeOK'
      <3>1. outcome' \in [Ops -> Terminals \cup {"none"}]
        BY DEF TypeOK
      <3>2. phase' \in Phases \cup {"none"} /\ committed' \in Terminals \cup {"none"}
        BY DEF TypeOK, Phases
      <3>3. task' \in [Ops -> TaskStates] /\ taskCancel' \subseteq Ops
        BY DEF TypeOK, TaskStates
      <3>4. QED
        BY <3>1, <3>2, <3>3 DEF TypeOK
    <2>2. Ownership'
      BY DEF TypeOK, Ownership, Live, Coupling
    <2>3. Coupling'
      BY DEF TypeOK, Coupling, Ownership, Live
    <2>4. PhaseInv'
      BY DEF TypeOK, PhaseInv, PhaseOf, Ownership, Live, Coupling, AckInv
    <2>5. AckInv'
      BY DEF TypeOK, AckInv, Ownership, Live, PhaseInv, PhaseOf, Coupling
    <2>6. PublishedInv'
      BY DEF TypeOK, PublishedInv, Ownership, Terminals, LogOf, Live, Coupling, PhaseInv, PhaseOf, Verdict
    <2> QED BY <2>1, <2>2, <2>3, <2>4, <2>5, <2>6
  <1>16. ASSUME NEW o \in Ops, PublishTerminal(o) PROVE IInv'
    <2> USE <1>16 DEF PublishTerminal, StarterWoken, Publish, Move, control, requests, exclusives, closer
    <2>1. TypeOK'
      <3>1. published' \in [Ops -> Seq(Events)]
        <4>1. (IF phase = "cancelling" THEN "cancelled" ELSE committed) \in Events
          BY DEF TypeOK, Events, Terminals, PhaseInv, PhaseOf, Ownership, Live, Coupling
        <4>2. QED
          BY <4>1, PublishEffect DEF TypeOK
      <3>2. QED
        BY <3>1 DEF TypeOK, Phases, Events, Terminals, RequestStates, TaskStates, ShutdownStates
    <2>2. Ownership'
      BY DEF TypeOK, Ownership, Live, Coupling
    <2>3. Coupling'
      BY DEF TypeOK, Coupling, Ownership, Live
    <2>4. PhaseInv'
      BY DEF TypeOK, PhaseInv, PhaseOf, Ownership, Live, Coupling, AckInv
    <2>5. AckInv'
      BY DEF TypeOK, AckInv, Ownership, Live, PhaseInv, PhaseOf, Coupling
    <2>6. PublishedInv'
      BY Grow DEF TypeOK, PublishedInv, Ownership, Terminals, LogOf, Live, Coupling, PhaseInv, PhaseOf, Verdict
    <2> QED BY <2>1, <2>2, <2>3, <2>4, <2>5, <2>6
  <1>17. ASSUME NEW o \in Ops, Finalize(o) PROVE IInv'
    <2> USE <1>17 DEF Finalize, ClearActive, Release, Move, requests, exclusives, history, closer
    <2>1. TypeOK'
      BY DEF TypeOK, Phases, Events, Terminals, RequestStates, TaskStates, ShutdownStates
    <2>2. Ownership'
      BY DEF TypeOK, Ownership, Live, Coupling
    <2>3. Coupling'
      BY DEF TypeOK, Coupling, Ownership, Live
    <2>4. PhaseInv'
      BY DEF TypeOK, PhaseInv, PhaseOf, Ownership, Live, Coupling, AckInv
    <2>5. AckInv'
      BY DEF TypeOK, AckInv, Ownership, Live, PhaseInv, PhaseOf, Coupling
    <2>6. PublishedInv'
      BY DEF TypeOK, PublishedInv, Ownership, Terminals, LogOf, Live, Coupling, PhaseInv, PhaseOf, Verdict
    <2> QED BY <2>1, <2>2, <2>3, <2>4, <2>5, <2>6
  <1>18. ASSUME NEW o \in Ops, Cancel(o) PROVE IInv'
    <2> USE <1>18 DEF Cancel, requests, exclusives, closer
    <2>1. TypeOK'
      BY DEF TypeOK, Phases, Events, Terminals, RequestStates, TaskStates, ShutdownStates
    <2>2. Ownership'
      BY DEF TypeOK, Ownership, Live, Coupling
    <2>3. Coupling'
      BY DEF TypeOK, Coupling, Ownership, Live
    <2>4. PhaseInv'
      BY DEF TypeOK, PhaseInv, PhaseOf, Ownership, Live, Coupling, AckInv
    <2>5. AckInv'
      BY DEF TypeOK, AckInv, Ownership, Live, PhaseInv, PhaseOf, Coupling
    <2>6. PublishedInv'
      BY DEF TypeOK, PublishedInv, Ownership, Terminals, LogOf, Live, Coupling, PhaseInv, PhaseOf, Verdict
    <2> QED BY <2>1, <2>2, <2>3, <2>4, <2>5, <2>6
  <1>19. ASSUME NEW x \in Exclusives, ExclusiveAcquires(x) PROVE IInv'
    <2> USE <1>19 DEF ExclusiveAcquires, CanAcquire, Move, control, requests, tasks, history, closer
    <2>1. TypeOK'
      BY DEF TypeOK, Phases, Events, Terminals, RequestStates, TaskStates, ShutdownStates
    <2>2. Ownership'
      BY DEF TypeOK, Ownership, Live, Coupling
    <2>3. Coupling'
      BY DEF TypeOK, Coupling, Ownership, Live
    <2>4. PhaseInv'
      BY DEF TypeOK, PhaseInv, PhaseOf, Ownership, Live, Coupling, AckInv
    <2>5. AckInv'
      BY DEF TypeOK, AckInv, Ownership, Live, PhaseInv, PhaseOf, Coupling
    <2>6. PublishedInv'
      BY DEF TypeOK, PublishedInv, Ownership, Terminals, LogOf, Live, Coupling, PhaseInv, PhaseOf, Verdict
    <2> QED BY <2>1, <2>2, <2>3, <2>4, <2>5, <2>6
  <1>20. ASSUME NEW x \in Exclusives, ExclusiveReleases(x) PROVE IInv'
    <2> USE <1>20 DEF ExclusiveReleases, Release, Move, control, requests, tasks, history, closer
    <2>1. TypeOK'
      BY DEF TypeOK, Phases, Events, Terminals, RequestStates, TaskStates, ShutdownStates
    <2>2. Ownership'
      BY DEF TypeOK, Ownership, Live, Coupling
    <2>3. Coupling'
      BY DEF TypeOK, Coupling, Ownership, Live
    <2>4. PhaseInv'
      BY DEF TypeOK, PhaseInv, PhaseOf, Ownership, Live, Coupling, AckInv
    <2>5. AckInv'
      BY DEF TypeOK, AckInv, Ownership, Live, PhaseInv, PhaseOf, Coupling
    <2>6. PublishedInv'
      BY DEF TypeOK, PublishedInv, Ownership, Terminals, LogOf, Live, Coupling, PhaseInv, PhaseOf, Verdict
    <2> QED BY <2>1, <2>2, <2>3, <2>4, <2>5, <2>6
  <1>21. CASE DrainRequests
    <2> USE <1>21 DEF DrainRequests, control, tasks, history
    <2>1. TypeOK'
      BY DEF TypeOK, Phases, Events, Terminals, RequestStates, TaskStates, ShutdownStates
    <2>2. Ownership'
      BY DEF TypeOK, Ownership, Live, Coupling
    <2>3. Coupling'
      BY DEF TypeOK, Coupling, Ownership, Live
    <2>4. PhaseInv'
      BY DEF TypeOK, PhaseInv, PhaseOf, Ownership, Live, Coupling, AckInv
    <2>5. AckInv'
      BY DEF TypeOK, AckInv, Ownership, Live, PhaseInv, PhaseOf, Coupling
    <2>6. PublishedInv'
      BY DEF TypeOK, PublishedInv, Ownership, Terminals, LogOf, Live, Coupling, PhaseInv, PhaseOf, Verdict
    <2> QED BY <2>1, <2>2, <2>3, <2>4, <2>5, <2>6
  <1>22. CASE BeginClosing
    <2> USE <1>22 DEF BeginClosing, control, tasks, exclusives, history
    <2>1. TypeOK'
      BY DEF TypeOK, Phases, Events, Terminals, RequestStates, TaskStates, ShutdownStates
    <2>2. Ownership'
      BY DEF TypeOK, Ownership, Live, Coupling
    <2>3. Coupling'
      BY DEF TypeOK, Coupling, Ownership, Live
    <2>4. PhaseInv'
      BY DEF TypeOK, PhaseInv, PhaseOf, Ownership, Live, Coupling, AckInv
    <2>5. AckInv'
      BY DEF TypeOK, AckInv, Ownership, Live, PhaseInv, PhaseOf, Coupling
    <2>6. PublishedInv'
      BY DEF TypeOK, PublishedInv, Ownership, Terminals, LogOf, Live, Coupling, PhaseInv, PhaseOf, Verdict
    <2> QED BY <2>1, <2>2, <2>3, <2>4, <2>5, <2>6
  <1>23. CASE StarterJoined
    <2> USE <1>23 DEF StarterJoined, requests, exclusives, history
    <2>1. TypeOK'
      BY DEF TypeOK, Phases, Events, Terminals, RequestStates, TaskStates, ShutdownStates
    <2>2. Ownership'
      BY DEF TypeOK, Ownership, Live, Coupling
    <2>3. Coupling'
      BY DEF TypeOK, Coupling, Ownership, Live
    <2>4. PhaseInv'
      BY DEF TypeOK, PhaseInv, PhaseOf, Ownership, Live, Coupling, AckInv
    <2>5. AckInv'
      BY DEF TypeOK, AckInv, Ownership, Live, PhaseInv, PhaseOf, Coupling
    <2>6. PublishedInv'
      BY DEF TypeOK, PublishedInv, Ownership, Terminals, LogOf, Live, Coupling, PhaseInv, PhaseOf, Verdict
    <2> QED BY <2>1, <2>2, <2>3, <2>4, <2>5, <2>6
  <1>24. CASE TaskJoined
    <2> USE <1>24 DEF TaskJoined, control, requests, tasks, history
    <2>1. TypeOK'
      BY DEF TypeOK, Phases, Events, Terminals, RequestStates, TaskStates, ShutdownStates
    <2>2. Ownership'
      BY DEF TypeOK, Ownership, Live, Coupling
    <2>3. Coupling'
      BY DEF TypeOK, Coupling, Ownership, Live
    <2>4. PhaseInv'
      BY DEF TypeOK, PhaseInv, PhaseOf, Ownership, Live, Coupling, AckInv
    <2>5. AckInv'
      BY DEF TypeOK, AckInv, Ownership, Live, PhaseInv, PhaseOf, Coupling
    <2>6. PublishedInv'
      BY DEF TypeOK, PublishedInv, Ownership, Terminals, LogOf, Live, Coupling, PhaseInv, PhaseOf, Verdict
    <2> QED BY <2>1, <2>2, <2>3, <2>4, <2>5, <2>6
  <1>25. CASE IdleReached
    <2> USE <1>25 DEF IdleReached, control, requests, tasks, exclusives, history
    <2>1. TypeOK'
      BY DEF TypeOK, Phases, Events, Terminals, RequestStates, TaskStates, ShutdownStates
    <2>2. Ownership'
      BY DEF TypeOK, Ownership, Live, Coupling
    <2>3. Coupling'
      BY DEF TypeOK, Coupling, Ownership, Live
    <2>4. PhaseInv'
      BY DEF TypeOK, PhaseInv, PhaseOf, Ownership, Live, Coupling, AckInv
    <2>5. AckInv'
      BY DEF TypeOK, AckInv, Ownership, Live, PhaseInv, PhaseOf, Coupling
    <2>6. PublishedInv'
      BY DEF TypeOK, PublishedInv, Ownership, Terminals, LogOf, Live, Coupling, PhaseInv, PhaseOf, Verdict
    <2> QED BY <2>1, <2>2, <2>3, <2>4, <2>5, <2>6
  <1>26. CASE UNCHANGED vars
    <2> USE <1>26 DEF vars, control, requests, tasks, exclusives, history, closer
    <2>1. TypeOK'
      BY DEF TypeOK
    <2>2. Ownership'
      BY DEF Ownership, Live
    <2>3. Coupling'
      BY DEF Coupling
    <2>4. PhaseInv'
      BY DEF PhaseInv, PhaseOf
    <2>5. AckInv'
      BY DEF AckInv
    <2>6. PublishedInv'
      BY DEF PublishedInv, LogOf, Verdict
    <2> QED BY <2>1, <2>2, <2>3, <2>4, <2>5, <2>6
  <1>27. ASSUME NEW o \in Ops, AnnounceCancelled(o) PROVE IInv'
    <2> USE <1>27 DEF AnnounceCancelled, StarterWoken, Move, control, requests, exclusives, closer
    <2>0. /\ published \in [Ops -> Seq(Events)] /\ "cancelled" \in Events
          /\ Publish(o, "cancelled")
      BY DEF TypeOK, Events
    <2>1. TypeOK'
      <3>1. published' \in [Ops -> Seq(Events)]
        BY <2>0, PublishEffect
      <3>2. QED
        BY <3>1 DEF TypeOK, TaskStates
    <2>2. Ownership'
      BY DEF TypeOK, Ownership, Live, Coupling
    <2>3. Coupling'
      BY DEF TypeOK, Coupling, Ownership, Live
    <2>4. PhaseInv'
      BY DEF TypeOK, PhaseInv, PhaseOf, Ownership, Live, Coupling, AckInv
    <2>5. AckInv'
      BY DEF TypeOK, AckInv, Ownership, Live, PhaseInv, PhaseOf, Coupling
    <2>6. PublishedInv'
      <3>1. activeId = o /\ outcome[o] = "none" /\ request[o] # "raised"
        BY DEF TypeOK, Ownership, Live, Coupling, PhaseInv, PhaseOf
      <3>2. Len(published[o]) = 1 /\ published[o][1] = "started"
        BY DEF PublishedInv, LogOf
      <3>3. /\ Len(published'[o]) = 2
            /\ published'[o][1] = "started" /\ published'[o][2] = "cancelled"
            /\ \A p \in Ops \ {o} : published'[p] = published[p]
        BY <2>0, <3>2, PublishEffect
      <3>4. LogOf(o)'
        <4>1. ~(Len(published'[o]) > 2)
          BY <3>3
        <4>2. QED
          BY <3>1, <3>3, <4>1 DEF LogOf, Verdict
      <3>5. \A p \in Ops \ {o} : LogOf(p)'
        BY <3>3 DEF PublishedInv, LogOf, Verdict
      <3>6. /\ task'[o] = "left" /\ request'[o] = request[o]
            /\ \A p \in Ops \ {o} : task'[p] = task[p] /\ request'[p] = request[p]
        BY DEF TypeOK
      <3>7. request[o] \notin {"idle", "reserved", "emitting"}
        BY DEF Coupling
      <3> HIDE <1>27
      <3>8. QED
        BY <3>1, <3>3, <3>4, <3>5, <3>6, <3>7 DEF PublishedInv
    <2> QED BY <2>1, <2>2, <2>3, <2>4, <2>5, <2>6
  <1> QED
    BY <1>1, <1>2, <1>3, <1>4, <1>5, <1>6, <1>7, <1>8, <1>9, <1>10, <1>11, <1>12, <1>13, <1>14, <1>15, <1>16, <1>17, <1>18, <1>19, <1>20, <1>21, <1>22, <1>23, <1>24, <1>25, <1>26, <1>27
    DEF Next, RequestNext, TaskNext, ShutdownNext, Ended

-----------------------------------------------------------------------------
(* The invariant of every behaviour, and the properties the runs check.    *)

LEMMA Invariant == Spec => []IInv
  BY InitInv, Inductive, PTL DEF Spec

\* Every reachable state is well typed.
THEOREM TypeCorrect == Spec => []TypeOK
  BY Invariant, PTL DEF IInv

\* Whatever the number of requests, at most one Operation task or exclusive
\* handler is in the foreground, and it holds the lease.
THEOREM Exclusion == Spec => []ForegroundExclusion
  <1>1. IInv => ForegroundExclusion
    BY DEF IInv, Ownership, Live, ForegroundExclusion, InForeground
  <1>2. QED
    BY <1>1, Invariant, PTL

\* The controller and the arbiter never disagree on who is active.
THEOREM LeaseAgrees == Spec => []ActiveHoldsLease
  <1>1. IInv => ActiveHoldsLease
    BY OpsAssumption DEF IInv, TypeOK, Ownership, ActiveHoldsLease
  <1>2. QED
    BY <1>1, Invariant, PTL

\* An acknowledged cancellation is never overtaken by a commit, and no event
\* ever says it was.
THEOREM CancelWins == Spec => []AcknowledgedCancelWins
  <1>1. ASSUME IInv, NEW o \in Ops, ackedIn[o] # "never"
        PROVE  /\ outcome[o] = "none"
               /\ \A i \in 1..Len(published[o]) : published[o][i] \notin Terminals
    <2>1. outcome[o] = "none" /\ Verdict(o) = "cancelled"
      BY <1>1 DEF IInv, AckInv, Verdict
    <2>2. Len(published[o]) \in {0, 1, 2, 3}
      BY <1>1 DEF IInv, PublishedInv, TypeOK, TaskStates, Coupling
    <2>3. LogOf(o)
      BY <1>1 DEF IInv, PublishedInv
    <2>4. QED
      BY <2>1, <2>2, <2>3 DEF LogOf, Terminals
  <1>2. IInv => AcknowledgedCancelWins
    BY <1>1 DEF AcknowledgedCancelWins
  <1>3. QED
    BY <1>2, Invariant, PTL

\* A cancellation accepted while starting keeps the factory from running.
THEOREM StartCancelHolds == Spec => []CancelledStartNeverRuns
  <1>1. IInv => CancelledStartNeverRuns
    BY DEF IInv, AckInv, CancelledStartNeverRuns
  <1>2. QED
    BY <1>1, Invariant, PTL

\* operation.started, then a terminal event that names the outcome; a second
\* one only repeats it, for a start that was cancelled and its request too.
THEOREM TerminalsTell == Spec => []TerminalTellsOutcome
  <1>1. ASSUME IInv, NEW o \in Ops
        PROVE  /\ Len(published[o]) <= 3
               /\ Len(published[o]) > 0 => published[o][1] = "started"
               /\ Told(o) => published[o][2] = Verdict(o)
               /\ ToldTwice(o) => /\ published[o][3] = published[o][2]
                                  /\ ackedIn[o] = "starting" /\ request[o] = "raised"
    <2>1. \/ Len(published[o]) \in {0, 1, 2}
          \/ /\ Len(published[o]) = 3
             /\ task[o] = "left" /\ request[o] = "raised"
      BY <1>1 DEF IInv, PublishedInv, TypeOK, TaskStates, Coupling
    <2>2. LogOf(o)
      BY <1>1 DEF IInv, PublishedInv
    <2>3. Len(published[o]) <= 3
      <3>1. \A n \in {0, 1, 2, 3} : n <= 3
        OBVIOUS
      <3>2. QED
        BY <2>1, <3>1
    <2>4. ASSUME ToldTwice(o)
          PROVE  /\ published[o][3] = published[o][2]
                 /\ ackedIn[o] = "starting" /\ request[o] = "raised"
      <3>1. Len(published[o]) = 3
        BY <2>1, <2>4 DEF ToldTwice
      <3>2. task[o] = "left" /\ request[o] = "raised"
        BY <2>1, <3>1
      <3>3. ackedIn[o] = "starting" /\ Verdict(o) = "cancelled"
        BY <1>1, <3>2 DEF IInv, AckInv, Verdict
      <3>4. published[o][2] = Verdict(o) /\ published[o][3] = "cancelled"
        BY <2>2, <3>1 DEF LogOf
      <3>5. QED
        BY <3>2, <3>3, <3>4
    <2>5. QED
      BY <2>2, <2>3, <2>4 DEF LogOf, Told
  <1>2. IInv => TerminalTellsOutcome
    BY <1>1 DEF TerminalTellsOutcome, Verdict
  <1>3. QED
    BY <1>2, Invariant, PTL

\* The lease is held by somebody who will give it up, or by an Operation whose
\* cancellation was accepted while starting.
THEOREM LeaseUsed == Spec => []LeaseIsInUse
  <1>1. IInv => LeaseIsInUse
    <2> SUFFICES ASSUME IInv, NEW o \in Ops, lease = o, request[o] \in RequestOver,
                        task[o] \in TaskOver \cup {"none"}
                 PROVE  Stranded(o) /\ ackedIn[o] = "starting"
      BY DEF LeaseIsInUse
    <2>1. activeId = o /\ Live(o)
      BY OpsAssumption DEF IInv, TypeOK, Ownership
    <2>2. task[o] = "left" /\ request[o] # "raised"
      BY <2>1 DEF Live, RequestOver, TaskOver
    <2>3. request[o] = "returned"
      BY <2>2 DEF IInv, Coupling, RequestOver
    <2>4. QED
      BY <2>1, <2>2, <2>3 DEF IInv, AckInv, Stranded
  <1>2. QED
    BY <1>1, Invariant, PTL

\* Nobody gives the lease up with an untold outcome.
THEOREM ToldBeforeRelease == Spec => []ReleasedAfterTerminal
  <1>1. IInv => ReleasedAfterTerminal
    <2> SUFFICES ASSUME IInv, NEW o \in Ops, task[o] # "none", lease # o PROVE Told(o)
      BY DEF ReleasedAfterTerminal
    <2>1. ~Live(o)
      BY OpsAssumption DEF IInv, TypeOK, Ownership
    <2>2. Len(published[o]) \in {2, 3}
      BY <2>1 DEF IInv, TypeOK, TaskStates, RequestStates, Live, Coupling, PublishedInv
    <2>3. QED
      BY <2>2 DEF Told
  <1>2. QED
    BY <1>1, Invariant, PTL

\* The foreground is sound in every reachable state, for any set of requests
\* and exclusive tasks.
THEOREM Soundness == Spec => []ForegroundSound
  BY Exclusion, LeaseAgrees, LeaseUsed, CancelWins, StartCancelHolds, TerminalsTell,
     ToldBeforeRelease, PTL DEF ForegroundSound

-----------------------------------------------------------------------------
(* Closing, and the promise of ForegroundOwner.                            *)

\* How the closing task, the starter and the requests still joining go
\* together: nobody joins an Operation task before closing has cancelled
\* requests, the starter is gone once it was joined, and a start that is
\* cancelling was acknowledged.
Closing ==
    /\ closing <=> shutdown \in {"starter", "task", "idle", "closed"}
    /\ shutdown \in {"task", "idle", "closed"} => starterTask = Nobody
    /\ shutdown = "closed" => lease = Nobody
    /\ \A o \in Ops :
          /\ request[o] \in {"reserved", "emitting", "ready", "joining", "cleanup"}
             => starterTask = o
          /\ request[o] \in {"joining", "cleanup"} \/ o \in reqCancel => shutdown # "open"
          /\ request[o] = "emitting" /\ phase = "cancelling" => ackedIn[o] # "never"

\* Every step keeps closing, starter and joining requests together.
LEMMA ClosingStep == IInv /\ Closing /\ [Next]_vars => Closing'
  <1> SUFFICES ASSUME IInv /\ Closing, [Next]_vars PROVE Closing'
    OBVIOUS
  <1> USE OpsAssumption DEF IInv, Ownership, Coupling, Live, PhaseInv, PhaseOf, Closing,
     TypeOK, Move, Release, ClearActive, CanAcquire, control, requests, tasks,
     exclusives, history, closer, vars, Phases, RequestOver, TaskOver, Terminals
  <1>1. ASSUME NEW o \in Ops, Reserve(o) PROVE Closing'
    <2>1. shutdown = "open" /\ shutdown' = "open" /\ lease = Nobody
      BY <1>1 DEF Reserve, ShutdownStates
    <2>2. ASSUME NEW p \in Ops, p # o
          PROVE request[p] \notin {"reserved", "emitting", "ready", "joining",
             "cleanup"}
      BY <1>1, <2>1, <2>2 DEF Reserve, Live
    <2>3. /\ \A p \in Ops : p # o => request'[p] = request[p]
          /\ request'[o] = "reserved" /\ starterTask' = o
          /\ phase' = "reserved"
          /\ UNCHANGED <<reqCancel, closing, ackedIn, shutdown>>
      BY <1>1 DEF Reserve
    <2>4. o \notin reqCancel
      BY <2>1
    <2>5. QED
      BY <2>1, <2>2, <2>3, <2>4
  <1>2. ASSUME NEW o \in Ops, Reject(o) PROVE Closing'
    BY <1>2 DEF Reject
  <1>3. ASSUME NEW o \in Ops, Abort(o) PROVE Closing'
    BY <1>3 DEF Abort
  <1>4. ASSUME NEW o \in Ops, StartReserved(o) PROVE Closing'
    BY <1>4 DEF StartReserved
  <1>5. ASSUME NEW o \in Ops, EmitStarted(o) PROVE Closing'
    BY <1>5 DEF EmitStarted
  <1>6. ASSUME NEW o \in Ops, EmitStartedFails(o) PROVE Closing'
    BY <1>6 DEF EmitStartedFails
  <1>7. ASSUME NEW o \in Ops, RequestReturns(o) PROVE Closing'
    BY <1>7 DEF RequestReturns
  <1>8. ASSUME NEW o \in Ops, RequestCancelled(o) PROVE Closing'
    BY <1>8 DEF RequestCancelled
  <1>9. ASSUME NEW o \in Ops, RequestJoined(o) PROVE Closing'
    BY <1>9 DEF RequestJoined
  <1>10. ASSUME NEW o \in Ops, RequestCleanup(o) PROVE Closing'
    BY <1>10 DEF RequestCleanup
  <1>11. ASSUME NEW o \in Ops, InvokeStarts(o) PROVE Closing'
    BY <1>11 DEF InvokeStarts
  <1>12. ASSUME NEW o \in Ops, InvokeDies(o) PROVE Closing'
    BY <1>12 DEF InvokeDies
  <1>13. ASSUME NEW o \in Ops, CommitBegins(o) PROVE Closing'
    BY <1>13 DEF CommitBegins
  <1>14. ASSUME NEW o \in Ops, CommitEnds(o) PROVE Closing'
    BY <1>14 DEF CommitEnds
  <1>15. ASSUME NEW o \in Ops, FactoryExits(o) PROVE Closing'
    BY <1>15 DEF FactoryExits
  <1>16. ASSUME NEW o \in Ops, PublishTerminal(o) PROVE Closing'
    BY <1>16 DEF PublishTerminal
  <1>17. ASSUME NEW o \in Ops, Finalize(o) PROVE Closing'
    BY <1>17 DEF Finalize
  <1>18. ASSUME NEW o \in Ops, Cancel(o) PROVE Closing'
    BY <1>18 DEF Cancel
  <1>19. ASSUME NEW x \in Exclusives, ExclusiveAcquires(x) PROVE Closing'
    BY <1>19 DEF ExclusiveAcquires
  <1>20. ASSUME NEW x \in Exclusives, ExclusiveReleases(x) PROVE Closing'
    BY <1>20 DEF ExclusiveReleases
  <1>21. CASE DrainRequests
    BY <1>21 DEF DrainRequests
  <1>22. CASE BeginClosing
    BY <1>22 DEF BeginClosing
  <1>23. CASE StarterJoined
    BY <1>23 DEF StarterJoined
  <1>24. CASE TaskJoined
    BY <1>24 DEF TaskJoined
  <1>25. CASE IdleReached
    BY <1>25 DEF IdleReached
  <1>26. CASE UNCHANGED vars
    BY <1>26
  <1>27. ASSUME NEW o \in Ops, AnnounceCancelled(o) PROVE Closing'
    BY <1>27 DEF AnnounceCancelled
  <1>28. QED
    BY <1>1, <1>2, <1>3, <1>4, <1>5, <1>6, <1>7, <1>8, <1>9, <1>10, <1>11, <1>12, <1>13,
       <1>14, <1>15, <1>16, <1>17, <1>18, <1>19, <1>20, <1>21, <1>22, <1>23, <1>24,
       <1>25, <1>26, <1>27 DEF Next, RequestNext, TaskNext, ShutdownNext, Ended

\* Nothing is closing at first.
LEMMA InitClosing == Init => Closing
  BY OpsAssumption DEF Init, Closing

\* Nothing that could use the resources is left when they are torn down.
THEOREM ClosedQuiet == Spec => []ClosedIsQuiet
  <1>1. IInv /\ [Next]_vars => IInv'
    BY Inductive
  <1>2. IInv /\ Closing => ClosedIsQuiet
    <2> SUFFICES ASSUME IInv, Closing, shutdown = "closed"
                 PROVE  /\ lease = Nobody /\ activeId = Nobody
                        /\ \A o \in Ops : /\ request[o] \in RequestOver \cup {"idle"}
                                          /\ task[o] \in TaskOver \cup {"none"}
                        /\ \A x \in Exclusives : exclusive[x] # "held"
      BY DEF ClosedIsQuiet
    <2>1. lease = Nobody /\ activeId = Nobody /\ starterTask = Nobody
      BY OpsAssumption DEF IInv, TypeOK, Ownership, Closing
    <2>2. ASSUME NEW o \in Ops
          PROVE  request[o] \in RequestOver \cup {"idle"} /\ task[o] \in TaskOver \cup {"none"}
      <3>1. ~Live(o)
        BY <2>1, OpsAssumption DEF IInv, Ownership
      <3>2. request[o] \notin {"reserved", "emitting", "ready", "joining", "cleanup"}
        BY <2>1, OpsAssumption DEF Closing
      <3>3. QED
        BY <3>1, <3>2 DEF IInv, TypeOK, Live, RequestStates, RequestOver, TaskStates, TaskOver
    <2>3. \A x \in Exclusives : exclusive[x] # "held"
      BY <2>1, OpsAssumption DEF IInv, Ownership
    <2>4. QED
      BY <2>1, <2>2, <2>3
  <1>3. QED
    BY Invariant, InitClosing, ClosingStep, <1>2, PTL DEF Spec

\* The verdict the mapping shows for an Operation, by how far it has come.
LEMMA FateOf ==
    ASSUME IInv, NEW o \in Ops
    PROVE  /\ Fate(o) \in Terminals \cup {"cancelled", "open"}
           /\ activeId = o /\ phase \in {"reserved", "starting", "running", "committing"}
              => Fate(o) = "open"
           /\ activeId = o /\ phase = "cancelling" => Fate(o) = "cancelled"
           /\ activeId = o /\ phase = "committed" => Fate(o) = committed
           /\ Told(o) => published[o][2] = Fate(o) /\ Fate(o) # "open"
  <1> USE OpsAssumption DEF IInv, Fate, Terminals
  <1>1. Fate(o) \in Terminals \cup {"cancelled", "open"}
    BY DEF TypeOK
  <1>2. ASSUME activeId = o, phase \in {"reserved", "starting", "running", "committing"}
        PROVE  Fate(o) = "open"
    <2>1. committed = "none" /\ outcome[o] = "none" /\ ackedIn[o] = "never"
      BY <1>2 DEF PhaseInv, AckInv, TypeOK
    <2>2. \/ request[o] \in {"reserved", "emitting"}
          \/ task[o] \in {"created", "running", "committing"}
      BY <1>2 DEF PhaseInv, PhaseOf, Ownership, Live, TypeOK, TaskStates, RequestStates
    <2>3. ~Told(o)
      <3>1. Len(published[o]) \in {0, 1}
        BY <2>2 DEF PublishedInv
      <3>2. \A n \in {0, 1} : ~(n > 1)
        OBVIOUS
      <3>3. QED
        BY <3>1, <3>2 DEF Told
    <2>4. QED
      BY <1>2, <2>1, <2>3
  <1>3. ASSUME activeId = o, phase = "cancelling" PROVE Fate(o) = "cancelled"
    <2>1. outcome[o] = "none"
      BY <1>3 DEF PhaseInv, TypeOK
    <2>2. QED
      BY <1>3, <2>1
  <1>4. ASSUME activeId = o, phase = "committed" PROVE Fate(o) = committed
    BY <1>4 DEF PhaseInv
  <1>5. ASSUME Told(o)
        PROVE  published[o][2] = Fate(o) /\ Fate(o) # "open"
    <2>1. published[o][2] = Verdict(o)
      BY <1>5 DEF PublishedInv, LogOf, Told
    <2>2. Fate(o) = Verdict(o)
      BY <1>5 DEF Verdict
    <2>3. outcome[o] \in Terminals \cup {"none"}
      BY DEF TypeOK
    <2>4. Verdict(o) # "open"
      BY <2>3 DEF Verdict
    <2>5. QED
      BY <2>1, <2>2, <2>4
  <1>6. QED
    BY <1>1, <1>2, <1>3, <1>4, <1>5

\* The owner's view does not change with where the tasks merely are.
LEMMA Stutters ==
    ASSUME UNCHANGED <<lease, closing, outcome, ackedIn, published>>,
           \A p \in Ops : (activeId = p /\ phase = "cancelling")'
                          <=> activeId = p /\ phase = "cancelling",
           \A p \in Ops : task'[p] # "none" <=> task[p] # "none"
    PROVE  UNCHANGED Promise!vars
  BY DEF Promise!vars, Fate, Told, ToldTwice

\* An active Operation holds the lease.
LEMMA ActiveOwns == ASSUME IInv, NEW o \in Ops, Live(o)
                    PROVE  activeId = o /\ lease = o /\ phase \in PhaseOf(o)
  BY OpsAssumption DEF IInv, Ownership, PhaseInv

\* A cancellation of the active Operation decides its fate.
LEMMA DecideEffect ==
    ASSUME IInv, NEW o \in Ops, activeId = o, lease = o, Fate(o) = "open",
           phase' = "cancelling",
           UNCHANGED <<lease, closing, activeId, outcome, published>>,
           \A p \in Ops \ {o} : ackedIn'[p] = ackedIn[p],
           \A p \in Ops : task'[p] # "none" <=> task[p] # "none"
    PROVE  Promise!Decide(o, "cancelled")
  <1>1. outcome[o] = "none" /\ Fate(o)' = "cancelled"
    BY DEF Fate, IInv, TypeOK, Terminals
  <1>2. \A p \in Ops \ {o} : Fate(p)' = Fate(p)
    BY DEF Fate, Told
  <1>3. QED
    BY <1>1, <1>2 DEF Promise!Decide, Told, ToldTwice

\* So does a commit.
LEMMA CommitEffect ==
    ASSUME IInv, NEW o \in Ops, activeId = o, lease = o, Fate(o) = "open",
           NEW f \in Terminals, outcome' = [outcome EXCEPT ![o] = f],
           phase' = "committed",
           UNCHANGED <<lease, closing, activeId, ackedIn, published>>,
           \A p \in Ops : task'[p] # "none" <=> task[p] # "none"
    PROVE  Promise!Decide(o, f)
  <1>1. outcome'[o] = f /\ \A p \in Ops \ {o} : outcome'[p] = outcome[p]
    BY DEF IInv, TypeOK
  <1>2. Fate(o)' = f
    BY <1>1 DEF Fate, Terminals
  <1>3. \A p \in Ops \ {o} : Fate(p)' = Fate(p)
    BY <1>1 DEF Fate, Told
  <1>4. QED
    BY <1>2, <1>3 DEF Promise!Decide, Told, ToldTwice

\* o's terminal event, and nothing else, goes out.
TellsOne(o) ==
    /\ Len(published[o]) = 1 /\ Len(published'[o]) = 2
    /\ \A p \in Ops \ {o} : published'[p] = published[p]

\* The mapped record of what was told changes at o only.
LEMMA TellEffect ==
    ASSUME NEW o \in Ops, TellsOne(o)
    PROVE  /\ ~Told(o) /\ Told(o)' /\ ~ToldTwice(o) /\ ~ToldTwice(o)'
           /\ \A p \in Ops \ {o} : /\ Told(p)' = Told(p)
                                   /\ ToldTwice(p)' = ToldTwice(p)
           /\ [p \in Ops |-> IF Told(p)' THEN published'[p][2] ELSE "open"]
              = [[p \in Ops |-> IF Told(p) THEN published[p][2] ELSE "open"]
                 EXCEPT ![o] = published'[o][2]]
           /\ {p \in Ops : ToldTwice(p)'} = {p \in Ops : ToldTwice(p)}
  <1>1. ~Told(o) /\ Told(o)' /\ ~ToldTwice(o) /\ ~ToldTwice(o)'
    BY DEF TellsOne, Told, ToldTwice
  <1>2. \A p \in Ops \ {o} : Told(p)' = Told(p) /\ ToldTwice(p)' = ToldTwice(p)
    BY DEF TellsOne, Told, ToldTwice
  <1>3. QED
    BY <1>1, <1>2 DEF TellsOne

\* Every step is a step of the abstract owner or changes nothing it shows.
LEMMA PromiseStep == IInv /\ Closing /\ [Next]_vars => [Promise!Next]_Promise!vars
  <1> SUFFICES ASSUME IInv, Closing, [Next]_vars PROVE [Promise!Next]_Promise!vars
    OBVIOUS
  <1> USE OpsAssumption DEF control, requests, tasks, exclusives, history, closer, vars,
     Move
  <1>1. ASSUME NEW o \in Ops, Reserve(o)
        PROVE  [Promise!Next]_Promise!vars
    <2>1. lease = Nobody /\ ~closing /\ activeId = Nobody /\ lease' = o
          /\ activeId' = o /\ phase' = "reserved"
          /\ UNCHANGED <<closing, task, outcome, ackedIn, published>>
      BY <1>1 DEF Reserve, CanAcquire
    <2>2. \A p \in Ops : Fate(p)' = Fate(p)
      BY <2>1 DEF Fate, Told
    <2>3. Promise!Take(o)
      BY <2>1, <2>2 DEF Promise!Take, Told, ToldTwice
    <2>4. QED
      BY <2>3 DEF Promise!Next
  <1>2. ASSUME NEW o \in Ops, Reject(o)
        PROVE  [Promise!Next]_Promise!vars
    <2>1. UNCHANGED <<lease, closing, outcome, ackedIn, published>>
      BY <1>2 DEF Reject
    <2>2. \A p \in Ops : (activeId = p /\ phase = "cancelling")' <=> activeId = p /\
       phase = "cancelling"
      BY <1>2 DEF Reject
    <2>3. \A p \in Ops : task'[p] # "none" <=> task[p] # "none"
      BY <1>2 DEF Reject
    <2>4. QED
      BY <2>1, <2>2, <2>3, Stutters
  <1>3. ASSUME NEW o \in Ops, Abort(o)
        PROVE  [Promise!Next]_Promise!vars
    <2>1. activeId = o /\ lease = o /\ phase = "reserved"
      BY <1>3, ActiveOwns DEF Abort, Live, PhaseOf, IInv, Coupling
    <2>2. task[o] = "none" /\ lease' = Nobody /\ activeId' = Nobody /\ phase' = "none"
          /\ UNCHANGED <<closing, task, outcome, ackedIn, published>>
      BY <1>3, <2>1 DEF Abort, Release, ClearActive, IInv, Coupling
    <2>3. \A p \in Ops : Fate(p)' = Fate(p)
      BY <2>1, <2>2 DEF Fate, Told
    <2>4. Promise!Leave(o)
      BY <2>1, <2>2, <2>3 DEF Promise!Leave, Told, ToldTwice
    <2>5. QED
      BY <2>4 DEF Promise!Next
  <1>4. ASSUME NEW o \in Ops, StartReserved(o)
        PROVE  [Promise!Next]_Promise!vars
    <2>1. activeId = o /\ phase = "reserved"
      BY <1>4, ActiveOwns DEF StartReserved, Live, PhaseOf, IInv, Coupling
    <2>2. phase' = "starting"
          /\ UNCHANGED <<lease, closing, activeId, task, outcome, ackedIn, published>>
      BY <1>4 DEF StartReserved
    <2>3. QED
      BY <2>1, <2>2, Stutters
  <1>5. ASSUME NEW o \in Ops, EmitStarted(o)
        PROVE  [Promise!Next]_Promise!vars
    <2>1. activeId = o /\ lease = o /\ phase \in {"starting", "cancelling"}
      BY <1>5, ActiveOwns DEF EmitStarted, Live, PhaseOf, IInv, Coupling
    <2>2. task[o] = "none" /\ Len(published[o]) = 0
      BY <1>5 DEF EmitStarted, IInv, Coupling, PublishedInv
    <2>3. /\ task' = [task EXCEPT ![o] = "created"]
          /\ phase' = IF phase = "starting" THEN "running" ELSE phase
          /\ Publish(o, "started")
          /\ UNCHANGED <<lease, closing, activeId, outcome, ackedIn>>
      BY <1>5 DEF EmitStarted
    <2>4. Len(published'[o]) = 1 /\ \A p \in Ops \ {o} : published'[p] = published[p]
      BY <2>2, <2>3, PublishEffect DEF IInv, TypeOK, Events
    <2>5. /\ ~Told(o) /\ ~Told(o)' /\ ~ToldTwice(o) /\ ~ToldTwice(o)'
          /\ \A p \in Ops \ {o} : /\ Told(p)' = Told(p) /\ ToldTwice(p)' = ToldTwice(p)
                                  /\ published'[p] = published[p]
      <3>1. \A n \in {0, 1} : ~(n > 1) /\ ~(n > 2)
        OBVIOUS
      <3>2. Len(published[o]) \in {0, 1} /\ Len(published'[o]) \in {0, 1}
        BY <2>2, <2>4
      <3>3. ~Told(o) /\ ~Told(o)' /\ ~ToldTwice(o) /\ ~ToldTwice(o)'
        BY <3>1, <3>2 DEF Told, ToldTwice
      <3>4. QED
        BY <2>4, <3>3 DEF Told, ToldTwice
    <2>6. \A p \in Ops : Fate(p)' = Fate(p)
      BY <2>1, <2>3, <2>5 DEF Fate
    <2>7. task \in [Ops -> TaskStates]
      BY DEF IInv, TypeOK
    <2>8. {p \in Ops : task'[p] # "none"} = {p \in Ops : task[p] # "none"} \cup {o}
      BY <2>3, <2>7
    <2>9. Promise!Begin(o)
      BY <2>1, <2>2, <2>3, <2>5, <2>6, <2>8 DEF Promise!Begin
    <2>10. QED
      BY <2>9 DEF Promise!Next
  <1>6. ASSUME NEW o \in Ops, EmitStartedFails(o)
        PROVE  [Promise!Next]_Promise!vars
    <2>1. activeId = o /\ lease = o /\ phase \in {"starting", "cancelling"}
      BY <1>6, ActiveOwns DEF EmitStartedFails, Live, PhaseOf, IInv, Coupling
    <2>2. task[o] = "none" /\ Len(published[o]) = 0
      BY <1>6 DEF EmitStartedFails, IInv, Coupling, PublishedInv
    <2>3. /\ Publish(o, "started") \/ UNCHANGED published
          /\ activeId' = Nobody /\ phase' = "none" /\ lease' = Nobody
          /\ UNCHANGED <<closing, task, outcome, ackedIn>>
      BY <1>6, <2>1 DEF EmitStartedFails, ClearActive, Release
    <2>4. Len(published'[o]) \in {0, 1} /\ \A p \in Ops \ {o} : published'[p] =
       published[p]
      BY <2>2, <2>3, PublishEffect DEF IInv, TypeOK, Events
    <2>5. /\ ~Told(o) /\ ~Told(o)' /\ ~ToldTwice(o) /\ ~ToldTwice(o)'
          /\ \A p \in Ops \ {o} : /\ Told(p)' = Told(p) /\ ToldTwice(p)' = ToldTwice(p)
                                  /\ published'[p] = published[p]
      <3>1. \A n \in {0, 1} : ~(n > 1) /\ ~(n > 2)
        OBVIOUS
      <3>2. Len(published[o]) \in {0, 1} /\ Len(published'[o]) \in {0, 1}
        BY <2>2, <2>4
      <3>3. ~Told(o) /\ ~Told(o)' /\ ~ToldTwice(o) /\ ~ToldTwice(o)'
        BY <3>1, <3>2 DEF Told, ToldTwice
      <3>4. QED
        BY <2>4, <3>3 DEF Told, ToldTwice
    <2>6. phase = "cancelling" => ackedIn[o] # "never"
      BY <1>6 DEF EmitStartedFails, Closing
    <2>7. \A p \in Ops : Fate(p)' = Fate(p)
      BY <2>1, <2>3, <2>5, <2>6 DEF Fate
    <2>8. Promise!Leave(o)
      BY <2>1, <2>2, <2>3, <2>5, <2>7 DEF Promise!Leave
    <2>9. QED
      BY <2>8 DEF Promise!Next
  <1>7. ASSUME NEW o \in Ops, RequestReturns(o)
        PROVE  [Promise!Next]_Promise!vars
    <2>1. UNCHANGED <<lease, closing, outcome, ackedIn, published>>
      BY <1>7 DEF RequestReturns
    <2>2. \A p \in Ops : (activeId = p /\ phase = "cancelling")' <=> activeId = p /\
       phase = "cancelling"
      BY <1>7 DEF RequestReturns
    <2>3. \A p \in Ops : task'[p] # "none" <=> task[p] # "none"
      BY <1>7 DEF RequestReturns
    <2>4. QED
      BY <2>1, <2>2, <2>3, Stutters
  <1>8. ASSUME NEW o \in Ops, RequestCancelled(o)
        PROVE  [Promise!Next]_Promise!vars
    <2>1. activeId = o /\ lease = o
      BY <1>8, ActiveOwns DEF RequestCancelled, Live, IInv, Coupling
    <2>2. /\ UNCHANGED <<lease, closing, activeId, task, outcome, ackedIn, published>>
          /\ phase' = IF phase = "running" THEN "cancelling" ELSE phase
      BY <1>8 DEF RequestCancelled
    <2>3. CASE phase = "running"
      <3>1. Promise!Decide(o, "cancelled")
        BY <2>1, <2>2, <2>3, FateOf, DecideEffect
      <3>2. QED
        BY <3>1 DEF Promise!Next, Promise!Fates
    <2>4. CASE phase # "running"
      BY <2>2, <2>4, Stutters
    <2>5. QED
      BY <2>3, <2>4
  <1>9. ASSUME NEW o \in Ops, RequestJoined(o)
        PROVE  [Promise!Next]_Promise!vars
    <2>1. UNCHANGED <<lease, closing, outcome, ackedIn, published>>
      BY <1>9 DEF RequestJoined
    <2>2. \A p \in Ops : (activeId = p /\ phase = "cancelling")' <=> activeId = p /\
       phase = "cancelling"
      BY <1>9 DEF RequestJoined
    <2>3. \A p \in Ops : task'[p] # "none" <=> task[p] # "none"
      BY <1>9 DEF RequestJoined
    <2>4. QED
      BY <2>1, <2>2, <2>3, Stutters
  <1>10. ASSUME NEW o \in Ops, RequestCleanup(o)
        PROVE  [Promise!Next]_Promise!vars
    <2>1. task[o] \in {"dead", "left"} /\ request[o] = "cleanup"
      BY <1>10 DEF RequestCleanup, IInv, Coupling
    <2>2. activeId = o /\ lease = o /\ phase = "cancelling" /\ Fate(o) = "cancelled"
      BY <2>1, ActiveOwns, FateOf DEF Live, PhaseOf
    <2>3. /\ Publish(o, "cancelled") /\ activeId' = Nobody /\ phase' = "none"
          /\ lease' = Nobody
          /\ UNCHANGED <<closing, task, outcome, ackedIn>>
      BY <1>10, <2>2 DEF RequestCleanup, ClearActive, Release
    <2>4. outcome[o] = "none" /\ published \in [Ops -> Seq(Events)] /\ "cancelled" \in Events
      BY <2>2 DEF IInv, TypeOK, Events, PhaseInv
    <2>5. CASE task[o] = "dead"
      <3>1. Len(published[o]) = 1
        BY <2>1, <2>5 DEF IInv, PublishedInv
      <3>2. published'[o][2] = Fate(o) /\ TellsOne(o)
        BY <2>2, <2>3, <2>4, <3>1, PublishEffect DEF TellsOne
      <3>3. \A p \in Ops : Fate(p)' = Fate(p)
        BY <2>2, <2>3, <2>4, <3>2, TellEffect DEF Fate
      <3>4. Promise!TellAndLeave(o)
        BY <2>1, <2>2, <2>3, <3>2, <3>3, TellEffect DEF Promise!TellAndLeave
      <3>5. QED
        BY <3>4 DEF Promise!Next
    <2>6. CASE task[o] = "left"
      <3>1. Len(published[o]) = 2
        BY <2>1, <2>6 DEF IInv, PublishedInv
      <3>2. Told(o) /\ ~ToldTwice(o) /\ published[o][2] = "cancelled"
        BY <2>2, <3>1, FateOf DEF Told, ToldTwice
      <3>3. /\ Len(published'[o]) = 3 /\ published'[o][2] = published[o][2]
            /\ \A p \in Ops \ {o} : published'[p] = published[p]
        BY <2>3, <2>4, <3>1, PublishEffect
      <3>4. /\ Told(o)' /\ ToldTwice(o)'
            /\ \A p \in Ops \ {o} : Told(p)' = Told(p) /\ ToldTwice(p)' = ToldTwice(p)
        BY <3>3 DEF Told, ToldTwice
      <3>5. \A p \in Ops : Fate(p)' = Fate(p)
        BY <2>2, <2>3, <2>4, <3>2, <3>4 DEF Fate
      <3>6. Promise!TellAgainAndLeave(o)
        BY <2>2, <2>3, <3>2, <3>3, <3>4, <3>5 DEF Promise!TellAgainAndLeave
      <3>7. QED
        BY <3>6 DEF Promise!Next
    <2>7. QED
      BY <2>1, <2>5, <2>6
  <1>11. ASSUME NEW o \in Ops, InvokeStarts(o)
        PROVE  [Promise!Next]_Promise!vars
    <2>1. UNCHANGED <<lease, closing, outcome, ackedIn, published>>
      BY <1>11 DEF InvokeStarts
    <2>2. \A p \in Ops : (activeId = p /\ phase = "cancelling")' <=> activeId = p /\
       phase = "cancelling"
      BY <1>11 DEF InvokeStarts
    <2>3. \A p \in Ops : task'[p] # "none" <=> task[p] # "none"
      BY <1>11 DEF InvokeStarts
    <2>4. QED
      BY <2>1, <2>2, <2>3, Stutters
  <1>12. ASSUME NEW o \in Ops, InvokeDies(o)
        PROVE  [Promise!Next]_Promise!vars
    <2>1. UNCHANGED <<lease, closing, outcome, ackedIn, published>>
      BY <1>12 DEF InvokeDies
    <2>2. \A p \in Ops : (activeId = p /\ phase = "cancelling")' <=> activeId = p /\
       phase = "cancelling"
      BY <1>12 DEF InvokeDies
    <2>3. \A p \in Ops : task'[p] # "none" <=> task[p] # "none"
      BY <1>12 DEF InvokeDies
    <2>4. QED
      BY <2>1, <2>2, <2>3, Stutters
  <1>13. ASSUME NEW o \in Ops, CommitBegins(o)
        PROVE  [Promise!Next]_Promise!vars
    <2>1. UNCHANGED <<lease, closing, outcome, ackedIn, published>>
      BY <1>13 DEF CommitBegins
    <2>2. \A p \in Ops : (activeId = p /\ phase = "cancelling")' <=> activeId = p /\
       phase = "cancelling"
      BY <1>13 DEF CommitBegins
    <2>3. \A p \in Ops : task'[p] # "none" <=> task[p] # "none"
      BY <1>13 DEF CommitBegins
    <2>4. QED
      BY <2>1, <2>2, <2>3, Stutters
  <1>14. ASSUME NEW o \in Ops, CommitEnds(o)
        PROVE  [Promise!Next]_Promise!vars
    <2>1. activeId = o /\ lease = o /\ phase = "committing"
      BY <1>14, ActiveOwns DEF CommitEnds, Live, PhaseOf, IInv, Coupling
    <2>2. PICK f \in Terminals : outcome' = [outcome EXCEPT ![o] = f]
      BY <1>14 DEF CommitEnds
    <2>3. phase' = "committed" /\ \A p \in Ops : task'[p] # "none" <=> task[p] # "none"
      BY <1>14 DEF CommitEnds, IInv, TypeOK
    <2>4. UNCHANGED <<lease, closing, activeId, ackedIn, published>>
      BY <1>14 DEF CommitEnds
    <2>5. Promise!Decide(o, f)
      BY <2>1, <2>2, <2>3, <2>4, FateOf, CommitEffect
    <2>6. QED
      BY <2>5 DEF Promise!Next, Promise!Fates, Terminals
  <1>15. ASSUME NEW o \in Ops, FactoryExits(o)
        PROVE  [Promise!Next]_Promise!vars
    <2>1. activeId = o /\ lease = o
      BY <1>15, ActiveOwns DEF FactoryExits, Live, IInv, Coupling
    <2>2. UNCHANGED <<lease, closing, activeId, ackedIn, published>>
          /\ \A p \in Ops : task'[p] # "none" <=> task[p] # "none"
      BY <1>15 DEF FactoryExits, IInv, TypeOK
    <2>3. CASE phase # "running"
      BY <1>15, <2>2, <2>3, Stutters DEF FactoryExits
    <2>4. CASE phase = "running" /\ phase' = "cancelling"
      <3>1. outcome' = outcome
        BY <1>15, <2>4 DEF FactoryExits
      <3>2. Promise!Decide(o, "cancelled")
        BY <2>1, <2>2, <2>4, <3>1, FateOf, DecideEffect
      <3>3. QED
        BY <3>2 DEF Promise!Next, Promise!Fates
    <2>5. CASE phase = "running" /\ phase' # "cancelling"
      <3>1. PICK f \in Terminals : outcome' = [outcome EXCEPT ![o] = f]
        BY <1>15, <2>5 DEF FactoryExits
      <3>2. phase' = "committed"
        BY <1>15, <2>5 DEF FactoryExits
      <3>3. Promise!Decide(o, f)
        BY <2>1, <2>2, <2>5, <3>1, <3>2, FateOf, CommitEffect
      <3>4. QED
        BY <3>3 DEF Promise!Next, Promise!Fates, Terminals
    <2>6. QED
      BY <2>3, <2>4, <2>5
  <1>16. ASSUME NEW o \in Ops, PublishTerminal(o)
        PROVE  [Promise!Next]_Promise!vars
    <2>1. task[o] = "publishing" /\ Len(published[o]) = 1
      BY <1>16 DEF PublishTerminal, IInv, PublishedInv
    <2>2. activeId = o /\ lease = o
      BY <2>1, ActiveOwns DEF Live
    <2>3. phase \in {"cancelling", "committed"}
      BY <2>1, ActiveOwns DEF Live, PhaseOf, IInv, Coupling
    <2>4. Publish(o, IF phase = "cancelling" THEN "cancelled" ELSE committed)
          /\ UNCHANGED <<lease, closing, activeId, phase, outcome, ackedIn>>
          /\ \A p \in Ops : task'[p] # "none" <=> task[p] # "none"
      BY <1>16 DEF PublishTerminal, IInv, TypeOK
    <2>5. Fate(o) = (IF phase = "cancelling" THEN "cancelled" ELSE committed)
      BY <2>2, <2>3, FateOf
    <2>6. Fate(o) # "open" /\ Fate(o) \in Events
      BY <2>3, <2>5 DEF IInv, TypeOK, PhaseInv, Events, Terminals
    <2>7. published'[o][2] = Fate(o) /\ TellsOne(o)
      BY <2>1, <2>4, <2>5, <2>6, PublishEffect DEF IInv, TypeOK, TellsOne
    <2>8. \A p \in Ops \ {o} : Fate(p)' = Fate(p)
      BY <2>4, <2>7 DEF Fate, Told, TellsOne
    <2>9. Fate(o)' = Fate(o)
      BY <2>2, <2>3, <2>4, <2>7, <2>5, <2>6 DEF Fate, TellsOne, IInv, PhaseInv
    <2>10. Promise!Tell(o)
      BY <2>1, <2>2, <2>4, <2>6, <2>7, <2>8, <2>9, TellEffect DEF Promise!Tell
    <2>11. QED
      BY <2>10 DEF Promise!Next
  <1>17. ASSUME NEW o \in Ops, Finalize(o)
        PROVE  [Promise!Next]_Promise!vars
    <2>1. task[o] = "finalizing" /\ Len(published[o]) = 2
      BY <1>17 DEF Finalize, IInv, PublishedInv
    <2>2. activeId = o /\ lease = o
      BY <2>1, ActiveOwns DEF Live
    <2>3. /\ lease' = Nobody /\ activeId' = Nobody /\ phase' = "none"
          /\ UNCHANGED <<closing, outcome, ackedIn, published>>
          /\ \A p \in Ops : task'[p] # "none" <=> task[p] # "none"
      BY <1>17, <2>2 DEF Finalize, ClearActive, Release, IInv, TypeOK
    <2>4. Told(o) /\ \A p \in Ops : Told(p)' <=> Told(p)
      BY <2>1, <2>3 DEF Told
    <2>5. published[o][2] # "open"
      BY <2>4, FateOf
    <2>6. \A p \in Ops : Fate(p)' = Fate(p)
      BY <2>2, <2>3, <2>4 DEF Fate
    <2>7. Promise!Leave(o)
      BY <2>2, <2>3, <2>4, <2>5, <2>6 DEF Promise!Leave, ToldTwice
    <2>8. QED
      BY <2>7 DEF Promise!Next
  <1>18. ASSUME NEW o \in Ops, Cancel(o)
        PROVE  [Promise!Next]_Promise!vars
    <2>1. activeId = o /\ phase \in {"starting", "running"} /\ phase' = "cancelling"
          /\ UNCHANGED <<lease, closing, activeId, task, outcome, published>>
      BY <1>18 DEF Cancel
    <2>2. \A p \in Ops \ {o} : ackedIn'[p] = ackedIn[p]
      BY <1>18 DEF Cancel, IInv, TypeOK
    <2>3. Promise!Decide(o, "cancelled")
      BY <2>1, <2>2, FateOf, DecideEffect DEF IInv, Ownership
    <2>4. QED
      BY <2>3 DEF Promise!Next, Promise!Fates
  <1>19. ASSUME NEW x \in Exclusives, ExclusiveAcquires(x)
        PROVE  [Promise!Next]_Promise!vars
    <2>1. lease = Nobody /\ ~closing /\ lease' = x
          /\ UNCHANGED <<closing, activeId, phase, task, outcome, ackedIn, published>>
      BY <1>19 DEF ExclusiveAcquires, CanAcquire
    <2>2. Promise!Take(x)
      BY <2>1 DEF Promise!Take, Fate, Told, ToldTwice
    <2>3. QED
      BY <2>2 DEF Promise!Next
  <1>20. ASSUME NEW x \in Exclusives, ExclusiveReleases(x)
        PROVE  [Promise!Next]_Promise!vars
    <2>1. lease = x /\ x \notin Ops
      BY <1>20 DEF ExclusiveReleases, IInv, Ownership
    <2>2. lease' = Nobody
          /\ UNCHANGED <<closing, activeId, phase, task, outcome, ackedIn, published>>
      BY <1>20, <2>1 DEF ExclusiveReleases, Release
    <2>3. Promise!Leave(x)
      BY <2>1, <2>2 DEF Promise!Leave, Fate, Told, ToldTwice
    <2>4. QED
      BY <2>3 DEF Promise!Next
  <1>21. ASSUME DrainRequests
        PROVE  [Promise!Next]_Promise!vars
    <2>1. UNCHANGED <<lease, closing, outcome, ackedIn, published>>
      BY <1>21 DEF DrainRequests
    <2>2. \A p \in Ops : (activeId = p /\ phase = "cancelling")' <=> activeId = p /\
       phase = "cancelling"
      BY <1>21 DEF DrainRequests
    <2>3. \A p \in Ops : task'[p] # "none" <=> task[p] # "none"
      BY <1>21 DEF DrainRequests
    <2>4. QED
      BY <2>1, <2>2, <2>3, Stutters
  <1>22. ASSUME BeginClosing
        PROVE  [Promise!Next]_Promise!vars
    <2>1. Promise!Close
      BY <1>22 DEF BeginClosing, Promise!Close, Fate, Told, ToldTwice
    <2>2. QED
      BY <2>1 DEF Promise!Next
  <1>23. ASSUME StarterJoined
        PROVE  [Promise!Next]_Promise!vars
    <2>1. CASE activeId # Nobody /\ phase = "running"
      <3>1. activeId \in Ops
        BY <2>1 DEF IInv, TypeOK
      <3>2. lease = activeId
        BY <3>1 DEF IInv, Ownership
      <3>3. /\ UNCHANGED <<lease, closing, activeId, task, outcome, ackedIn, published>>
            /\ phase' = "cancelling"
        BY <1>23, <2>1 DEF StarterJoined
      <3>4. Promise!Decide(activeId, "cancelled")
        BY <2>1, <3>1, <3>2, <3>3, FateOf, DecideEffect
      <3>5. QED
        BY <3>1, <3>4 DEF Promise!Next, Promise!Fates
    <2>2. CASE ~(activeId # Nobody /\ phase = "running")
      BY <1>23, <2>2, Stutters DEF StarterJoined
    <2>3. QED
      BY <2>1, <2>2
  <1>24. ASSUME TaskJoined
        PROVE  [Promise!Next]_Promise!vars
    <2>1. UNCHANGED <<lease, closing, outcome, ackedIn, published>>
      BY <1>24 DEF TaskJoined
    <2>2. \A p \in Ops : (activeId = p /\ phase = "cancelling")' <=> activeId = p /\
       phase = "cancelling"
      BY <1>24 DEF TaskJoined
    <2>3. \A p \in Ops : task'[p] # "none" <=> task[p] # "none"
      BY <1>24 DEF TaskJoined
    <2>4. QED
      BY <2>1, <2>2, <2>3, Stutters
  <1>25. ASSUME IdleReached
        PROVE  [Promise!Next]_Promise!vars
    <2>1. UNCHANGED <<lease, closing, outcome, ackedIn, published>>
      BY <1>25 DEF IdleReached
    <2>2. \A p \in Ops : (activeId = p /\ phase = "cancelling")' <=> activeId = p /\
       phase = "cancelling"
      BY <1>25 DEF IdleReached
    <2>3. \A p \in Ops : task'[p] # "none" <=> task[p] # "none"
      BY <1>25 DEF IdleReached
    <2>4. QED
      BY <2>1, <2>2, <2>3, Stutters
  <1>26. ASSUME UNCHANGED vars
        PROVE  [Promise!Next]_Promise!vars
    <2>1. UNCHANGED <<lease, closing, outcome, ackedIn, published>>
      BY <1>26
    <2>2. \A p \in Ops : (activeId = p /\ phase = "cancelling")' <=> activeId = p /\
       phase = "cancelling"
      BY <1>26
    <2>3. \A p \in Ops : task'[p] # "none" <=> task[p] # "none"
      BY <1>26
    <2>4. QED
      BY <2>1, <2>2, <2>3, Stutters
  <1>27. ASSUME NEW o \in Ops, AnnounceCancelled(o)
        PROVE  [Promise!Next]_Promise!vars
    <2>1. task[o] = "announcing" /\ Len(published[o]) = 1
      BY <1>27 DEF AnnounceCancelled, IInv, PublishedInv
    <2>2. activeId = o /\ lease = o /\ phase = "cancelling" /\ Fate(o) = "cancelled"
      BY <2>1, ActiveOwns, FateOf DEF Live, PhaseOf, IInv, Coupling
    <2>3. Publish(o, "cancelled")
          /\ UNCHANGED <<lease, closing, activeId, phase, outcome, ackedIn>>
          /\ \A p \in Ops : task'[p] # "none" <=> task[p] # "none"
      BY <1>27 DEF AnnounceCancelled, IInv, TypeOK
    <2>4. published'[o][2] = Fate(o) /\ TellsOne(o)
      BY <2>1, <2>2, <2>3, PublishEffect DEF IInv, TypeOK, TellsOne, Events
    <2>5. \A p \in Ops \ {o} : Fate(p)' = Fate(p)
      BY <2>3, <2>4, TellEffect DEF Fate
    <2>6. Fate(o)' = Fate(o)
      BY <2>2, <2>3, <2>4, TellEffect DEF Fate, IInv, PhaseInv
    <2>7. Promise!Tell(o)
      BY <2>1, <2>2, <2>3, <2>4, <2>5, <2>6, TellEffect DEF Promise!Tell
    <2>8. QED
      BY <2>7 DEF Promise!Next
  <1>28. QED
    BY <1>1, <1>2, <1>3, <1>4, <1>5, <1>6, <1>7, <1>8, <1>9, <1>10, <1>11, <1>12, <1>13,
       <1>14, <1>15, <1>16, <1>17, <1>18, <1>19, <1>20, <1>21, <1>22, <1>23, <1>24,
       <1>25, <1>26, <1>27 DEF Next, RequestNext, TaskNext, ShutdownNext, Ended

\* The controller starts as the owner does.
LEMMA PromiseInit == Init => Promise!Init
  <1> SUFFICES ASSUME Init PROVE Promise!Init
    OBVIOUS
  <1>1. Len(<<>>) = 0
    BY Empty
  <1>2. ASSUME NEW o \in Ops PROVE ~Told(o) /\ ~ToldTwice(o)
    <2>1. Len(published[o]) = 0
      BY <1>1 DEF Init
    <2>2. QED
      BY <2>1 DEF Told, ToldTwice
  <1>3. QED
    BY <1>2, OpsAssumption DEF Init, Promise!Init, Fate

\* Every behaviour of the controller is one of the abstract owner.
THEOREM Implements == Spec => KeepsPromise
  <1>1. IInv /\ Closing /\ [Next]_vars => [Promise!Next]_Promise!vars
    BY PromiseStep
  <1>2. QED
    BY Invariant, InitClosing, ClosingStep, PromiseInit, <1>1, PTL
    DEF Spec, KeepsPromise, Promise!Spec

-----------------------------------------------------------------------------
(* The /model change.                                                       *)

Drafting == Locking \cup {"commit"}
Holding  == Drafting \cup {"store"}

\* The SQLite write transaction is what serialises the processes: whoever is in
\* it works on the record on disk.
Custody ==
    /\ \A p \in Procs : step[p] \in Holding <=> writer = p
    /\ \A p \in Procs : step[p] \in Holding => journal = mine[p] /\ journal # NoRecord

\* How far a holder has come.
Progress ==
    /\ \A p \in Procs : step[p] \in Locking => mine[p].phase = "prepared"
    /\ \A p \in Procs : step[p] = "mark" => default = mine[p].target
    /\ \A p \in Procs : step[p] = "commit" => mine[p].phase = "committed"
    /\ \A p \in Procs : step[p] = "store" => default = EndDefault(mine[p])
    /\ \A p \in Procs : step[p] \in {"clear", "resolve", "finalize", "undo"} => mine[p] # NoRecord

\* A change has a transaction id nobody else works on.
Fresh ==
    /\ \A p \in Procs : mine[p] # NoRecord => mine[p].id <= changes
    /\ journal # NoRecord => journal.id <= changes
    /\ \A p, q \in Procs : step[p] = "clear" /\ step[q] \in Drafting => mine[p].id # mine[q].id

ModelInv == /\ ModelTypeOK /\ Custody /\ Progress /\ Fresh
        /\ EvidenceExplains /\ RestartConverges

-----------------------------------------------------------------------------

\* The records a change writes are records.
LEMMA RecordTyping ==
    ASSUME ModelTypeOK
    PROVE  /\ \A t \in Threads, m \in Models : changes < MaxChanges =>
                 /\ NewRecord(t, m) \in Records
                 /\ NewRecord(t, m).id = changes + 1 /\ NewRecord(t, m).phase = "prepared"
                 /\ NewRecord(t, m).thread = t /\ NewRecord(t, m).target = m
                 /\ NewRecord(t, m).oldDefault = default
                 /\ NewRecord(t, m).oldThread = thread[t]
           /\ \A r \in Records :
                 /\ r.id \in Nat /\ r.phase \in {"prepared", "committed"}
                 /\ r.thread \in Threads /\ r.target \in Models
                 /\ r.oldDefault \in Models /\ r.oldThread \in Models
                 /\ EndDefault(r) \in Models /\ EndThread(r) \in Models
                 /\ Committed(r) \in Records /\ Committed(r).phase = "committed"
                 /\ Committed(r).id = r.id /\ Committed(r).thread = r.thread
                 /\ Committed(r).target = r.target
                 /\ Committed(r).oldDefault = r.oldDefault
                 /\ Committed(r).oldThread = r.oldThread
                 /\ SetThread(r) \in [Threads -> Models]
                 /\ SetThread(r)[r.thread] = EndThread(r)
           /\ NoRecord \notin Records
  <1> USE ModelAssumption DEF ModelTypeOK
  <1>1. ASSUME NEW t \in Threads, NEW m \in Models, changes < MaxChanges
        PROVE  /\ NewRecord(t, m) \in Records
               /\ NewRecord(t, m).id = changes + 1 /\ NewRecord(t, m).phase = "prepared"
               /\ NewRecord(t, m).thread = t /\ NewRecord(t, m).target = m
               /\ NewRecord(t, m).oldDefault = default
               /\ NewRecord(t, m).oldThread = thread[t]
    <2>1. changes + 1 \in 1..MaxChanges /\ thread[t] \in Models
      BY <1>1
    <2>2. QED
      BY <1>1, <2>1 DEF NewRecord, Records
  <1>2. ASSUME NEW r \in Records
        PROVE  /\ r.id \in Nat /\ r.phase \in {"prepared", "committed"}
               /\ r.thread \in Threads /\ r.target \in Models
               /\ r.oldDefault \in Models /\ r.oldThread \in Models
               /\ EndDefault(r) \in Models /\ EndThread(r) \in Models
    BY DEF Records, EndDefault, EndThread
  <1>3. ASSUME NEW r \in Records
        PROVE  /\ Committed(r) \in Records /\ Committed(r).phase = "committed"
               /\ Committed(r).id = r.id /\ Committed(r).thread = r.thread
               /\ Committed(r).target = r.target
               /\ Committed(r).oldDefault = r.oldDefault
               /\ Committed(r).oldThread = r.oldThread
    BY DEF Records, Committed
  <1>4. ASSUME NEW r \in Records
        PROVE  SetThread(r) \in [Threads -> Models] /\ SetThread(r)[r.thread] = EndThread(r)
    BY <1>2 DEF SetThread
  <1>5. QED
    BY <1>1, <1>2, <1>3, <1>4, RecordAssumption

LEMMA ModelInitInv == ModelInit => ModelInv
  <1> SUFFICES ASSUME ModelInit PROVE ModelInv
    OBVIOUS
  <1> USE ModelAssumption DEF ModelInit
  <1>1. ModelTypeOK
    BY DEF ModelTypeOK
  <1>2. Custody /\ Progress
    BY DEF Custody, Progress, Holding, Drafting, Locking
  <1>3. Fresh /\ EvidenceExplains /\ RestartConverges
    BY DEF Fresh, EvidenceExplains, RestartConverges
  <1>4. QED
    BY <1>1, <1>2, <1>3 DEF ModelInv

LEMMA TypeStep == ModelInv /\ [ModelNext]_modelVars => ModelTypeOK'
  <1> SUFFICES ASSUME ModelInv, [ModelNext]_modelVars PROVE ModelTypeOK'
    OBVIOUS
  <1>0. ModelTypeOK /\ Custody /\ Progress
    BY DEF ModelInv
  <1> DEFINE Typed(r) == r \in Records /\ EndDefault(r) \in Models /\ r.target \in Models
                         /\ r.oldDefault \in Models /\ Committed(r) \in Records
                         /\ SetThread(r) \in [Threads -> Models]
  <1>a. \A r \in Records : Typed(r)
    BY <1>0, RecordTyping
  <1>b. \A t \in Threads, m \in Models : changes < MaxChanges => NewRecord(t, m) \in Records
    BY <1>0, RecordTyping
  <1>c. \A p \in Procs : step[p] \in Holding \cup {"clear"} => mine[p] \in Records
    BY <1>0 DEF ModelTypeOK, Custody, Progress
  <1> HIDE DEF Typed
  <1>d. \A r \in Records : /\ EndDefault(r) \in Models /\ r.target \in Models
                           /\ r.oldDefault \in Models /\ Committed(r) \in Records
                           /\ SetThread(r) \in [Threads -> Models]
    BY <1>a DEF Typed
  <1> USE <1>0, <1>b, <1>c, <1>d, ModelAssumption DEF ModelTypeOK, Starting, Locking, Changing, Drafting, Holding, stores, local, counts, Go, Fence, Fault, CanChange
  <1>1. ASSUME NEW p \in Procs, NEW t \in Threads, NEW m \in Models, Prepare(p, t, m) PROVE ModelTypeOK'
    BY <1>1 DEF Prepare
  <1>2. ASSUME NEW p \in Procs, NEW t \in Threads, NEW m \in Models, PrepareFails(p, t, m) PROVE ModelTypeOK'
    BY <1>2 DEF PrepareFails
  <1>3. ASSUME NEW p \in Procs, Start(p) PROVE ModelTypeOK'
    BY <1>3 DEF Start
  <1>4. ASSUME NEW p \in Procs, CheckPending(p) PROVE ModelTypeOK'
    BY <1>4 DEF CheckPending
  <1>5. ASSUME NEW p \in Procs, Reconcile(p) PROVE ModelTypeOK'
    BY <1>5 DEF Reconcile
  <1>6. ASSUME NEW p \in Procs, ReconcileFails(p) PROVE ModelTypeOK'
    BY <1>6 DEF ReconcileFails
  <1>7. ASSUME NEW p \in Procs, Store(p) PROVE ModelTypeOK'
    BY <1>7 DEF Store
  <1>8. ASSUME NEW p \in Procs, StoreFails(p) PROVE ModelTypeOK'
    BY <1>8 DEF StoreFails
  <1>9. ASSUME NEW p \in Procs, Clear(p) PROVE ModelTypeOK'
    BY <1>9 DEF Clear
  <1>10. ASSUME NEW p \in Procs, ClearFails(p) PROVE ModelTypeOK'
    BY <1>10 DEF ClearFails, Removal
  <1>11. ASSUME NEW p \in Procs, WriteConfig(p) PROVE ModelTypeOK'
    BY <1>11 DEF WriteConfig
  <1>12. ASSUME NEW p \in Procs, ChangeFails(p) PROVE ModelTypeOK'
    BY <1>12 DEF ChangeFails
  <1>13. ASSUME NEW p \in Procs, Restore(p) PROVE ModelTypeOK'
    BY <1>13 DEF Restore
  <1>14. ASSUME NEW p \in Procs, RestoreFails(p) PROVE ModelTypeOK'
    BY <1>14 DEF RestoreFails
  <1>15. ASSUME NEW p \in Procs, Mark(p) PROVE ModelTypeOK'
    BY <1>15 DEF Mark
  <1>16. ASSUME NEW p \in Procs, MarkFails(p) PROVE ModelTypeOK'
    BY <1>16 DEF MarkFails
  <1>17. ASSUME NEW p \in Procs, Commit(p) PROVE ModelTypeOK'
    BY <1>17 DEF Commit
  <1>18. ASSUME NEW p \in Procs, CommitFails(p) PROVE ModelTypeOK'
    BY <1>18 DEF CommitFails
  <1>19. ASSUME NEW p \in Procs, Resolve(p) PROVE ModelTypeOK'
    BY <1>19 DEF Resolve
  <1>20. ASSUME NEW p \in Procs, FinalizeModel(p) PROVE ModelTypeOK'
    BY <1>20 DEF FinalizeModel, ClearMine
  <1>21. ASSUME NEW p \in Procs, Undo(p) PROVE ModelTypeOK'
    BY <1>21 DEF Undo, ClearMine
  <1>22. ASSUME NEW p \in Procs, ClosingFails(p) PROVE ModelTypeOK'
    BY <1>22 DEF ClosingFails, Removal
  <1>23. ASSUME NEW p \in Procs, PublishModel(p) PROVE ModelTypeOK'
    BY <1>23 DEF PublishModel
  <1>24. ASSUME NEW p \in Procs, PublishFails(p) PROVE ModelTypeOK'
    BY <1>24 DEF PublishFails
  <1>25. ASSUME NEW p \in Procs, Check(p) PROVE ModelTypeOK'
    BY <1>25 DEF Check
  <1>26. ASSUME NEW p \in Procs, Stop(p) PROVE ModelTypeOK'
    BY <1>26 DEF Stop, Exit
  <1>27. ASSUME NEW p \in Procs, Crash(p) PROVE ModelTypeOK'
    BY <1>27 DEF Crash, Exit
  <1>28. CASE UNCHANGED modelVars
    BY <1>28 DEF modelVars
  <1>29. QED
    BY <1>1, <1>2, <1>3, <1>4, <1>5, <1>6, <1>7, <1>8, <1>9, <1>10, <1>11, <1>12, <1>13, <1>14, <1>15, <1>16, <1>17, <1>18, <1>19, <1>20, <1>21, <1>22, <1>23, <1>24, <1>25, <1>26, <1>27, <1>28 DEF ModelNext, Startup, ModelCommand

LEMMA CustodyStep == ModelInv /\ [ModelNext]_modelVars => Custody'
  <1> SUFFICES ASSUME ModelInv, [ModelNext]_modelVars PROVE Custody'
    OBVIOUS
  <1>0. ModelTypeOK /\ Custody
    BY DEF ModelInv
  <1>a. /\ \A t \in Threads, m \in Models : changes < MaxChanges => NewRecord(t, m) # NoRecord
        /\ \A r \in Records : Committed(r) # NoRecord
        /\ \A p \in Procs : step[p] \in Holding => mine[p] \in Records
    BY <1>0, RecordTyping DEF ModelTypeOK, Custody
  <1> USE <1>0, <1>a, ModelAssumption DEF ModelTypeOK, Custody, Starting, Locking, Changing, Drafting, Holding, stores, local, counts, Go, Fence, Fault, CanChange
  <1>1. ASSUME NEW p \in Procs, NEW t \in Threads, NEW m \in Models, Prepare(p, t, m) PROVE Custody'
    BY <1>1 DEF Prepare
  <1>2. ASSUME NEW p \in Procs, NEW t \in Threads, NEW m \in Models, PrepareFails(p, t, m) PROVE Custody'
    BY <1>2 DEF PrepareFails
  <1>3. ASSUME NEW p \in Procs, Start(p) PROVE Custody'
    BY <1>3 DEF Start
  <1>4. ASSUME NEW p \in Procs, CheckPending(p) PROVE Custody'
    BY <1>4 DEF CheckPending
  <1>5. ASSUME NEW p \in Procs, Reconcile(p) PROVE Custody'
    BY <1>5 DEF Reconcile
  <1>6. ASSUME NEW p \in Procs, ReconcileFails(p) PROVE Custody'
    BY <1>6 DEF ReconcileFails
  <1>7. ASSUME NEW p \in Procs, Store(p) PROVE Custody'
    BY <1>7 DEF Store
  <1>8. ASSUME NEW p \in Procs, StoreFails(p) PROVE Custody'
    BY <1>8 DEF StoreFails
  <1>9. ASSUME NEW p \in Procs, Clear(p) PROVE Custody'
    BY <1>9 DEF Clear
  <1>10. ASSUME NEW p \in Procs, ClearFails(p) PROVE Custody'
    BY <1>10 DEF ClearFails, Removal
  <1>11. ASSUME NEW p \in Procs, WriteConfig(p) PROVE Custody'
    BY <1>11 DEF WriteConfig
  <1>12. ASSUME NEW p \in Procs, ChangeFails(p) PROVE Custody'
    BY <1>12 DEF ChangeFails
  <1>13. ASSUME NEW p \in Procs, Restore(p) PROVE Custody'
    BY <1>13 DEF Restore
  <1>14. ASSUME NEW p \in Procs, RestoreFails(p) PROVE Custody'
    BY <1>14 DEF RestoreFails
  <1>15. ASSUME NEW p \in Procs, Mark(p) PROVE Custody'
    BY <1>15 DEF Mark
  <1>16. ASSUME NEW p \in Procs, MarkFails(p) PROVE Custody'
    BY <1>16 DEF MarkFails
  <1>17. ASSUME NEW p \in Procs, Commit(p) PROVE Custody'
    BY <1>17 DEF Commit
  <1>18. ASSUME NEW p \in Procs, CommitFails(p) PROVE Custody'
    BY <1>18 DEF CommitFails
  <1>19. ASSUME NEW p \in Procs, Resolve(p) PROVE Custody'
    BY <1>19 DEF Resolve
  <1>20. ASSUME NEW p \in Procs, FinalizeModel(p) PROVE Custody'
    BY <1>20 DEF FinalizeModel, ClearMine
  <1>21. ASSUME NEW p \in Procs, Undo(p) PROVE Custody'
    BY <1>21 DEF Undo, ClearMine
  <1>22. ASSUME NEW p \in Procs, ClosingFails(p) PROVE Custody'
    BY <1>22 DEF ClosingFails, Removal
  <1>23. ASSUME NEW p \in Procs, PublishModel(p) PROVE Custody'
    BY <1>23 DEF PublishModel
  <1>24. ASSUME NEW p \in Procs, PublishFails(p) PROVE Custody'
    BY <1>24 DEF PublishFails
  <1>25. ASSUME NEW p \in Procs, Check(p) PROVE Custody'
    BY <1>25 DEF Check
  <1>26. ASSUME NEW p \in Procs, Stop(p) PROVE Custody'
    BY <1>26 DEF Stop, Exit
  <1>27. ASSUME NEW p \in Procs, Crash(p) PROVE Custody'
    BY <1>27 DEF Crash, Exit
  <1>28. CASE UNCHANGED modelVars
    BY <1>28 DEF modelVars
  <1>29. QED
    BY <1>1, <1>2, <1>3, <1>4, <1>5, <1>6, <1>7, <1>8, <1>9, <1>10, <1>11, <1>12, <1>13, <1>14, <1>15, <1>16, <1>17, <1>18, <1>19, <1>20, <1>21, <1>22, <1>23, <1>24, <1>25, <1>26, <1>27, <1>28 DEF ModelNext, Startup, ModelCommand

LEMMA ProgressStep == ModelInv /\ [ModelNext]_modelVars => Progress'
  <1> SUFFICES ASSUME ModelInv, [ModelNext]_modelVars PROVE Progress'
    OBVIOUS
  <1>0. ModelTypeOK /\ Custody /\ Progress
    BY DEF ModelInv
  <1>a. /\ \A t \in Threads, m \in Models : changes < MaxChanges =>
              NewRecord(t, m) # NoRecord /\ NewRecord(t, m).phase = "prepared"
        /\ \A r \in Records : Committed(r).phase = "committed" /\ Committed(r).target = r.target
        /\ \A p \in Procs : step[p] \in Holding => mine[p] \in Records
    BY <1>0, RecordTyping DEF ModelTypeOK, Custody
  <1> USE <1>0, <1>a, ModelAssumption DEF ModelTypeOK, Custody, Progress, Starting, Locking, Changing, Drafting, Holding, stores, local, counts, Go, Fence, Fault, CanChange
  <1>1. ASSUME NEW p \in Procs, NEW t \in Threads, NEW m \in Models, Prepare(p, t, m) PROVE Progress'
    BY <1>1 DEF Prepare
  <1>2. ASSUME NEW p \in Procs, NEW t \in Threads, NEW m \in Models, PrepareFails(p, t, m) PROVE Progress'
    BY <1>2 DEF PrepareFails
  <1>3. ASSUME NEW p \in Procs, Start(p) PROVE Progress'
    BY <1>3 DEF Start
  <1>4. ASSUME NEW p \in Procs, CheckPending(p) PROVE Progress'
    BY <1>4 DEF CheckPending
  <1>5. ASSUME NEW p \in Procs, Reconcile(p) PROVE Progress'
    BY <1>5 DEF Reconcile
  <1>6. ASSUME NEW p \in Procs, ReconcileFails(p) PROVE Progress'
    BY <1>6 DEF ReconcileFails
  <1>7. ASSUME NEW p \in Procs, Store(p) PROVE Progress'
    BY <1>7 DEF Store
  <1>8. ASSUME NEW p \in Procs, StoreFails(p) PROVE Progress'
    BY <1>8 DEF StoreFails
  <1>9. ASSUME NEW p \in Procs, Clear(p) PROVE Progress'
    BY <1>9 DEF Clear
  <1>10. ASSUME NEW p \in Procs, ClearFails(p) PROVE Progress'
    BY <1>10 DEF ClearFails, Removal
  <1>11. ASSUME NEW p \in Procs, WriteConfig(p) PROVE Progress'
    BY <1>11 DEF WriteConfig
  <1>12. ASSUME NEW p \in Procs, ChangeFails(p) PROVE Progress'
    BY <1>12 DEF ChangeFails
  <1>13. ASSUME NEW p \in Procs, Restore(p) PROVE Progress'
    BY <1>13 DEF Restore
  <1>14. ASSUME NEW p \in Procs, RestoreFails(p) PROVE Progress'
    BY <1>14 DEF RestoreFails
  <1>15. ASSUME NEW p \in Procs, Mark(p) PROVE Progress'
    BY <1>15 DEF Mark
  <1>16. ASSUME NEW p \in Procs, MarkFails(p) PROVE Progress'
    BY <1>16 DEF MarkFails
  <1>17. ASSUME NEW p \in Procs, Commit(p) PROVE Progress'
    BY <1>17 DEF Commit
  <1>18. ASSUME NEW p \in Procs, CommitFails(p) PROVE Progress'
    BY <1>18 DEF CommitFails
  <1>19. ASSUME NEW p \in Procs, Resolve(p) PROVE Progress'
    BY <1>19 DEF Resolve
  <1>20. ASSUME NEW p \in Procs, FinalizeModel(p) PROVE Progress'
    BY <1>20 DEF FinalizeModel, ClearMine
  <1>21. ASSUME NEW p \in Procs, Undo(p) PROVE Progress'
    BY <1>21 DEF Undo, ClearMine
  <1>22. ASSUME NEW p \in Procs, ClosingFails(p) PROVE Progress'
    BY <1>22 DEF ClosingFails, Removal
  <1>23. ASSUME NEW p \in Procs, PublishModel(p) PROVE Progress'
    BY <1>23 DEF PublishModel
  <1>24. ASSUME NEW p \in Procs, PublishFails(p) PROVE Progress'
    BY <1>24 DEF PublishFails
  <1>25. ASSUME NEW p \in Procs, Check(p) PROVE Progress'
    BY <1>25 DEF Check
  <1>26. ASSUME NEW p \in Procs, Stop(p) PROVE Progress'
    BY <1>26 DEF Stop, Exit
  <1>27. ASSUME NEW p \in Procs, Crash(p) PROVE Progress'
    BY <1>27 DEF Crash, Exit
  <1>28. CASE UNCHANGED modelVars
    BY <1>28 DEF modelVars
  <1>29. QED
    BY <1>1, <1>2, <1>3, <1>4, <1>5, <1>6, <1>7, <1>8, <1>9, <1>10, <1>11, <1>12, <1>13, <1>14, <1>15, <1>16, <1>17, <1>18, <1>19, <1>20, <1>21, <1>22, <1>23, <1>24, <1>25, <1>26, <1>27, <1>28 DEF ModelNext, Startup, ModelCommand

LEMMA FreshStep == ModelInv /\ [ModelNext]_modelVars => Fresh'
  <1> SUFFICES ASSUME ModelInv, [ModelNext]_modelVars PROVE Fresh'
    OBVIOUS
  <1>0. ModelTypeOK /\ Custody /\ Progress /\ Fresh
    BY DEF ModelInv
  <1>a. /\ \A t \in Threads, m \in Models : changes < MaxChanges =>
              NewRecord(t, m).id = changes + 1
        /\ \A r \in Records : Committed(r).id = r.id /\ r.id \in Nat
        /\ \A p \in Procs : step[p] \in Holding \cup {"clear"} => mine[p] \in Records
        /\ changes \in Nat
    BY <1>0, RecordTyping, ModelAssumption DEF ModelTypeOK, Custody, Progress
  <1> USE <1>0, <1>a, ModelAssumption DEF ModelTypeOK, Custody, Fresh, Starting, Locking, Changing, Drafting, Holding, stores, local, counts, Go, Fence, Fault, CanChange
  <1>1. ASSUME NEW p \in Procs, NEW t \in Threads, NEW m \in Models, Prepare(p, t, m) PROVE Fresh'
    <2>1. /\ journal'.id = changes + 1 /\ mine' = [mine EXCEPT ![p] = journal']
        /\ changes' = changes + 1 /\ step' = [step EXCEPT ![p] = "config"]
      BY <1>1 DEF Prepare
    <2>2. \A q \in Procs : mine[q] # NoRecord => mine[q].id \in Nat
      BY DEF ModelTypeOK
    <2>3. \A q \in Procs : mine'[q] # NoRecord => mine'[q].id <= changes'
      BY <2>1, <2>2
    <2>4. ASSUME NEW q \in Procs, NEW r \in Procs, step'[q] = "clear", step'[r] \in Drafting
        PROVE  mine'[q].id # mine'[r].id
      <3>1. step[q] = "clear" /\ q # p /\ mine'[q] = mine[q]
        BY <2>1, <2>4
      <3>2. CASE r = p
        <4>1. mine[q].id \in Nat /\ mine[q].id <= changes
          BY <3>1, RecordAssumption
        <4>2. mine'[r].id = changes + 1
          BY <2>1, <3>2
        <4>3. QED
          BY <3>1, <4>1, <4>2
      <3>3. CASE r # p
        BY <2>1, <2>4, <3>1, <3>3
      <3>4. QED
        BY <3>2, <3>3
    <2>5. QED
      BY <2>1, <2>3, <2>4
  <1>2. ASSUME NEW p \in Procs, NEW t \in Threads, NEW m \in Models, PrepareFails(p, t, m) PROVE Fresh'
    BY <1>2 DEF PrepareFails
  <1>3. ASSUME NEW p \in Procs, Start(p) PROVE Fresh'
    BY <1>3 DEF Start
  <1>4. ASSUME NEW p \in Procs, CheckPending(p) PROVE Fresh'
    BY <1>4 DEF CheckPending
  <1>5. ASSUME NEW p \in Procs, Reconcile(p) PROVE Fresh'
    BY <1>5 DEF Reconcile
  <1>6. ASSUME NEW p \in Procs, ReconcileFails(p) PROVE Fresh'
    BY <1>6 DEF ReconcileFails
  <1>7. ASSUME NEW p \in Procs, Store(p) PROVE Fresh'
    BY <1>7 DEF Store
  <1>8. ASSUME NEW p \in Procs, StoreFails(p) PROVE Fresh'
    BY <1>8 DEF StoreFails
  <1>9. ASSUME NEW p \in Procs, Clear(p) PROVE Fresh'
    BY <1>9 DEF Clear
  <1>10. ASSUME NEW p \in Procs, ClearFails(p) PROVE Fresh'
    BY <1>10 DEF ClearFails, Removal
  <1>11. ASSUME NEW p \in Procs, WriteConfig(p) PROVE Fresh'
    BY <1>11 DEF WriteConfig
  <1>12. ASSUME NEW p \in Procs, ChangeFails(p) PROVE Fresh'
    BY <1>12 DEF ChangeFails
  <1>13. ASSUME NEW p \in Procs, Restore(p) PROVE Fresh'
    BY <1>13 DEF Restore
  <1>14. ASSUME NEW p \in Procs, RestoreFails(p) PROVE Fresh'
    BY <1>14 DEF RestoreFails
  <1>15. ASSUME NEW p \in Procs, Mark(p) PROVE Fresh'
    BY <1>15 DEF Mark
  <1>16. ASSUME NEW p \in Procs, MarkFails(p) PROVE Fresh'
    BY <1>16 DEF MarkFails
  <1>17. ASSUME NEW p \in Procs, Commit(p) PROVE Fresh'
    BY <1>17 DEF Commit
  <1>18. ASSUME NEW p \in Procs, CommitFails(p) PROVE Fresh'
    BY <1>18 DEF CommitFails
  <1>19. ASSUME NEW p \in Procs, Resolve(p) PROVE Fresh'
    BY <1>19 DEF Resolve
  <1>20. ASSUME NEW p \in Procs, FinalizeModel(p) PROVE Fresh'
    BY <1>20 DEF FinalizeModel, ClearMine
  <1>21. ASSUME NEW p \in Procs, Undo(p) PROVE Fresh'
    BY <1>21 DEF Undo, ClearMine
  <1>22. ASSUME NEW p \in Procs, ClosingFails(p) PROVE Fresh'
    BY <1>22 DEF ClosingFails, Removal
  <1>23. ASSUME NEW p \in Procs, PublishModel(p) PROVE Fresh'
    BY <1>23 DEF PublishModel
  <1>24. ASSUME NEW p \in Procs, PublishFails(p) PROVE Fresh'
    BY <1>24 DEF PublishFails
  <1>25. ASSUME NEW p \in Procs, Check(p) PROVE Fresh'
    BY <1>25 DEF Check
  <1>26. ASSUME NEW p \in Procs, Stop(p) PROVE Fresh'
    BY <1>26 DEF Stop, Exit
  <1>27. ASSUME NEW p \in Procs, Crash(p) PROVE Fresh'
    BY <1>27 DEF Crash, Exit
  <1>28. CASE UNCHANGED modelVars
    BY <1>28 DEF modelVars
  <1>29. QED
    BY <1>1, <1>2, <1>3, <1>4, <1>5, <1>6, <1>7, <1>8, <1>9, <1>10, <1>11, <1>12, <1>13, <1>14, <1>15, <1>16, <1>17, <1>18, <1>19, <1>20, <1>21, <1>22, <1>23, <1>24, <1>25, <1>26, <1>27, <1>28 DEF ModelNext, Startup, ModelCommand

LEMMA EvidenceStep == ModelInv /\ [ModelNext]_modelVars => EvidenceExplains'
  <1> SUFFICES ASSUME ModelInv, [ModelNext]_modelVars PROVE EvidenceExplains'
    OBVIOUS
  <1>0. ModelTypeOK /\ Custody /\ Progress /\ EvidenceExplains
    BY DEF ModelInv
  <1>a. /\ \A t \in Threads, m \in Models : changes < MaxChanges =>
              /\ NewRecord(t, m).phase = "prepared" /\ NewRecord(t, m).thread = t
              /\ NewRecord(t, m).oldDefault = default /\ NewRecord(t, m).oldThread = thread[t]
        /\ \A r \in Records :
              /\ r.phase \in {"prepared", "committed"}
              /\ Committed(r).phase = "committed" /\ Committed(r).target = r.target
              /\ Committed(r).oldThread = r.oldThread /\ Committed(r).thread = r.thread
              /\ SetThread(r)[r.thread] = EndThread(r)
        /\ \A p \in Procs : step[p] \in Holding => mine[p] \in Records
    BY <1>0, RecordTyping DEF ModelTypeOK, Custody
  <1> USE <1>0, <1>a, ModelAssumption DEF ModelTypeOK, Custody, Progress, EvidenceExplains, EndDefault, EndThread, Starting, Locking, Changing, Drafting, Holding, stores, local, counts, Go, Fence, Fault, CanChange
  <1>1. ASSUME NEW p \in Procs, NEW t \in Threads, NEW m \in Models, Prepare(p, t, m) PROVE EvidenceExplains'
    BY <1>1 DEF Prepare
  <1>2. ASSUME NEW p \in Procs, NEW t \in Threads, NEW m \in Models, PrepareFails(p, t, m) PROVE EvidenceExplains'
    BY <1>2 DEF PrepareFails
  <1>3. ASSUME NEW p \in Procs, Start(p) PROVE EvidenceExplains'
    BY <1>3 DEF Start
  <1>4. ASSUME NEW p \in Procs, CheckPending(p) PROVE EvidenceExplains'
    BY <1>4 DEF CheckPending
  <1>5. ASSUME NEW p \in Procs, Reconcile(p) PROVE EvidenceExplains'
    <2>1. UNCHANGED <<thread, journal>>
      BY <1>5 DEF Reconcile
    <2>2. journal # NoRecord => default' = EndDefault(journal)
      BY <1>5 DEF Reconcile
    <2>3. QED
      BY <2>1, <2>2
  <1>6. ASSUME NEW p \in Procs, ReconcileFails(p) PROVE EvidenceExplains'
    <2>1. journal \in Records /\ UNCHANGED <<thread, journal>>
      BY <1>6 DEF ReconcileFails
    <2>2. default' \in {default, EndDefault(journal)}
      BY <1>6 DEF ReconcileFails
    <2>3. QED
      BY <2>1, <2>2
  <1>7. ASSUME NEW p \in Procs, Store(p) PROVE EvidenceExplains'
    BY <1>7 DEF Store
  <1>8. ASSUME NEW p \in Procs, StoreFails(p) PROVE EvidenceExplains'
    BY <1>8 DEF StoreFails
  <1>9. ASSUME NEW p \in Procs, Clear(p) PROVE EvidenceExplains'
    BY <1>9 DEF Clear
  <1>10. ASSUME NEW p \in Procs, ClearFails(p) PROVE EvidenceExplains'
    BY <1>10 DEF ClearFails, Removal
  <1>11. ASSUME NEW p \in Procs, WriteConfig(p) PROVE EvidenceExplains'
    BY <1>11 DEF WriteConfig
  <1>12. ASSUME NEW p \in Procs, ChangeFails(p) PROVE EvidenceExplains'
    BY <1>12 DEF ChangeFails
  <1>13. ASSUME NEW p \in Procs, Restore(p) PROVE EvidenceExplains'
    BY <1>13 DEF Restore
  <1>14. ASSUME NEW p \in Procs, RestoreFails(p) PROVE EvidenceExplains'
    BY <1>14 DEF RestoreFails
  <1>15. ASSUME NEW p \in Procs, Mark(p) PROVE EvidenceExplains'
    BY <1>15 DEF Mark
  <1>16. ASSUME NEW p \in Procs, MarkFails(p) PROVE EvidenceExplains'
    BY <1>16 DEF MarkFails
  <1>17. ASSUME NEW p \in Procs, Commit(p) PROVE EvidenceExplains'
    BY <1>17 DEF Commit
  <1>18. ASSUME NEW p \in Procs, CommitFails(p) PROVE EvidenceExplains'
    BY <1>18 DEF CommitFails
  <1>19. ASSUME NEW p \in Procs, Resolve(p) PROVE EvidenceExplains'
    BY <1>19 DEF Resolve
  <1>20. ASSUME NEW p \in Procs, FinalizeModel(p) PROVE EvidenceExplains'
    BY <1>20 DEF FinalizeModel, ClearMine
  <1>21. ASSUME NEW p \in Procs, Undo(p) PROVE EvidenceExplains'
    BY <1>21 DEF Undo, ClearMine
  <1>22. ASSUME NEW p \in Procs, ClosingFails(p) PROVE EvidenceExplains'
    BY <1>22 DEF ClosingFails, Removal
  <1>23. ASSUME NEW p \in Procs, PublishModel(p) PROVE EvidenceExplains'
    BY <1>23 DEF PublishModel
  <1>24. ASSUME NEW p \in Procs, PublishFails(p) PROVE EvidenceExplains'
    BY <1>24 DEF PublishFails
  <1>25. ASSUME NEW p \in Procs, Check(p) PROVE EvidenceExplains'
    BY <1>25 DEF Check
  <1>26. ASSUME NEW p \in Procs, Stop(p) PROVE EvidenceExplains'
    BY <1>26 DEF Stop, Exit
  <1>27. ASSUME NEW p \in Procs, Crash(p) PROVE EvidenceExplains'
    BY <1>27 DEF Crash, Exit
  <1>28. CASE UNCHANGED modelVars
    BY <1>28 DEF modelVars
  <1>29. QED
    BY <1>1, <1>2, <1>3, <1>4, <1>5, <1>6, <1>7, <1>8, <1>9, <1>10, <1>11, <1>12, <1>13, <1>14, <1>15, <1>16, <1>17, <1>18, <1>19, <1>20, <1>21, <1>22, <1>23, <1>24, <1>25, <1>26, <1>27, <1>28 DEF ModelNext, Startup, ModelCommand

LEMMA ConvergesStep == ModelInv /\ [ModelNext]_modelVars => RestartConverges'
  <1> SUFFICES ASSUME ModelInv, [ModelNext]_modelVars PROVE RestartConverges'
    OBVIOUS
  <1>0. ModelTypeOK /\ Custody /\ Progress /\ Fresh /\ RestartConverges
    BY DEF ModelInv
  <1>a. /\ \A t \in Threads, m \in Models : changes < MaxChanges =>
              NewRecord(t, m).id = changes + 1
        /\ \A r \in Records : /\ Committed(r).id = r.id /\ r.id \in Nat
                              /\ SetThread(r)[r.thread] = EndThread(r)
        /\ \A p \in Procs : step[p] \in Holding \cup {"clear"} => mine[p] \in Records
        /\ changes \in Nat
    BY <1>0, RecordTyping, ModelAssumption DEF ModelTypeOK, Custody, Progress
  <1> USE <1>0, <1>a, ModelAssumption DEF ModelTypeOK, Custody, Progress, Fresh, RestartConverges, AtEndpoint, EndDefault, EndThread, Starting, Locking, Changing, Drafting, Holding, stores, local, counts, Go, Fence, Fault, CanChange
  <1>1. ASSUME NEW p \in Procs, NEW t \in Threads, NEW m \in Models, Prepare(p, t, m) PROVE RestartConverges'
    <2>1. journal'.id = changes + 1
      BY <1>1 DEF Prepare
    <2>2. ASSUME NEW q \in Procs, step'[q] = "clear", journal' = mine'[q] PROVE FALSE
      <3>1. q # p /\ step[q] = "clear" /\ mine'[q] = mine[q]
        BY <1>1, <2>2 DEF Prepare
      <3>2. mine[q].id <= changes /\ mine[q].id \in Nat
        BY <3>1
      <3>3. QED
        BY <2>1, <2>2, <3>1, <3>2
    <2>3. QED
      BY <2>2
  <1>2. ASSUME NEW p \in Procs, NEW t \in Threads, NEW m \in Models, PrepareFails(p, t, m) PROVE RestartConverges'
    BY <1>2 DEF PrepareFails
  <1>3. ASSUME NEW p \in Procs, Start(p) PROVE RestartConverges'
    BY <1>3 DEF Start
  <1>4. ASSUME NEW p \in Procs, CheckPending(p) PROVE RestartConverges'
    BY <1>4 DEF CheckPending
  <1>5. ASSUME NEW p \in Procs, Reconcile(p) PROVE RestartConverges'
    BY <1>5 DEF Reconcile
  <1>6. ASSUME NEW p \in Procs, ReconcileFails(p) PROVE RestartConverges'
    BY <1>6 DEF ReconcileFails
  <1>7. ASSUME NEW p \in Procs, Store(p) PROVE RestartConverges'
    BY <1>7 DEF Store
  <1>8. ASSUME NEW p \in Procs, StoreFails(p) PROVE RestartConverges'
    BY <1>8 DEF StoreFails
  <1>9. ASSUME NEW p \in Procs, Clear(p) PROVE RestartConverges'
    BY <1>9 DEF Clear
  <1>10. ASSUME NEW p \in Procs, ClearFails(p) PROVE RestartConverges'
    BY <1>10 DEF ClearFails, Removal
  <1>11. ASSUME NEW p \in Procs, WriteConfig(p) PROVE RestartConverges'
    BY <1>11 DEF WriteConfig
  <1>12. ASSUME NEW p \in Procs, ChangeFails(p) PROVE RestartConverges'
    BY <1>12 DEF ChangeFails
  <1>13. ASSUME NEW p \in Procs, Restore(p) PROVE RestartConverges'
    BY <1>13 DEF Restore
  <1>14. ASSUME NEW p \in Procs, RestoreFails(p) PROVE RestartConverges'
    BY <1>14 DEF RestoreFails
  <1>15. ASSUME NEW p \in Procs, Mark(p) PROVE RestartConverges'
    <2>1. /\ step[p] \in Drafting /\ mine[p] \in Records
        /\ journal'.id = mine[p].id /\ UNCHANGED <<default, thread>>
      BY <1>15 DEF Mark
    <2>2. ASSUME NEW q \in Procs, step'[q] = "clear", journal' = mine'[q] PROVE FALSE
      <3>1. q # p /\ step[q] = "clear" /\ mine'[q] = mine[q]
        BY <1>15, <2>2 DEF Mark
      <3>2. mine[q].id # mine[p].id
        BY <2>1, <3>1
      <3>3. QED
        BY <2>1, <2>2, <3>1, <3>2
    <2>3. QED
      BY <2>2
  <1>16. ASSUME NEW p \in Procs, MarkFails(p) PROVE RestartConverges'
    BY <1>16 DEF MarkFails
  <1>17. ASSUME NEW p \in Procs, Commit(p) PROVE RestartConverges'
    BY <1>17 DEF Commit
  <1>18. ASSUME NEW p \in Procs, CommitFails(p) PROVE RestartConverges'
    BY <1>18 DEF CommitFails
  <1>19. ASSUME NEW p \in Procs, Resolve(p) PROVE RestartConverges'
    BY <1>19 DEF Resolve
  <1>20. ASSUME NEW p \in Procs, FinalizeModel(p) PROVE RestartConverges'
    BY <1>20 DEF FinalizeModel, ClearMine
  <1>21. ASSUME NEW p \in Procs, Undo(p) PROVE RestartConverges'
    BY <1>21 DEF Undo, ClearMine
  <1>22. ASSUME NEW p \in Procs, ClosingFails(p) PROVE RestartConverges'
    BY <1>22 DEF ClosingFails, Removal
  <1>23. ASSUME NEW p \in Procs, PublishModel(p) PROVE RestartConverges'
    BY <1>23 DEF PublishModel
  <1>24. ASSUME NEW p \in Procs, PublishFails(p) PROVE RestartConverges'
    BY <1>24 DEF PublishFails
  <1>25. ASSUME NEW p \in Procs, Check(p) PROVE RestartConverges'
    BY <1>25 DEF Check
  <1>26. ASSUME NEW p \in Procs, Stop(p) PROVE RestartConverges'
    BY <1>26 DEF Stop, Exit
  <1>27. ASSUME NEW p \in Procs, Crash(p) PROVE RestartConverges'
    BY <1>27 DEF Crash, Exit
  <1>28. CASE UNCHANGED modelVars
    BY <1>28 DEF modelVars
  <1>29. QED
    BY <1>1, <1>2, <1>3, <1>4, <1>5, <1>6, <1>7, <1>8, <1>9, <1>10, <1>11, <1>12, <1>13, <1>14, <1>15, <1>16, <1>17, <1>18, <1>19, <1>20, <1>21, <1>22, <1>23, <1>24, <1>25, <1>26, <1>27, <1>28 DEF ModelNext, Startup, ModelCommand

-----------------------------------------------------------------------------

THEOREM ModelInductive == ModelSpec => []ModelInv
  <1>1. ModelInv /\ [ModelNext]_modelVars => ModelInv'
    BY TypeStep, CustodyStep, ProgressStep, FreshStep, EvidenceStep, ConvergesStep DEF ModelInv
  <1>2. QED
    BY ModelInitInv, <1>1, PTL DEF ModelSpec

\* Every reachable state is well typed.
THEOREM ModelTypeCorrect == ModelSpec => []ModelTypeOK
  <1>1. ModelInv => ModelTypeOK
    BY DEF ModelInv
  <1>2. QED
    BY ModelInductive, <1>1, PTL

\* The record on disk explains config.yaml and application.db whatever crashed
\* or failed.
THEOREM EvidenceKept == ModelSpec => []EvidenceExplains
  <1>1. ModelInv => EvidenceExplains
    BY DEF ModelInv
  <1>2. QED
    BY ModelInductive, <1>1, PTL

\* A startup has brought both stores to the endpoint of the record it removes.
THEOREM StartupConverges == ModelSpec => []RestartConverges
  <1>1. ModelInv => RestartConverges
    BY DEF ModelInv
  <1>2. QED
    BY ModelInductive, <1>1, PTL

\* The transaction implements a register whose two values change together.
THEOREM ModelAtomic == ModelSpec => KeepsRegister
  <1> DEFINE D == IF journal = NoRecord THEN default ELSE EndDefault(journal)
             T == IF journal = NoRecord THEN thread ELSE SetThread(journal)
             Same == D' = D /\ T' = T
  <1>1. ModelInit => Register!Init
    BY DEF ModelInit, Register!Init
  <1>2. ASSUME ModelInv, [ModelNext]_modelVars
        PROVE  Same \/ \E t \in Threads, m \in Models : D' = m /\ T' = [T EXCEPT ![t] = m]
    <2>0. ModelTypeOK /\ Custody /\ Progress
      BY <1>2 DEF ModelInv
    <2>a. /\ \A t \in Threads, m \in Models : changes < MaxChanges =>
                /\ NewRecord(t, m) # NoRecord
                /\ NewRecord(t, m).phase = "prepared" /\ NewRecord(t, m).thread = t
                /\ NewRecord(t, m).oldDefault = default /\ NewRecord(t, m).oldThread = thread[t]
          /\ \A r \in Records :
                /\ r.thread \in Threads /\ r.target \in Models
                /\ Committed(r) # NoRecord
                /\ Committed(r).phase = "committed" /\ Committed(r).target = r.target
                /\ Committed(r).thread = r.thread
                /\ EndThread(r) \in Models
          /\ \A p \in Procs : step[p] \in Holding \cup {"clear", "finalize", "undo"}
                => mine[p] \in Records
      BY <2>0, RecordTyping DEF ModelTypeOK, Custody, Progress
    <2>b. ASSUME NEW p \in Procs, step[p] = "mark",
                 journal' = Committed(mine[p]), UNCHANGED <<default, thread>>
          PROVE  D' = mine[p].target /\ T' = [T EXCEPT ![mine[p].thread] = mine[p].target]
      <3>1. /\ journal = mine[p] /\ journal # NoRecord /\ mine[p] \in Records
            /\ mine[p].phase = "prepared" /\ journal' # NoRecord
            /\ journal'.phase = "committed" /\ journal'.target = mine[p].target
            /\ journal'.thread = mine[p].thread /\ mine[p].thread \in Threads
        BY <2>b, <2>0, <2>a DEF Custody, Progress, Holding, Drafting, Locking
      <3>2. D' = mine[p].target
        BY <3>1 DEF EndDefault
      <3>3. /\ T = [thread EXCEPT ![mine[p].thread] = mine[p].oldThread]
            /\ T' = [thread EXCEPT ![mine[p].thread] = mine[p].target]
        BY <3>1, <2>b DEF SetThread, EndThread
      <3>4. thread \in [Threads -> Models]
        BY <2>0 DEF ModelTypeOK
      <3>5. QED
        BY <3>1, <3>2, <3>3, <3>4
    <2>c. ASSUME NEW p \in Procs, Undisturbed(p), AtEndpoint(mine[p]), mine[p] \in Records,
                 journal' = NoRecord, UNCHANGED <<default, thread>>
          PROVE  Same
      <3>1. CASE journal = NoRecord
        BY <3>1, <2>c
      <3>2. CASE journal = mine[p] /\ journal # NoRecord
        <4>1. default = EndDefault(journal) /\ thread[journal.thread] = EndThread(journal)
          BY <3>2, <2>c DEF AtEndpoint
        <4>2. SetThread(journal) = thread
          BY <4>1, <2>0 DEF SetThread, ModelTypeOK
        <4>3. QED
          BY <3>2, <4>1, <4>2, <2>c
      <3>3. QED
        BY <3>1, <3>2, <2>c DEF Undisturbed
    <2>d. ASSUME NEW t \in Threads, NEW m \in Models, changes < MaxChanges, journal = NoRecord,
                 journal' = NewRecord(t, m), UNCHANGED <<default, thread>>
          PROVE  Same
      <3>1. /\ journal' # NoRecord /\ journal'.phase = "prepared" /\ journal'.thread = t
            /\ journal'.oldDefault = default /\ journal'.oldThread = thread[t]
        BY <2>d, <2>a
      <3>2. D' = default /\ T' = [thread EXCEPT ![t] = thread[t]]
        BY <3>1, <2>d DEF EndDefault, EndThread, SetThread
      <3>3. QED
        BY <3>2, <2>d, <2>0 DEF ModelTypeOK
    <2>e. ASSUME NEW p \in Procs, step[p] \in Holding, UNCHANGED journal,
                 thread' \in {thread, SetThread(mine[p])}
          PROVE  Same
      <3>1. journal = mine[p] /\ journal # NoRecord /\ mine[p] \in Records
        BY <2>e, <2>0, <2>a DEF Custody
      <3>2. D' = D
        BY <3>1, <2>e DEF EndDefault
      <3>3. SetThread(journal) = [thread EXCEPT ![journal.thread] = EndThread(journal)]
        BY DEF SetThread
      <3>4. T' = [thread' EXCEPT ![journal.thread] = EndThread(journal)]
        BY <3>1, <2>e DEF SetThread, EndThread
      <3>5. T' = T
        BY <3>1, <3>3, <3>4, <2>e, <2>0 DEF ModelTypeOK
      <3>6. QED
        BY <3>2, <3>5
    <2>f. ASSUME journal # NoRecord, UNCHANGED <<thread, journal>> PROVE Same
      BY <2>f DEF EndDefault, SetThread, EndThread
    <2>g. ASSUME UNCHANGED stores PROVE Same
      BY <2>g DEF stores, EndDefault, SetThread, EndThread
    <2> DEFINE Goal == Same \/ \E t \in Threads, m \in Models : D' = m /\ T' = [T EXCEPT ![t] = m]
    <2> HIDE DEF Same
    <2>h. Same => Goal
      OBVIOUS
    <2>i. ASSUME NEW p \in Procs, step[p] = "mark",
                 journal' = Committed(mine[p]), UNCHANGED <<default, thread>>
          PROVE  Goal
      <3>1. mine[p].thread \in Threads /\ mine[p].target \in Models
        BY <2>i, <2>a DEF Holding, Drafting, Locking
      <3>2. QED
        BY <2>b, <2>i, <3>1
    <2> HIDE DEF D, T, Goal
    <2> USE DEF stores, local, counts
    <2>1. ASSUME NEW p \in Procs, NEW t \in Threads, NEW m \in Models, Prepare(p, t, m) PROVE Goal
      BY <2>1, <2>d, <2>h DEF Prepare, CanChange
    <2>2. ASSUME NEW p \in Procs, NEW t \in Threads, NEW m \in Models, PrepareFails(p, t, m) PROVE Goal
      BY <2>2, <2>d, <2>g, <2>h DEF PrepareFails, CanChange
    <2>3. ASSUME NEW p \in Procs, Start(p) PROVE Goal
      BY <2>3, <2>g, <2>h DEF Start
    <2>4. ASSUME NEW p \in Procs, CheckPending(p) PROVE Goal
      BY <2>4, <2>g, <2>h DEF CheckPending
    <2>5. ASSUME NEW p \in Procs, Reconcile(p) PROVE Goal
      BY <2>5, <2>f, <2>g, <2>h DEF Reconcile
    <2>6. ASSUME NEW p \in Procs, ReconcileFails(p) PROVE Goal
      BY <2>6, <2>f, <2>h DEF ReconcileFails
    <2>7. ASSUME NEW p \in Procs, Store(p) PROVE Goal
      BY <2>7, <2>e, <2>h DEF Store, Holding, Drafting, Locking
    <2>8. ASSUME NEW p \in Procs, StoreFails(p) PROVE Goal
      BY <2>8, <2>e, <2>h DEF StoreFails, Holding, Drafting, Locking
    <2>9. ASSUME NEW p \in Procs, Clear(p) PROVE Goal
      BY <2>9, <2>a, <2>c, <2>g, <2>h DEF Clear
    <2>10. ASSUME NEW p \in Procs, ClearFails(p) PROVE Goal
      BY <2>10, <2>a, <2>c, <2>g, <2>h DEF ClearFails, Removal
    <2>11. ASSUME NEW p \in Procs, WriteConfig(p) PROVE Goal
      BY <2>11, <2>e, <2>h DEF WriteConfig, Holding, Drafting, Locking
    <2>12. ASSUME NEW p \in Procs, ChangeFails(p) PROVE Goal
      BY <2>12, <2>e, <2>h DEF ChangeFails, Holding, Drafting, Locking
    <2>13. ASSUME NEW p \in Procs, Restore(p) PROVE Goal
      BY <2>13, <2>e, <2>h DEF Restore, Holding, Drafting, Locking
    <2>14. ASSUME NEW p \in Procs, RestoreFails(p) PROVE Goal
      BY <2>14, <2>e, <2>h DEF RestoreFails, Holding, Drafting, Locking
    <2>15. ASSUME NEW p \in Procs, Mark(p) PROVE Goal
      BY <2>15, <2>i DEF Mark
    <2>16. ASSUME NEW p \in Procs, MarkFails(p) PROVE Goal
      BY <2>16, <2>i, <2>g, <2>h DEF MarkFails
    <2>17. ASSUME NEW p \in Procs, Commit(p) PROVE Goal
      BY <2>17, <2>e, <2>h DEF Commit, Holding, Drafting, Locking
    <2>18. ASSUME NEW p \in Procs, CommitFails(p) PROVE Goal
      BY <2>18, <2>e, <2>h DEF CommitFails, Holding, Drafting, Locking
    <2>19. ASSUME NEW p \in Procs, Resolve(p) PROVE Goal
      BY <2>19, <2>g, <2>h DEF Resolve
    <2>20. ASSUME NEW p \in Procs, FinalizeModel(p) PROVE Goal
      BY <2>20, <2>a, <2>c, <2>g, <2>h DEF FinalizeModel, ClearMine
    <2>21. ASSUME NEW p \in Procs, Undo(p) PROVE Goal
      BY <2>21, <2>a, <2>c, <2>g, <2>h DEF Undo, ClearMine
    <2>22. ASSUME NEW p \in Procs, ClosingFails(p) PROVE Goal
      BY <2>22, <2>a, <2>c, <2>g, <2>h DEF ClosingFails, Removal
    <2>23. ASSUME NEW p \in Procs, PublishModel(p) PROVE Goal
      BY <2>23, <2>g, <2>h DEF PublishModel
    <2>24. ASSUME NEW p \in Procs, PublishFails(p) PROVE Goal
      BY <2>24, <2>g, <2>h DEF PublishFails
    <2>25. ASSUME NEW p \in Procs, Check(p) PROVE Goal
      BY <2>25, <2>g, <2>h DEF Check
    <2>26. ASSUME NEW p \in Procs, Stop(p) PROVE Goal
      BY <2>26, <2>g, <2>h DEF Stop, Exit
    <2>27. ASSUME NEW p \in Procs, Crash(p) PROVE Goal
      BY <2>27, <2>g, <2>h DEF Crash, Exit
    <2>28. CASE UNCHANGED modelVars
      BY <2>28, <2>g, <2>h DEF modelVars
    <2>29. QED
      BY <1>2, <2>1, <2>2, <2>3, <2>4, <2>5, <2>6, <2>7, <2>8, <2>9, <2>10, <2>11, <2>12, <2>13, <2>14, <2>15, <2>16, <2>17, <2>18, <2>19, <2>20, <2>21, <2>22, <2>23, <2>24, <2>25, <2>26, <2>27, <2>28 DEF Goal, ModelNext, Startup, ModelCommand
  <1>3. ModelInv /\ [ModelNext]_modelVars => [Register!Next]_(Register!vars)
    <2>1. Same => UNCHANGED Register!vars
      BY DEF Register!vars
    <2>2. (\E t \in Threads, m \in Models : D' = m /\ T' = [T EXCEPT ![t] = m]) => Register!Next
      BY DEF Register!Next, Register!Change
    <2> HIDE DEF Same, D, T
    <2>3. QED
      BY <1>2, <2>1, <2>2
  <1>4. QED
    BY ModelInductive, <1>1, <1>3, PTL DEF ModelSpec, KeepsRegister, Register!Spec

\* A /model change is whole, for any processes, Threads, models and failures.
THEOREM ModelWhole == ModelSpec => ChangeIsWhole
  BY EvidenceKept, StartupConverges, ModelAtomic, PTL DEF ChangeIsWhole
=============================================================================
