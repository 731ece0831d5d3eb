--------------------------- MODULE SkillPackages ---------------------------
(***************************************************************************)
(* The local package manager of skills:                                     *)
(* extensions/skills/package_manager.py behind                              *)
(* application/skill_management.py, for one package name.                   *)
(*                                                                          *)
(* An operation holds the package lock, first recovers what an earlier one  *)
(* left, and then works through a staged directory, a quarantine and a      *)
(* marker file.  A rename is atomic; writing a stage and removing a         *)
(* directory are not, and an entry that is half removed keeps its identity. *)
(* The process may die between any two steps, every step may raise before   *)
(* or after it took effect, and the user may create, replace or delete the  *)
(* package directory at any time (the private names are documented as not   *)
(* to be touched).  The lock is a kernel lock that dies with its process,   *)
(* so several processes behave as one that restarts.                        *)
(***************************************************************************)
EXTENDS Naturals, FiniteSets

CONSTANTS None,        \* no entry, no marker, no answer
          MaxEntries,  \* how many packages a recovery puts up with
          MaxOps,      \* bound: installs, replacements and removals
          MaxEdits,    \* bound: changes of the package by the user
          MaxCrashes, MaxFaults

ASSUME SkillAssumption ==
    {MaxEntries, MaxOps, MaxEdits, MaxCrashes, MaxFaults} \subseteq Nat

VARIABLES
    target,     \* the installed package
    stage,      \* the entry under the stage name of each operation
    quarantine, \* the entry under the quarantine name of each operation
    marker,     \* the transaction marker
    temporary,  \* the marker's temporary file is there
    request,    \* what the running operation was asked
    op,         \* its number, which is the identity of what it stages
    original,   \* the identity it found under the package name
    pc,         \* the step it takes next
    error,      \* what is being raised
    touched,    \* the user changed the package since the operation began
    told,       \* the answer of each operation
    others,     \* the entries of other names in the skills directory
    edits, crashes, faults

entries == <<target, stage, quarantine>>
journal == <<marker, temporary>>
working == <<request, op, original, pc, error>>
budgets == <<edits, crashes, faults>>
ownVars == <<entries, journal, working, touched, told, budgets>>
packageVars == <<ownVars, others>>

-----------------------------------------------------------------------------

Ops == 1..MaxOps
Identities == 1..(MaxOps + MaxEdits)
Entries == [id : Identities, whole : BOOLEAN] \cup {None}
Markers == [action : {"install", "replace", "remove"},
            phase : {"prepared", "quarantined", "published"},
            op : Ops, original : Identities \cup {None}]
Steps == {"idle", "open", "read_directory", "read_archive", "lock", "temporary", "orphans", "recover", "drop_candidate",
          "drop_original", "settle", "begin", "stage", "look", "prepare",
          "move_out", "mark_quarantined", "publish", "mark_published",
          "clean_up", "finish", "discard_stage", "undo", "undo_stage", "undo_marker"}
Answers == {"installed", "replaced", "removed", "package_exists",
            "package_not_found", "refused", "transaction_failed"}

ASSUME NoneAssumption ==
    /\ None \notin Identities
    /\ None \notin [id : Identities, whole : BOOLEAN] /\ None \notin Markers
    /\ None \notin Answers \cup {"install", "replace", "remove", "recover"}

TypeOK ==
    /\ target \in Entries
    /\ stage \in [Ops -> Entries] /\ quarantine \in [Ops -> Entries]
    /\ marker \in Markers \cup {None} /\ temporary \in BOOLEAN
    /\ request \in {"install", "replace", "remove", "recover", None}
    /\ op \in 0..MaxOps /\ original \in Identities \cup {None}
    /\ pc \in Steps /\ error \in Answers \cup {None}
    /\ touched \in BOOLEAN
    /\ told \in [Ops -> Answers \cup {None}]
    /\ others \in 0..(MaxEntries + 1)
    /\ edits \in 0..MaxEdits /\ crashes \in 0..MaxCrashes /\ faults \in 0..MaxFaults

PackageInit ==
    /\ target = None
    /\ stage = [o \in Ops |-> None] /\ quarantine = [o \in Ops |-> None]
    /\ marker = None /\ temporary = FALSE
    /\ request = None /\ op = 0 /\ original = None
    /\ pc = "idle" /\ error = None
    /\ touched = FALSE /\ told = [o \in Ops |-> None]
    /\ others = 0 /\ edits = 0 /\ crashes = 0 /\ faults = 0

-----------------------------------------------------------------------------

Fault == faults < MaxFaults /\ faults' = faults + 1 /\ UNCHANGED <<edits, crashes>>

GoTo(s) == pc' = s /\ UNCHANGED <<request, op, original, error>>

\* The role of an entry against the identity the marker expects.
Is(entry, id) == entry # None /\ entry.id = id

Absent(entry) == entry = None

\* The operation is over: its caller gets the answer.
Return(answer) ==
    /\ pc' = "idle" /\ request' = None /\ error' = None /\ original' = None
    /\ UNCHANGED op
    /\ told' = IF request \in {"recover", None} THEN told ELSE [told EXCEPT ![op] = answer]

\* Something raised while the lock is held and no transaction is open.
Fail == Return("transaction_failed")

\* One step of removing a directory: its contents go, then its name.
Emptied(entry) == IF entry.whole THEN [entry EXCEPT !.whole = FALSE] ELSE None

-----------------------------------------------------------------------------
(* Recovery, which every operation runs first.                              *)

StartRequest(r) ==
    /\ pc = "idle"
    /\ r = "recover" \/ op < MaxOps
    /\ request' = r /\ op' = IF r = "recover" THEN op ELSE op + 1
    /\ pc' = IF r \in {"install", "replace"} THEN "open" ELSE "lock"
    /\ error' = None /\ original' = None /\ touched' = FALSE
    /\ UNCHANGED <<entries, journal, told, budgets>>

\* The source is read into memory and validated before anything is locked;
\* "refused" stands for invalid_source, invalid_package, package_too_large
\* and package_busy, which are answered before anything is done.
OpenSource ==
    /\ pc = "open"
    /\ \/ \E s \in {"read_directory", "read_archive"} : GoTo(s) /\ UNCHANGED told
       \/ Return("refused")
    /\ UNCHANGED <<entries, journal, touched, budgets>>

Validated ==
    \/ GoTo("lock") /\ UNCHANGED told
    \/ Return("refused")

\* A tree that holds a link, has too many entries or changes meanwhile is
\* refused.
ReadDirectory ==
    /\ pc = "read_directory" /\ Validated
    /\ UNCHANGED <<entries, journal, touched, budgets>>

\* An archive is bounded by its central directory first, then read entry by
\* entry under the same rules.
ReadArchive ==
    /\ pc = "read_archive" /\ Validated
    /\ UNCHANGED <<entries, journal, touched, budgets>>

\* The home and skills directories are opened and pinned and the lock file
\* is taken; another process may hold it.
Lock ==
    /\ pc = "lock"
    /\ \/ GoTo("temporary") /\ UNCHANGED <<told, budgets>>
       \/ Fault /\ \E a \in {"refused", "transaction_failed"} : Return(a)
    /\ UNCHANGED <<entries, journal, touched>>

RecoverMarkerTemporary ==
    /\ pc = "temporary"
    /\ \/ temporary' = FALSE /\ GoTo("orphans") /\ UNCHANGED <<told, budgets>>
       \/ temporary /\ Fault /\ Fail /\ UNCHANGED temporary
    /\ UNCHANGED <<entries, marker, touched>>

Referenced(o) == marker # None /\ marker.op = o
\* Faulty: the stage of a crashed install counts as a package.
OrphanStages_None == {}

OrphanStages == {o \in Ops : stage[o] # None /\ ~Referenced(o)}
OrphanQuarantines == {o \in Ops : quarantine[o] # None /\ ~Referenced(o)}

\* More packages than the recovery counts to.  An install adds one without
\* counting, so the program can bring this about itself.
TooMany == others + (IF Absent(target) THEN 0 ELSE 1) > MaxEntries

\* One unreferenced stage is what a crash before the marker leaves.  With too
\* many packages nothing is looked at any further: package_too_large, or
\* transaction_failed when even the listing of the names is over its bound.
RecoverOrphanStages ==
    /\ pc = "orphans"
    /\ \/ /\ TooMany /\ \E a \in {"refused", "transaction_failed"} : Return(a)
          /\ UNCHANGED <<stage, budgets>>
       \/ /\ OrphanQuarantines # {} \/ Cardinality(OrphanStages) > 1
          /\ Fail /\ UNCHANGED <<stage, budgets>>
       \/ /\ ~TooMany /\ OrphanStages = {} /\ OrphanQuarantines = {}
          /\ GoTo("recover") /\ UNCHANGED <<stage, told, budgets>>
       \/ /\ ~TooMany /\ OrphanQuarantines = {}
          /\ \E o \in Ops :
                /\ OrphanStages = {o}
                /\ \/ /\ stage' = [stage EXCEPT ![o] = Emptied(@)]
                      /\ GoTo("orphans") /\ UNCHANGED <<told, budgets>>
                   \/ Fault /\ Fail /\ UNCHANGED stage
    /\ UNCHANGED <<target, quarantine, journal, touched>>

\* The recovery of an install publishes the stage or drops it.
RecoverInstall ==
    /\ pc = "recover" /\ marker # None /\ marker.action = "install"
    /\ LET o == marker.op
           candidate == ~Absent(stage[o])
       IN  \/ /\ marker.phase = "published"
              /\ IF ~candidate /\ Is(target, o)
                 THEN GoTo("settle") /\ UNCHANGED told ELSE Fail
              /\ UNCHANGED <<entries, budgets>>
           \/ /\ marker.phase # "published" /\ ~candidate
              /\ GoTo("settle") /\ UNCHANGED <<entries, told, budgets>>
           \/ /\ marker.phase # "published" /\ candidate /\ Absent(target)
              /\ target' = stage[o] /\ stage' = [stage EXCEPT ![o] = None]
              /\ \/ GoTo("settle") /\ UNCHANGED <<told, budgets>>
                 \/ Fault /\ Fail
              /\ UNCHANGED quarantine
           \/ /\ marker.phase # "published" /\ candidate /\ ~Absent(target)
              /\ IF Is(target, o) THEN Fail
                 ELSE GoTo("drop_candidate") /\ UNCHANGED told
              /\ UNCHANGED <<entries, budgets>>
    /\ UNCHANGED <<journal, touched>>

\* The recovery of a replacement rolls back before publication and finishes
\* after it; anything it does not recognise is left for the user.
RecoverReplace ==
    /\ pc = "recover" /\ marker # None /\ marker.action = "replace"
    /\ LET o == marker.op
           isOriginal == Is(target, marker.original)
           isCandidate == Is(target, o)
           staged == ~Absent(stage[o])
           kept == ~Absent(quarantine[o])
           open == marker.phase # "published"
           back == open /\ isCandidate /\ ~staged
           home == open /\ Absent(target) /\ kept
           drop == open /\ isOriginal /\ staged /\ ~kept
           done == \/ open /\ isOriginal /\ ~staged /\ ~kept
                   \/ ~open /\ isCandidate /\ ~staged /\ ~kept
           clean == ~open /\ isCandidate /\ ~staged /\ kept
       IN  \/ /\ back
              /\ stage' = [stage EXCEPT ![o] = target] /\ target' = None
              /\ \/ GoTo("recover") /\ UNCHANGED <<told, budgets>>
                 \/ Fault /\ Fail
              /\ UNCHANGED quarantine
           \/ /\ home
              /\ target' = quarantine[o] /\ quarantine' = [quarantine EXCEPT ![o] = None]
              /\ \/ /\ GoTo(IF staged THEN "drop_candidate" ELSE "settle")
                    /\ UNCHANGED <<told, budgets>>
                 \/ Fault /\ Fail
              /\ UNCHANGED stage
           \/ /\ ~back /\ ~home
              /\ \/ drop /\ GoTo("drop_candidate") /\ UNCHANGED told
                 \/ done /\ GoTo("settle") /\ UNCHANGED told
                 \/ clean /\ GoTo("drop_original") /\ UNCHANGED told
                 \/ ~drop /\ ~done /\ ~clean /\ Fail
              /\ UNCHANGED <<entries, budgets>>
    /\ UNCHANGED <<journal, touched>>

RecoverRemove ==
    /\ pc = "recover" /\ marker # None /\ marker.action = "remove"
    /\ LET o == marker.op
           isOriginal == Is(target, marker.original)
           kept == ~Absent(quarantine[o])
           open == marker.phase # "published"
           home == open /\ Absent(target) /\ kept
           done == \/ open /\ isOriginal /\ ~kept
                   \/ ~open /\ Absent(target) /\ ~kept
           clean == ~open /\ Absent(target) /\ kept
       IN  \/ /\ home
              /\ target' = quarantine[o] /\ quarantine' = [quarantine EXCEPT ![o] = None]
              /\ \/ GoTo("settle") /\ UNCHANGED <<told, budgets>>
                 \/ Fault /\ Fail
           \/ /\ ~home
              /\ \/ done /\ GoTo("settle") /\ UNCHANGED told
                 \/ clean /\ GoTo("drop_original") /\ UNCHANGED told
                 \/ ~done /\ ~clean /\ Fail
              /\ UNCHANGED <<target, quarantine, budgets>>
    /\ UNCHANGED <<stage, journal, touched>>

NothingToRecover ==
    /\ pc = "recover" /\ marker = None /\ GoTo("begin")
    /\ UNCHANGED <<entries, journal, touched, told, budgets>>

\* A recovery removes the candidate or the quarantined original.
Drop ==
    /\ \/ /\ pc = "drop_candidate" /\ UNCHANGED quarantine
          /\ \/ /\ stage' = [stage EXCEPT ![marker.op] = Emptied(@)]
                /\ GoTo(IF Absent(stage'[marker.op]) THEN "settle" ELSE pc)
                /\ UNCHANGED <<told, budgets>>
             \/ Fault /\ Fail /\ UNCHANGED stage
       \/ /\ pc = "drop_original" /\ UNCHANGED stage
          /\ \/ /\ quarantine' = [quarantine EXCEPT ![marker.op] = Emptied(@)]
                /\ GoTo(IF Absent(quarantine'[marker.op]) THEN "settle" ELSE pc)
                /\ UNCHANGED <<told, budgets>>
             \/ Fault /\ Fail /\ UNCHANGED quarantine
    /\ UNCHANGED <<target, journal, touched>>

ClearRecovered ==
    /\ pc = "settle"
    /\ \/ marker' = None /\ GoTo("begin") /\ UNCHANGED <<told, budgets>>
       \/ marker' \in {marker, None} /\ Fault /\ Fail
    /\ UNCHANGED <<entries, temporary, touched>>

-----------------------------------------------------------------------------
(* The operation itself.                                                    *)
\* A listing and a recovery end here; a removal needs the package.
BeginOperation ==
    /\ pc = "begin"
    /\ \/ request = "recover" /\ Return(None)
       \/ request \in {"install", "replace"} /\ GoTo("stage") /\ UNCHANGED told
       \/ request = "remove" /\ Absent(target) /\ Return("package_not_found")
       \/ /\ request = "remove" /\ ~Absent(target)
          /\ original' = target.id /\ pc' = "prepare"
          /\ UNCHANGED <<request, op, error, told>>
    /\ UNCHANGED <<entries, journal, touched, budgets>>

\* The directory is made and filled; a failure removes what was written.
WriteStage ==
    /\ pc = "stage"
    /\ \/ /\ stage' = [stage EXCEPT ![op] = [id |-> op, whole |-> ~Absent(stage[op])]]
          /\ GoTo(IF Absent(stage[op]) THEN "stage" ELSE "look")
          /\ UNCHANGED budgets
       \/ /\ Fault /\ error' = "transaction_failed" /\ pc' = "discard_stage"
          /\ UNCHANGED <<stage, request, op, original>>
    /\ UNCHANGED <<target, quarantine, journal, touched, told>>

\* The stage is complete: is there a package of this name?
LookAtTarget ==
    /\ pc = "look"
    /\ IF Absent(target) THEN GoTo("prepare")
       ELSE IF request = "install"
       THEN error' = "package_exists" /\ pc' = "discard_stage" /\ UNCHANGED <<request, op, original>>
       ELSE original' = target.id /\ pc' = "prepare" /\ UNCHANGED <<request, op, error>>
    /\ UNCHANGED <<entries, journal, touched, told, budgets>>

\* A stage no marker names goes away; a failure leaves it an orphan.
DiscardStage ==
    /\ pc = "discard_stage"
    /\ \/ Absent(stage[op]) /\ Return(error) /\ UNCHANGED <<stage, budgets>>
       \/ /\ ~Absent(stage[op]) /\ stage' = [stage EXCEPT ![op] = Emptied(@)]
          /\ GoTo(pc) /\ UNCHANGED <<told, budgets>>
       \/ Fault /\ Fail /\ UNCHANGED stage
    /\ UNCHANGED <<target, quarantine, journal, touched>>

Action == IF request = "remove" THEN "remove"
          ELSE IF original = None THEN "install" ELSE "replace"

Raise(e) ==
    /\ error' = e /\ pc' = "undo" /\ UNCHANGED <<request, op, original>>

\* The marker file is replaced; the write may raise before or after that.
WriteMarker(m, next) ==
    \/ marker' = m /\ GoTo(next) /\ UNCHANGED budgets
    \/ Fault /\ marker' \in {marker, m} /\ Raise("transaction_failed")

Prepare ==
    /\ pc = "prepare"
    /\ WriteMarker([action |-> Action, phase |-> "prepared", op |-> op, original |-> original],
                   IF Action = "install" THEN "publish" ELSE "move_out")
    /\ UNCHANGED <<entries, temporary, touched, told>>

\* The rename checks the identity it moves and never overwrites.
MoveToQuarantine ==
    /\ pc = "move_out"
    /\ \/ /\ Is(target, original)
          /\ quarantine' = [quarantine EXCEPT ![op] = target] /\ target' = None
          /\ \/ GoTo("mark_quarantined") /\ UNCHANGED budgets
             \/ Fault /\ Raise("transaction_failed")
       \/ /\ ~Is(target, original) \/ faults < MaxFaults
          /\ Raise("transaction_failed") /\ UNCHANGED <<target, quarantine>>
          /\ IF Is(target, original) THEN Fault ELSE UNCHANGED budgets
    /\ UNCHANGED <<stage, journal, touched, told>>

MarkQuarantined ==
    /\ pc = "mark_quarantined"
    /\ WriteMarker([marker EXCEPT !.phase = "quarantined"],
                   IF Action = "replace" THEN "publish" ELSE "mark_published")
    /\ UNCHANGED <<entries, temporary, touched, told>>

\* A target the user made in the meantime is refused: by the look before
\* the rename or by the rename itself.
PublishStage ==
    /\ pc = "publish"
    /\ \/ /\ Absent(target) /\ target' = stage[op] /\ stage' = [stage EXCEPT ![op] = None]
          /\ \/ GoTo("mark_published") /\ UNCHANGED budgets
             \/ Fault /\ Raise("transaction_failed")
       \/ /\ ~Absent(target) /\ \E e \in {"package_exists", "transaction_failed"} : Raise(e)
          /\ UNCHANGED <<target, stage, budgets>>
       \/ /\ Absent(target) /\ Fault /\ Raise("transaction_failed")
          /\ UNCHANGED <<target, stage>>
    /\ UNCHANGED <<quarantine, journal, touched, told>>
\* Faulty: the original is removed before its replacement is durable.
MarkPublished_Late ==
    /\ pc = "mark_published" /\ GoTo("clean_up")
    /\ UNCHANGED <<entries, journal, touched, told, budgets>>

\* From here on a replacement or a removal is not rolled back by its caller.
MarkPublished ==
    /\ pc = "mark_published"
    /\ \/ /\ marker' = [marker EXCEPT !.phase = "published"]
          /\ GoTo("clean_up") /\ UNCHANGED <<told, budgets>>
       \/ /\ Fault /\ marker' \in {marker, [marker EXCEPT !.phase = "published"]}
          /\ IF Action = "install" THEN Raise("transaction_failed") /\ UNCHANGED told ELSE Fail
    /\ UNCHANGED <<entries, temporary, touched>>

RemoveQuarantine ==
    /\ pc = "clean_up"
    /\ \/ Absent(quarantine[op]) /\ GoTo("finish") /\ UNCHANGED <<quarantine, told, budgets>>
       \/ /\ ~Absent(quarantine[op])
          /\ \/ /\ quarantine' = [quarantine EXCEPT ![op] = Emptied(@)]
                /\ GoTo(pc) /\ UNCHANGED <<told, budgets>>
             \/ Fault /\ Fail /\ UNCHANGED quarantine
    /\ UNCHANGED <<target, stage, journal, touched>>

Success == CASE Action = "install" -> "installed"
             [] Action = "replace" -> "replaced"
             [] Action = "remove" -> "removed"
\* Faulty: the marker stays behind.
ClearMarker_Keeps ==
    /\ pc = "finish" /\ Return(Success)
    /\ UNCHANGED <<entries, journal, touched, budgets>>

ClearMarker ==
    /\ pc = "finish"
    /\ \/ marker' = None /\ Return(Success) /\ UNCHANGED budgets
       \/ /\ Fault /\ marker' \in {marker, None}
          /\ IF Action = "install" THEN Raise("transaction_failed") /\ UNCHANGED told ELSE Fail
    /\ UNCHANGED <<entries, temporary, touched>>

-----------------------------------------------------------------------------
(* What the operation does when it raised.                                  *)

\* An install withdraws its stage unless the package name is taken.
UndoInstall ==
    /\ pc = "undo" /\ Action = "install"
    /\ IF error = "package_exists" \/ Absent(target)
       THEN GoTo("undo_stage") /\ UNCHANGED told
       ELSE Return(error)
    /\ UNCHANGED <<entries, journal, touched, budgets>>

\* A replacement puts its candidate back under the stage name and the
\* original back under the package name; it gives up when it cannot tell.
RollbackReplace ==
    /\ pc = "undo" /\ Action = "replace"
    /\ \/ /\ Absent(quarantine[op]) /\ GoTo("undo_stage") /\ UNCHANGED <<entries, told>>
       \/ /\ ~Absent(quarantine[op]) /\ ~Absent(target)
          /\ IF Absent(stage[op]) /\ Is(target, op)
             THEN /\ stage' = [stage EXCEPT ![op] = target] /\ target' = None
                  /\ GoTo("undo") /\ UNCHANGED <<quarantine, told>>
             ELSE Return(error) /\ UNCHANGED entries
       \/ /\ ~Absent(quarantine[op]) /\ Absent(target)
          /\ target' = quarantine[op] /\ quarantine' = [quarantine EXCEPT ![op] = None]
          /\ GoTo("undo_stage") /\ UNCHANGED <<stage, told>>
    /\ UNCHANGED <<journal, touched, budgets>>

\* A removal puts the quarantined package back.
UndoRemove ==
    /\ pc = "undo" /\ Action = "remove"
    /\ IF Absent(target) /\ ~Absent(quarantine[op])
       THEN /\ target' = quarantine[op] /\ quarantine' = [quarantine EXCEPT ![op] = None]
            /\ GoTo("undo_marker") /\ UNCHANGED told
       ELSE Return(error) /\ UNCHANGED <<target, quarantine>>
    /\ UNCHANGED <<stage, journal, touched, budgets>>

UndoStage ==
    /\ pc = "undo_stage"
    /\ IF Absent(stage[op]) THEN GoTo("undo_marker") /\ UNCHANGED stage
       ELSE stage' = [stage EXCEPT ![op] = Emptied(@)] /\ GoTo(pc)
    /\ UNCHANGED <<target, quarantine, journal, touched, told, budgets>>

ClearMarkerBestEffort ==
    /\ pc = "undo_marker" /\ marker' = None /\ Return(error)
    /\ UNCHANGED <<entries, temporary, touched, budgets>>

\* A step of undoing raises: what is left waits for the next recovery.
UndoFails ==
    /\ pc \in {"undo", "undo_stage", "undo_marker"} /\ Fault
    /\ Return(IF pc = "undo_stage" THEN "transaction_failed" ELSE error)
    /\ UNCHANGED <<entries, journal, touched>>

-----------------------------------------------------------------------------

\* A process that dies while it writes the marker leaves its temporary file.
ProcessDies ==
    /\ pc # "idle" /\ crashes < MaxCrashes /\ crashes' = crashes + 1
    /\ pc' = "idle" /\ request' = None /\ error' = None /\ original' = None
    /\ IF pc \in {"prepare", "mark_quarantined", "mark_published"}
       THEN temporary' \in BOOLEAN ELSE UNCHANGED temporary
    /\ UNCHANGED <<entries, marker, op, touched, told, edits, faults>>

UserChanges ==
    /\ edits < MaxEdits /\ edits' = edits + 1
    /\ target' \in {None, [id |-> MaxOps + edits', whole |-> TRUE]} /\ target' # target
    /\ touched' = TRUE
    /\ UNCHANGED <<stage, quarantine, journal, working, told, crashes, faults>>

\* Packages of other names come and go, through this manager or by hand.
OtherPackages ==
    /\ others' \in (0..(MaxEntries + 1)) \ {others}
    /\ UNCHANGED ownVars

Beginning == OpenSource \/ ReadDirectory \/ ReadArchive \/ Lock

Recovery ==
    \/ RecoverMarkerTemporary \/ RecoverOrphanStages
    \/ RecoverInstall \/ RecoverReplace \/ RecoverRemove
    \/ NothingToRecover \/ Drop \/ ClearRecovered

Operation ==
    \/ BeginOperation \/ WriteStage \/ LookAtTarget \/ DiscardStage
    \/ Prepare \/ MoveToQuarantine \/ MarkQuarantined
    \/ PublishStage \/ MarkPublished \/ RemoveQuarantine \/ ClearMarker

Undoing ==
    \/ UndoInstall \/ RollbackReplace \/ UndoRemove
    \/ UndoStage \/ ClearMarkerBestEffort \/ UndoFails

Work == Beginning \/ Recovery \/ Operation \/ Undoing

PackageNext ==
    \/ /\ \/ \E r \in {"install", "replace", "remove", "recover"} : StartRequest(r)
          \/ Work \/ ProcessDies \/ UserChanges
       /\ UNCHANGED others
    \/ OtherPackages

PackageSpec == PackageInit /\ [][PackageNext]_packageVars

\* The worker thread runs on, and every start of the program recovers.
FairSpec ==
    /\ PackageSpec
    /\ WF_packageVars(Work /\ UNCHANGED others)
    /\ WF_packageVars(StartRequest("recover") /\ UNCHANGED others)

-----------------------------------------------------------------------------
(* Properties.                                                              *)

\* A package the user relies on: their own, or one they were told is there.
Accepted(id) == id > MaxOps \/ (id \in Ops /\ told[id] \in {"installed", "replaced"})

Holds(id) == \/ Is(target, id) /\ target.whole
             \/ \E o \in Ops : Is(quarantine[o], id) /\ quarantine[o].whole

\* A package somebody relies on is destroyed only by the user or after the
\* durable marker of its replacement or removal says published: whatever
\* fails or dies before leaves it whole under its name or in quarantine.
NothingLost ==
    [][\A id \in Identities :
          Accepted(id) /\ Holds(id) /\ ~Holds(id)'
          => \/ edits' # edits
             \/ marker # None /\ marker.phase = "published" /\ marker.original = id]_packageVars

\* An operation that reports success has left exactly its result: the new
\* package whole or no package, and nothing staged, quarantined or pending;
\* one that reports package_exists has left no trace either.
ToldTruth ==
    [][\A o \in Ops : told'[o] # told[o] =>
          /\ told'[o] \in {"installed", "replaced", "removed"}
             => /\ marker' = None /\ Absent(stage'[o]) /\ Absent(quarantine'[o])
                /\ touched \/ IF told'[o] = "removed" THEN Absent(target')
                              ELSE target' = [id |-> o, whole |-> TRUE]
          /\ told'[o] = "package_exists" /\ ~touched => Absent(stage'[o]) /\ target' # None]_packageVars

AtRest ==
    /\ pc = "idle" /\ marker = None /\ ~temporary
    /\ \A o \in Ops : Absent(stage[o]) /\ Absent(quarantine[o])

\* Whatever crashes and fails, if the user keeps away from the package the
\* directory gets back to packages only: of what the program itself left
\* behind, recovery refuses nothing but more packages than it counts to.
RecoveryConverges == []<>(AtRest \/ edits > 0 \/ TooMany)
=============================================================================
