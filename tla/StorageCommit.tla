------------------------------ MODULE StorageCommit ------------------------------
(***************************************************************************)
(* The stable commits on which everything that daem writes is built          *)
(* (internal/effect/storage/commit): a file is created or replaced, an entry   *)
(* is removed, renamed or cleaned up, in one directory, and the caller is told *)
(* whether that happened, did not happen, left something behind or is unknown. *)
(*                                                                         *)
(* What a process sees of a directory is not yet on the disk.  `disks' are    *)
(* the contents that a power failure may leave: those that the directory had  *)
(* since it was last synced.  Another program may replace or remove the       *)
(* entry under its public name, and work in a directory that is being removed; *)
(* it does not touch the names that daem has reserved.                       *)
(***************************************************************************)
EXTENDS Naturals

CONSTANTS
    Old, Tree, New, Foreign,   \* a file, a directory, daem's new file, another program's
    Children,                  \* of the directory
    Alien,                     \* a child that another program adds to it
    None,
    Limit

Events == {"begin", "fault", "foreign", "crash"}

LimitAssumption == Limit \in [Events -> Nat]

Names == {"active", "temporary", "residue", "cleanup"}
Private == Names \ {"active"}
Objects == {Old, Tree, New, Foreign}
Kinds == {"create", "replace", "remove", "rename", "clean"}
Outcomes == {"complete", "uncommitted", "retained", "indeterminate"}

(* The objects are told apart, and so is a child that was not there. *)
ObjectsAssumption ==
    /\ Old # Tree /\ New \notin {Old, Tree} /\ Foreign \notin {Old, Tree, New}
    /\ None \notin {Old, Tree, New, Foreign} \cup Kinds /\ Alien \notin Children

VARIABLES
    dir,       \* the directory as a process sees it
    disks,     \* the contents that a power failure may leave
    payload,   \* of New: incomplete, written, or synced
    kids,      \* what is in Tree
    op,        \* the operation under way
    touched,   \* Tree is not any more as it was when its identity was last taken
    raced,     \* (history) another program has acted since the entry was last looked at
    disturbed, \* (history) or since the operation began
    used       \* events so far

vars == <<dir, disks, payload, kids, touched, op, raced, disturbed, used>>

Steps == {"idle", "validate", "temporary", "write", "sync payload", "revalidate", "commit",
          "verify", "sync", "verify again", "promote", "verify promoted", "sync promoted",
          "capture", "delete", "sync cleanup", "verify absent", "undo", "reported"}

(* `named' removals use the names of a journal; `before' and `base' are the directory
   as it was seen at the beginning and what the disk could have had then, `expected' the
   entry that the caller knows; `snapshot' is what cleanup found and `changed'
   says that it has deleted something. *)
OpType ==
    [kind : Kinds \cup {None}, step : Steps, named : BOOLEAN,
     before : [Names -> Objects \cup {None}],
     base : SUBSET [Names -> Objects \cup {None}], expected : Objects \cup {None},
     snapshot : SUBSET (Children \cup {Alien}), changed : BOOLEAN,
     outcome : Outcomes \cup {None}, retained : SUBSET Names]

Empty == [n \in Names |-> None]

NoOp ==
    [kind |-> None, step |-> "idle", named |-> FALSE, before |-> Empty, base |-> {},
     expected |-> None, snapshot |-> {}, changed |-> FALSE, outcome |-> None, retained |-> {}]

TypeOK ==
    /\ dir \in [Names -> Objects \cup {None}]
    /\ disks \subseteq [Names -> Objects \cup {None}] /\ dir \in disks
    /\ payload \in {"incomplete", "written", "synced"}
    /\ kids \subseteq Children \cup {Alien}
    /\ op \in OpType
    /\ touched \in BOOLEAN /\ raced \in BOOLEAN /\ disturbed \in BOOLEAN
    /\ used \in [Events -> Nat]

Init ==
    /\ \E o \in {None, Old, Tree}, n \in {"active", "cleanup"} : dir = [Empty EXCEPT ![n] = o]
    /\ disks = {dir}
    /\ payload = "incomplete"
    /\ kids = Children
    /\ op = NoOp
    /\ touched = FALSE /\ raced = FALSE /\ disturbed = FALSE
    /\ used = [e \in Events |-> 0]

Spend(e) == /\ used[e] < Limit[e]
            /\ used' = [used EXCEPT ![e] = @ + 1]

At(step) == op.step = step

GoTo(step) == op' = [op EXCEPT !.step = step]

(* Mutant: failures are not told apart. *)
ReportFailed(outcome, retained) ==
    op' = [op EXCEPT !.step = "reported", !.retained = retained,
                     !.outcome = IF outcome = "complete" THEN outcome ELSE "failed"]

(* failure, outcomeFromError: an operation that left something is no longer uncommitted. *)
Report(outcome, retained) ==
    op' = [op EXCEPT !.step = "reported", !.retained = retained,
                     !.outcome = IF outcome = "uncommitted" /\ retained # {} THEN "retained"
                                 ELSE outcome]

Write(d) == dir' = d /\ disks' = disks \cup {d}

directory == <<dir, disks>>
files == <<payload, kids, touched>>
history == <<raced, disturbed>>

(* syncDirectory *)
Sync == disks' = {dir} /\ UNCHANGED dir

-----------------------------------------------------------------------------
(* Beginning and failing *)

source(kind) == IF kind = "clean" THEN "cleanup" ELSE "active"

Begin(kind, named) ==
    /\ op.step \in {"idle", "reported"} /\ Spend("begin")
    /\ kind = "replace" => dir["active"] = Old
    /\ kind \notin {"create", "replace"} => dir[source(kind)] \in {Old, Tree, New}
    /\ kind \in {"create", "replace"} => \A s \in disks, n \in Names : s[n] # New
    /\ named => kind = "remove"
    /\ op' = [NoOp EXCEPT !.kind = kind, !.step = "validate", !.named = named, !.before = dir,
                          !.base = disks, !.expected = IF kind = "create" THEN None ELSE dir[source(kind)]]
    /\ payload' = IF kind \in {"create", "replace"} THEN "incomplete" ELSE payload
    /\ touched' = FALSE /\ raced' = FALSE /\ disturbed' = FALSE
    /\ UNCHANGED <<directory, kids>>

(* sameEntry: the same object, and it has not changed; sameObject: the same object. *)
sameEntry(n) == dir[n] = op.expected /\ (op.expected = Tree => ~touched)
sameObject(n) == dir[n] = op.expected

asExpected == sameEntry(source(op.kind))

(* The entry must be the expected one, and the names free that will be used. *)
Validate ==
    /\ At("validate")
    /\ IF /\ asExpected
          /\ op.kind = "remove" /\ op.named => dir["residue"] = None /\ dir["cleanup"] = None
          /\ op.kind = "rename" => dir["residue"] = None
       THEN GoTo(IF op.kind \in {"create", "replace"} THEN "temporary"
                 ELSE IF op.kind = "clean" THEN "capture" ELSE "revalidate")
       ELSE Report("uncommitted", {})
    /\ raced' = FALSE
    /\ UNCHANGED <<directory, files, disturbed, used>>

(* What a failure of a step is called: before the entry has changed, after, and when all
   that is left is to clean up. *)
FailStep ==
    \/ op.step \in {"validate", "temporary"} /\ Report("uncommitted", {})
    \/ op.step \in {"write", "sync payload"} /\ GoTo("undo")
    \/ /\ op.step \in {"revalidate", "commit"}
       /\ IF op.kind \in {"create", "replace"} THEN GoTo("undo") ELSE Report("uncommitted", {})
    \/ /\ op.step \in {"verify", "sync", "verify again"}
       /\ Report("indeterminate", IF op.kind \in {"remove", "rename"} THEN {"residue"} ELSE {})
    \/ op.step = "promote" /\ Report("retained", {"residue"})
    \/ op.step = "verify promoted" /\ Report("indeterminate", {"residue", "cleanup"})
    \/ op.step \in {"sync promoted", "verify absent"} /\ Report("indeterminate", {"cleanup"})
    \/ /\ op.step \in {"capture", "delete"} /\ op.kind = "clean"
       /\ IF ~op.changed /\ sameEntry("cleanup") THEN Report("uncommitted", {})
          ELSE IF op.changed \/ sameObject("cleanup") THEN Report("retained", {"cleanup"})
          ELSE Report("indeterminate", {"cleanup"})
    \/ op.step = "sync cleanup" /\ op.kind = "clean" /\ Report("indeterminate", {"cleanup"})
    \/ /\ op.step \in {"capture", "delete", "sync cleanup"} /\ op.kind # "clean"
       /\ Report("retained", {IF op.named THEN "cleanup" ELSE "residue"})

(* A step fails and has done nothing, or is cancelled before it. *)
Fail ==
    /\ op.step \notin {"idle", "undo", "reported"} /\ Spend("fault")
    /\ FailStep
    /\ UNCHANGED <<directory, files, history>>

-----------------------------------------------------------------------------
(* CommitFile *)

CreateTemporary ==
    /\ At("temporary")
    /\ Write([dir EXCEPT !["temporary"] = New])
    /\ GoTo("write")
    /\ UNCHANGED <<files, history, used>>

WritePayload ==
    /\ At("write")
    /\ payload' = "written"
    /\ GoTo("sync payload")
    /\ UNCHANGED <<directory, kids, touched, history, used>>

(* Mutant: the payload is not synced. *)
SyncPayloadNot ==
    /\ At("sync payload")
    /\ GoTo(IF op.kind = "replace" THEN "revalidate" ELSE "commit")
    /\ UNCHANGED <<directory, files, history, used>>

SyncPayload ==
    /\ At("sync payload")
    /\ payload' = "synced"
    /\ GoTo(IF op.kind = "replace" THEN "revalidate" ELSE "commit")
    /\ UNCHANGED <<directory, kids, touched, history, used>>

Revalidate ==
    /\ At("revalidate")
    /\ IF asExpected THEN GoTo("commit") ELSE FailStep
    /\ raced' = FALSE
    /\ UNCHANGED <<directory, files, disturbed, used>>

moved(from, to) == [dir EXCEPT ![to] = dir[from], ![from] = None]

from(kind) == IF kind \in {"create", "replace"} THEN "temporary" ELSE "active"
to(kind) == IF kind \in {"create", "replace"} THEN "active" ELSE "residue"

(* renameNoReplace, and renameReplace for a file that is to be replaced. *)
canRename == dir[from(op.kind)] # None /\ (op.kind # "replace" => dir[to(op.kind)] = None)

Commit ==
    /\ At("commit")
    /\ IF canRename
       THEN /\ Write(moved(from(op.kind), to(op.kind)))
            /\ GoTo(IF op.kind \in {"create", "replace"} THEN "sync" ELSE "verify")
       ELSE FailStep /\ UNCHANGED directory
    /\ UNCHANGED <<files, history, used>>

(* errRenameIndeterminate: a rename on a network file system that is reported as failed. *)
CommitUnknown ==
    /\ At("commit") /\ canRename /\ Spend("fault")
    /\ Write(moved(from(op.kind), to(op.kind))) \/ UNCHANGED directory
    /\ Report("indeterminate", {IF op.kind \in {"create", "replace"} THEN "temporary" ELSE "residue"})
    /\ UNCHANGED <<files, history>>

(* failFileBeforeVisibility: the temporary file is removed. *)
Undo ==
    /\ At("undo")
    /\ dir' = [dir EXCEPT !["temporary"] = None]
    /\ disks' = {dir'}
    /\ Report("uncommitted", {})
    /\ UNCHANGED <<files, history, used>>

(* or stays, or its removal is not synced. *)
UndoFails ==
    /\ At("undo") /\ Spend("fault")
    /\ UNCHANGED directory \/ Write([dir EXCEPT !["temporary"] = None])
    /\ Report("uncommitted", {"temporary"})
    /\ UNCHANGED <<files, history>>

-----------------------------------------------------------------------------
(* Common to files, removals and renames *)

(* The entry that was moved is the one that was meant. *)
movedExpected ==
    IF op.kind \in {"create", "replace"} THEN dir["active"] = New
    ELSE sameObject("residue") /\ (op.kind = "rename" => dir["active"] = None)

VerifyMoved ==
    /\ At("verify")
    /\ IF movedExpected THEN GoTo("sync") ELSE FailStep
    /\ touched' = FALSE           \* a rename changes the times of an entry
    /\ UNCHANGED <<directory, payload, kids, history, used>>

SyncParent ==
    /\ At("sync")
    /\ Sync
    /\ GoTo(IF op.kind = "remove" THEN IF op.named THEN "promote" ELSE "capture"
            ELSE "verify again")
    /\ UNCHANGED <<files, history, used>>

VerifyAgain ==
    /\ At("verify again")
    /\ IF movedExpected THEN Report("complete", {}) ELSE FailStep
    /\ UNCHANGED <<directory, files, history, used>>

-----------------------------------------------------------------------------
(* CommitLogicalRemoval and CommitRootedEntryCleanup *)

Promote ==
    /\ At("promote")
    /\ IF dir["cleanup"] = None
       THEN Write(moved("residue", "cleanup")) /\ GoTo("verify promoted")
       ELSE FailStep /\ UNCHANGED directory
    /\ UNCHANGED <<files, history, used>>

PromoteUnknown ==
    /\ At("promote") /\ dir["cleanup"] = None /\ Spend("fault")
    /\ Write(moved("residue", "cleanup")) \/ UNCHANGED directory
    /\ Report("indeterminate", {"residue", "cleanup"})
    /\ UNCHANGED <<files, history>>

VerifyPromoted ==
    /\ At("verify promoted")
    /\ IF sameObject("cleanup") THEN GoTo("sync promoted") ELSE FailStep
    /\ touched' = FALSE
    /\ UNCHANGED <<directory, payload, kids, history, used>>

SyncPromoted ==
    /\ At("sync promoted")
    /\ Sync /\ GoTo("capture")
    /\ UNCHANGED <<files, history, used>>

doomed == IF op.kind = "remove" /\ ~op.named THEN "residue" ELSE "cleanup"

contents == IF op.expected = Tree THEN kids ELSE {}

(* captureRemovalTreeSnapshot *)
Capture ==
    /\ At("capture")
    /\ IF sameEntry(doomed)
       THEN op' = [op EXCEPT !.step = "delete", !.snapshot = contents]
       ELSE FailStep
    /\ UNCHANGED <<directory, files, history, used>>

(* removalEffectAuthority.verify, before everything that is deleted. *)
unchanged == sameEntry(doomed)

(* The times of the directory that change thereby are taken again. *)
DeleteChild ==
    /\ At("delete")
    /\ \E c \in op.snapshot \cap contents :
           IF unchanged
           THEN /\ kids' = kids \ {c}
                /\ op' = [op EXCEPT !.snapshot = @ \ {c}, !.changed = TRUE]
           ELSE FailStep /\ UNCHANGED kids
    /\ UNCHANGED <<directory, payload, touched, history, used>>

(* Mutant: a directory is removed with what has come into it. *)
DeleteRecursively ==
    /\ At("delete") /\ op.snapshot \cap contents = {}
    /\ Write([dir EXCEPT ![doomed] = None])
    /\ op' = [op EXCEPT !.step = "sync cleanup", !.changed = TRUE]
    /\ UNCHANGED <<files, history, used>>

(* A directory in which there is something that was not captured stays. *)
DeleteEntry ==
    /\ At("delete") /\ op.snapshot \cap contents = {}
    /\ IF unchanged /\ contents = {}
       THEN /\ Write([dir EXCEPT ![doomed] = None])
            /\ op' = [op EXCEPT !.step = "sync cleanup", !.changed = TRUE]
       ELSE FailStep /\ UNCHANGED directory
    /\ UNCHANGED <<files, history, used>>

(* Mutant: the last sync is forgotten. *)
SyncCleanupNot ==
    /\ At("sync cleanup")
    /\ IF op.kind = "clean" THEN GoTo("verify absent") ELSE Report("complete", {})
    /\ UNCHANGED <<directory, files, history, used>>

SyncCleanup ==
    /\ At("sync cleanup")
    /\ Sync
    /\ IF op.kind = "clean" THEN GoTo("verify absent") ELSE Report("complete", {})
    /\ UNCHANGED <<files, history, used>>

VerifyAbsent ==
    /\ At("verify absent")
    /\ IF dir["cleanup"] = None THEN Report("complete", {}) ELSE FailStep
    /\ UNCHANGED <<directory, files, history, used>>

(* A sync is reported as failed, and the disk may have it or not. *)
SyncFails ==
    /\ op.step \in {"sync", "sync promoted", "sync cleanup"} /\ Spend("fault")
    /\ Sync
    /\ FailStep
    /\ UNCHANGED <<files, history>>

-----------------------------------------------------------------------------
(* Other programs, and failures of the machine *)

OtherReplaces ==
    /\ Spend("foreign")
    /\ \E o \in {None, Foreign} : o # dir["active"] /\ Write([dir EXCEPT !["active"] = o])
    /\ raced' = TRUE /\ disturbed' = TRUE
    /\ UNCHANGED <<files, op>>

OtherAdds ==
    /\ Spend("foreign") /\ Alien \notin kids /\ \E n \in Names : dir[n] = Tree
    /\ kids' = kids \cup {Alien} /\ touched' = TRUE
    /\ raced' = TRUE /\ disturbed' = TRUE
    /\ UNCHANGED <<directory, payload, op>>

ProcessDies ==
    /\ ~At("idle") /\ Spend("crash")
    /\ op' = NoOp
    /\ UNCHANGED <<directory, files, history>>

PowerFails ==
    /\ Spend("crash")
    /\ dir' \in disks /\ disks' = {dir'}
    /\ op' = NoOp
    /\ UNCHANGED <<files, history>>

Work ==
    \/ Validate \/ CreateTemporary \/ WritePayload \/ SyncPayload \/ Revalidate \/ Commit
    \/ Undo \/ VerifyMoved \/ SyncParent \/ VerifyAgain \/ Promote \/ VerifyPromoted
    \/ SyncPromoted \/ Capture \/ DeleteChild \/ DeleteEntry \/ SyncCleanup \/ VerifyAbsent

Next ==
    \/ \E kind \in Kinds, named \in BOOLEAN : Begin(kind, named)
    \/ Work
    \/ Fail \/ CommitUnknown \/ PromoteUnknown \/ UndoFails \/ SyncFails
    \/ OtherReplaces \/ OtherAdds \/ ProcessDies \/ PowerFails

Spec == Init /\ [][Next]_vars

-----------------------------------------------------------------------------
(* Properties *)

goal ==
    CASE op.kind \in {"create", "replace"} -> [op.before EXCEPT !["active"] = New]
      [] op.kind = "remove"                -> [op.before EXCEPT !["active"] = None]
      [] op.kind = "rename"                -> [op.before EXCEPT !["active"] = None, !["residue"] = op.expected]
      [] OTHER                             -> [op.before EXCEPT !["cleanup"] = None]

apart(s, names) == [n \in Names \ names |-> s[n]]

(* What the caller is told holds, and goes on to hold after a power failure.  Complete:
   the directory is as it was meant to be.  Uncommitted: it is as it was.  Retained: but
   for the names that are given it is one of the two.  Indeterminate: at least the entries
   that can be seen under private names, and were not there before, are among the names. *)
OutcomeTruthful ==
    (At("reported") /\ ~disturbed) =>
        CASE op.outcome = "complete"    -> disks = {goal}
          [] op.outcome = "uncommitted" -> dir = op.before /\ disks \subseteq op.base
          [] op.outcome = "retained"    ->
                \A s \in disks : \E b \in op.base \cup {goal} : apart(s, op.retained) = apart(b, op.retained)
          [] OTHER ->
                \A n \in Private : dir[n] \in {None, op.before[n], goal[n]} \/ n \in op.retained

(* No power failure at any moment leaves half a file under the public name, or nothing
   where a file was to be replaced. *)
AllOrNothing ==
    \A s \in disks :
        /\ s["active"] = New => payload = "synced"
        /\ (op.kind # None /\ ~disturbed) => \E b \in op.base \cup {goal} : s["active"] = b["active"]

(* What another program has put there is not destroyed: not when it takes the place of
   the entry while daem works on it, and not when it comes into a directory that is being
   removed, after that has been moved out of the way.  The exception is a file that is replaced, after it was looked at. *)
ForeignKept ==
    [][LET kept(o) == (\E n \in Names : dir[n] = o) => \E n \in Names : dir'[n] = o
       IN  (used'["foreign"] = used["foreign"] /\ used'["crash"] = used["crash"])
               => /\ kept(Foreign) \/ (op.kind = "replace" /\ raced)
                  /\ (Alien \in kids /\ touched /\ op.step \in {"capture", "delete"})
                        => (Alien \in kids' /\ kept(Tree))]_vars

-----------------------------------------------------------------------------
(* What holds at every step, from which the properties follow. *)

ofFile == op.kind \in {"create", "replace"}

(* The steps that a commit of each kind takes. *)
Staged ==
    /\ op.kind = None <=> op.step = "idle"
    /\ op.named => op.kind = "remove"
    /\ op.step \in {"temporary", "write", "sync payload", "undo"} => ofFile
    /\ op.step = "revalidate" => op.kind \in {"replace", "remove", "rename"}
    /\ op.step = "commit" => op.kind # "clean"
    /\ op.step = "verify" => op.kind \in {"remove", "rename"}
    /\ op.step = "sync" => op.kind # "clean"
    /\ op.step = "verify again" => ofFile \/ op.kind = "rename"
    /\ op.step \in {"promote", "verify promoted", "sync promoted"} => op.named
    /\ op.step \in {"capture", "delete", "sync cleanup"} => op.kind \in {"remove", "clean"}
    /\ op.step = "verify absent" => op.kind = "clean"
    /\ op.expected # Foreign
    /\ (op.step = "commit" /\ op.kind = "replace" /\ ~raced) => dir["active"] # Foreign

(* daem's new file is under its temporary name until its payload is on the disk, and
   nothing else ever is. *)
Unpublished ==
    /\ \A s \in disks : s["temporary"] \in {None, New}
    /\ \A s \in disks : s["active"] = New => payload = "synced"
    /\ (ofFile /\ op.step \in {"validate", "temporary"}) => \A s \in disks, n \in Names : s[n] # New
    /\ (ofFile /\ op.step \in {"write", "sync payload", "revalidate", "commit", "undo"})
          => \A s \in disks, n \in Names : s[n] = New => n = "temporary"
    /\ (ofFile /\ op.step \in {"revalidate", "commit"}) => payload = "synced"

(* The contents that a commit goes through. *)
staged == [op.before EXCEPT !["temporary"] = New]
aside == [op.before EXCEPT !["active"] = None, !["residue"] = op.expected]
promoted == [op.before EXCEPT !["active"] = None, !["cleanup"] = op.expected]

Between(d, some) == dir = d /\ disks \subseteq some

(* Nothing has been done yet; only the temporary file has been made; the directory is as it
   was meant to be; the entry is out of the way, and ready to be deleted. *)
unstarted ==
    \/ op.step \in {"validate", "temporary"}
    \/ op.step \in {"revalidate", "commit"} /\ ~ofFile
    \/ op.step \in {"capture", "delete"} /\ op.kind = "clean"
written ==
    op.step \in {"write", "sync payload", "undo"} \/ (op.step \in {"revalidate", "commit"} /\ ofFile)
moving == op.step = "verify" \/ (op.step = "sync" /\ ~ofFile)
waiting ==
    \/ op.step = "promote"
    \/ op.step \in {"capture", "delete"} /\ op.kind = "remove" /\ ~op.named
doomedPromoted == op.step \in {"capture", "delete"} /\ op.named

deletedFrom ==
    IF op.kind = "clean" THEN op.base ELSE IF op.named THEN {promoted} ELSE {aside}

(* Where a commit is that nobody has disturbed: what it knows of the beginning, where it is
   from there, and which of its private names were free. *)
Grounded ==
    /\ op.before \in op.base
    /\ op.expected = IF op.kind = "create" THEN None ELSE op.before[source(op.kind)]
    /\ (ofFile /\ op.step # "reported") => \A s \in op.base : s["temporary"] = None

Arrived ==
    /\ unstarted => Between(op.before, op.base)
    /\ written => Between(staged, op.base \cup {staged})
    /\ (op.step = "sync" /\ ofFile) => Between(goal, op.base \cup {staged, goal})
    /\ moving => Between(aside, op.base \cup {aside})
    /\ op.step \in {"verify again", "verify absent"} => Between(goal, {goal})
    /\ waiting => Between(aside, {aside})
    /\ op.step \in {"verify promoted", "sync promoted"} => Between(promoted, {aside, promoted})
    /\ doomedPromoted => Between(promoted, {promoted})
    /\ op.step = "sync cleanup" => Between(goal, deletedFrom \cup {goal})

Freed ==
    /\ (op.kind \in {"remove", "rename"} /\ op.step \in {"verify", "sync", "verify again", "promote",
             "verify promoted", "sync promoted", "capture", "delete", "sync cleanup"})
          => op.before["residue"] = None
    /\ (op.named /\ op.step \in {"verify promoted", "sync promoted", "capture", "delete", "sync cleanup"})
          => op.before["cleanup"] = None

Following ==
    /\ Grounded /\ Arrived /\ Freed
    /\ op.step = "reported" => \A s \in disks : \E b \in op.base \cup {goal} : s["active"] = b["active"]

Inv ==
    /\ TypeOK /\ Staged /\ Unpublished /\ OutcomeTruthful
    /\ (op.kind # None /\ ~disturbed) => Following
=============================================================================
