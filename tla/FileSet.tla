------------------------------- MODULE FileSet -------------------------------
(***************************************************************************)
(* The file-set transaction of internal/effect/fileset: several project    *)
(* files are replaced under one published evidence directory               *)
(* (StateDir/metadata-transaction), so that an interrupted operation can    *)
(* be completed or undone by a later one.                                   *)
(*                                                                         *)
(* The caller holds the mutation leases of every target and of the         *)
(* evidence directory (transaction.go, FileSetAuthorityPath), so at most   *)
(* one daem operation runs; `op' is that operation, and is Idle between    *)
(* two.  Programs that are not daem take no lease: Edit changes a target   *)
(* at any moment.  The process may crash between any two steps.            *)
(***************************************************************************)
EXTENDS Naturals, FiniteSets

CONSTANTS
    Paths,        \* canonical directory-entry paths that can be targets
    Rank,         \* their order as strings
    Bytes,        \* file contents
    Modes,        \* permission bits
    DefaultMode,  \* 0600, the mode of a file that did not exist before
    Absent,       \* what a path without a file holds
    NoPath,       \* stands for "no commit point"
    Plans,        \* the requests that callers make
    MaxTargets,   \* maximumFileSetTargets
    Limit         \* how often each kind of disturbance may happen

Image == [bytes : Bytes, mode : Modes]

Contents == Image \cup {Absent}

Versions == {3, 4}

(* A request: CommitFileSet, CommitFileSet4 and CommitFreshFileSet4WithReference
   differ in version and in fresh.  `after' is read on the written targets. *)
PlanType == [version : Versions, fresh : BOOLEAN, targets : SUBSET Paths,
             writes : SUBSET Paths, commitPoint : Paths \cup {NoPath},
             after : [Paths -> Bytes]]

Disturbances == {"commit", "crash", "fault", "edit", "cancel", "damage"}

ASSUME PathAssumption == /\ NoPath \notin Paths
                         /\ Rank \in [Paths -> Nat]
                         /\ \A p, q \in Paths : Rank[p] = Rank[q] => p = q
ASSUME ImageAssumption == /\ Bytes # {}
                          /\ DefaultMode \in Modes
                          /\ Absent \notin Image
ASSUME PlanAssumption == Plans \subseteq PlanType
ASSUME LimitAssumption == Limit \in [Disturbances -> Nat]

-----------------------------------------------------------------------------

VARIABLES
    disk,       \* what every target path holds
    published,  \* whether StateDir/metadata-transaction exists
    marker,     \* its marker.json; once retired, kept until the next one is staged
    damaged,    \* targets whose backup no longer has the recorded hash
    private,    \* private directories in StateDir: a stage, a tombstone
    op,         \* the running operation
    result,     \* what the last operation returned
    edited,     \* targets edited by others and not daem's again since
    used        \* disturbances so far

stateDir == <<published, marker, damaged, private>>
vars == <<disk, stateDir, op, result, edited, used>>

MarkerType == [version : Versions, targets : SUBSET Paths, writes : SUBSET Paths,
               commitPoint : Paths \cup {NoPath}, after : [Paths -> Bytes],
               before : [Paths -> Contents]]

Steps == {"idle", "fence", "load", "classify", "restore", "retire", "discard",
          "census", "stage", "capture", "publish", "published", "write"}

(* Why targets are classified, restored or the evidence retired. *)
Goals == {"none", "recovery", "finalize", "rollback", "abort", "commit"}

(* `raced' are the files that others have edited since the operation last looked
   at them; daem knows nothing of it. *)
OpType == [step : Steps, job : {"commit", "recover"}, plan : PlanType,
           todo : SUBSET Paths, captured : [Paths -> Contents], raced : SUBSET Paths,
           allAfter : BOOLEAN, allKnown : BOOLEAN, failed : BOOLEAN,
           cancelled : BOOLEAN, goal : Goals]

Results == {"none", "committed", "clear", "refused", "failed", "rolledback", "crashed"}

NoPlan == [version |-> 3, fresh |-> FALSE, targets |-> {}, writes |-> {},
           commitPoint |-> NoPath, after |-> [p \in Paths |-> CHOOSE b \in Bytes : TRUE]]

MarkerOf(plan, before) ==
    [version |-> plan.version, targets |-> plan.targets, writes |-> plan.writes,
     commitPoint |-> plan.commitPoint, after |-> plan.after, before |-> before]

NoImages == [p \in Paths |-> Absent]

NoMarker == MarkerOf(NoPlan, NoImages)

Idle == [step |-> "idle", job |-> "recover", plan |-> NoPlan, todo |-> {},
         captured |-> NoImages, raced |-> {}, allAfter |-> TRUE, allKnown |-> TRUE,
         failed |-> FALSE, cancelled |-> FALSE, goal |-> "none"]

TypeOK ==
    /\ disk \in [Paths -> Contents]
    /\ published \in BOOLEAN
    /\ marker \in MarkerType
    /\ damaged \subseteq Paths
    /\ private \subseteq {"stage", "tombstone"}
    /\ op \in OpType
    /\ result \in Results
    /\ edited \subseteq Paths
    /\ used \in [Disturbances -> Nat]

Init ==
    /\ disk \in [Paths -> Contents]
    /\ published = FALSE
    /\ marker = NoMarker
    /\ damaged = {}
    /\ private = {}
    /\ op = Idle
    /\ result = "none"
    /\ edited = {}
    /\ used = [d \in Disturbances |-> 0]

-----------------------------------------------------------------------------
(* The images of a target, and how the code compares a file with them. *)

(* Mutant: a new file is given no mode. *)
modeUnset(before) == IF before = Absent THEN Absent ELSE before.mode

fileMode(before) == IF before = Absent THEN DefaultMode ELSE before.mode

Before(p) == marker.before[p]

(* A retained target's after-image is its before-image. *)
After(p) == IF p \in marker.writes
            THEN [bytes |-> marker.after[p], mode |-> fileMode(Before(p))]
            ELSE Before(p)

(* Bytes and mode are compared, so a file matches an image iff it is equal. *)
matches(p, image) == disk[p] = image

(* Mutant: targets are ordered by path alone. *)
pathOrder(p, q, commitPoint) == Rank[p] < Rank[q]

(* canonicalTargets: ordinary targets by path, the commit point last. *)
precedes(p, q, commitPoint) ==
    IF (p = commitPoint) # (q = commitPoint) THEN q = commitPoint
    ELSE Rank[p] < Rank[q]

first(p, S, commitPoint) ==
    /\ p \in S
    /\ \A q \in S \ {p} : precedes(p, q, commitPoint)

admitted(plan) ==
    /\ plan.targets # {}
    /\ Cardinality(plan.targets) <= MaxTargets
    /\ plan.writes \subseteq plan.targets
    /\ plan.commitPoint \in plan.writes \cup {NoPath}
    /\ plan.fresh => plan.version = 4 /\ plan.commitPoint # NoPath

unreadableBackups == {p \in marker.targets : Before(p) # Absent /\ p \in damaged}

(* Mutant: generation 4 wants a backup of files that did not exist, too. *)
backupRequired(version) ==
    /\ marker.version = version
    /\ version = 4 => \A p \in marker.targets : Before(p) # Absent /\ p \notin damaged

(* loadMarker refuses another generation's marker; generation 4 also reads back
   every before-image. *)
loadable(version) ==
    /\ marker.version = version
    /\ version = 4 => unreadableBackups = {}

(* Generation 3 accepts any superset of the marker's targets, 4 only that set. *)
authorized(plan) ==
    IF plan.version = 3 THEN marker.targets \subseteq plan.targets
    ELSE marker.targets = plan.targets

fenceKind(version) ==
    CASE published /\ loadable(version)  -> "published_transaction"
      [] published /\ ~loadable(version) -> "invalid_evidence"
      [] ~published /\ private # {}      -> "abandoned_residue"
      [] OTHER                           -> "clear"

-----------------------------------------------------------------------------

Spend(d) == /\ used[d] < Limit[d]
            /\ used' = [used EXCEPT ![d] = @ + 1]

At(step) == op.step = step

Return(r) == op' = Idle /\ result' = r

(* Steps that run under the caller's context; rollback, abort and generation 4's
   recovery continue under context.WithoutCancel. *)
cancellable ==
    \/ op.step \in {"fence", "load", "stage", "capture", "publish"}
    \/ op.step = "classify" /\ op.goal = "recovery"
    \/ op.step \in {"retire", "discard"} /\ op.goal \in {"commit", "finalize"}
    \/ op.step = "census" /\ ~(op.goal = "recovery" /\ op.plan.version = 4)

live == ~(cancellable /\ op.cancelled)

Begin(job, plan, step) ==
    /\ op' = [Idle EXCEPT !.step = step, !.job = job, !.plan = plan]
    /\ result' = "none"

(* Commit...: canonicalTargets, then recovery of earlier evidence; the fresh form
   observes the fence first. *)
BeginCommit(plan) ==
    /\ At("idle")
    /\ Spend("commit")
    /\ IF admitted(plan)
       THEN Begin("commit", plan, IF plan.fresh THEN "fence" ELSE "load")
       ELSE Return("refused")
    /\ UNCHANGED <<disk, stateDir, edited>>

BeginRecover(plan) ==
    /\ At("idle")
    /\ plan.targets # {}
    /\ Begin("recover", plan, "load")
    /\ UNCHANGED <<disk, stateDir, edited, used>>

ObserveFence ==
    /\ At("fence") /\ live
    /\ IF fenceKind(op.plan.version) = "clear"
       THEN op' = [op EXCEPT !.step = "load"] /\ UNCHANGED result
       ELSE Return("refused")
    /\ UNCHANGED <<disk, stateDir, edited, used>>

LoadMarker ==
    /\ At("load") /\ live
    /\ \/ /\ ~published
          /\ op' = [op EXCEPT !.step = "census"]
          /\ UNCHANGED result
       \/ /\ published
          /\ ~(loadable(op.plan.version) /\ authorized(op.plan))
          /\ Return("refused")
       \/ /\ published
          /\ loadable(op.plan.version)
          /\ authorized(op.plan)
          /\ op' = [op EXCEPT !.step = "classify", !.goal = "recovery",
                              !.todo = marker.targets]
          /\ UNCHANGED result
    /\ UNCHANGED <<disk, stateDir, edited, used>>

(* Mutant: a before-image counts as an after-image. *)
ClassifyLoosely(p) ==
    /\ At("classify") /\ live
    /\ first(p, op.todo, marker.commitPoint)
    /\ op' = [op EXCEPT !.todo = @ \ {p},
                        !.allAfter = @ /\ disk[p] \in {Before(p), After(p)},
                        !.allKnown = @ /\ disk[p] \in {Before(p), After(p)}]
    /\ UNCHANGED <<disk, stateDir, result, edited, used>>

(* classifyTargets, one target; a target that matches an image is daem's again. *)
ClassifyTarget(p) ==
    /\ At("classify") /\ live
    /\ first(p, op.todo, marker.commitPoint)
    /\ LET known == matches(p, Before(p)) \/ matches(p, After(p)) IN
         /\ op' = [op EXCEPT !.todo = @ \ {p}, !.raced = @ \ {p},
                             !.allAfter = @ /\ matches(p, After(p)),
                             !.allKnown = @ /\ known]
         /\ edited' = IF known THEN edited \ {p} ELSE edited
    /\ UNCHANGED <<disk, stateDir, result, used>>

(* Mutant: targets that are neither image are restored like the others. *)
RestoreForeign ==
    /\ At("classify") /\ live
    /\ op.todo = {}
    /\ op' = IF op.goal = "recovery" /\ op.allAfter
             THEN [op EXCEPT !.step = "retire", !.goal = "finalize"]
             ELSE [op EXCEPT !.step = "restore", !.todo = marker.targets]
    /\ UNCHANGED <<disk, stateDir, result, edited, used>>

(* Recovery finalizes a transaction whose targets are all after-images; otherwise,
   like rollbackFailure, it restores when every target is one of its two images
   and every backup still has its recorded hash. *)
Decide ==
    /\ At("classify") /\ live
    /\ op.todo = {}
    /\ \/ /\ op.goal = "recovery" /\ op.allAfter
          /\ op' = [op EXCEPT !.step = "retire", !.goal = "finalize"]
          /\ UNCHANGED result
       \/ /\ ~(op.goal = "recovery" /\ op.allAfter)
          /\ op.allKnown /\ unreadableBackups = {}
          /\ op' = [op EXCEPT !.step = "restore", !.todo = marker.targets]
          /\ UNCHANGED result
       \/ /\ ~(op.goal = "recovery" /\ op.allAfter)
          /\ ~(op.allKnown /\ unreadableBackups = {})
          /\ Return("refused")
    /\ UNCHANGED <<disk, stateDir, edited, used>>

Put(p, image) ==
    /\ disk' = [disk EXCEPT ![p] = image]
    /\ edited' = edited \ {p}

(* restoreFile on the next target: a failure is remembered and the loop goes on. *)
RestoreTarget(p) ==
    /\ At("restore")
    /\ first(p, op.todo, marker.commitPoint)
    /\ \/ /\ matches(p, Before(p))
          /\ op' = [op EXCEPT !.todo = @ \ {p}]
          /\ UNCHANGED <<disk, edited, used>>
       \/ /\ ~matches(p, Before(p)) /\ p \notin unreadableBackups
          /\ op' = [op EXCEPT !.todo = @ \ {p}]
          /\ Put(p, Before(p))
          /\ UNCHANGED used
       \/ /\ ~matches(p, Before(p)) /\ p \in unreadableBackups
          /\ op' = [op EXCEPT !.todo = @ \ {p}, !.failed = TRUE]
          /\ UNCHANGED <<disk, edited, used>>
       \/ /\ ~matches(p, Before(p)) /\ p \notin unreadableBackups
          /\ op' = [op EXCEPT !.todo = @ \ {p}, !.failed = TRUE]
          /\ Spend("fault")
          /\ UNCHANGED <<disk, edited>> \/ Put(p, Before(p))
    /\ UNCHANGED <<stateDir, result>>

(* Mutant: the evidence is retired although a restoration failed. *)
RetireAnyway ==
    /\ At("restore")
    /\ op.todo = {}
    /\ op' = [op EXCEPT !.step = "retire"]
    /\ UNCHANGED <<disk, stateDir, result, edited, used>>

FinishRestore ==
    /\ At("restore")
    /\ op.todo = {}
    /\ IF op.failed THEN Return("failed")
       ELSE op' = [op EXCEPT !.step = "retire"] /\ UNCHANGED result
    /\ UNCHANGED <<disk, stateDir, edited, used>>

(* removeTransactionDir: the evidence is renamed to a private tombstone ... *)
RetireEvidence ==
    /\ At("retire") /\ live
    /\ published' = FALSE
    /\ private' = private \cup {"tombstone"}
    /\ op' = [op EXCEPT !.step = "discard"]
    /\ UNCHANGED <<disk, marker, damaged, result, edited, used>>

(* ... which is then deleted. *)
DiscardTombstone ==
    /\ At("discard") /\ live
    /\ private' = private \ {"tombstone"}
    /\ \/ op.goal = "commit" /\ Return("committed")
       \/ op.goal = "abort" /\ Return("failed")
       \/ op.goal = "rollback" /\ Return("rolledback")
       \/ /\ op.goal \in {"recovery", "finalize"}
          /\ op' = [op EXCEPT !.step = "census"]
          /\ UNCHANGED result
    /\ UNCHANGED <<disk, published, marker, damaged, edited, used>>

(* Mutant: residue is removed by its name instead of being refused. *)
SweepResidue ==
    /\ At("census") /\ live
    /\ private' = {}
    /\ IF op.job = "recover" THEN Return("clear")
       ELSE op' = [op EXCEPT !.step = "stage", !.goal = "none"] /\ UNCHANGED result
    /\ UNCHANGED <<disk, published, marker, damaged, edited, used>>

(* rejectAbandonedFileSetResidue, the end of a recovery. *)
Census ==
    /\ At("census") /\ live
    /\ \/ private # {} /\ Return("refused")
       \/ private = {} /\ op.job = "recover" /\ Return("clear")
       \/ /\ private = {} /\ op.job = "commit"
          /\ op' = [op EXCEPT !.step = "stage", !.goal = "none"]
          /\ UNCHANGED result
    /\ UNCHANGED <<disk, stateDir, edited, used>>

(* prepareMarkerVersion: a private stage, the before-images in target order, and
   the rename that publishes them. *)
CreateStage ==
    /\ At("stage") /\ live
    /\ IF published \/ private # {}
       THEN Return("refused") /\ UNCHANGED <<private, marker>>
       ELSE /\ private' = {"stage"}
            /\ marker' = NoMarker
            /\ op' = [op EXCEPT !.step = "capture", !.todo = op.plan.targets]
            /\ UNCHANGED result
    /\ UNCHANGED <<disk, published, damaged, edited, used>>

(* Mutant: the before-image does not record the file's mode. *)
CaptureBytes(p) ==
    /\ At("capture") /\ live
    /\ first(p, op.todo, op.plan.commitPoint)
    /\ op' = [op EXCEPT !.todo = @ \ {p},
                        !.captured[p] = IF disk[p] = Absent THEN Absent
                                        ELSE [bytes |-> disk[p].bytes, mode |-> DefaultMode],
                        !.step = IF op.todo = {p} THEN "publish" ELSE @]
    /\ edited' = edited \ {p}
    /\ UNCHANGED <<disk, stateDir, result, used>>

CaptureTarget(p) ==
    /\ At("capture") /\ live
    /\ first(p, op.todo, op.plan.commitPoint)
    /\ op' = [op EXCEPT !.todo = @ \ {p}, !.raced = @ \ {p}, !.captured[p] = disk[p],
                        !.step = IF op.todo = {p} THEN "publish" ELSE @]
    /\ edited' = edited \ {p}
    /\ UNCHANGED <<disk, stateDir, result, used>>

(* Mutant: the stage is copied and left behind. *)
CopyStage ==
    /\ published' = TRUE
    /\ marker' = MarkerOf(op.plan, op.captured)
    /\ damaged' = {}
    /\ UNCHANGED private

RenameStage ==
    /\ published' = TRUE
    /\ marker' = MarkerOf(op.plan, op.captured)
    /\ damaged' = {}
    /\ private' = private \ {"stage"}

PublishEvidence ==
    /\ At("publish") /\ live
    /\ RenameStage
    /\ op' = [op EXCEPT !.step = "published", !.captured = NoImages]
    /\ UNCHANGED <<disk, result, edited, used>>

(* The context check between publication and the first write. *)
BeginWrites ==
    /\ At("published")
    /\ op' = IF op.cancelled THEN [op EXCEPT !.step = "retire", !.goal = "abort"]
             ELSE [op EXCEPT !.step = "write", !.todo = op.plan.writes]
    /\ UNCHANGED <<disk, stateDir, result, edited, used>>

RollBack == op' = [op EXCEPT !.step = "classify", !.goal = "rollback",
                             !.todo = marker.targets,
                             !.allAfter = TRUE, !.allKnown = TRUE]

(* Mutant: the old file goes first, and a failure leaves neither. *)
WriteInPlace(p) ==
    /\ At("write") /\ ~op.cancelled
    /\ first(p, op.todo, op.plan.commitPoint)
    /\ \/ /\ op' = [op EXCEPT !.todo = @ \ {p}]
          /\ Put(p, After(p))
          /\ UNCHANGED used
       \/ RollBack /\ Spend("fault") /\ Put(p, Absent)
    /\ UNCHANGED <<stateDir, result>>

(* commitFile on the next target; it does not look at what it replaces. *)
WriteTarget(p) ==
    /\ At("write") /\ ~op.cancelled
    /\ first(p, op.todo, op.plan.commitPoint)
    /\ \/ /\ op' = [op EXCEPT !.todo = @ \ {p}]
          /\ Put(p, After(p))
          /\ UNCHANGED used
       \/ /\ RollBack
          /\ Spend("fault")
          /\ UNCHANGED <<disk, edited>> \/ Put(p, After(p))
    /\ UNCHANGED <<stateDir, result>>

FinishWrites ==
    /\ At("write") /\ ~op.cancelled
    /\ op.todo = {}
    /\ op' = [op EXCEPT !.step = "retire", !.goal = "commit"]
    /\ UNCHANGED <<disk, stateDir, result, edited, used>>

(* A cancelled context is noticed by or after a write, which rolls back, or after
   the last one, which leaves the published marker and its after-images. *)
CancelWrites ==
    /\ At("write") /\ op.cancelled
    /\ \/ op.plan.writes # {} /\ RollBack /\ UNCHANGED result
       \/ op.todo = {} /\ Return("failed")
    /\ UNCHANGED <<disk, stateDir, edited, used>>

(* An I/O failure, or a cancelled context, ends the operation.  Its stage or its
   tombstone is gone, or stays when the removal fails as well. *)
Interrupted == cancellable /\ op.cancelled /\ UNCHANGED used
Faulted == op.step \notin {"idle", "published", "write", "restore"} /\ Spend("fault")

(* Mutant: a tombstone that cannot be deleted is not reported. *)
HideResidue ==
    /\ Interrupted \/ Faulted
    /\ Return(IF op.step = "discard" /\ op.goal = "commit" THEN "committed" ELSE "failed")
    /\ UNCHANGED <<disk, stateDir, edited>>

FailStep ==
    /\ Interrupted \/ Faulted
    /\ Return("failed")
    /\ \/ UNCHANGED private
       \/ op.step \in {"capture", "publish"} /\ private' = private \ {"stage"}
       \/ op.step = "discard" /\ private' = private \ {"tombstone"}
    /\ UNCHANGED <<disk, published, marker, damaged, edited>>

(* Publication that is visible although it is reported as a failure. *)
FailPublished ==
    /\ At("publish")
    /\ Interrupted \/ Faulted
    /\ RenameStage
    /\ Return("failed")
    /\ UNCHANGED <<disk, edited>>

-----------------------------------------------------------------------------
(* The environment *)

Cancel ==
    /\ ~At("idle") /\ ~op.cancelled
    /\ Spend("cancel")
    /\ op' = [op EXCEPT !.cancelled = TRUE]
    /\ UNCHANGED <<disk, stateDir, result, edited>>

Crash ==
    /\ ~At("idle")
    /\ Spend("crash")
    /\ Return("crashed")
    /\ UNCHANGED <<disk, stateDir, edited>>

Edit(p) ==
    /\ Spend("edit")
    /\ \E c \in Contents \ {disk[p]} : disk' = [disk EXCEPT ![p] = c]
    /\ edited' = edited \cup {p}
    /\ op' = [op EXCEPT !.raced = IF At("idle") THEN {} ELSE @ \cup {p}]
    /\ UNCHANGED <<stateDir, result>>

DamageBackup(p) ==
    /\ published /\ p \in marker.targets /\ p \notin damaged
    /\ Spend("damage")
    /\ damaged' = damaged \cup {p}
    /\ UNCHANGED <<disk, published, marker, private, op, result, edited>>

-----------------------------------------------------------------------------

Commit ==
    \/ \E plan \in Plans : BeginCommit(plan)
    \/ ObserveFence
    \/ CreateStage
    \/ \E p \in Paths : CaptureTarget(p)
    \/ PublishEvidence
    \/ BeginWrites
    \/ \E p \in Paths : WriteTarget(p)
    \/ FinishWrites
    \/ CancelWrites

Recovery ==
    \/ LoadMarker
    \/ \E p \in Paths : ClassifyTarget(p)
    \/ Decide
    \/ \E p \in Paths : RestoreTarget(p)
    \/ FinishRestore
    \/ RetireEvidence
    \/ DiscardTombstone
    \/ Census

Failure == FailStep \/ FailPublished

Environment ==
    \/ Cancel
    \/ Crash
    \/ \E p \in Paths : Edit(p)
    \/ \E p \in Paths : DamageBackup(p)

Next ==
    \/ Commit
    \/ Recovery
    \/ \E plan \in Plans : BeginRecover(plan)
    \/ Failure
    \/ Environment

Spec == Init /\ [][Next]_vars

OperationStep ==
    /\ ~At("idle")
    /\ Commit \/ Recovery \/ Failure

(* The workflow that owns the interrupted transaction runs again. *)
RetryOwner ==
    \E plan \in Plans : /\ published
                        /\ plan.version = marker.version
                        /\ plan.targets = marker.targets
                        /\ BeginRecover(plan)

(* A started operation takes its next step, and an interrupted transaction's
   owner is run again for as long as the evidence is there. *)
FairSpec == Spec /\ WF_vars(OperationStep) /\ SF_vars(RetryOwner)

-----------------------------------------------------------------------------
(* Properties *)

AllBefore == \A p \in marker.targets \ edited : disk[p] = Before(p)
AllAfter == \A p \in marker.targets \ edited : disk[p] = After(p)

(* While the evidence is published, whatever was interrupted, every target that no
   one else edited is one of its two images: recovery always has a way out. *)
Recoverable ==
    published => \A p \in marker.targets \ edited : disk[p] \in {Before(p), After(p)}

(* Once the evidence is gone the transaction happened entirely or not at all, on
   the targets that no one else edited: by success, rollback, abort, recovery, and
   when the process died between the rename and the deletion of the tombstone. *)
Atomic == ~published => AllBefore \/ AllAfter

(* Published evidence and private residue never coexist, so the residue check of
   recovery can never fence off a transaction that still has to be undone. *)
EvidenceExclusive == published => private = {}

(* What an operation reports is true: a commit without error has every after-image
   in place, "rolled back" has every before-image back, and each of them, like a
   recovery without error, leaves a clear fence. *)
Truthful ==
    /\ result = "committed" => AllAfter
    /\ result = "rolledback" => AllBefore
    /\ result \in {"committed", "rolledback", "clear"} => ~published /\ private = {}

(* Where the running operation stands: what each of its steps has established
   about the evidence, the stage and the targets nobody edited meanwhile. *)
Progress ==
    /\ op.step # "idle" => result = "none"
    /\ op.step \in {"classify", "restore", "retire", "published", "write"} => published
    /\ op.step \in {"discard", "census", "stage", "capture", "publish"} => ~published
    /\ op.step \in {"capture", "publish"} => private = {"stage"}
    /\ op.step = "discard" => private = {"tombstone"}
    /\ op.step \in {"published", "write"} => /\ op.plan.targets = marker.targets
                                           /\ op.plan.writes = marker.writes
                                           /\ op.plan.commitPoint = marker.commitPoint
    /\ op.step \in {"capture", "publish"} => marker.targets = {}
    /\ op.step \in {"classify", "restore"} => op.goal \in {"recovery", "rollback"}
    /\ op.step = "capture" =>
         \A p \in op.plan.targets \ (op.todo \cup edited) : disk[p] = op.captured[p]
    /\ op.step = "publish" =>
         \A p \in op.plan.targets \ edited : disk[p] = op.captured[p]
    /\ op.step = "published" => AllBefore
    /\ op.step = "write" =>
         \A p \in marker.targets \ edited :
            disk[p] = IF p \in op.todo THEN Before(p) ELSE After(p)
    /\ op.step = "classify" /\ op.allAfter =>
         \A p \in marker.targets \ (op.todo \cup edited) : disk[p] = After(p)
    /\ op.step = "restore" /\ ~op.failed =>
         \A p \in marker.targets \ (op.todo \cup edited) : disk[p] = Before(p)
    /\ op.step \in {"retire", "discard"} =>
         IF op.goal \in {"commit", "finalize"} THEN AllAfter ELSE AllBefore

(* The operation only ever works on targets of its own transaction. *)
Scope ==
    /\ op.step \in {"stage", "capture", "publish", "published", "write"} => op.job = "commit"
    /\ op.job = "commit" => op.plan.writes \subseteq op.plan.targets
    /\ op.step \in {"classify", "restore", "write"} => op.todo \subseteq marker.targets

(* What the operation has looked at and goes on with is not edited, or raced. *)
Watched ==
    /\ op.step = "capture" => (op.plan.targets \ op.todo) \cap edited \subseteq op.raced
    /\ op.step = "publish" => op.plan.targets \cap edited \subseteq op.raced
    /\ op.step \in {"published", "write", "restore"} =>
         marker.targets \cap edited \subseteq op.raced
    /\ op.step = "classify" /\ op.allKnown =>
         (marker.targets \ op.todo) \cap edited \subseteq op.raced

(* The inductive invariant: what makes the promises above survive every step. *)
Inv == TypeOK /\ Recoverable /\ Atomic /\ EvidenceExclusive /\ Truthful /\ Progress

daemStep == used'["edit"] = used["edit"]

(* daem changes a file only as a target of the published transaction, and only when
   it holds one of the two images or was edited after daem last looked at it: an
   edit that was there when targets were classified is never overwritten. *)
OnlyRacingEditsLost ==
    [][daemStep => \A p \in Paths :
         disk'[p] # disk[p] =>
             /\ published /\ p \in marker.targets
             /\ p \in op.raced \/ disk[p] \in {Before(p), After(p)}]_vars

(* The commit point is written only when every other after-image is in place. *)
CommitPointLast ==
    [][daemStep /\ At("write") =>
         \A c \in marker.targets :
            c = marker.commitPoint /\ disk'[c] # disk[c]
                => \A p \in marker.targets \ (edited \cup {c}) : disk[p] = After(p)]_vars

(* Residue that outlives its operation fences the state directory for good: daem
   does not remove it by name, and no later transaction is ever published. *)
Abandoned == At("idle") /\ ~published /\ private # {}
ResidueFences == [](Abandoned => []~published)

(* An interrupted transaction is eventually finished or undone, unless some target
   stays foreign or some backup unreadable. *)
Blocked == \/ \E p \in marker.targets : disk[p] \notin {Before(p), After(p)}
           \/ unreadableBackups # {}
EventuallyCleared == published ~> (~published \/ []Blocked)

-----------------------------------------------------------------------------
(* FileSet implements AtomicFileSet.  While evidence is published, a target that
   nobody edited counts as its before-image, whatever has been written: the
   transaction happens in the rename that retires the evidence. *)
files == [p \in Paths |-> IF published /\ p \in marker.targets \ edited
                          THEN Before(p) ELSE disk[p]]

request == IF published
           THEN [targets |-> marker.targets,
                 images |-> [p \in marker.targets |-> After(p)]]
           ELSE [targets |-> {}, images |-> [p \in {} |-> 0]]

Promise == INSTANCE AtomicFileSet WITH dirty <- edited

(* Every behaviour of the file-set code, with its crashes, failures and edits, is
   one of the atomic specification: no sequence of partial writes, rollbacks and
   recoveries is observable as anything but one change of all the files or none. *)
ImplementsPromise == Promise!Spec
=============================================================================
