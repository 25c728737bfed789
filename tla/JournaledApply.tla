---------------------------- MODULE JournaledApply ----------------------------
(***************************************************************************)
(* Applying a plan of global whole-path outputs, and recovering one that    *)
(* was interrupted (internal/effect/execute with internal/effect/journal).  *)
(* An apply publishes a journal of before- and after-images, reserves its   *)
(* claims in the registry all projects share, changes the host files,       *)
(* commits the statefile, finalizes the claims and retires the journal.     *)
(*                                                                         *)
(* Every operation that changes a claim holds the registry lease, so at     *)
(* most one runs: `op'.  Other programs edit host files at any time, and    *)
(* the process may crash between any two steps.                             *)
(***************************************************************************)
EXTENDS Naturals, FiniteSets

CONSTANTS
    Projects,   \* manifests that share the registry
    Nobody,     \* the owner of no claim
    Paths,      \* global destinations
    Rank,       \* their order
    Sensitive,  \* paths whose directory entry is known only once it exists
    Aliased,    \* sensitive paths that the projects spell differently
    Contents,   \* what a file can hold
    Absent,     \* what a path without a file holds
    Limit       \* how often each kind of disturbance may happen

Images == Contents \cup {Absent}

Disturbances == {"apply", "crash", "fault", "edit"}

ASSUME PathAssumption == /\ Rank \in [Paths -> Nat]
                         /\ \A p, q \in Paths : Rank[p] = Rank[q] => p = q
                         /\ Aliased \subseteq Sensitive
                         /\ Sensitive \subseteq Paths
ASSUME ValueAssumption == Absent \notin Contents /\ Nobody \notin Projects
ASSUME LimitAssumption == Limit \in [Disturbances -> Nat]

-----------------------------------------------------------------------------

VARIABLES
    host,       \* what every path holds
    registry,   \* the claim on every path
    statefile,  \* per project, the content it manages at every path
    journal,    \* per project, its recovery journal
    op,         \* the running operation
    result,     \* what the last operation returned
    touched,    \* per project, journaled paths that others have changed since
    lapsed,     \* per project, outputs whose claim was never acquired
    used        \* disturbances so far

vars == <<host, registry, statefile, journal, op, result, touched, lapsed, used>>

Claim(phase, owner) == [phase |-> phase, owner |-> owner]

NoClaim == Claim("none", Nobody)

Claims == {NoClaim} \cup [phase : {"reserved", "active"}, owner : Projects]

(* The journal: its entries, their before-images, both statefiles and the
   acquisitions that could not be addressed yet.  An entry's after-image is what
   the statefile will say. *)
JournalType == [entries : SUBSET Paths, before : [Paths -> Images],
                stateBefore : [Paths -> Images], stateAfter : [Paths -> Images],
                intents : SUBSET Paths]

Nothing == [p \in Paths |-> Absent]

NoJournal == [entries |-> {}, before |-> Nothing, stateBefore |-> Nothing,
              stateAfter |-> Nothing, intents |-> {}]

Steps == {"idle", "capture", "prepare", "validate", "effect", "reserve",
          "finalize", "settle", "load", "restore", "compensate", "retire"}

(* Why the journal is loaded or retired. *)
Goals == {"commit", "settle", "rollback", "recover"}

(* `draft' is the planned journal until it is published, `selected' the entries
   that rollback, recovery and retirement look at. *)
OpType == [step : Steps, project : Projects \cup {Nobody}, goal : Goals, draft : JournalType,
           selected : SUBSET Paths, todo : SUBSET Paths, done : SUBSET Paths]

Results == {"none", "applied", "rolledback", "failed", "recovered", "crashed"}

Idle == [step |-> "idle", project |-> Nobody, goal |-> "commit",
         draft |-> NoJournal, selected |-> {}, todo |-> {}, done |-> {}]

TypeOK ==
    /\ host \in [Paths -> Images]
    /\ registry \in [Paths -> Claims]
    /\ statefile \in [Projects -> [Paths -> Images]]
    /\ journal \in [Projects -> JournalType]
    /\ op \in OpType
    /\ result \in Results
    /\ touched \in [Projects -> SUBSET Paths]
    /\ lapsed \in [Projects -> SUBSET Paths]
    /\ used \in [Disturbances -> Nat]

(* Some outputs are already managed, and users may have edited or deleted them. *)
Init ==
    /\ host \in [Paths -> Images]
    /\ registry \in [Paths -> {NoClaim} \cup {Claim("active", pr) : pr \in Projects}]
    /\ statefile \in [Projects -> [Paths -> Images]]
    /\ \A pr \in Projects, p \in Paths :
           (statefile[pr][p] # Absent) = (registry[p] = Claim("active", pr))
    /\ journal = [pr \in Projects |-> NoJournal]
    /\ op = Idle
    /\ result = "none"
    /\ touched = [pr \in Projects |-> {}]
    /\ lapsed = [pr \in Projects |-> {}]
    /\ used = [d \in Disturbances |-> 0]

-----------------------------------------------------------------------------
(* Reading the journal of a project. *)

interrupted(pr) == journal[pr].entries # {}

beforeImages(pr) == journal[pr].before

afterImages(pr) == journal[pr].stateAfter

before(pr, p) == beforeImages(pr)[p]

after(pr, p) == afterImages(pr)[p]

transitions(pr) == journal[pr].entries \ journal[pr].intents

claimBefore(pr, p) ==
    IF journal[pr].stateBefore[p] = Absent THEN NoClaim ELSE Claim("active", pr)

(* Mutant: a reservation does not say whose it is. *)
claimReservedForNobody(pr, p) ==
    IF journal[pr].stateBefore[p] = Absent THEN Claim("reserved", Nobody) ELSE Claim("active", pr)

claimPrepared(pr, p) ==
    IF journal[pr].stateBefore[p] = Absent THEN Claim("reserved", pr) ELSE Claim("active", pr)

(* Mutant: a removed output stays claimed. *)
claimNeverReleased(pr, p) == Claim("active", pr)

claimAfter(pr, p) ==
    IF journal[pr].stateAfter[p] = Absent THEN NoClaim ELSE Claim("active", pr)

claimsBefore(pr) == [p \in Paths |-> claimBefore(pr, p)]

claimsPrepared(pr) == [p \in Paths |-> claimPrepared(pr, p)]

claimsAfter(pr) == [p \in Paths |-> claimAfter(pr, p)]

(* The directory entry of a path is known: its claim can be looked up. *)
exact(p) == p \notin Sensitive \/ host[p] # Absent

(* Another spelling's claim cannot be found while the entry does not exist. *)
visibleClaim(pr, p) ==
    IF ~exact(p) /\ p \in Aliased /\ registry[p].owner # pr THEN NoClaim ELSE registry[p]

(* An acquisition that is still an intent is blocked by any claim it can see. *)
blockedIntent(pr, p) == p \in journal[pr].intents /\ visibleClaim(pr, p) # NoClaim

pathsMatch(pr, S, images) == \A p \in S : ~blockedIntent(pr, p) /\ host[p] = images[p]

(* Mutant: only what was written can be recovered. *)
pathsWritten(pr, S) == \A p \in S : ~blockedIntent(pr, p) /\ host[p] = after(pr, p)

pathsRecoverable(pr, S) ==
    \A p \in S : ~blockedIntent(pr, p) /\ host[p] \in {before(pr, p), after(pr, p)}

claimsMatch(pr, claims) == \A p \in transitions(pr) : registry[p] = claims[p]

rollbackEligible(pr) ==
    \A p \in transitions(pr) : registry[p] \in {claimBefore(pr, p), claimPrepared(pr, p)}

finalizeEligible(pr) ==
    \A p \in transitions(pr) : registry[p] \in {claimPrepared(pr, p), claimAfter(pr, p)}

(* Mutant: an interrupted finalization is taken for a finished one. *)
ClassifyWithoutClaims(pr, S, state) ==
    LET stateBefore == state = journal[pr].stateBefore
        stateAfter  == state = journal[pr].stateAfter
    IN IF pathsMatch(pr, S, beforeImages(pr)) /\ stateBefore /\ claimsMatch(pr, claimsBefore(pr))
       THEN "clean_before"
       ELSE IF pathsMatch(pr, S, afterImages(pr)) /\ stateAfter THEN "clean_after"
       ELSE IF pathsRecoverable(pr, S) /\ stateBefore /\ rollbackEligible(pr)
       THEN "needs_rollback"
       ELSE "blocked"

(* Classify, for the selected entries and the given statefile. *)
Classify(pr, S, state) ==
    LET stateBefore == state = journal[pr].stateBefore
        stateAfter  == state = journal[pr].stateAfter
    IN IF pathsMatch(pr, S, beforeImages(pr)) /\ stateBefore /\ claimsMatch(pr, claimsBefore(pr))
       THEN "clean_before"
       ELSE IF pathsMatch(pr, S, afterImages(pr)) /\ stateAfter /\ claimsMatch(pr, claimsAfter(pr))
       THEN "clean_after"
       ELSE IF pathsMatch(pr, S, afterImages(pr)) /\ stateAfter /\ finalizeEligible(pr)
       THEN "needs_finalize"
       ELSE IF pathsRecoverable(pr, S) /\ stateBefore /\ rollbackEligible(pr)
       THEN "needs_rollback"
       ELSE "blocked"

clean(classification) == classification \in {"clean_before", "clean_after"}

-----------------------------------------------------------------------------
(* Reconciliation: what an apply of `want' would do, and what forbids it. *)

managed(pr, p) == statefile[pr][p] # Absent

(* A file that is not the project's is never overwritten, nor one that was
   edited; an identical one may be taken over (manage). *)
contentBlocked(pr, p, want, manage) ==
    \/ want[p] # Absent /\ ~managed(pr, p) /\ host[p] # Absent
       /\ ~(manage /\ host[p] = want[p])
    \/ want[p] # Absent /\ managed(pr, p)
       /\ host[p] \notin {Absent, statefile[pr][p], want[p]}
    \/ want[p] = Absent /\ managed(pr, p) /\ host[p] # statefile[pr][p]

(* Mutant: a claim of another project does not block. *)
claimBlockedForManaged(pr, p, want) ==
    managed(pr, p) /\ ~(exact(p) /\ registry[p] = Claim("active", pr))

(* A new output must be unclaimed, a managed one exactly and actively claimed. *)
claimBlocked(pr, p, want) ==
    IF managed(pr, p) THEN ~(exact(p) /\ registry[p] = Claim("active", pr))
    ELSE want[p] # Absent /\ visibleClaim(pr, p) # NoClaim

effects(pr, want) ==
    {p \in Paths : \/ want[p] # Absent /\ (host[p] # want[p] \/ statefile[pr][p] # want[p])
                   \/ want[p] = Absent /\ managed(pr, p)}

(* Acquisitions of paths that do not exist yet are only intents. *)
intents(pr, want) ==
    {p \in effects(pr, want) : want[p] # Absent /\ ~managed(pr, p) /\ ~exact(p)}

Draft(pr, want) ==
    [entries |-> effects(pr, want),
     before |-> [p \in Paths |-> IF p \in effects(pr, want) THEN host[p] ELSE Absent],
     stateBefore |-> statefile[pr], stateAfter |-> want, intents |-> intents(pr, want)]

-----------------------------------------------------------------------------

Spend(d) == /\ used[d] < Limit[d]
            /\ used' = [used EXCEPT ![d] = @ + 1]

At(step) == op.step = step

Go(step) == op' = [op EXCEPT !.step = step]

Return(r) == op' = Idle /\ result' = r

(* Publications in path order, then removals; restoring does the same. *)
precedes(p, q, images) ==
    IF (images[p] = Absent) # (images[q] = Absent) THEN images[q] = Absent
    ELSE Rank[p] < Rank[q]

first(p, images) ==
    /\ p \in op.todo
    /\ \A q \in op.todo \ {p} : precedes(p, q, images)

(* A host write of the running operation; to any other project it is foreign.
   Recording a file that already has the content writes nothing. *)
Put(p, image) ==
    /\ host' = [host EXCEPT ![p] = image]
    /\ touched' = [pr \in Projects |->
                      IF pr = op.project \/ host[p] = image THEN touched[pr]
                      ELSE touched[pr] \cup (journal[pr].entries \cap {p})]

(* The registry is replaced by one rename: all of the transitions or none. *)
Converge(claims) ==
    registry' = [p \in Paths |-> IF p \in transitions(op.project) THEN claims[p]
                                 ELSE registry[p]]

(* Mutant: rollback forgets what was done. *)
RollBackNothing(done) ==
    op' = [op EXCEPT !.step = "load", !.goal = "rollback", !.selected = {},
                     !.todo = {}, !.done = {}]

(* Guarded rollback starts from the statefile and the entries that were done. *)
RollBack(done) ==
    op' = [op EXCEPT !.step = "load", !.goal = "rollback", !.selected = done,
                     !.todo = {}, !.done = {}]

(* Rollback, settlement and commit know the statefile they stand on. *)
knownState ==
    CASE op.goal = "commit"  -> journal[op.project].stateAfter
      [] op.goal = "recover" -> statefile[op.project]
      [] OTHER               -> journal[op.project].stateBefore

-----------------------------------------------------------------------------
(* The apply. *)

BeginApply(pr) ==
    /\ At("idle")
    /\ ~interrupted(pr)
    /\ Spend("apply")
    /\ \E want \in [Paths -> Images], manage \in BOOLEAN :
           /\ \A p \in Paths : /\ ~contentBlocked(pr, p, want, manage)
                               /\ ~claimBlocked(pr, p, want)
           /\ effects(pr, want) # {}
           /\ op' = [Idle EXCEPT !.step = "capture", !.project = pr,
                                 !.draft = Draft(pr, want)]
    /\ UNCHANGED <<host, registry, statefile, journal, result, touched, lapsed>>

(* The journal is complete before it is published, and records what was planned
   against: a file that changed since then refuses it. *)
CaptureJournal ==
    /\ At("capture")
    /\ \A p \in op.draft.entries : host[p] = op.draft.before[p]
    /\ journal' = [journal EXCEPT ![op.project] = op.draft]
    /\ touched' = [touched EXCEPT ![op.project] = {}]
    /\ op' = [op EXCEPT !.step = "prepare", !.draft = NoJournal]
    /\ UNCHANGED <<host, registry, statefile, result, lapsed, used>>

RefuseCapture ==
    /\ At("capture")
    /\ \E p \in op.draft.entries : host[p] # op.draft.before[p]
    /\ Return("failed")
    /\ UNCHANGED <<host, registry, statefile, journal, touched, lapsed, used>>

(* Whether or not the journal became visible, nothing is compensated. *)
FailCapture ==
    /\ At("capture")
    /\ \A p \in op.draft.entries : host[p] = op.draft.before[p]
    /\ Spend("fault")
    /\ \/ UNCHANGED <<journal, touched>>
       \/ /\ journal' = [journal EXCEPT ![op.project] = op.draft]
          /\ touched' = [touched EXCEPT ![op.project] = {}]
    /\ Return("failed")
    /\ UNCHANGED <<host, registry, statefile, lapsed>>

PrepareClaims ==
    /\ At("prepare")
    /\ rollbackEligible(op.project)
    /\ Converge(claimsPrepared(op.project))
    /\ Go("validate")
    /\ UNCHANGED <<host, statefile, journal, result, touched, lapsed, used>>

FailPrepare ==
    /\ At("prepare")
    /\ Spend("fault")
    /\ Converge(claimsPrepared(op.project)) \/ UNCHANGED registry
    /\ Go("settle")
    /\ UNCHANGED <<host, statefile, journal, result, touched, lapsed>>

preparedClassification ==
    Classify(op.project, journal[op.project].entries, journal[op.project].stateBefore)

ValidatePrepared ==
    /\ At("validate")
    /\ preparedClassification \in {"clean_before", "needs_rollback"}
    /\ op' = [op EXCEPT !.step = "effect", !.todo = journal[op.project].entries]
    /\ UNCHANGED <<host, registry, statefile, journal, result, touched, lapsed, used>>

RefusePrepared ==
    /\ At("validate")
    /\ preparedClassification \notin {"clean_before", "needs_rollback"}
    /\ Go("settle")
    /\ UNCHANGED <<host, registry, statefile, journal, result, touched, lapsed, used>>

(* Nothing was written: give the claims back and retire the journal. *)
Settle ==
    /\ At("settle")
    /\ rollbackEligible(op.project)
    /\ Converge(claimsBefore(op.project))
    /\ op' = [op EXCEPT !.step = "retire", !.goal = "settle"]
    /\ UNCHANGED <<host, statefile, journal, result, touched, lapsed, used>>

FailSettle ==
    /\ At("settle")
    /\ Spend("fault")
    /\ Converge(claimsBefore(op.project)) \/ UNCHANGED registry
    /\ Return("failed")
    /\ UNCHANGED <<host, statefile, journal, touched, lapsed>>

-----------------------------------------------------------------------------
(* Host effects.  An acquisition that was only an intent stays in todo after its
   file is written, until its claim has been promoted. *)

Written(p) ==
    op' = [op EXCEPT !.done = @ \cup {p},
                     !.todo = IF p \in journal[op.project].intents THEN @ ELSE @ \ {p}]

writing(p) == At("effect") /\ first(p, afterImages(op.project)) /\ p \notin op.done

ApplyEffect(p) ==
    /\ writing(p)
    /\ host[p] = before(op.project, p)
    /\ Put(p, after(op.project, p))
    /\ Written(p)
    /\ UNCHANGED <<registry, statefile, journal, result, lapsed, used>>

RefuseEffect(p) ==
    /\ writing(p)
    /\ host[p] # before(op.project, p)
    /\ RollBack(op.done)
    /\ UNCHANGED <<host, registry, statefile, journal, result, touched, lapsed, used>>

(* A definite failure, a visible write that is not accepted, and one of which
   nobody knows whether it happened: then the journal is kept for recovery. *)
FailEffect(p) ==
    /\ writing(p)
    /\ host[p] = before(op.project, p)
    /\ Spend("fault")
    /\ \/ UNCHANGED <<host, touched, result>> /\ RollBack(op.done)
       \/ /\ Put(p, after(op.project, p))
          /\ RollBack(op.done \cup {p})
          /\ UNCHANGED result
       \/ /\ Put(p, after(op.project, p)) \/ UNCHANGED <<host, touched>>
          /\ Return("failed")
    /\ UNCHANGED <<registry, statefile, journal, lapsed>>

promoting(p) == At("effect") /\ first(p, afterImages(op.project)) /\ p \in op.done

(* promoteVisibleAcquire: a file that is gone again is passed over silently. *)
SkipPromotion(p) ==
    /\ promoting(p)
    /\ ~exact(p)
    /\ op' = [op EXCEPT !.todo = @ \ {p}]
    /\ lapsed' = [lapsed EXCEPT ![op.project] = @ \cup {p}]
    /\ UNCHANGED <<host, registry, statefile, journal, result, touched, used>>

RefusePromotion(p) ==
    /\ promoting(p)
    /\ exact(p)
    /\ registry[p] # NoClaim
    /\ RollBack(op.done)
    /\ UNCHANGED <<host, registry, statefile, journal, result, touched, lapsed, used>>

Promoted(p) == journal' = [journal EXCEPT ![op.project].intents = @ \ {p}]

(* Mutant: the registry is not looked up again once the file exists. *)
PromoteUnchecked(p) ==
    /\ promoting(p)
    /\ exact(p)
    /\ Promoted(p)
    /\ Go("reserve")
    /\ UNCHANGED <<host, registry, statefile, result, touched, lapsed, used>>

PromoteIntent(p) ==
    /\ promoting(p)
    /\ exact(p)
    /\ registry[p] = NoClaim
    /\ Promoted(p)
    /\ Go("reserve")
    /\ UNCHANGED <<host, registry, statefile, result, touched, lapsed, used>>

FailPromotion(p) ==
    /\ promoting(p)
    /\ exact(p)
    /\ registry[p] = NoClaim
    /\ Spend("fault")
    /\ Promoted(p) \/ UNCHANGED journal
    /\ RollBack(op.done)
    /\ UNCHANGED <<host, registry, statefile, result, touched, lapsed>>

Reserved(p) == registry' = [registry EXCEPT ![p] = claimPrepared(op.project, p)]

ReserveClaim(p) ==
    /\ At("reserve")
    /\ first(p, afterImages(op.project))
    /\ Reserved(p)
    /\ op' = [op EXCEPT !.step = "effect", !.todo = @ \ {p}]
    /\ UNCHANGED <<host, statefile, journal, result, touched, lapsed, used>>

FailReserve(p) ==
    /\ At("reserve")
    /\ first(p, afterImages(op.project))
    /\ Spend("fault")
    /\ Reserved(p) \/ UNCHANGED registry
    /\ RollBack(op.done)
    /\ UNCHANGED <<host, statefile, journal, result, touched, lapsed>>

-----------------------------------------------------------------------------
(* The statefile is the commit point: before it everything is undone, after it
   only the claims are finished. *)

StateCommitted ==
    statefile' = [statefile EXCEPT ![op.project] = journal[op.project].stateAfter]

(* Mutant: the statefile does not wait for the host effects. *)
committingEarly == At("effect")

committing == At("effect") /\ op.todo = {}

CommitState ==
    /\ committing
    /\ StateCommitted
    /\ Go("finalize")
    /\ UNCHANGED <<host, registry, journal, result, touched, lapsed, used>>

FailCommit ==
    /\ committing
    /\ Spend("fault")
    /\ \/ UNCHANGED <<statefile, result>> /\ RollBack(op.done)
       \/ (StateCommitted \/ UNCHANGED statefile) /\ Return("failed")
    /\ UNCHANGED <<host, registry, journal, touched, lapsed>>

FinalizeClaims ==
    /\ At("finalize")
    /\ finalizeEligible(op.project)
    /\ Converge(claimsAfter(op.project))
    /\ op' = [op EXCEPT !.step = "retire", !.selected = journal[op.project].entries]
    /\ UNCHANGED <<host, statefile, journal, result, touched, lapsed, used>>

FailFinalize ==
    /\ At("finalize")
    /\ Spend("fault")
    /\ Converge(claimsAfter(op.project)) \/ UNCHANGED registry
    /\ Return("failed")
    /\ UNCHANGED <<host, statefile, journal, touched, lapsed>>

-----------------------------------------------------------------------------
(* Guarded rollback of a failed apply, and daem recover. *)

BeginRecover(pr) ==
    /\ At("idle")
    /\ interrupted(pr)
    /\ op' = [Idle EXCEPT !.step = "load", !.project = pr, !.goal = "recover",
                          !.selected = journal[pr].entries]
    /\ UNCHANGED <<host, registry, statefile, journal, result, touched, lapsed, used>>

loaded == Classify(op.project, op.selected, knownState)

LoadPlan ==
    /\ At("load")
    /\ \/ loaded = "blocked" /\ Return("failed")
       \/ clean(loaded) /\ Go("retire") /\ UNCHANGED result
       \/ loaded = "needs_finalize" /\ Go("finalize") /\ UNCHANGED result
       \/ /\ loaded = "needs_rollback"
          /\ op' = [op EXCEPT !.step = "restore",
                              !.todo = {p \in op.selected : host[p] # before(op.project, p)}]
          /\ UNCHANGED result
    /\ UNCHANGED <<host, registry, statefile, journal, touched, lapsed, used>>

FailLoad ==
    /\ At("load")
    /\ Spend("fault")
    /\ Return("failed")
    /\ UNCHANGED <<host, registry, statefile, journal, touched, lapsed>>

(* Mutant: a file is restored whatever it holds by now. *)
restorableAlways(p) == p \in journal[op.project].intents => exact(p) /\ registry[p] = NoClaim

(* A file is restored only while it still is what was staged, the after-image;
   one whose claim was never acquired only while nobody claims it. *)
restorable(p) ==
    /\ host[p] = after(op.project, p)
    /\ p \in journal[op.project].intents => exact(p) /\ registry[p] = NoClaim

restoring(p) == At("restore") /\ first(p, beforeImages(op.project))

RestoreEntry(p) ==
    /\ restoring(p)
    /\ restorable(p)
    /\ Put(p, before(op.project, p))
    /\ op' = [op EXCEPT !.todo = @ \ {p}, !.done = @ \cup {p}]
    /\ UNCHANGED <<registry, statefile, journal, result, lapsed, used>>

(* What was attempted is put back as it was staged. *)
Compensate(attempted) == op' = [op EXCEPT !.step = "compensate", !.todo = attempted]

RefuseRestore(p) ==
    /\ restoring(p)
    /\ ~restorable(p)
    /\ Compensate(op.done)
    /\ UNCHANGED <<host, registry, statefile, journal, result, touched, lapsed, used>>

FailRestore(p) ==
    /\ restoring(p)
    /\ restorable(p)
    /\ Spend("fault")
    /\ Put(p, before(op.project, p)) \/ UNCHANGED <<host, touched>>
    /\ Compensate(op.done \cup {p})
    /\ UNCHANGED <<registry, statefile, journal, result, lapsed>>

last(p) == p \in op.todo /\ \A q \in op.todo \ {p} : precedes(q, p, beforeImages(op.project))

CompensateEntry(p) ==
    /\ At("compensate")
    /\ last(p)
    /\ IF host[p] = before(op.project, p) THEN Put(p, after(op.project, p))
       ELSE UNCHANGED <<host, touched>>
    /\ op' = [op EXCEPT !.todo = @ \ {p}]
    /\ UNCHANGED <<registry, statefile, journal, result, lapsed, used>>

FailCompensate(p) ==
    /\ At("compensate")
    /\ last(p)
    /\ Spend("fault")
    /\ op' = [op EXCEPT !.todo = @ \ {p}]
    /\ UNCHANGED <<host, registry, statefile, journal, result, touched, lapsed>>

FinishCompensate ==
    /\ At("compensate")
    /\ op.todo = {}
    /\ Return("failed")
    /\ UNCHANGED <<host, registry, statefile, journal, touched, lapsed, used>>

(* Mutant: the claims are left as they are. *)
RollbackWithoutClaims ==
    /\ At("restore")
    /\ op.todo = {}
    /\ Go("retire")
    /\ UNCHANGED <<host, registry, statefile, journal, result, touched, lapsed, used>>

RollbackClaims ==
    /\ At("restore")
    /\ op.todo = {}
    /\ rollbackEligible(op.project)
    /\ Converge(claimsBefore(op.project))
    /\ Go("retire")
    /\ UNCHANGED <<host, statefile, journal, result, touched, lapsed, used>>

FailRollbackClaims ==
    /\ At("restore")
    /\ op.todo = {}
    /\ Spend("fault")
    /\ Converge(claimsBefore(op.project)) \/ UNCHANGED registry
    /\ Return("failed")
    /\ UNCHANGED <<host, statefile, journal, touched, lapsed>>

-----------------------------------------------------------------------------
(* Retirement: the journal goes only if the selected entries, the statefile and
   the claims are found clean once more. *)

success == CASE op.goal = "commit"   -> "applied"
             [] op.goal = "settle"   -> "failed"
             [] op.goal = "rollback" -> "rolledback"
             [] op.goal = "recover"  -> "recovered"

(* A rolled-back apply says so even if its journal cannot be retired. *)
failure == IF op.goal = "rollback" THEN "rolledback" ELSE "failed"

Retired == /\ journal' = [journal EXCEPT ![op.project] = NoJournal]
           /\ touched' = [touched EXCEPT ![op.project] = {}]

RetireJournal ==
    /\ At("retire")
    /\ clean(loaded)
    /\ Retired
    /\ Return(success)
    /\ UNCHANGED <<host, registry, statefile, lapsed, used>>

RefuseRetire ==
    /\ At("retire")
    /\ ~clean(loaded)
    /\ Return(failure)
    /\ UNCHANGED <<host, registry, statefile, journal, touched, lapsed, used>>

FailRetire ==
    /\ At("retire")
    /\ clean(loaded)
    /\ Spend("fault")
    /\ Retired \/ UNCHANGED <<journal, touched>>
    /\ Return(failure)
    /\ UNCHANGED <<host, registry, statefile, lapsed>>

-----------------------------------------------------------------------------

Crash ==
    /\ ~At("idle")
    /\ Spend("crash")
    /\ Return("crashed")
    /\ UNCHANGED <<host, registry, statefile, journal, touched, lapsed>>

Edit(p) ==
    /\ Spend("edit")
    /\ \E image \in Images \ {host[p]} : host' = [host EXCEPT ![p] = image]
    /\ touched' = [pr \in Projects |-> touched[pr] \cup (journal[pr].entries \cap {p})]
    /\ UNCHANGED <<registry, statefile, journal, op, result, lapsed>>

Progress ==
    \/ CaptureJournal \/ RefuseCapture \/ PrepareClaims \/ ValidatePrepared
    \/ RefusePrepared \/ Settle \/ CommitState \/ FinalizeClaims \/ LoadPlan
    \/ RollbackClaims \/ FinishCompensate \/ RetireJournal \/ RefuseRetire
    \/ \E p \in Paths : \/ ApplyEffect(p) \/ RefuseEffect(p) \/ SkipPromotion(p)
                        \/ RefusePromotion(p) \/ PromoteIntent(p) \/ ReserveClaim(p)
                        \/ RestoreEntry(p) \/ RefuseRestore(p) \/ CompensateEntry(p)

Disturb ==
    \/ FailCapture \/ FailPrepare \/ FailSettle \/ FailCommit \/ FailFinalize
    \/ FailLoad \/ FailRollbackClaims \/ FailRetire \/ Crash
    \/ \E p \in Paths : \/ FailEffect(p) \/ FailPromotion(p) \/ FailReserve(p)
                        \/ FailRestore(p) \/ FailCompensate(p) \/ Edit(p)

Next ==
    \/ \E pr \in Projects : BeginApply(pr) \/ BeginRecover(pr)
    \/ Progress
    \/ Disturb

Spec == Init /\ [][Next]_vars

(* The user runs daem recover for as long as a journal is there; operations that
   were started end. *)
FairSpec == /\ Spec
            /\ WF_vars(Progress)
            /\ \A pr \in Projects : SF_vars(BeginRecover(pr))

-----------------------------------------------------------------------------
(* Properties. *)

active(pr, p) == registry[p] = Claim("active", pr)

(* A journal does not hold a claim before it is prepared nor after it is released:
   another project may have taken the path. *)
takenOver(pr) == {p \in journal[pr].entries : registry[p].owner \notin {pr, Nobody}}

(* Ownership and statefiles never drift apart: without a journal a project claims
   exactly what its statefile manages; with one, exactly what one of the phases of
   that journal allows.  (claimoperation, statefileoperation.)  An acquisition that
   was passed over has no claim to account for. *)
Accounted ==
    \A pr \in Projects : \A p \in Paths \ lapsed[pr] :
        IF p \in transitions(pr)
        THEN \/ registry[p] \in {claimBefore(pr, p), claimPrepared(pr, p), claimAfter(pr, p)}
             \/ p \in takenOver(pr) /\ NoClaim \in {claimBefore(pr, p), claimAfter(pr, p)}
        ELSE (registry[p].owner = pr) = managed(pr, p) /\ (managed(pr, p) => active(pr, p))

(* No output is managed by two projects, whatever happened in between. *)
Exclusive ==
    \A p \in Paths, pr, other \in Projects :
        /\ pr # other
        /\ p \notin lapsed[pr] \cup lapsed[other]
        => ~(managed(pr, p) /\ managed(other, p))

(* Every journal can be recovered: unless others have changed one of its files or
   claimed one of its outputs, it is never classified as blocked,
   wherever the apply or an earlier recovery stopped. *)
Recoverable ==
    \A pr \in Projects :
        interrupted(pr) /\ touched[pr] = {} /\ takenOver(pr) = {}
        => Classify(pr, journal[pr].entries, statefile[pr]) # "blocked"

(* Under the registry lease no convergence finds a claim in a third state. *)
NeverStale ==
    LET pr == op.project
    IN /\ op.step \in {"prepare", "settle"} => rollbackEligible(pr)
       /\ At("restore") => rollbackEligible(pr)
       /\ At("finalize") => finalizeEligible(pr)

allOf(pr, images, claims, state) ==
    /\ statefile[pr] = state
    /\ \A p \in journal[pr].entries \ touched[pr] : host[p] = images[p]
    /\ claimsMatch(pr, claims)

allBefore(pr) ==
    allOf(pr, beforeImages(pr), claimsBefore(pr), journal[pr].stateBefore)

allAfter(pr) ==
    allOf(pr, afterImages(pr), claimsAfter(pr), journal[pr].stateAfter)

recreates(pr) == journal[pr].stateBefore = journal[pr].stateAfter

(* All or nothing: a journal disappears only when its files, statefile and claims
   are all as before or all as after, but for files that others changed meanwhile.
   An apply that only re-creates missing files may end with some of them. *)
SettledOnRetire ==
    [][\A pr \in Projects :
          interrupted(pr) /\ journal'[pr] = NoJournal
          => allBefore(pr) \/ allAfter(pr) \/ recreates(pr)]_vars

(* What an apply reports is so: success means everything is as planned, rolled back
   that it is as before, and failure without a journal that nothing happened. *)
Truthful ==
    [][\A pr \in Projects :
          interrupted(pr) /\ op.project = pr /\ At("retire") /\ op' = Idle /\ ~recreates(pr)
          => /\ result' = "applied" => allAfter(pr)
             /\ result' = "rolledback" => allBefore(pr)
             /\ result' = "failed" /\ op.goal = "settle" /\ journal'[pr] = NoJournal
                => allBefore(pr)]_vars

(* The statefile changes only once every journaled file is as planned and every
   claim is held: a crash right after it loses nothing. *)
StateLast ==
    [][\A pr \in Projects :
          statefile'[pr] # statefile[pr]
          => /\ \A p \in journal[pr].entries \ touched[pr] : host[p] = after(pr, p)
             /\ \A p \in transitions(pr) : registry[p] = claimPrepared(pr, p)]_vars

(* daem only changes files it may change: a file that exists under the claim of
   another project is left alone, and what is overwritten is an image from the
   journal, never an edit. *)
NoTrespass ==
    [][\A p \in Paths :
          host'[p] # host[p] /\ used'["edit"] = used["edit"] /\ host[p] # Absent
          => /\ registry[p].owner \in {Nobody, op.project}
             /\ host[p] \in {before(op.project, p), after(op.project, p)}]_vars

(* A claim, reserved or active, is only ever changed by its owner: neither an apply
   nor a recovery of another project takes it over. *)
NoStealing ==
    [][\A p \in Paths :
          registry'[p] # registry[p] /\ registry[p] # NoClaim
          => op.project = registry[p].owner]_vars

(* If recovery is run again and again, a journal goes away, unless what others did
   to its files or a foreign claim blocks it. *)
EventuallyCleared ==
    \A pr \in Projects :
        []<>(\/ ~interrupted(pr)
             \/ At("idle") /\ Classify(pr, journal[pr].entries, statefile[pr]) = "blocked")

(* docs/state-and-recovery.md: an interrupted acquisition or release stays reserved
   or owned until recovery finishes, another apply cannot steal it. *)
InterruptedNotTaken == \A pr \in Projects : takenOver(pr) \cap transitions(pr) = {}

(* rollback_outcome.go: an apply that reports its host changes as rolled back has
   restored every one of them. *)
HostChangesRolledBack ==
    [][\A pr \in Projects :
          interrupted(pr) /\ op.project = pr /\ op' = Idle /\ result' = "rolledback"
          => \A p \in journal[pr].entries \ touched[pr] : host[p] = before(pr, p)]_vars

(* docs/cli.md: clean_after means that ownership matches the committed state, so
   that a retired journal leaves no managed output without its claim. *)
CleanAfterOwned ==
    \A pr \in Projects, p \in Paths :
        ~interrupted(pr) /\ managed(pr, p) => active(pr, p)

-----------------------------------------------------------------------------
(* The properties together. *)

(* Statefiles, claims and journals fit together in every state: ownership is accounted
   for, no output is managed twice, and no convergence meets a claim in a third state
   (claimoperation, statefileoperation). *)
ClaimsSound == TypeOK /\ Accounted /\ Exclusive /\ NeverStale

(* A journal is retired only when all is as before or all as after, and then the apply
   reports which (finishApply, rollback_outcome.go). *)
Settled == SettledOnRetire /\ Truthful

(* What a step may never change: the statefile before the files and claims are as
   planned, a file that is another project's or was edited, a claim of somebody else. *)
ChangesGuarded == StateLast /\ NoTrespass /\ NoStealing

-----------------------------------------------------------------------------
(* What they rest on. *)

committed(pr) == ~recreates(pr) /\ statefile[pr] = journal[pr].stateAfter

untouched(pr) == journal[pr].entries \ touched[pr]

(* What reconciliation leaves of a plan: a path is in the journal if its place in the
   statefile changes, and an intent creates its file. *)
wellFormed(j) ==
    /\ j.intents \subseteq j.entries
    /\ \A p \in Paths \ j.entries : j.stateBefore[p] = j.stateAfter[p]
    /\ \A p \in j.entries : j.stateBefore[p] # Absent \/ j.stateAfter[p] # Absent
    /\ \A p \in j.intents : j.stateBefore[p] = Absent /\ j.before[p] = Absent

journaled(pr) ==
    IF interrupted(pr)
    THEN /\ wellFormed(journal[pr])
         /\ statefile[pr] \in {journal[pr].stateBefore, journal[pr].stateAfter}
    ELSE journal[pr] = NoJournal

(* The claim of a journaled output goes from before to reserved until the statefile is
   committed and from reserved to after from then on. *)
phases(pr, p) ==
    IF committed(pr) THEN {claimPrepared(pr, p), claimAfter(pr, p)}
    ELSE {claimBefore(pr, p), claimPrepared(pr, p)}

phased(pr, p) ==
    \/ registry[p] \in phases(pr, p)
    \/ p \in takenOver(pr) /\ NoClaim \in phases(pr, p)

owned(pr, p) == (registry[p].owner = pr) = managed(pr, p) /\ (managed(pr, p) => active(pr, p))

claimed(pr) ==
    /\ \A p \in transitions(pr) : phased(pr, p)
    /\ \A p \in journal[pr].intents :
           registry[p].owner # pr /\ (committed(pr) => p \in lapsed[pr])
    /\ \A p \in Paths \ (transitions(pr) \cup lapsed[pr]) : owned(pr, p)

(* A file that nobody else has changed holds one of its two images. *)
imaged(pr) ==
    \A p \in untouched(pr) :
        /\ host[p] \in {before(pr, p), after(pr, p)}
        /\ committed(pr) => host[p] = after(pr, p)

(* A project's journal, statefile, claims and files fit together, whoever runs. *)
sound(pr) == journaled(pr) /\ claimed(pr) /\ imaged(pr)

(* What the running operation has established when it takes a step. *)

atBefore(S) == \A p \in untouched(op.project) \ S : host[p] = before(op.project, p)

stateIsBefore == statefile[op.project] = journal[op.project].stateBefore

stateIsAfter == statefile[op.project] = journal[op.project].stateAfter

planned ==
    /\ ~interrupted(op.project)
    /\ op.draft.entries # {}
    /\ wellFormed(op.draft)
    /\ op.draft.stateBefore = statefile[op.project]
    /\ \A p \in op.draft.entries \ op.draft.intents :
           registry[p] = IF managed(op.project, p) THEN Claim("active", op.project) ELSE NoClaim
    /\ \A p \in op.draft.intents : registry[p].owner # op.project

preparing ==
    /\ stateIsBefore
    /\ atBefore({})
    /\ op.selected \cup op.todo \cup op.done = {}
    /\ At("prepare") => claimsMatch(op.project, claimsBefore(op.project))
    /\ At("validate") => claimsMatch(op.project, claimsPrepared(op.project))
    /\ At("settle") => rollbackEligible(op.project)

(* The output whose claim was promoted and is not reserved yet. *)
reserving(p) == At("reserve") /\ first(p, afterImages(op.project))

effecting ==
    /\ stateIsBefore
    /\ journal[op.project].entries \subseteq op.todo \cup op.done
    /\ journal[op.project].intents \subseteq op.todo \cup lapsed[op.project]
    /\ \A p \in untouched(op.project) :
           host[p] = IF p \in op.done THEN after(op.project, p) ELSE before(op.project, p)
    /\ \A p \in transitions(op.project) :
           registry[p] = IF reserving(p) THEN NoClaim ELSE claimPrepared(op.project, p)
    /\ \A p \in op.todo \cap op.done : p \in journal[op.project].intents \/ reserving(p)
    /\ \A p \in Paths :
           reserving(p) => /\ p \in op.done \ journal[op.project].intents
                           /\ journal[op.project].stateBefore[p] = Absent

undoing ==
    /\ op.goal \in {"rollback", "recover"}
    /\ At("load") => IF op.goal = "rollback" THEN stateIsBefore /\ atBefore(op.selected)
                     ELSE op.selected = journal[op.project].entries
    /\ op.step \in {"restore", "compensate"} => stateIsBefore /\ rollbackEligible(op.project)
    /\ At("restore") => atBefore(op.todo)

finishing ==
    /\ op.goal = "commit" => stateIsAfter
    /\ op.goal \in {"settle", "rollback"} => stateIsBefore
    /\ At("finalize") => stateIsAfter /\ finalizeEligible(op.project)
    /\ At("retire") /\ ~recreates(op.project)
       => IF stateIsBefore THEN allBefore(op.project) ELSE allAfter(op.project)

Established ==
    /\ At("idle") => op = Idle
    /\ ~At("idle") => op.project \in Projects
    /\ op.step \notin {"idle", "capture"} =>
           /\ interrupted(op.project)
           /\ op.selected \cup op.todo \cup op.done \subseteq journal[op.project].entries
    /\ At("capture") => planned /\ op.selected \cup op.todo \cup op.done = {}
    /\ op.step \in {"capture", "prepare", "validate", "settle", "effect", "reserve"} => op.goal = "commit"
    /\ op.step \in {"prepare", "validate", "settle"} => preparing
    /\ op.step \in {"effect", "reserve"} => effecting
    /\ op.step \in {"load", "restore", "compensate"} => undoing
    /\ op.step \in {"finalize", "retire"} => finishing

(* The inductive invariant. *)
Inv == TypeOK /\ (\A pr \in Projects : sound(pr)) /\ Established

=============================================================================
