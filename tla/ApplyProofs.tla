------------------------------ MODULE ApplyProofs ------------------------------
(***************************************************************************)
(* For any number of projects, outputs and disturbances: statefiles, claims,*)
(* journals and host files of JournaledApply stay in step with each other.  *)
(*                                                                         *)
(* A step belongs to the project of the running operation.  It is mild to    *)
(* every other one: it leaves their journals and statefiles alone, takes     *)
(* none of their claims and marks their files that it changes as touched.    *)
(* So what is to be shown is what it does to its own project and to `op'.    *)
(***************************************************************************)
EXTENDS JournaledApply, TLAPS

-----------------------------------------------------------------------------
(* Claims, paths and classifications. *)

(* The phases of a claim are claims of the project or none. *)
LEMMA ClaimPhases ==
  ASSUME NEW pr \in Projects, NEW p \in Paths
  PROVE  /\ NoClaim \in Claims
         /\ NoClaim.owner = Nobody /\ Nobody # pr
         /\ claimBefore(pr, p) \in Claims /\ claimBefore(pr, p).owner \in {pr, Nobody}
         /\ claimPrepared(pr, p) \in Claims /\ claimPrepared(pr, p).owner = pr
         /\ claimPrepared(pr, p) # NoClaim
         /\ claimAfter(pr, p) \in Claims /\ claimAfter(pr, p).owner \in {pr, Nobody}
  BY ValueAssumption DEF claimBefore, claimPrepared, claimAfter, Claims, NoClaim, Claim

LEMMA Owners ==
  ASSUME NEW c \in Claims
  PROVE  /\ c.owner \in Projects \cup {Nobody}
         /\ c.owner = Nobody <=> c = NoClaim
  BY ValueAssumption DEF Claims, NoClaim, Claim

(* One path at most comes first. *)
LEMMA FirstUnique ==
  ASSUME NEW images, NEW p, NEW q, op.todo \subseteq Paths,
         first(p, images), first(q, images)
  PROVE  p = q
  BY PathAssumption DEF first, precedes

(* What a classification says. *)
LEMMA Classified ==
  ASSUME NEW pr, NEW S, NEW state
  PROVE  /\ Classify(pr, S, state) = "clean_before" =>
              /\ pathsMatch(pr, S, beforeImages(pr)) /\ state = journal[pr].stateBefore
              /\ claimsMatch(pr, claimsBefore(pr))
         /\ Classify(pr, S, state) = "clean_after" =>
              /\ pathsMatch(pr, S, afterImages(pr)) /\ state = journal[pr].stateAfter
              /\ claimsMatch(pr, claimsAfter(pr))
         /\ Classify(pr, S, state) = "needs_finalize" =>
              /\ pathsMatch(pr, S, afterImages(pr)) /\ state = journal[pr].stateAfter
              /\ finalizeEligible(pr)
         /\ Classify(pr, S, state) = "needs_rollback" =>
              /\ pathsRecoverable(pr, S) /\ state = journal[pr].stateBefore
              /\ rollbackEligible(pr)
         /\ Classify(pr, S, state) = "blocked" =>
              /\ ~(pathsMatch(pr, S, afterImages(pr)) /\ state = journal[pr].stateAfter
                   /\ finalizeEligible(pr))
              /\ ~(pathsRecoverable(pr, S) /\ state = journal[pr].stateBefore
                   /\ rollbackEligible(pr))
  BY DEF Classify

-----------------------------------------------------------------------------
(* Types. *)

LEMMA RecordTypes ==
  /\ NoJournal \in JournalType
  /\ Idle \in OpType
  BY DEF NoJournal, JournalType, Nothing, Images, Idle, OpType, Steps, Goals

LEMMA InitType == Init => TypeOK
  BY RecordTypes, LimitAssumption DEF Init, TypeOK, Claims, NoClaim, Claim, Results, Disturbances

LEMMA ConvergeType ==
  ASSUME TypeOK, op.project \in Projects, NEW claims \in [Paths -> Claims], Converge(claims)
  PROVE  registry' \in [Paths -> Claims]
  BY DEF TypeOK, Converge

LEMMA ClaimsType ==
  ASSUME NEW pr \in Projects
  PROVE  /\ claimsBefore(pr) \in [Paths -> Claims]
         /\ claimsPrepared(pr) \in [Paths -> Claims]
         /\ claimsAfter(pr) \in [Paths -> Claims]
  BY ClaimPhases DEF claimsBefore, claimsPrepared, claimsAfter

LEMMA SpendType ==
  ASSUME TypeOK, NEW d \in Disturbances, Spend(d)
  PROVE  used' \in [Disturbances -> Nat]
  BY DEF TypeOK, Spend

(* The running operation belongs to a project. *)
LEMMA Running ==
  ASSUME TypeOK, Established, ~At("idle")
  PROVE  op.project \in Projects
  BY DEF Established

LEMMA DraftType ==
  ASSUME TypeOK, NEW pr \in Projects, NEW want \in [Paths -> Images]
  PROVE  Draft(pr, want) \in JournalType
  <1>1. effects(pr, want) \subseteq Paths /\ intents(pr, want) \subseteq Paths
    BY DEF effects, intents
  <1>2. [p \in Paths |-> IF p \in effects(pr, want) THEN host[p] ELSE Absent] \in [Paths -> Images]
    BY DEF TypeOK, Images
  <1>3. statefile[pr] \in [Paths -> Images]
    BY DEF TypeOK
  <1> QED BY <1>1, <1>2, <1>3 DEF Draft, JournalType

LEMMA JournalFields ==
  ASSUME TypeOK, NEW pr \in Projects
  PROVE  /\ journal[pr].entries \subseteq Paths /\ journal[pr].intents \subseteq Paths
         /\ journal[pr].before \in [Paths -> Images]
         /\ journal[pr].stateBefore \in [Paths -> Images]
         /\ journal[pr].stateAfter \in [Paths -> Images]
         /\ transitions(pr) \subseteq Paths
         /\ \A p \in Paths : before(pr, p) \in Images /\ after(pr, p) \in Images
  BY DEF TypeOK, JournalType, transitions, before, after, beforeImages, afterImages

LEMMA PutType ==
  ASSUME TypeOK, op.project \in Projects, NEW p \in Paths, NEW image \in Images, Put(p, image)
  PROVE  /\ host' \in [Paths -> Images]
         /\ touched' \in [Projects -> SUBSET Paths]
  BY JournalFields DEF TypeOK, Put

LEMMA OpFields ==
  ASSUME TypeOK
  PROVE  /\ op \in OpType
         /\ op.step \in Steps /\ op.goal \in Goals /\ op.draft \in JournalType
         /\ op.project \in Projects \cup {Nobody}
         /\ op.selected \subseteq Paths /\ op.todo \subseteq Paths /\ op.done \subseteq Paths
         /\ op = [step |-> op.step, project |-> op.project, goal |-> op.goal,
                  draft |-> op.draft, selected |-> op.selected, todo |-> op.todo,
                  done |-> op.done]
  BY DEF TypeOK, OpType

LEMMA ReturnType ==
  ASSUME NEW r \in Results, Return(r)
  PROVE  op' \in OpType /\ result' \in Results
  BY RecordTypes DEF Return

LEMMA GoType ==
  ASSUME TypeOK, NEW step \in Steps, Go(step)
  PROVE  op' \in OpType
  BY DEF TypeOK, Go, OpType

LEMMA RollBackType ==
  ASSUME TypeOK, NEW done \in SUBSET Paths, RollBack(done)
  PROVE  op' \in OpType
  BY DEF TypeOK, RollBack, OpType, Steps, Goals

LEMMA RetiredType ==
  ASSUME TypeOK, op.project \in Projects, Retired
  PROVE  journal' \in [Projects -> JournalType] /\ touched' \in [Projects -> SUBSET Paths]
  BY RecordTypes DEF TypeOK, Retired

(* Every step keeps the types. *)
LEMMA TypeStep ==
  ASSUME TypeOK, Established, [Next]_vars
  PROVE  TypeOK'
  <1> USE DEF Disturbances
  <1>1. ASSUME NEW pr \in Projects, BeginApply(pr)  PROVE TypeOK'
    <2>1. used' \in [Disturbances -> Nat]
      BY <1>1, SpendType DEF BeginApply
    <2>2. PICK want \in [Paths -> Images] : 
             op' = [Idle EXCEPT !.step = "capture", !.project = pr, !.draft = Draft(pr, want)]
      BY <1>1 DEF BeginApply
    <2>3. op' \in OpType
      BY <2>2, DraftType, RecordTypes DEF OpType, Steps, Idle
    <2> QED BY <1>1, <2>1, <2>3 DEF BeginApply, TypeOK
  <1>2. ASSUME NEW pr \in Projects, BeginRecover(pr)  PROVE TypeOK'
    <2>1. op' \in OpType
      BY <1>2, JournalFields, RecordTypes DEF BeginRecover, OpType, Steps, Goals, Idle
    <2> QED BY <1>2, <2>1 DEF BeginRecover, TypeOK
  <1>3. ASSUME CaptureJournal \/ FailCapture  PROVE TypeOK'
    <2>1. op.project \in Projects
      BY <1>3, Running DEF CaptureJournal, FailCapture, At
    <2>2. op.draft \in JournalType
      BY OpFields
    <2>3. CASE CaptureJournal
      <3>1. op' \in OpType
        BY <2>3, OpFields, RecordTypes DEF CaptureJournal, OpType, Steps
      <3> QED BY <2>1, <2>2, <2>3, <3>1 DEF CaptureJournal, TypeOK
    <2>4. CASE FailCapture
      <3>1. op' \in OpType /\ result' \in Results
        BY <2>4, ReturnType DEF FailCapture, Results
      <3>2. used' \in [Disturbances -> Nat]
        BY <2>4, SpendType DEF FailCapture
      <3> QED BY <2>1, <2>2, <2>4, <3>1, <3>2 DEF FailCapture, TypeOK
    <2> QED BY <1>3, <2>3, <2>4
  <1>4. ASSUME \/ PrepareClaims \/ FailPrepare \/ Settle \/ FailSettle \/ FinalizeClaims
               \/ FailFinalize \/ RollbackClaims \/ FailRollbackClaims
        PROVE  TypeOK'
    <2>1. op.project \in Projects
      BY <1>4, Running DEF At, PrepareClaims, FailPrepare, Settle, FailSettle, FinalizeClaims,
                           FailFinalize, RollbackClaims, FailRollbackClaims
    <2>2. registry' \in [Paths -> Claims]
      <3>1. \/ \E claims \in [Paths -> Claims] : Converge(claims)
            \/ registry' = registry
        BY <1>4, <2>1, ClaimsType
           DEF PrepareClaims, FailPrepare, Settle, FailSettle, FinalizeClaims, FailFinalize,
               RollbackClaims, FailRollbackClaims
      <3> QED BY <2>1, <3>1, ConvergeType DEF TypeOK
    <2>3. op' \in OpType /\ result' \in Results
      <3>1. CASE PrepareClaims \/ FailPrepare \/ RollbackClaims
        BY <3>1, GoType DEF PrepareClaims, FailPrepare, RollbackClaims, Steps, TypeOK
      <3>2. CASE FailSettle \/ FailFinalize \/ FailRollbackClaims
        BY <3>2, ReturnType DEF FailSettle, FailFinalize, FailRollbackClaims, Results
      <3>3. CASE Settle
        BY <3>3, OpFields DEF Settle, OpType, Steps, Goals, TypeOK
      <3>4. CASE FinalizeClaims
        BY <3>4, <2>1, OpFields, JournalFields DEF FinalizeClaims, OpType, Steps, TypeOK
      <3> QED BY <1>4, <3>1, <3>2, <3>3, <3>4
    <2>4. used' \in [Disturbances -> Nat]
      BY <1>4, SpendType DEF PrepareClaims, FailPrepare, Settle, FailSettle, FinalizeClaims,
            FailFinalize, RollbackClaims, FailRollbackClaims, TypeOK
    <2>5. UNCHANGED <<host, statefile, journal, touched, lapsed>>
      BY <1>4 DEF PrepareClaims, FailPrepare, Settle, FailSettle, FinalizeClaims,
            FailFinalize, RollbackClaims, FailRollbackClaims
    <2> QED BY <2>2, <2>3, <2>4, <2>5 DEF TypeOK
  <1>5. ASSUME \/ RefuseCapture \/ ValidatePrepared \/ RefusePrepared \/ LoadPlan \/ FailLoad
               \/ FinishCompensate \/ RefuseRetire \/ Crash
        PROVE  TypeOK'
    <2>1. op.project \in Projects
      BY <1>5, Running DEF At, RefuseCapture, ValidatePrepared, RefusePrepared, LoadPlan,
           FailLoad, FinishCompensate, RefuseRetire, Crash
    <2>2. op' \in OpType /\ result' \in Results
      <3>1. CASE RefuseCapture \/ FailLoad \/ FinishCompensate \/ Crash
        BY <3>1, ReturnType DEF RefuseCapture, FailLoad, FinishCompensate, Crash, Results
      <3>2. CASE RefuseRetire
        BY <3>2, ReturnType DEF RefuseRetire, Results, failure
      <3>3. CASE RefusePrepared
        BY <3>3, GoType DEF RefusePrepared, Steps, TypeOK
      <3>4. CASE ValidatePrepared
        BY <3>4, <2>1, OpFields, JournalFields DEF ValidatePrepared, OpType, Steps, TypeOK
      <3>5. CASE LoadPlan
        <4>1. CASE loaded = "blocked" /\ Return("failed")
          BY <4>1, ReturnType DEF Results
        <4>2. CASE Go("retire") /\ UNCHANGED result
          BY <4>2, GoType DEF Steps, TypeOK
        <4>3. CASE Go("finalize") /\ UNCHANGED result
          BY <4>3, GoType DEF Steps, TypeOK
        <4>4. CASE /\ op' = [op EXCEPT !.step = "restore",
                              !.todo = {p \in op.selected : host[p] # before(op.project, p)}]
                   /\ UNCHANGED result
          BY <4>4, OpFields DEF OpType, Steps, TypeOK
        <4> QED BY <3>5, <4>1, <4>2, <4>3, <4>4 DEF LoadPlan
      <3> QED BY <1>5, <3>1, <3>2, <3>3, <3>4, <3>5
    <2>3. used' \in [Disturbances -> Nat]
      BY <1>5, SpendType DEF RefuseCapture, ValidatePrepared, RefusePrepared, LoadPlan,
           FailLoad, FinishCompensate, RefuseRetire, Crash, TypeOK
    <2>4. UNCHANGED <<host, registry, statefile, journal, touched, lapsed>>
      BY <1>5 DEF RefuseCapture, ValidatePrepared, RefusePrepared, LoadPlan,
           FailLoad, FinishCompensate, RefuseRetire, Crash
    <2> QED BY <2>2, <2>3, <2>4 DEF TypeOK
  <1>6. ASSUME CommitState \/ FailCommit  PROVE TypeOK'
    <2>1. op.project \in Projects
      BY <1>6, Running DEF At, CommitState, FailCommit, committing
    <2>2. statefile' \in [Projects -> [Paths -> Images]]
      BY <1>6, <2>1, JournalFields DEF CommitState, FailCommit, StateCommitted, TypeOK
    <2>3. op' \in OpType /\ result' \in Results
      BY <1>6, OpFields, GoType, RollBackType, ReturnType
         DEF CommitState, FailCommit, Steps, Results, TypeOK
    <2>4. used' \in [Disturbances -> Nat]
      BY <1>6, SpendType DEF CommitState, FailCommit, TypeOK
    <2> QED BY <1>6, <2>2, <2>3, <2>4 DEF CommitState, FailCommit, TypeOK
  <1>7. ASSUME RetireJournal \/ FailRetire  PROVE TypeOK'
    <2>1. op.project \in Projects
      BY <1>7, Running DEF At, RetireJournal, FailRetire
    <2>2. journal' \in [Projects -> JournalType] /\ touched' \in [Projects -> SUBSET Paths]
      BY <1>7, <2>1, RetiredType DEF RetireJournal, FailRetire, TypeOK
    <2>3. success \in Results /\ failure \in Results
      BY OpFields DEF success, failure, Results, Goals
    <2>4. op' \in OpType /\ result' \in Results
      BY <1>7, <2>3, ReturnType DEF RetireJournal, FailRetire
    <2>5. used' \in [Disturbances -> Nat]
      BY <1>7, SpendType DEF RetireJournal, FailRetire, TypeOK
    <2> QED BY <1>7, <2>2, <2>4, <2>5 DEF RetireJournal, FailRetire, TypeOK
  <1>8. ASSUME NEW p \in Paths,
               \/ ApplyEffect(p) \/ FailEffect(p) \/ RestoreEntry(p) \/ FailRestore(p)
               \/ CompensateEntry(p)
        PROVE  TypeOK'
    <2>1. op.project \in Projects
      BY <1>8, Running DEF At, ApplyEffect, FailEffect, RestoreEntry, FailRestore,
           CompensateEntry, writing, restoring
    <2>2. before(op.project, p) \in Images /\ after(op.project, p) \in Images
      BY <2>1, JournalFields
    <2>3. host' \in [Paths -> Images] /\ touched' \in [Projects -> SUBSET Paths]
      BY <1>8, <2>1, <2>2, PutType DEF ApplyEffect, FailEffect, RestoreEntry, FailRestore,
           CompensateEntry, TypeOK
    <2>4. op' \in OpType /\ result' \in Results
      <3>1. CASE ApplyEffect(p)
        BY <3>1, OpFields DEF ApplyEffect, Written, OpType, TypeOK
      <3>2. CASE FailEffect(p)
        BY <3>2, OpFields, RollBackType, ReturnType DEF FailEffect, Results, TypeOK
      <3>3. CASE RestoreEntry(p)
        BY <3>3, OpFields DEF RestoreEntry, OpType, TypeOK
      <3>4. CASE FailRestore(p)
        BY <3>4, OpFields DEF FailRestore, Compensate, OpType, Steps, TypeOK
      <3>5. CASE CompensateEntry(p)
        BY <3>5, OpFields DEF CompensateEntry, OpType, TypeOK
      <3> QED BY <1>8, <3>1, <3>2, <3>3, <3>4, <3>5
    <2>5. used' \in [Disturbances -> Nat]
      BY <1>8, SpendType DEF ApplyEffect, FailEffect, RestoreEntry, FailRestore,
           CompensateEntry, TypeOK
    <2>6. UNCHANGED <<registry, statefile, journal, lapsed>>
      BY <1>8 DEF ApplyEffect, FailEffect, RestoreEntry, FailRestore, CompensateEntry
    <2> QED BY <2>3, <2>4, <2>5, <2>6 DEF TypeOK
  <1>9. ASSUME NEW p \in Paths,
               \/ RefuseEffect(p) \/ SkipPromotion(p) \/ RefusePromotion(p) \/ RefuseRestore(p)
               \/ FailCompensate(p)
        PROVE  TypeOK'
    <2>1. op.project \in Projects
      BY <1>9, Running DEF At, RefuseEffect, SkipPromotion, RefusePromotion, RefuseRestore,
           FailCompensate, writing, promoting, restoring
    <2>2. op' \in OpType
      <3>1. CASE RefuseEffect(p) \/ RefusePromotion(p)
        BY <3>1, OpFields, RollBackType DEF RefuseEffect, RefusePromotion
      <3>2. CASE SkipPromotion(p) \/ FailCompensate(p)
        BY <3>2, OpFields DEF SkipPromotion, FailCompensate, OpType
      <3>3. CASE RefuseRestore(p)
        BY <3>3, OpFields DEF RefuseRestore, Compensate, OpType, Steps
      <3> QED BY <1>9, <3>1, <3>2, <3>3
    <2>3. lapsed' \in [Projects -> SUBSET Paths]
      BY <1>9, <2>1 DEF RefuseEffect, SkipPromotion, RefusePromotion, RefuseRestore,
           FailCompensate, TypeOK
    <2>4. used' \in [Disturbances -> Nat]
      BY <1>9, SpendType DEF RefuseEffect, SkipPromotion, RefusePromotion, RefuseRestore,
           FailCompensate, TypeOK
    <2> QED BY <1>9, <2>2, <2>3, <2>4 DEF RefuseEffect, SkipPromotion, RefusePromotion,
           RefuseRestore, FailCompensate, TypeOK
  <1>10. ASSUME NEW p \in Paths, PromoteIntent(p) \/ FailPromotion(p)
         PROVE  TypeOK'
    <2>1. op.project \in Projects
      BY <1>10, Running DEF At, PromoteIntent, FailPromotion, promoting
    <2>2. journal' \in [Projects -> JournalType]
      <3>1. \A j \in JournalType : [j EXCEPT !.intents = @ \ {p}] \in JournalType
        BY DEF JournalType
      <3>2. Promoted(p) => journal' \in [Projects -> JournalType]
        <4>1. [journal[op.project] EXCEPT !.intents = @ \ {p}] \in JournalType
          BY <2>1, <3>1, Zenon DEF TypeOK
        <4> QED BY <2>1, <4>1 DEF Promoted, TypeOK
      <3> QED BY <1>10, <3>2 DEF PromoteIntent, FailPromotion, TypeOK
    <2>3. op' \in OpType
      BY <1>10, OpFields, GoType, RollBackType DEF PromoteIntent, FailPromotion, Steps
    <2>4. used' \in [Disturbances -> Nat]
      BY <1>10, SpendType DEF PromoteIntent, FailPromotion, TypeOK
    <2> QED BY <1>10, <2>2, <2>3, <2>4 DEF PromoteIntent, FailPromotion, TypeOK
  <1>11. ASSUME NEW p \in Paths, ReserveClaim(p) \/ FailReserve(p)
         PROVE  TypeOK'
    <2>1. op.project \in Projects
      BY <1>11, Running DEF At, ReserveClaim, FailReserve
    <2>2. registry' \in [Paths -> Claims]
      <3>1. Reserved(p) => registry' \in [Paths -> Claims]
        BY <2>1, ClaimPhases DEF Reserved, TypeOK
      <3> QED BY <1>11, <3>1 DEF ReserveClaim, FailReserve, TypeOK
    <2>3. op' \in OpType
      BY <1>11, OpFields, RollBackType DEF ReserveClaim, FailReserve, OpType, Steps
    <2>4. used' \in [Disturbances -> Nat]
      BY <1>11, SpendType DEF ReserveClaim, FailReserve, TypeOK
    <2> QED BY <1>11, <2>2, <2>3, <2>4 DEF ReserveClaim, FailReserve, TypeOK
  <1>12. ASSUME NEW p \in Paths, Edit(p)  PROVE TypeOK'
    <2>1. host' \in [Paths -> Images] /\ touched' \in [Projects -> SUBSET Paths]
      BY <1>12 DEF Edit, TypeOK
    <2>2. used' \in [Disturbances -> Nat]
      BY <1>12, SpendType DEF Edit
    <2> QED BY <1>12, <2>1, <2>2 DEF Edit, TypeOK
  <1>13. ASSUME UNCHANGED vars  PROVE TypeOK'
    BY <1>13 DEF vars, TypeOK
  <1> QED
    BY <1>1, <1>2, <1>3, <1>4, <1>5, <1>6, <1>7, <1>8, <1>9, <1>10, <1>11, <1>12, <1>13
       DEF Next, Progress, Disturb

-----------------------------------------------------------------------------
(* What a step does to the projects. *)

(* A step that a project hardly notices: its records stay, what changes among its files
   is marked, and none of its claims come or go. *)
mildTo(q) ==
  /\ journal'[q] = journal[q] /\ statefile'[q] = statefile[q] /\ lapsed'[q] = lapsed[q]
  /\ touched[q] \subseteq touched'[q]
  /\ \A p \in journal[q].entries : host'[p] # host[p] => p \in touched'[q]
  /\ \A p \in Paths :
        registry'[p] # registry[p] => registry[p].owner # q /\ registry'[p].owner # q

LEMMA PhaseOwners ==
  ASSUME NEW pr \in Projects, NEW p \in Paths, NEW c \in phases(pr, p)
  PROVE  c \in Claims /\ c.owner \in {pr, Nobody}
  BY ClaimPhases DEF phases

LEMMA MildSound ==
  ASSUME TypeOK, TypeOK', NEW q \in Projects, mildTo(q), sound(q)
  PROVE  sound(q)'
  <1>1. journal'[q] = journal[q] /\ statefile'[q] = statefile[q] /\ lapsed'[q] = lapsed[q]
    BY DEF mildTo
  <1>2. journaled(q)'
    BY <1>1 DEF sound, journaled, interrupted, wellFormed
  <1>3. /\ transitions(q)' = transitions(q)
        /\ committed(q)' = committed(q)
        /\ \A p \in Paths : phases(q, p)' = phases(q, p) /\ managed(q, p)' = managed(q, p)
    BY <1>1 DEF transitions, committed, recreates, phases, claimBefore, claimPrepared,
                claimAfter, managed
  <1>4. transitions(q) \subseteq Paths /\ journal[q].intents \subseteq Paths
    BY JournalFields
  <1>5. claimed(q)'
    <2>1. ASSUME NEW p \in transitions(q)  PROVE phased(q, p)'
      <3>1. p \in Paths /\ p \in journal[q].entries
        BY <1>4 DEF transitions
      <3>2. phased(q, p)
        BY DEF sound, claimed
      <3>3. CASE registry'[p] = registry[p]
        BY <1>1, <1>3, <3>1, <3>2, <3>3 DEF phased, takenOver
      <3>4. CASE registry'[p] # registry[p]
        <4>1. registry[p].owner # q /\ registry'[p].owner # q
          BY <3>1, <3>4 DEF mildTo
        <4>2. NoClaim \in phases(q, p)
          <5>1. registry[p] \in phases(q, p) => registry[p] = NoClaim
            BY <3>1, <4>1, PhaseOwners, Owners
          <5> QED BY <3>2, <5>1 DEF phased
        <4>3. registry'[p] \in Claims
          BY <3>1 DEF TypeOK
        <4>4. registry'[p] = NoClaim \/ registry'[p].owner \notin {q, Nobody}
          BY <4>1, <4>3, Owners
        <4> QED BY <1>1, <1>3, <3>1, <4>2, <4>4 DEF phased, takenOver
      <3> QED BY <3>3, <3>4
    <2>2. ASSUME NEW p \in journal[q].intents
          PROVE  registry'[p].owner # q /\ (committed(q)' => p \in lapsed'[q])
      BY <1>1, <1>3, <1>4 DEF sound, claimed, mildTo
    <2>3. ASSUME NEW p \in Paths \ (transitions(q) \cup lapsed[q])  PROVE owned(q, p)'
      <3>1. owned(q, p)
        BY DEF sound, claimed
      <3>2. (registry'[p].owner = q) = (registry[p].owner = q)
        BY DEF mildTo
      <3>3. registry[p].owner = q => registry'[p] = registry[p]
        BY DEF mildTo
      <3> QED BY <1>3, <3>1, <3>2, <3>3 DEF owned, active
    <2> QED BY <1>1, <1>3, <2>1, <2>2, <2>3 DEF claimed
  <1>6. imaged(q)'
    BY <1>1, <1>3, JournalFields
       DEF sound, imaged, untouched, mildTo, before, after, beforeImages, afterImages
  <1> QED BY <1>2, <1>5, <1>6 DEF sound

(* What does not change the five stores is mild to all. *)
LEMMA StillSound ==
  ASSUME TypeOK, TypeOK', \A q \in Projects : sound(q),
         UNCHANGED <<host, registry, statefile, journal, touched, lapsed>>
  PROVE  \A q \in Projects : sound(q)'
  BY MildSound DEF mildTo

(* The registry of the running project's transitions moves to a phase they may be in. *)
LEMMA RegistrySound ==
  ASSUME TypeOK, TypeOK', NEW pr \in Projects, \A q \in Projects : sound(q),
         UNCHANGED <<host, statefile, journal, touched, lapsed>>,
         NEW S \in SUBSET transitions(pr),
         \A p \in Paths \ S : registry'[p] = registry[p],
         \A p \in S : /\ registry[p].owner \in {pr, Nobody}
                      /\ registry'[p] \in phases(pr, p)
  PROVE  \A q \in Projects : sound(q)'
  <1>1. S \subseteq Paths
    BY JournalFields
  <1>2. ASSUME NEW q \in Projects \ {pr}  PROVE sound(q)'
    <2>1. \A p \in S : registry'[p].owner \in {pr, Nobody}
      BY <1>1, PhaseOwners
    <2>2. mildTo(q)
      BY <2>1, ValueAssumption DEF mildTo
    <2> QED BY <2>2, MildSound
  <1>3. sound(pr)'
    <2>1. sound(pr)
      OBVIOUS
    <2>2. journaled(pr)' /\ imaged(pr)'
      BY <2>1 DEF sound, journaled, imaged, interrupted, wellFormed, untouched, before, after,
                  beforeImages, afterImages, committed, recreates
    <2>3. /\ transitions(pr)' = transitions(pr)
          /\ committed(pr)' = committed(pr)
          /\ \A p \in Paths : /\ phases(pr, p)' = phases(pr, p)
                              /\ managed(pr, p)' = managed(pr, p)
                              /\ p \notin S => phased(pr, p)' = phased(pr, p)
      BY DEF transitions, committed, recreates, phases, claimBefore, claimPrepared,
             claimAfter, managed, phased, takenOver
    <2>4. ASSUME NEW p \in transitions(pr)  PROVE phased(pr, p)'
      <3>1. p \in Paths
        BY JournalFields
      <3>2. CASE p \in S
        BY <2>3, <3>1, <3>2 DEF phased
      <3>3. CASE p \notin S
        BY <2>1, <2>3, <3>1, <3>3 DEF sound, claimed
      <3> QED BY <3>2, <3>3
    <2>5. ASSUME NEW p \in journal[pr].intents
          PROVE  registry'[p].owner # pr /\ (committed(pr)' => p \in lapsed'[pr])
      <3>1. p \in Paths \ S
        BY JournalFields DEF transitions
      <3> QED BY <2>1, <2>3, <3>1 DEF sound, claimed
    <2>6. ASSUME NEW p \in Paths \ (transitions(pr) \cup lapsed[pr])  PROVE owned(pr, p)'
      BY <2>1, <2>3 DEF sound, claimed, owned, active
    <2> QED BY <2>2, <2>3, <2>4, <2>5, <2>6 DEF sound, claimed
  <1> QED BY <1>2, <1>3

LEMMA ConvergeSound ==
  ASSUME TypeOK, TypeOK', NEW pr \in Projects, pr = op.project, \A q \in Projects : sound(q),
         UNCHANGED <<host, statefile, journal, touched, lapsed>>,
         NEW claims \in [Paths -> Claims], Converge(claims),
         \A p \in transitions(pr) : /\ registry[p].owner \in {pr, Nobody}
                                    /\ claims[p] \in phases(pr, p)
  PROVE  \A q \in Projects : sound(q)'
  <1>1. transitions(pr) \subseteq Paths
    BY JournalFields
  <1>2. \A p \in Paths \ transitions(pr) : registry'[p] = registry[p]
    BY DEF Converge
  <1>3. \A p \in transitions(pr) : registry'[p] = claims[p]
    BY <1>1 DEF Converge
  <1> QED BY <1>1, <1>2, <1>3, RegistrySound

(* A file takes one of its images before the commit. *)
LEMMA PutSound ==
  ASSUME TypeOK, TypeOK', NEW pr \in Projects, pr = op.project, \A q \in Projects : sound(q),
         UNCHANGED <<registry, statefile, journal, lapsed>>,
         statefile[pr] = journal[pr].stateBefore,
         NEW p \in Paths, NEW image \in {before(pr, p), after(pr, p)}, Put(p, image)
  PROVE  \A q \in Projects : sound(q)'
  <1>0. host' = [host EXCEPT ![p] = image]
    BY DEF Put
  <1>1. ASSUME NEW q \in Projects \ {pr}  PROVE sound(q)'
    <2>1. /\ touched[q] \subseteq touched'[q]
          /\ \A r \in journal[q].entries : host'[r] # host[r] => r \in touched'[q]
      BY <1>0, JournalFields DEF Put, TypeOK
    <2> QED BY <2>1, MildSound DEF mildTo
  <1>2. sound(pr)'
    <2>1. sound(pr)
      OBVIOUS
    <2>2. journaled(pr)'
      BY <2>1 DEF sound, journaled, interrupted, wellFormed
    <2>3. claimed(pr)'
      BY <2>1 DEF sound, claimed, phased, takenOver, phases, owned, active, managed, transitions,
             committed, recreates, claimBefore, claimPrepared, claimAfter
    <2>4. touched'[pr] = touched[pr]
      BY DEF Put
    <2>5. ~committed(pr)'
      BY DEF committed, recreates
    <2>6. imaged(pr)'
      BY <1>0, <2>1, <2>4, <2>5, JournalFields
         DEF sound, imaged, untouched, before, after, beforeImages, afterImages, TypeOK
    <2> QED BY <2>2, <2>3, <2>6 DEF sound
  <1> QED BY <1>1, <1>2

(* The journal is published as it was planned. *)
LEMMA CaptureSound ==
  ASSUME TypeOK, TypeOK', NEW pr \in Projects, pr = op.project, \A q \in Projects : sound(q),
         UNCHANGED <<host, registry, statefile, lapsed>>, planned,
         \A p \in op.draft.entries : host[p] = op.draft.before[p],
         journal' = [journal EXCEPT ![pr] = op.draft],
         touched' = [touched EXCEPT ![pr] = {}]
  PROVE  \A q \in Projects : sound(q)'
  <1>1. ASSUME NEW q \in Projects \ {pr}  PROVE sound(q)'
    BY <1>1, MildSound DEF mildTo, TypeOK
  <1>2. sound(pr)'
    <2>1. /\ journal'[pr] = op.draft /\ touched'[pr] = {} /\ lapsed'[pr] = lapsed[pr]
          /\ statefile'[pr] = statefile[pr] /\ registry' = registry /\ host' = host
      BY DEF TypeOK
    <2>2. journaled(pr)'
      BY <2>1 DEF journaled, interrupted, planned, wellFormed
    <2>3. ~committed(pr)'
      BY <2>1 DEF committed, recreates, planned
    <2>4. op.draft \in JournalType
      BY OpFields
    <2>5. claimed(pr)'
      <3>1. ASSUME NEW p \in transitions(pr)'  PROVE phased(pr, p)'
        <4>1. p \in op.draft.entries \ op.draft.intents /\ p \in Paths
          BY <2>1, <2>4 DEF transitions, JournalType
        <4>2. registry'[p] = claimBefore(pr, p)'
          BY <2>1, <4>1 DEF planned, claimBefore, managed
        <4> QED BY <2>3, <4>2 DEF phased, phases
      <3>2. \A p \in journal'[pr].intents : registry'[p].owner # pr
        BY <2>1 DEF planned
      <3>3. ASSUME NEW p \in Paths \ (transitions(pr)' \cup lapsed'[pr])  PROVE owned(pr, p)'
        <4>1. sound(pr) /\ transitions(pr) = {}
          BY DEF transitions, planned, interrupted
        <4>2. owned(pr, p)
          BY <2>1, <4>1 DEF sound, claimed
        <4> QED BY <2>1, <4>2 DEF owned, active, managed
      <3> QED BY <2>3, <3>1, <3>2, <3>3 DEF claimed
    <2>6. imaged(pr)'
      BY <2>1, <2>3, <2>4 DEF imaged, untouched, before, after, beforeImages, afterImages
    <2> QED BY <2>2, <2>5, <2>6 DEF sound
  <1> QED BY <1>1, <1>2

(* An intent whose output nobody claims becomes a transition. *)
LEMMA PromotedSound ==
  ASSUME TypeOK, TypeOK', NEW pr \in Projects, pr = op.project, \A q \in Projects : sound(q),
         UNCHANGED <<host, registry, statefile, touched, lapsed>>,
         NEW p \in journal[pr].intents, registry[p] = NoClaim,
         statefile[pr] = journal[pr].stateBefore, Promoted(p)
  PROVE  \A q \in Projects : sound(q)'
  <1>0. journal' = [journal EXCEPT ![pr] = [journal[pr] EXCEPT !.intents = journal[pr].intents \ {p}]]
    BY DEF Promoted
  <1>1. ASSUME NEW q \in Projects \ {pr}  PROVE sound(q)'
    BY <1>0, <1>1, MildSound DEF mildTo, TypeOK
  <1>2. sound(pr)'
    <2>0. sound(pr)
      OBVIOUS
    <2>1. /\ journal'[pr].entries = journal[pr].entries
          /\ journal'[pr].intents = journal[pr].intents \ {p}
          /\ journal'[pr].before = journal[pr].before
          /\ journal'[pr].stateBefore = journal[pr].stateBefore
          /\ journal'[pr].stateAfter = journal[pr].stateAfter
      BY <1>0 DEF TypeOK, JournalType
    <2>2. interrupted(pr) /\ wellFormed(journal[pr]) /\ p \in journal[pr].entries
          /\ journal[pr].stateBefore[p] = Absent
      BY <2>0 DEF sound, journaled, interrupted, wellFormed, NoJournal
    <2>3. journaled(pr)'
      BY <2>0, <2>1, <2>2 DEF sound, journaled, interrupted, wellFormed
    <2>4. ~committed(pr)' /\ ~committed(pr)
      BY <2>1 DEF committed, recreates
    <2>5. /\ transitions(pr)' = transitions(pr) \cup {p}
          /\ \A r \in Paths : phases(pr, r)' = phases(pr, r) /\ phased(pr, r)' = phased(pr, r)
                              /\ owned(pr, r)' = owned(pr, r)
      BY <2>1, <2>2, <2>4 DEF transitions, phases, claimBefore, claimPrepared, phased, takenOver,
             owned, active, managed
    <2>6. phased(pr, p)
      BY <2>2, <2>4 DEF phased, phases, claimBefore
    <2>7. claimed(pr)'
      BY <2>0, <2>1, <2>4, <2>5, <2>6, JournalFields DEF sound, claimed
    <2>8. imaged(pr)'
      BY <2>0, <2>1, <2>4 DEF sound, imaged, untouched, before, after, beforeImages, afterImages
    <2> QED BY <2>3, <2>7, <2>8 DEF sound
  <1> QED BY <1>1, <1>2

(* A journal goes when its claims are those of the statefile. *)
LEMMA RetiredSound ==
  ASSUME TypeOK, TypeOK', NEW pr \in Projects, pr = op.project, \A q \in Projects : sound(q),
         UNCHANGED <<host, registry, statefile, lapsed>>, Retired,
         \/ /\ statefile[pr] = journal[pr].stateBefore
            /\ claimsMatch(pr, claimsBefore(pr))
         \/ /\ statefile[pr] = journal[pr].stateAfter
            /\ claimsMatch(pr, claimsAfter(pr))
  PROVE  \A q \in Projects : sound(q)'
  <1>1. ASSUME NEW q \in Projects \ {pr}  PROVE sound(q)'
    BY <1>1, MildSound DEF mildTo, TypeOK, Retired
  <1>2. sound(pr)'
    <2>1. sound(pr)
      OBVIOUS
    <2>2. journal'[pr] = NoJournal
      BY DEF Retired, TypeOK
    <2>3. ASSUME NEW p \in Paths \ lapsed[pr]  PROVE owned(pr, p)
      <3>1. CASE p \in transitions(pr)
        <4>1. registry[p] = IF managed(pr, p) THEN Claim("active", pr) ELSE NoClaim
          BY <3>1 DEF claimsMatch, claimsBefore, claimsAfter, claimBefore, claimAfter, managed
        <4>2. CASE managed(pr, p)
          BY <4>1, <4>2 DEF owned, active, Claim, managed
        <4>3. CASE ~managed(pr, p)
          BY <4>1, <4>3, ClaimPhases DEF owned, managed
        <4> QED BY <4>2, <4>3
      <3>2. CASE p \notin transitions(pr)
        BY <2>1, <3>2 DEF sound, claimed
      <3> QED BY <3>1, <3>2
    <2>4. \A p \in Paths \ lapsed[pr] : owned(pr, p)'
      BY <2>3 DEF owned, active, managed
    <2> QED BY <2>2, <2>4 DEF sound, journaled, claimed, imaged, untouched, interrupted,
                              NoJournal, transitions
  <1> QED BY <1>1, <1>2

(* The statefile is committed over files that are written and claims that are held. *)
LEMMA CommittedSound ==
  ASSUME TypeOK, TypeOK', NEW pr \in Projects, pr = op.project, \A q \in Projects : sound(q),
         UNCHANGED <<host, registry, journal, touched, lapsed>>, StateCommitted,
         interrupted(pr), effecting, committing
  PROVE  \A q \in Projects : sound(q)'
  <1>1. ASSUME NEW q \in Projects \ {pr}  PROVE sound(q)'
    BY <1>1, MildSound DEF mildTo, TypeOK, StateCommitted
  <1>2. sound(pr)'
    <2>1. sound(pr)
      OBVIOUS
    <2>2. statefile'[pr] = journal[pr].stateAfter /\ statefile[pr] = journal[pr].stateBefore
      BY DEF TypeOK, StateCommitted, effecting, stateIsBefore
    <2>3. journaled(pr)'
      BY <2>1, <2>2 DEF sound, journaled, interrupted, wellFormed
    <2>4. \A p \in transitions(pr) : registry[p] = claimPrepared(pr, p)
      BY DEF effecting, reserving, committing, At
    <2>5. transitions(pr)' = transitions(pr)
      BY DEF transitions
    <2>6. journal[pr].intents \subseteq lapsed[pr]
      BY DEF effecting, committing
    <2>7. \A p \in transitions(pr) : phased(pr, p)'
      BY <2>4 DEF phased, phases, claimPrepared
    <2>8. ASSUME NEW p \in Paths \ (transitions(pr) \cup lapsed[pr])  PROVE owned(pr, p)'
      <3>1. p \notin journal[pr].entries /\ owned(pr, p)
        BY <2>1, <2>6 DEF transitions, sound, claimed
      <3>2. journal[pr].stateBefore[p] = journal[pr].stateAfter[p]
        BY <2>1, <3>1 DEF sound, journaled, wellFormed
      <3> QED BY <2>2, <3>1, <3>2 DEF owned, active, managed
    <2>9. claimed(pr)'
      BY <2>1, <2>5, <2>6, <2>7, <2>8 DEF sound, claimed
    <2>10. imaged(pr)'
      BY DEF imaged, untouched, before, after, beforeImages, afterImages, effecting, committing
    <2> QED BY <2>3, <2>9, <2>10 DEF sound
  <1> QED BY <1>1, <1>2

(* A claim that was given up is no longer accounted for. *)
LEMMA LapsedSound ==
  ASSUME TypeOK, TypeOK', NEW pr \in Projects, \A q \in Projects : sound(q),
         UNCHANGED <<host, registry, statefile, journal, touched>>,
         NEW p, lapsed' = [lapsed EXCEPT ![pr] = @ \cup {p}]
  PROVE  \A q \in Projects : sound(q)'
  <1>1. ASSUME NEW q \in Projects \ {pr}  PROVE sound(q)'
    BY <1>1, MildSound DEF mildTo, TypeOK
  <1>2. sound(pr)'
    <2>1. sound(pr) /\ lapsed[pr] \subseteq lapsed'[pr]
      BY DEF TypeOK
    <2>2. journaled(pr)' /\ imaged(pr)'
      BY <2>1 DEF sound, journaled, imaged, interrupted, wellFormed, untouched, before, after,
                  beforeImages, afterImages, committed, recreates
    <2>3. claimed(pr)'
      BY <2>1 DEF sound, claimed, phased, takenOver, phases, owned, active, managed, transitions,
             committed, recreates, claimBefore, claimPrepared, claimAfter
    <2> QED BY <2>2, <2>3 DEF sound
  <1> QED BY <1>1, <1>2

(* Before the commit and after it a claim is in one of two phases. *)
LEMMA BeforePhases ==
  ASSUME TypeOK, NEW pr \in Projects, statefile[pr] = journal[pr].stateBefore
  PROVE  /\ ~committed(pr)
         /\ \A p \in Paths : phases(pr, p) = {claimBefore(pr, p), claimPrepared(pr, p)}
         /\ rollbackEligible(pr) =>
              \A p \in transitions(pr) : registry[p].owner \in {pr, Nobody}
         /\ claimsMatch(pr, claimsBefore(pr)) => rollbackEligible(pr)
         /\ claimsMatch(pr, claimsPrepared(pr)) => rollbackEligible(pr)
  <1>1. ~committed(pr)
    BY DEF committed, recreates
  <1>2. transitions(pr) \subseteq Paths
    BY JournalFields
  <1> QED BY <1>1, <1>2, ClaimPhases
          DEF phases, rollbackEligible, claimsMatch, claimsBefore, claimsPrepared

LEMMA AfterPhases ==
  ASSUME TypeOK, NEW pr \in Projects, statefile[pr] = journal[pr].stateAfter
  PROVE  /\ \A p \in Paths : claimAfter(pr, p) \in phases(pr, p)
         /\ finalizeEligible(pr) =>
              \A p \in transitions(pr) : registry[p].owner \in {pr, Nobody}
         /\ claimsMatch(pr, claimsAfter(pr)) => finalizeEligible(pr)
  <1>1. recreates(pr) => \A p \in Paths : claimAfter(pr, p) = claimBefore(pr, p)
    BY DEF recreates, claimAfter, claimBefore
  <1>2. transitions(pr) \subseteq Paths
    BY JournalFields
  <1> QED BY <1>1, <1>2, ClaimPhases
          DEF committed, phases, finalizeEligible, claimsMatch, claimsAfter

(* While nothing runs, an operation begins or others edit. *)
LEMMA IdleSteps ==
  ASSUME At("idle"), [Next]_vars
  PROVE  \/ \E pr \in Projects : BeginApply(pr) \/ BeginRecover(pr)
         \/ \E p \in Paths : Edit(p)
         \/ UNCHANGED vars
  BY DEF Next, Progress, Disturb, At, CaptureJournal, RefuseCapture, PrepareClaims,
     ValidatePrepared, RefusePrepared, Settle, CommitState, FinalizeClaims, LoadPlan,
     RollbackClaims, FinishCompensate, RetireJournal, RefuseRetire, ApplyEffect,
     RefuseEffect, SkipPromotion, RefusePromotion, PromoteIntent, ReserveClaim,
     RestoreEntry, RefuseRestore, CompensateEntry, FailCapture, FailPrepare, FailSettle,
     FailCommit, FailFinalize, FailLoad, FailRollbackClaims, FailRetire, Crash,
     FailEffect, FailPromotion, FailReserve, FailRestore, FailCompensate, writing,
     promoting, restoring, committing

(* Every step leaves every project sound. *)
LEMMA SoundStep ==
  ASSUME Inv, TypeOK', [Next]_vars
  PROVE  \A q \in Projects : sound(q)'
  <1> USE DEF Inv
  <1>1. ASSUME \/ \E pr \in Projects : BeginApply(pr) \/ BeginRecover(pr)
               \/ RefuseCapture \/ ValidatePrepared \/ RefusePrepared \/ LoadPlan \/ FailLoad
               \/ FinishCompensate \/ RefuseRetire \/ Crash
               \/ \E p \in Paths : \/ RefuseEffect(p) \/ RefusePromotion(p) \/ RefuseRestore(p)
                                   \/ FailCompensate(p)
               \/ UNCHANGED vars
        PROVE  \A q \in Projects : sound(q)'
    <2>1. UNCHANGED <<host, registry, statefile, journal, touched, lapsed>>
      BY <1>1 DEF BeginApply, BeginRecover, RefuseCapture, ValidatePrepared, RefusePrepared,
           LoadPlan, FailLoad, FinishCompensate, RefuseRetire, Crash, RefuseEffect,
           RefusePromotion, RefuseRestore, FailCompensate, vars
    <2> QED BY <2>1, StillSound
  <1>2. ASSUME NEW pr \in Projects, pr = op.project, CaptureJournal \/ FailCapture
        PROVE  \A q \in Projects : sound(q)'
    <2>1. planned
      BY <1>2 DEF Established, At, CaptureJournal, FailCapture
    <2>2. CASE UNCHANGED <<journal, touched>>
      BY <1>2, <2>2, StillSound DEF CaptureJournal, FailCapture
    <2>3. CASE /\ journal' = [journal EXCEPT ![pr] = op.draft]
               /\ touched' = [touched EXCEPT ![pr] = {}]
      BY <1>2, <2>1, <2>3, CaptureSound DEF CaptureJournal, FailCapture
    <2> QED BY <1>2, <2>2, <2>3 DEF CaptureJournal, FailCapture
  <1>3. ASSUME NEW pr \in Projects, pr = op.project,
               \/ PrepareClaims \/ FailPrepare \/ Settle \/ FailSettle \/ RollbackClaims
               \/ FailRollbackClaims
        PROVE  \A q \in Projects : sound(q)'
    <2>1. statefile[pr] = journal[pr].stateBefore
      BY <1>3 DEF Established, At, preparing, undoing, stateIsBefore, PrepareClaims, FailPrepare,
           Settle, FailSettle, RollbackClaims, FailRollbackClaims
    <2>2. rollbackEligible(pr)
      BY <1>3, <2>1, BeforePhases DEF Established, At, preparing, undoing, PrepareClaims,
           FailPrepare, Settle, FailSettle, RollbackClaims, FailRollbackClaims
    <2>3. UNCHANGED <<host, statefile, journal, touched, lapsed>>
      BY <1>3 DEF PrepareClaims, FailPrepare, Settle, FailSettle, RollbackClaims,
           FailRollbackClaims
    <2>4. CASE UNCHANGED registry
      BY <2>3, <2>4, StillSound
    <2>5. ASSUME NEW claims \in {claimsBefore(pr), claimsPrepared(pr)}, Converge(claims)
          PROVE  \A q \in Projects : sound(q)'
      <3>1. claims \in [Paths -> Claims]
        BY ClaimsType
      <3>2. \A p \in transitions(pr) : registry[p].owner \in {pr, Nobody}
        BY <2>1, <2>2, BeforePhases
      <3>3. \A p \in transitions(pr) : claims[p] \in phases(pr, p)
        <4>1. transitions(pr) \subseteq Paths
          BY JournalFields
        <4>2. \A p \in Paths : claims[p] \in {claimBefore(pr, p), claimPrepared(pr, p)}
          BY DEF claimsBefore, claimsPrepared
        <4> QED BY <2>1, <4>1, <4>2, BeforePhases
      <3> QED BY <1>3, <2>3, <2>5, <3>1, <3>2, <3>3, ConvergeSound
    <2> QED BY <1>3, <2>4, <2>5 DEF PrepareClaims, FailPrepare, Settle, FailSettle,
             RollbackClaims, FailRollbackClaims
  <1>4. ASSUME NEW pr \in Projects, pr = op.project, FinalizeClaims \/ FailFinalize
        PROVE  \A q \in Projects : sound(q)'
    <2>1. statefile[pr] = journal[pr].stateAfter /\ finalizeEligible(pr)
      BY <1>4 DEF Established, At, finishing, stateIsAfter, FinalizeClaims, FailFinalize
    <2>2. CASE UNCHANGED registry
      BY <1>4, <2>2, StillSound DEF FinalizeClaims, FailFinalize
    <2>3. CASE Converge(claimsAfter(pr))
      <3>1. claimsAfter(pr) \in [Paths -> Claims]
        BY ClaimsType
      <3>2. \A p \in transitions(pr) : /\ registry[p].owner \in {pr, Nobody}
                                       /\ claimsAfter(pr)[p] \in phases(pr, p)
        BY <2>1, AfterPhases, JournalFields DEF claimsAfter
      <3>3. UNCHANGED <<host, statefile, journal, touched, lapsed>>
        BY <1>4 DEF FinalizeClaims, FailFinalize
      <3> QED BY <1>4, <2>3, <3>1, <3>2, <3>3, ConvergeSound
    <2> QED BY <1>4, <2>2, <2>3 DEF FinalizeClaims, FailFinalize
  <1>5. ASSUME NEW pr \in Projects, pr = op.project, NEW p \in Paths,
               ReserveClaim(p) \/ FailReserve(p)
        PROVE  \A q \in Projects : sound(q)'
    <2>1. UNCHANGED <<host, statefile, journal, touched, lapsed>>
      BY <1>5 DEF ReserveClaim, FailReserve
    <2>2. CASE UNCHANGED registry
      BY <2>1, <2>2, StillSound
    <2>3. CASE Reserved(p)
      <3>1. effecting /\ reserving(p) /\ p \in journal[pr].entries
        BY <1>5, OpFields DEF Established, At, reserving, first, effecting, ReserveClaim, FailReserve
      <3>2. p \in transitions(pr) /\ registry[p] = NoClaim
        BY <1>5, <3>1 DEF effecting, transitions
      <3>3. statefile[pr] = journal[pr].stateBefore
        BY <1>5, <3>1 DEF effecting, stateIsBefore
      <3>4. registry'[p] \in phases(pr, p)
        BY <1>5, <2>3, <3>3, BeforePhases DEF Reserved, TypeOK
      <3>5. \A r \in Paths \ {p} : registry'[r] = registry[r]
        BY <2>3 DEF Reserved, TypeOK
      <3>6. registry[p].owner \in {pr, Nobody}
        BY <3>2, ClaimPhases
      <3>7. {p} \in SUBSET transitions(pr)
        BY <3>2
      <3>8. \A r \in {p} : registry[r].owner \in {pr, Nobody} /\ registry'[r] \in phases(pr, r)
        BY <3>4, <3>6
      <3> QED BY <2>1, <3>5, <3>7, <3>8, RegistrySound
    <2> QED BY <1>5, <2>2, <2>3 DEF ReserveClaim, FailReserve
  <1>6. ASSUME NEW pr \in Projects, pr = op.project, NEW p \in Paths,
               \/ ApplyEffect(p) \/ FailEffect(p) \/ RestoreEntry(p) \/ FailRestore(p)
               \/ CompensateEntry(p)
        PROVE  \A q \in Projects : sound(q)'
    <2>1. statefile[pr] = journal[pr].stateBefore
      BY <1>6 DEF Established, At, effecting, undoing, stateIsBefore, ApplyEffect, FailEffect,
           RestoreEntry, FailRestore, CompensateEntry, writing, restoring
    <2>2. UNCHANGED <<registry, statefile, journal, lapsed>>
      BY <1>6 DEF ApplyEffect, FailEffect, RestoreEntry, FailRestore, CompensateEntry
    <2>3. CASE UNCHANGED <<host, touched>>
      BY <2>2, <2>3, StillSound
    <2>4. ASSUME NEW image \in {before(pr, p), after(pr, p)}, Put(p, image)
          PROVE  \A q \in Projects : sound(q)'
      BY <1>6, <2>1, <2>2, <2>4, PutSound
    <2> QED BY <1>6, <2>3, <2>4 DEF ApplyEffect, FailEffect, RestoreEntry, FailRestore,
             CompensateEntry
  <1>7. ASSUME NEW pr \in Projects, pr = op.project, NEW p \in Paths,
               PromoteIntent(p) \/ FailPromotion(p)
        PROVE  \A q \in Projects : sound(q)'
    <2>1. effecting /\ At("effect") /\ p \in op.todo \cap op.done
      BY <1>7 DEF Established, At, PromoteIntent, FailPromotion, promoting, first
    <2>2. p \in journal[pr].intents
      BY <1>7, <2>1 DEF effecting, reserving, At
    <2>3. statefile[pr] = journal[pr].stateBefore
      BY <1>7, <2>1 DEF effecting, stateIsBefore
    <2>4. UNCHANGED <<host, registry, statefile, touched, lapsed>> /\ registry[p] = NoClaim
      BY <1>7 DEF PromoteIntent, FailPromotion
    <2>5. CASE UNCHANGED journal
      BY <2>4, <2>5, StillSound
    <2>6. CASE Promoted(p)
      BY <1>7, <2>2, <2>3, <2>4, <2>6, PromotedSound
    <2> QED BY <1>7, <2>5, <2>6 DEF PromoteIntent, FailPromotion
  <1>8. ASSUME NEW pr \in Projects, pr = op.project, NEW p \in Paths, SkipPromotion(p)
        PROVE  \A q \in Projects : sound(q)'
    BY <1>8, LapsedSound DEF SkipPromotion
  <1>9. ASSUME NEW pr \in Projects, pr = op.project, CommitState \/ FailCommit
        PROVE  \A q \in Projects : sound(q)'
    <2>1. effecting /\ committing /\ interrupted(pr)
      BY <1>9 DEF Established, At, CommitState, FailCommit, committing
    <2>2. CASE UNCHANGED statefile
      BY <1>9, <2>2, StillSound DEF CommitState, FailCommit
    <2>3. CASE StateCommitted
      BY <1>9, <2>1, <2>3, CommittedSound DEF CommitState, FailCommit
    <2> QED BY <1>9, <2>2, <2>3 DEF CommitState, FailCommit
  <1>10. ASSUME NEW pr \in Projects, pr = op.project, RetireJournal \/ FailRetire
         PROVE  \A q \in Projects : sound(q)'
    <2>1. finishing
      BY <1>10 DEF Established, At, RetireJournal, FailRetire
    <2>2. knownState = statefile[pr]
      BY <1>10, <2>1, OpFields DEF knownState, finishing, stateIsBefore, stateIsAfter, Goals
    <2>3. \/ /\ statefile[pr] = journal[pr].stateBefore
             /\ claimsMatch(pr, claimsBefore(pr))
          \/ /\ statefile[pr] = journal[pr].stateAfter
             /\ claimsMatch(pr, claimsAfter(pr))
      BY <1>10, <2>2, Classified DEF RetireJournal, FailRetire, loaded, clean
    <2>4. CASE UNCHANGED <<journal, touched>>
      BY <1>10, <2>4, StillSound DEF RetireJournal, FailRetire
    <2>5. CASE Retired
      BY <1>10, <2>3, <2>5, RetiredSound DEF RetireJournal, FailRetire
    <2> QED BY <1>10, <2>4, <2>5 DEF RetireJournal, FailRetire
  <1>11. ASSUME NEW p \in Paths, Edit(p)  PROVE \A q \in Projects : sound(q)'
    <2>1. ASSUME NEW q \in Projects  PROVE mildTo(q)
      BY <1>11 DEF Edit, mildTo, TypeOK
    <2> QED BY <2>1, MildSound
  <1>12. ~At("idle") => op.project \in Projects
    BY Running
  <1>13. CASE At("idle")
    BY <1>1, <1>11, <1>13, IdleSteps
  <1>14. CASE ~At("idle")
    BY <1>1, <1>2, <1>3, <1>4, <1>5, <1>6, <1>7, <1>8, <1>9, <1>10, <1>11, <1>12, <1>14
       DEF Next, Progress, Disturb
  <1> QED BY <1>13, <1>14

-----------------------------------------------------------------------------
(* What the running operation has established. *)

LEMMA IdleEstablished ==
  ASSUME op' = Idle
  PROVE  Established'
  BY DEF Established, At, Idle

(* The steps of an operation and the parts of Established that they have to keep. *)
LEMMA StepEstablished ==
  ASSUME NEW pr \in Projects, op'.project = pr, op'.step \in Steps \ {"idle", "capture"},
         interrupted(pr)',
         op'.selected \cup op'.todo \cup op'.done \subseteq journal'[pr].entries,
         \/ op'.goal = "commit" /\ op'.step \in {"prepare", "validate", "settle"} /\ preparing'
         \/ op'.goal = "commit" /\ op'.step \in {"effect", "reserve"} /\ effecting'
         \/ op'.step \in {"load", "restore", "compensate"} /\ undoing'
         \/ op'.step \in {"finalize", "retire"} /\ finishing'
  PROVE  Established'
  BY DEF Established, At

LEMMA RollBackEstablished ==
  ASSUME TypeOK, NEW pr \in Projects, pr = op.project, NEW done, RollBack(done),
         done \subseteq journal'[pr].entries, interrupted(pr)',
         statefile'[pr] = journal'[pr].stateBefore,
         \A p \in untouched(pr)' \ done : host'[p] = before(pr, p)'
  PROVE  Established'
  <1>1. /\ op'.step = "load" /\ op'.goal = "rollback" /\ op'.project = pr
        /\ op'.selected = done /\ op'.todo = {} /\ op'.done = {}
    BY OpFields DEF RollBack, OpType
  <1>2. undoing'
    BY <1>1 DEF undoing, At, stateIsBefore, atBefore
  <1> QED BY <1>1, <1>2, StepEstablished DEF Steps

(* A write of the running operation. *)
LEMMA PutEffect ==
  ASSUME TypeOK, NEW pr \in Projects, pr = op.project, NEW p \in Paths, NEW image, Put(p, image)
  PROVE  /\ touched'[pr] = touched[pr]
         /\ host'[p] = image
         /\ \A q \in Paths \ {p} : host'[q] = host[q]
  BY DEF Put, TypeOK

(* All transitions have the claims that the registry converged to. *)
LEMMA Converged ==
  ASSUME TypeOK, NEW pr \in Projects, pr = op.project, NEW claims, Converge(claims),
         UNCHANGED journal
  PROVE  \A p \in transitions(pr)' : p \in Paths /\ registry'[p] = claims[p]
  <1>1. transitions(pr)' = transitions(pr) /\ transitions(pr) \subseteq Paths
    BY JournalFields DEF transitions
  <1> QED BY <1>1 DEF Converge

(* A plan that nothing blocks is well formed, and its claims are as its statefile says. *)
LEMMA Planned ==
  ASSUME TypeOK, NEW pr \in Projects, BeginApply(pr)
  PROVE  Established'
  <1>1. PICK want \in [Paths -> Images], manage \in BOOLEAN :
           /\ \A p \in Paths : /\ ~contentBlocked(pr, p, want, manage)
                               /\ ~claimBlocked(pr, p, want)
           /\ effects(pr, want) # {}
           /\ op' = [Idle EXCEPT !.step = "capture", !.project = pr, !.draft = Draft(pr, want)]
    BY DEF BeginApply
  <1>2. /\ op'.step = "capture" /\ op'.project = pr /\ op'.goal = "commit"
        /\ op'.draft = Draft(pr, want)
        /\ op'.selected \cup op'.todo \cup op'.done = {}
    BY <1>1 DEF Idle
  <1>3. /\ ~interrupted(pr)
        /\ UNCHANGED <<host, registry, statefile, journal>>
    BY DEF BeginApply
  <1>4. /\ Draft(pr, want).entries = effects(pr, want)
        /\ Draft(pr, want).intents = intents(pr, want)
        /\ Draft(pr, want).stateBefore = statefile[pr]
        /\ Draft(pr, want).stateAfter = want
        /\ \A p \in effects(pr, want) : Draft(pr, want).before[p] = host[p]
    BY DEF Draft, effects
  <1>5. effects(pr, want) \subseteq Paths /\ intents(pr, want) \subseteq effects(pr, want)
    BY DEF effects, intents
  <1>6. wellFormed(Draft(pr, want))
    <2>1. \A p \in Paths \ effects(pr, want) : statefile[pr][p] = want[p]
      BY DEF effects, managed
    <2>2. \A p \in effects(pr, want) : statefile[pr][p] # Absent \/ want[p] # Absent
      BY DEF effects, managed
    <2>3. \A p \in intents(pr, want) : statefile[pr][p] = Absent /\ host[p] = Absent
      BY DEF intents, managed, exact
    <2> QED BY <1>4, <1>5, <2>1, <2>2, <2>3 DEF wellFormed
  <1>7. ASSUME NEW p \in effects(pr, want) \ intents(pr, want)
        PROVE  registry[p] = IF managed(pr, p) THEN Claim("active", pr) ELSE NoClaim
    <2>1. p \in Paths /\ ~claimBlocked(pr, p, want)
      BY <1>1, <1>5
    <2>2. CASE managed(pr, p)
      BY <2>1, <2>2 DEF claimBlocked
    <2>3. CASE ~managed(pr, p)
      <3>1. want[p] # Absent /\ exact(p)
        BY <1>7, <2>3 DEF effects, intents
      <3> QED BY <2>1, <2>3, <3>1 DEF claimBlocked, visibleClaim
    <2> QED BY <2>2, <2>3
  <1>8. ASSUME NEW p \in intents(pr, want)  PROVE registry[p].owner # pr
    <2>1. p \in Paths /\ ~claimBlocked(pr, p, want)
      BY <1>1, <1>5
    <2>2. visibleClaim(pr, p) = NoClaim
      BY <2>1 DEF claimBlocked, intents
    <2> QED BY <2>1, <2>2, ClaimPhases DEF visibleClaim
  <1>9. \A p \in Paths : managed(pr, p)' = managed(pr, p)
    BY <1>3 DEF managed
  <1>10. planned'
    BY <1>1, <1>2, <1>3, <1>4, <1>5, <1>6, <1>7, <1>8, <1>9 DEF planned, interrupted
  <1> QED BY <1>2, <1>10 DEF Established, At

LEMMA BeginRecoverEstablished ==
  ASSUME TypeOK, NEW pr \in Projects, BeginRecover(pr)
  PROVE  Established'
  <1>1. /\ op'.step = "load" /\ op'.project = pr /\ op'.goal = "recover"
        /\ op'.selected = journal'[pr].entries /\ op'.todo = {} /\ op'.done = {}
    BY DEF BeginRecover, Idle
  <1>2. interrupted(pr)'
    BY DEF BeginRecover, interrupted
  <1>3. undoing'
    BY <1>1 DEF undoing, At
  <1> QED BY <1>1, <1>2, <1>3, StepEstablished DEF Steps

(* Until the effects begin, no file has been written. *)
LEMMA PrepareEstablished ==
  ASSUME TypeOK, Established, NEW pr \in Projects, pr = op.project, sound(pr),
         \/ CaptureJournal \/ PrepareClaims \/ FailPrepare \/ ValidatePrepared
         \/ RefusePrepared \/ Settle
  PROVE  Established'
  <1>0. op \in OpType
    BY OpFields
  <1>1. CASE CaptureJournal
    <2>1. planned /\ op.goal = "commit" /\ op.selected \cup op.todo \cup op.done = {}
      BY <1>1 DEF CaptureJournal, Established, At
    <2>2. /\ op'.step = "prepare" /\ op'.project = pr /\ op'.goal = "commit"
          /\ op'.selected \cup op'.todo \cup op'.done = {}
      BY <1>0, <1>1, <2>1 DEF CaptureJournal, OpType
    <2>3. /\ journal'[pr] = op.draft /\ touched'[pr] = {}
          /\ UNCHANGED <<host, registry, statefile>>
      BY <1>1 DEF CaptureJournal, TypeOK
    <2>4. interrupted(pr)' /\ stateIsBefore'
      BY <2>1, <2>2, <2>3 DEF planned, interrupted, stateIsBefore
    <2>5. atBefore({})'
      BY <1>1, <2>2, <2>3 DEF atBefore, CaptureJournal, untouched, before, beforeImages
    <2>6. claimsMatch(pr, claimsBefore(pr))'
      <3>1. op.draft.entries \subseteq Paths
        BY OpFields DEF JournalType
      <3>2. \A p \in op.draft.entries \ op.draft.intents :
              registry[p] = IF statefile[pr][p] # Absent THEN Claim("active", pr) ELSE NoClaim
        BY <2>1 DEF planned, managed
      <3> QED BY <2>1, <2>3, <3>1, <3>2
              DEF claimsMatch, claimsBefore, claimBefore, transitions, planned
    <2>7. preparing'
      BY <2>2, <2>4, <2>5, <2>6 DEF preparing, At
    <2> QED BY <2>2, <2>4, <2>7, StepEstablished DEF Steps
  <1>2. CASE PrepareClaims \/ FailPrepare \/ ValidatePrepared \/ RefusePrepared \/ Settle
    <2>1. preparing /\ op.goal = "commit" /\ interrupted(pr)
      BY <1>2 DEF Established, At, PrepareClaims, FailPrepare, ValidatePrepared,
           RefusePrepared, Settle
    <2>2. UNCHANGED <<host, statefile, journal, touched, lapsed>>
      BY <1>2 DEF PrepareClaims, FailPrepare, ValidatePrepared, RefusePrepared, Settle
    <2>3. op'.project = pr /\ op'.selected = {} /\ op'.done = {}
      BY <1>0, <1>2, <2>1 DEF preparing, PrepareClaims, FailPrepare, ValidatePrepared,
           RefusePrepared, Settle, Go, OpType
    <2>4. interrupted(pr)' /\ stateIsBefore' /\ atBefore({})'
      BY <2>1, <2>2, <2>3 DEF preparing, interrupted, stateIsBefore, atBefore, untouched, before,
           beforeImages
    <2>5. transitions(pr)' = transitions(pr) /\ transitions(pr) \subseteq Paths
      BY <2>2, JournalFields DEF transitions
    <2>6. \A p \in Paths : /\ claimBefore(pr, p)' = claimBefore(pr, p)
                           /\ claimPrepared(pr, p)' = claimPrepared(pr, p)
      BY <2>2 DEF claimBefore, claimPrepared
    <2>7. CASE PrepareClaims
      <3>1. op'.step = "validate" /\ op'.goal = "commit" /\ op'.todo = {}
        BY <1>0, <2>1, <2>7 DEF PrepareClaims, Go, OpType, preparing
      <3>2. claimsMatch(pr, claimsPrepared(pr))'
        BY <2>2, <2>5, <2>6, <2>7, Converged DEF PrepareClaims, claimsMatch, claimsPrepared
      <3>3. preparing'
        BY <2>3, <2>4, <3>1, <3>2 DEF preparing, At
      <3> QED BY <2>3, <2>4, <3>1, <3>3, StepEstablished DEF Steps
    <2>8. CASE FailPrepare \/ RefusePrepared
      <3>1. op'.step = "settle" /\ op'.goal = "commit" /\ op'.todo = {}
        BY <1>0, <2>1, <2>8 DEF FailPrepare, RefusePrepared, Go, OpType, preparing
      <3>2. \A p \in transitions(pr) :
              registry'[p] \in {claimBefore(pr, p), claimPrepared(pr, p)}
        <4>1. CASE Converge(claimsPrepared(pr))
          BY <2>2, <2>5, <4>1, Converged DEF claimsPrepared
        <4>2. CASE UNCHANGED registry
          <5>1. claimsMatch(pr, claimsBefore(pr)) \/ claimsMatch(pr, claimsPrepared(pr))
            BY <2>1, <2>8 DEF preparing, At, FailPrepare, RefusePrepared
          <5> QED BY <2>5, <4>2, <5>1 DEF claimsMatch, claimsBefore, claimsPrepared
        <4> QED BY <2>8, <4>1, <4>2 DEF FailPrepare, RefusePrepared
      <3>3. rollbackEligible(pr)'
        BY <2>5, <2>6, <3>2 DEF rollbackEligible
      <3>4. preparing'
        BY <2>3, <2>4, <3>1, <3>3 DEF preparing, At
      <3> QED BY <2>3, <2>4, <3>1, <3>4, StepEstablished DEF Steps
    <2>9. CASE ValidatePrepared
      <3>1. op'.step = "effect" /\ op'.goal = "commit" /\ op'.todo = journal'[pr].entries
        BY <1>0, <2>1, <2>2, <2>9 DEF ValidatePrepared, OpType
      <3>2. \A p : ~reserving(p)'
        BY <3>1 DEF reserving, At
      <3>3. \A p \in transitions(pr)' : registry'[p] = claimPrepared(pr, p)'
        BY <2>1, <2>5, <2>6, <2>9 DEF preparing, At, ValidatePrepared, claimsMatch, claimsPrepared
      <3>4. \A p \in untouched(pr)' : host'[p] = before(pr, p)'
        BY <2>3, <2>4 DEF atBefore
      <3>5. journal'[pr].intents \subseteq journal'[pr].entries
        BY <2>1, <2>2 DEF sound, journaled, wellFormed
      <3>6. effecting'
        BY <2>3, <2>4, <3>1, <3>2, <3>3, <3>4, <3>5 DEF effecting
      <3> QED BY <2>3, <2>4, <3>1, <3>6, StepEstablished DEF Steps
    <2>10. CASE Settle
      <3>1. op'.step = "retire" /\ op'.goal = "settle" /\ op'.todo = {}
        BY <1>0, <2>1, <2>10 DEF Settle, OpType, preparing
      <3>2. claimsMatch(pr, claimsBefore(pr))'
        BY <2>2, <2>5, <2>6, <2>10, Converged DEF Settle, claimsMatch, claimsBefore
      <3>3. allBefore(pr)'
        BY <2>3, <2>4, <3>2
           DEF allBefore, allOf, stateIsBefore, atBefore, untouched, before
      <3>4. finishing'
        BY <2>3, <2>4, <3>1, <3>3 DEF finishing, At
      <3> QED BY <2>3, <2>4, <3>1, <3>4, StepEstablished DEF Steps
    <2> QED BY <1>2, <2>7, <2>8, <2>9, <2>10
  <1> QED BY <1>1, <1>2

(* The effects are written in order, each file after its claim was prepared or before
   it is promoted. *)
LEMMA EffectEstablished ==
  ASSUME TypeOK, Established, NEW pr \in Projects, pr = op.project, NEW p \in Paths,
         ApplyEffect(p) \/ SkipPromotion(p) \/ ReserveClaim(p)
  PROVE  Established'
  <1>1. effecting /\ op.goal = "commit" /\ interrupted(pr) /\ op \in OpType
    BY OpFields DEF Established, At, ApplyEffect, SkipPromotion, ReserveClaim, writing, promoting
  <1>2. op.selected \cup op.todo \cup op.done \subseteq journal[pr].entries
    BY DEF Established, At, ApplyEffect, SkipPromotion, ReserveClaim, writing, promoting
  <1>3. UNCHANGED <<statefile, journal>> /\ touched'[pr] = touched[pr] /\ p \in op.todo
    BY PutEffect DEF ApplyEffect, SkipPromotion, ReserveClaim, writing, promoting, first
  <1>4. /\ op'.step = "effect" /\ op'.project = pr /\ op'.goal = "commit"
        /\ op'.selected = op.selected
        /\ op'.todo = IF ApplyEffect(p) /\ p \in journal[pr].intents THEN op.todo ELSE op.todo \ {p}
        /\ op'.done = IF ApplyEffect(p) THEN op.done \cup {p} ELSE op.done
    <2>1. CASE ApplyEffect(p)
      BY <1>1, <2>1 DEF ApplyEffect, Written, OpType, writing, At
    <2>2. CASE SkipPromotion(p)
      BY <1>1, <2>2 DEF SkipPromotion, ApplyEffect, OpType, writing, promoting, At
    <2>3. CASE ReserveClaim(p)
      BY <1>1, <2>3 DEF ReserveClaim, ApplyEffect, OpType, writing, At
    <2> QED BY <2>1, <2>2, <2>3
  <1>5. interrupted(pr)' /\ stateIsBefore'
    BY <1>1, <1>3, <1>4 DEF interrupted, effecting, stateIsBefore
  <1>6. ASSUME NEW q \in transitions(pr)  PROVE registry'[q] = claimPrepared(pr, q)
    <2>1. q \in Paths
      BY JournalFields
    <2>2. registry[q] = IF reserving(q) THEN NoClaim ELSE claimPrepared(pr, q)
      BY <1>1 DEF effecting
    <2>3. CASE ApplyEffect(p) \/ SkipPromotion(p)
      BY <2>2, <2>3 DEF ApplyEffect, SkipPromotion, writing, promoting, reserving, At
    <2>4. CASE ReserveClaim(p)
      <3>1. CASE q = p
        BY <2>1, <2>4, <3>1 DEF ReserveClaim, Reserved, TypeOK
      <3>2. CASE q # p
        <4>1. ~reserving(q)
          BY <2>4, <3>2, FirstUnique, OpFields DEF ReserveClaim, reserving
        <4> QED BY <2>1, <2>2, <2>4, <3>2, <4>1 DEF ReserveClaim, Reserved, TypeOK
      <3> QED BY <3>1, <3>2
    <2> QED BY <2>3, <2>4
  <1>7. ASSUME NEW q \in untouched(pr)
        PROVE  host'[q] = IF q \in op'.done THEN after(pr, q) ELSE before(pr, q)
    <2>1. q \in Paths
      BY JournalFields DEF untouched
    <2>2. host[q] = IF q \in op.done THEN after(pr, q) ELSE before(pr, q)
      BY <1>1 DEF effecting
    <2>3. CASE ApplyEffect(p)
      BY <1>4, <2>1, <2>2, <2>3, PutEffect DEF ApplyEffect
    <2>4. CASE SkipPromotion(p) \/ ReserveClaim(p)
      <3>1. ~ApplyEffect(p)
        BY <2>4 DEF ApplyEffect, SkipPromotion, ReserveClaim, writing, promoting, At
      <3> QED BY <1>4, <2>2, <2>4, <3>1 DEF SkipPromotion, ReserveClaim
    <2> QED BY <2>3, <2>4
  <1>8. /\ journal[pr].entries \subseteq op'.todo \cup op'.done
        /\ journal[pr].intents \subseteq op'.todo \cup lapsed'[pr]
        /\ op'.todo \cap op'.done \subseteq journal[pr].intents
    <2>1. /\ journal[pr].entries \subseteq op.todo \cup op.done
          /\ journal[pr].intents \subseteq op.todo \cup lapsed[pr]
          /\ \A q \in op.todo \cap op.done : q \in journal[pr].intents \/ reserving(q)
      BY <1>1 DEF effecting
    <2>2. CASE ApplyEffect(p)
      BY <1>4, <2>1, <2>2 DEF ApplyEffect, writing, reserving, At
    <2>3. CASE SkipPromotion(p)
      BY <1>4, <2>1, <2>3 DEF SkipPromotion, ApplyEffect, writing, promoting, reserving, At, TypeOK
    <2>4. CASE ReserveClaim(p)
      <3>1. reserving(p) /\ \A q \in op.todo \ {p} : ~reserving(q)
        BY <2>4, FirstUnique, OpFields DEF ReserveClaim, reserving
      <3>2. p \in op.done \ journal[pr].intents
        BY <1>1, <3>1 DEF effecting
      <3> QED BY <1>4, <2>1, <2>4, <3>1, <3>2 DEF ReserveClaim, ApplyEffect, writing, At
    <2> QED BY <2>1, <2>2, <2>3, <2>4
  <1>9. effecting'
    <2>1. \A q : ~reserving(q)'
      BY <1>4 DEF reserving, At
    <2>2. \A q \in transitions(pr)' : registry'[q] = claimPrepared(pr, q)'
      BY <1>3, <1>6 DEF transitions, claimPrepared
    <2>3. \A q \in untouched(pr)' :
            host'[q] = IF q \in op'.done THEN after(pr, q)' ELSE before(pr, q)'
      BY <1>3, <1>7 DEF untouched, before, after, beforeImages, afterImages
    <2> QED BY <1>3, <1>4, <1>5, <1>8, <2>1, <2>2, <2>3 DEF effecting
  <1> QED BY <1>2, <1>3, <1>4, <1>5, <1>9, StepEstablished DEF Steps

(* A promoted intent is the one that is reserved next. *)
LEMMA PromoteEstablished ==
  ASSUME TypeOK, Established, NEW pr \in Projects, pr = op.project, sound(pr),
         NEW p \in Paths, PromoteIntent(p)
  PROVE  Established'
  <1>1. effecting /\ op.goal = "commit" /\ interrupted(pr) /\ op \in OpType /\ At("effect")
    BY OpFields DEF Established, At, PromoteIntent, promoting
  <1>2. op.selected \cup op.todo \cup op.done \subseteq journal[pr].entries
    BY <1>1 DEF Established, At
  <1>3. /\ op'.step = "reserve" /\ op'.project = pr /\ op'.goal = "commit"
        /\ op'.selected = op.selected /\ op'.todo = op.todo /\ op'.done = op.done
    BY <1>1 DEF PromoteIntent, Go, OpType
  <1>4. /\ journal'[pr].entries = journal[pr].entries
        /\ journal'[pr].intents = journal[pr].intents \ {p}
        /\ journal'[pr].before = journal[pr].before
        /\ journal'[pr].stateBefore = journal[pr].stateBefore
        /\ journal'[pr].stateAfter = journal[pr].stateAfter
    BY DEF PromoteIntent, Promoted, TypeOK, JournalType
  <1>5. UNCHANGED <<host, registry, statefile, touched, lapsed>> /\ registry[p] = NoClaim
        /\ p \in op.todo \cap op.done
    BY DEF PromoteIntent, promoting, first
  <1>6. p \in journal[pr].intents /\ p \in journal[pr].entries /\ journal[pr].stateBefore[p] = Absent
    <2>1. p \in journal[pr].intents
      BY <1>1, <1>5 DEF effecting, reserving, At
    <2> QED BY <1>1, <2>1 DEF sound, journaled, wellFormed
  <1>7. \A q \in Paths : reserving(q)' <=> q = p
    <2>1. \A q : reserving(q)' <=> first(q, afterImages(pr))
      BY <1>3, <1>4 DEF reserving, At, first, afterImages
    <2>2. first(p, afterImages(pr))
      BY DEF PromoteIntent, promoting
    <2> QED BY <2>1, <2>2, FirstUnique, OpFields
  <1>8. transitions(pr)' = transitions(pr) \cup {p}
    BY <1>4, <1>6 DEF transitions
  <1>9. \A q \in transitions(pr) : registry[q] = claimPrepared(pr, q) /\ q \in Paths
    BY <1>1, JournalFields DEF effecting, reserving, At
  <1>10. \A q \in transitions(pr)' :
            registry'[q] = IF reserving(q)' THEN NoClaim ELSE claimPrepared(pr, q)'
    <2>1. p \notin transitions(pr)
      BY <1>6 DEF transitions
    <2>2. \A q : claimPrepared(pr, q)' = claimPrepared(pr, q)
      BY <1>4 DEF claimPrepared
    <2> QED BY <1>5, <1>7, <1>8, <1>9, <2>1, <2>2
  <1>11. \A q \in untouched(pr)' :
            host'[q] = IF q \in op'.done THEN after(pr, q)' ELSE before(pr, q)'
    BY <1>1, <1>3, <1>4, <1>5 DEF effecting, untouched, before, after, beforeImages, afterImages
  <1>12. interrupted(pr)' /\ stateIsBefore'
    BY <1>1, <1>3, <1>4, <1>5 DEF interrupted, effecting, stateIsBefore
  <1>13. /\ journal'[pr].entries \subseteq op'.todo \cup op'.done
         /\ journal'[pr].intents \subseteq op'.todo \cup lapsed'[pr]
    BY <1>1, <1>3, <1>4, <1>5 DEF effecting
  <1>14. \A q \in op'.todo \cap op'.done : q \in journal'[pr].intents \/ reserving(q)'
    BY <1>1, <1>3, <1>4, <1>7, OpFields DEF effecting, reserving, At
  <1>15. \A q \in Paths :
            reserving(q)' => /\ q \in op'.done \ journal'[pr].intents
                             /\ journal'[pr].stateBefore[q] = Absent
    BY <1>3, <1>4, <1>5, <1>6, <1>7
  <1>16. effecting'
    BY <1>3, <1>10, <1>11, <1>12, <1>13, <1>14, <1>15 DEF effecting
  <1> QED BY <1>2, <1>3, <1>4, <1>12, <1>16, StepEstablished DEF Steps

(* An apply that gives up knows which entries it has written. *)
LEMMA GiveUpEstablished ==
  ASSUME TypeOK, Established, NEW pr \in Projects, pr = op.project,
         \/ FailCommit
         \/ \E p \in Paths : \/ RefuseEffect(p) \/ FailEffect(p) \/ RefusePromotion(p)
                             \/ FailPromotion(p) \/ FailReserve(p)
  PROVE  Established'
  <1>1. effecting /\ interrupted(pr) /\ op.done \subseteq journal[pr].entries
    BY DEF Established, At, FailCommit, committing, RefuseEffect, FailEffect, RefusePromotion,
           FailPromotion, FailReserve, writing, promoting
  <1>2. statefile[pr] = journal[pr].stateBefore
    BY <1>1 DEF effecting, stateIsBefore
  <1>3. \A q \in untouched(pr) \ op.done : host[q] = before(pr, q)
    BY <1>1 DEF effecting
  <1>4. CASE op' = Idle
    BY <1>4, IdleEstablished
  <1>5. CASE RollBack(op.done) /\ UNCHANGED <<host, statefile, journal, touched>>
    <2>1. interrupted(pr)' /\ statefile'[pr] = journal'[pr].stateBefore
          /\ op.done \subseteq journal'[pr].entries
      BY <1>1, <1>2, <1>5 DEF interrupted
    <2>2. \A q \in untouched(pr)' \ op.done : host'[q] = before(pr, q)'
      BY <1>3, <1>5 DEF untouched, before, beforeImages
    <2> QED BY <1>5, <2>1, <2>2, RollBackEstablished
  <1>6. ASSUME NEW p \in Paths, Promoted(p), UNCHANGED <<host, statefile, touched>>,
               RollBack(op.done)
        PROVE  Established'
    <2>1. /\ journal'[pr].entries = journal[pr].entries
          /\ journal'[pr].before = journal[pr].before
          /\ journal'[pr].stateBefore = journal[pr].stateBefore
      BY <1>6 DEF Promoted, TypeOK, JournalType
    <2>2. interrupted(pr)' /\ statefile'[pr] = journal'[pr].stateBefore
          /\ op.done \subseteq journal'[pr].entries
      BY <1>1, <1>2, <1>6, <2>1 DEF interrupted
    <2>3. \A q \in untouched(pr)' \ op.done : host'[q] = before(pr, q)'
      BY <1>3, <1>6, <2>1 DEF untouched, before, beforeImages
    <2> QED BY <1>6, <2>2, <2>3, RollBackEstablished
  <1>7. ASSUME NEW p \in Paths, FailEffect(p), Put(p, after(pr, p)), RollBack(op.done \cup {p})
        PROVE  Established'
    <2>1. UNCHANGED <<statefile, journal>> /\ p \in journal[pr].entries
      BY <1>7 DEF FailEffect, writing, first, Established, At
    <2>2. interrupted(pr)' /\ statefile'[pr] = journal'[pr].stateBefore
          /\ op.done \cup {p} \subseteq journal'[pr].entries
      BY <1>1, <1>2, <2>1 DEF interrupted
    <2>3. \A q \in untouched(pr)' \ (op.done \cup {p}) : host'[q] = before(pr, q)'
      BY <1>3, <1>7, <2>1, PutEffect, JournalFields DEF untouched, before, beforeImages
    <2> QED BY <1>7, <2>2, <2>3, RollBackEstablished
  <1>8. CASE FailCommit
    BY <1>4, <1>5, <1>8 DEF FailCommit, Return
  <1>9. ASSUME NEW p \in Paths, RefuseEffect(p) \/ RefusePromotion(p) \/ FailReserve(p)
        PROVE  Established'
    BY <1>5, <1>9 DEF RefuseEffect, RefusePromotion, FailReserve
  <1>10. ASSUME NEW p \in Paths, FailEffect(p)  PROVE Established'
    BY <1>4, <1>5, <1>7, <1>10 DEF FailEffect, Return
  <1>11. ASSUME NEW p \in Paths, FailPromotion(p)  PROVE Established'
    BY <1>5, <1>6, <1>11 DEF FailPromotion
  <1> QED BY <1>8, <1>9, <1>10, <1>11

(* After the commit only the claims are left, and then the journal. *)
LEMMA CommitEstablished ==
  ASSUME TypeOK, Established, NEW pr \in Projects, pr = op.project, sound(pr),
         CommitState \/ FinalizeClaims
  PROVE  Established'
  <1>0. op \in OpType /\ interrupted(pr)
        /\ op.selected \cup op.todo \cup op.done \subseteq journal[pr].entries
    BY OpFields DEF Established, At, CommitState, FinalizeClaims, committing
  <1>1. CASE CommitState
    <2>1. effecting /\ op.goal = "commit"
      BY <1>1 DEF Established, At, CommitState, committing
    <2>2. /\ op'.step = "finalize" /\ op'.project = pr /\ op'.goal = "commit"
          /\ op'.selected = op.selected /\ op'.todo = op.todo /\ op'.done = op.done
      BY <1>0, <1>1, <2>1 DEF CommitState, Go, OpType
    <2>3. statefile'[pr] = journal[pr].stateAfter /\ UNCHANGED <<registry, journal>>
      BY <1>1 DEF CommitState, StateCommitted, TypeOK
    <2>4. finalizeEligible(pr)'
      BY <1>1, <2>1, <2>3 DEF finalizeEligible, effecting, reserving, At, CommitState, committing,
           transitions, claimPrepared
    <2>5. finishing' /\ interrupted(pr)'
      BY <1>0, <2>2, <2>3, <2>4 DEF finishing, At, stateIsAfter, interrupted
    <2> QED BY <1>0, <2>2, <2>3, <2>5, StepEstablished DEF Steps
  <1>2. CASE FinalizeClaims
    <2>1. finishing /\ At("finalize")
      BY <1>2 DEF Established, At, FinalizeClaims
    <2>2. UNCHANGED <<host, statefile, journal, touched>>
      BY <1>2 DEF FinalizeClaims
    <2>3. /\ op'.step = "retire" /\ op'.project = pr /\ op'.goal = op.goal
          /\ op'.selected = journal'[pr].entries /\ op'.todo = op.todo /\ op'.done = op.done
      BY <1>0, <1>2, <2>2 DEF FinalizeClaims, OpType
    <2>4. statefile[pr] = journal[pr].stateAfter
      BY <2>1 DEF finishing, stateIsAfter
    <2>5. claimsMatch(pr, claimsAfter(pr))'
      BY <1>2, <2>2, Converged DEF FinalizeClaims, claimsMatch, claimsAfter, claimAfter
    <2>6. ~recreates(pr) => allAfter(pr)' /\ statefile[pr] # journal[pr].stateBefore
      BY <2>2, <2>4, <2>5 DEF recreates, committed, sound, imaged, untouched, allAfter, allOf,
           after, afterImages
    <2>7. finishing' /\ interrupted(pr)'
      BY <1>0, <2>1, <2>2, <2>3, <2>4, <2>6
         DEF finishing, At, stateIsBefore, stateIsAfter, recreates, interrupted
    <2> QED BY <1>0, <2>2, <2>3, <2>7, StepEstablished DEF Steps
  <1> QED BY <1>1, <1>2

(* What a plan to recover has looked at. *)
LEMMA LoadEstablished ==
  ASSUME TypeOK, Established, NEW pr \in Projects, pr = op.project, LoadPlan
  PROVE  Established'
  <1>1. /\ undoing /\ At("load") /\ interrupted(pr) /\ op \in OpType
        /\ op.selected \cup op.todo \cup op.done \subseteq journal[pr].entries
    BY OpFields DEF Established, At, LoadPlan
  <1>2. UNCHANGED <<host, registry, statefile, journal, touched>>
    BY DEF LoadPlan
  <1>3. \/ op.goal = "rollback" /\ statefile[pr] = journal[pr].stateBefore
           /\ \A p \in untouched(pr) \ op.selected : host[p] = before(pr, p)
        \/ op.goal = "recover" /\ op.selected = journal[pr].entries
    BY <1>1 DEF undoing, stateIsBefore, atBefore
  <1>4. knownState = statefile[pr]
    BY <1>3 DEF knownState
  <1>5. loaded = "blocked" \/ clean(loaded) \/ loaded = "needs_finalize" \/ loaded = "needs_rollback"
    BY DEF LoadPlan
  <1>6. interrupted(pr)'
    BY <1>1, <1>2 DEF interrupted
  <1>7. CASE loaded = "blocked"
    BY <1>7, IdleEstablished DEF LoadPlan, Return, clean
  <1>8. CASE clean(loaded)
    <2>1. /\ op'.step = "retire" /\ op'.project = pr /\ op'.goal = op.goal
          /\ op'.selected = op.selected /\ op'.todo = op.todo /\ op'.done = op.done
      BY <1>1, <1>8 DEF LoadPlan, Go, OpType, clean
    <2>2. CASE loaded = "clean_before"
      <3>1. /\ pathsMatch(pr, op.selected, beforeImages(pr))
            /\ statefile[pr] = journal[pr].stateBefore /\ claimsMatch(pr, claimsBefore(pr))
        BY <1>4, <2>2, Classified DEF loaded
      <3>2. allBefore(pr)
        BY <1>3, <3>1 DEF allBefore, allOf, pathsMatch, untouched, before
      <3>3. allBefore(pr)'
        BY <1>2, <3>2 DEF allBefore, allOf, claimsMatch, claimsBefore, claimBefore, transitions,
             beforeImages
      <3>4. finishing'
        BY <1>2, <1>3, <2>1, <3>1, <3>3 DEF finishing, At, stateIsBefore
      <3> QED BY <1>1, <1>2, <1>6, <2>1, <3>4, StepEstablished DEF Steps
    <2>3. CASE loaded = "clean_after"
      <3>1. /\ pathsMatch(pr, op.selected, afterImages(pr))
            /\ statefile[pr] = journal[pr].stateAfter /\ claimsMatch(pr, claimsAfter(pr))
        BY <1>4, <2>3, Classified DEF loaded
      <3>2. ~recreates(pr) => allAfter(pr) /\ statefile[pr] # journal[pr].stateBefore
        BY <1>3, <3>1 DEF allAfter, allOf, pathsMatch, recreates
      <3>3. ~recreates(pr) => allAfter(pr)' /\ statefile[pr] # journal[pr].stateBefore
        BY <1>2, <3>2 DEF allAfter, allOf, claimsMatch, claimsAfter, claimAfter, transitions,
             afterImages
      <3>4. finishing'
        BY <1>2, <1>3, <2>1, <3>1, <3>3 DEF finishing, At, stateIsBefore, recreates
      <3> QED BY <1>1, <1>2, <1>6, <2>1, <3>4, StepEstablished DEF Steps
    <2> QED BY <1>8, <2>2, <2>3 DEF clean
  <1>9. CASE loaded = "needs_finalize"
    <2>1. /\ op'.step = "finalize" /\ op'.project = pr /\ op'.goal = op.goal
          /\ op'.selected = op.selected /\ op'.todo = op.todo /\ op'.done = op.done
      BY <1>1, <1>9 DEF LoadPlan, Go, OpType, clean
    <2>2. statefile[pr] = journal[pr].stateAfter /\ finalizeEligible(pr)
      BY <1>4, <1>9, Classified DEF loaded
    <2>3. finalizeEligible(pr)'
      BY <1>2, <2>2 DEF finalizeEligible, claimPrepared, claimAfter, transitions
    <2>4. finishing'
      BY <1>2, <1>3, <2>1, <2>2, <2>3 DEF finishing, At, stateIsBefore, stateIsAfter
    <2> QED BY <1>1, <1>2, <1>6, <2>1, <2>4, StepEstablished DEF Steps
  <1>10. CASE loaded = "needs_rollback"
    <2>1. /\ op'.step = "restore" /\ op'.project = pr /\ op'.goal = op.goal
          /\ op'.selected = op.selected /\ op'.done = op.done
          /\ op'.todo = {p \in op.selected : host[p] # before(pr, p)}
      BY <1>1, <1>10 DEF LoadPlan, OpType, clean
    <2>2. statefile[pr] = journal[pr].stateBefore /\ rollbackEligible(pr)
      BY <1>4, <1>10, Classified DEF loaded
    <2>3. rollbackEligible(pr)'
      BY <1>2, <2>2 DEF rollbackEligible, claimPrepared, claimBefore, transitions
    <2>4. \A p \in untouched(pr) \ op'.todo : host[p] = before(pr, p)
      BY <1>3, <2>1 DEF untouched
    <2>5. atBefore(op.todo)'
      BY <1>2, <2>1, <2>4 DEF atBefore, untouched, before, beforeImages
    <2>6. undoing'
      BY <1>2, <1>3, <2>1, <2>2, <2>3, <2>5 DEF undoing, At, stateIsBefore
    <2> QED BY <1>1, <1>2, <1>6, <2>1, <2>6, StepEstablished DEF Steps
  <1> QED BY <1>5, <1>7, <1>8, <1>9, <1>10

(* A rollback stands on the statefile before the commit until the claims are back. *)
LEMMA UndoEstablished ==
  ASSUME TypeOK, Established, NEW pr \in Projects, pr = op.project,
         \/ RollbackClaims
         \/ \E p \in Paths : \/ RestoreEntry(p) \/ RefuseRestore(p) \/ FailRestore(p)
                             \/ CompensateEntry(p) \/ FailCompensate(p)
  PROVE  Established'
  <1>1. /\ undoing /\ interrupted(pr) /\ op \in OpType
        /\ op.selected \cup op.todo \cup op.done \subseteq journal[pr].entries
        /\ statefile[pr] = journal[pr].stateBefore /\ rollbackEligible(pr)
    BY OpFields DEF Established, At, undoing, stateIsBefore, RollbackClaims, RestoreEntry,
         RefuseRestore, FailRestore, CompensateEntry, FailCompensate, restoring
  <1>2. /\ UNCHANGED <<statefile, journal>>
        /\ touched'[pr] = touched[pr]
    BY PutEffect DEF RollbackClaims, RestoreEntry, RefuseRestore, FailRestore, CompensateEntry,
         FailCompensate
  <1>3. interrupted(pr)'
    BY <1>1, <1>2 DEF interrupted
  <1>4. CASE RollbackClaims
    <2>1. /\ op'.step = "retire" /\ op'.project = pr /\ op'.goal = op.goal
          /\ op'.selected = op.selected /\ op'.todo = op.todo /\ op'.done = op.done
      BY <1>1, <1>4 DEF RollbackClaims, Go, OpType
    <2>2. \A p \in untouched(pr) : host[p] = before(pr, p)
      BY <1>1, <1>4 DEF RollbackClaims, At, undoing, atBefore
    <2>3. UNCHANGED host
      BY <1>4 DEF RollbackClaims
    <2>4. claimsMatch(pr, claimsBefore(pr))'
      BY <1>2, <1>4, Converged DEF RollbackClaims, claimsMatch, claimsBefore, claimBefore
    <2>5. allBefore(pr)'
      BY <1>1, <1>2, <2>2, <2>3, <2>4 DEF allBefore, allOf, untouched, before, beforeImages
    <2>6. finishing'
      BY <1>1, <1>2, <2>1, <2>5 DEF finishing, undoing, At, stateIsBefore
    <2> QED BY <1>1, <1>2, <1>3, <2>1, <2>6, StepEstablished DEF Steps
  <1>5. ASSUME NEW p \in Paths,
               \/ RestoreEntry(p) \/ RefuseRestore(p) \/ FailRestore(p) \/ CompensateEntry(p)
               \/ FailCompensate(p)
        PROVE  Established'
    <2>1. UNCHANGED registry /\ p \in journal[pr].entries
      BY <1>1, <1>5 DEF RestoreEntry, RefuseRestore, FailRestore, CompensateEntry, FailCompensate,
           restoring, first, last
    <2>2. rollbackEligible(pr)'
      BY <1>1, <1>2, <2>1 DEF rollbackEligible, claimPrepared, claimBefore, transitions
    <2>3. /\ op'.project = pr /\ op'.goal = op.goal /\ op'.selected = op.selected
          /\ op'.todo \cup op'.done \subseteq op.todo \cup op.done \cup {p}
          /\ \/ op'.step = "compensate"
             \/ RestoreEntry(p) /\ op'.step = "restore" /\ op'.todo = op.todo \ {p}
      <3>1. CASE RestoreEntry(p)
        BY <1>1, <3>1 DEF RestoreEntry, OpType, restoring, At
      <3>2. CASE RefuseRestore(p) \/ FailRestore(p)
        BY <1>1, <3>2 DEF RefuseRestore, FailRestore, Compensate, OpType
      <3>3. CASE CompensateEntry(p) \/ FailCompensate(p)
        BY <1>1, <3>3 DEF CompensateEntry, FailCompensate, OpType, At
      <3> QED BY <1>5, <3>1, <3>2, <3>3
    <2>4. op'.step = "restore" => atBefore(op.todo)'
      <3>1. CASE RestoreEntry(p)
        <4>1. \A q \in untouched(pr) \ op.todo : host[q] = before(pr, q)
          BY <1>1, <3>1 DEF RestoreEntry, restoring, undoing, atBefore, At
        <4>2. \A q \in untouched(pr) \ (op.todo \ {p}) : host'[q] = before(pr, q)
          <5>1. Put(p, before(pr, p))
            BY <3>1 DEF RestoreEntry
          <5>2. host'[p] = before(pr, p) /\ \A q \in Paths \ {p} : host'[q] = host[q]
            BY <5>1, PutEffect
          <5>3. untouched(pr) \subseteq Paths
            BY JournalFields DEF untouched
          <5> QED BY <4>1, <5>2, <5>3
        <4>3. op'.todo = op.todo \ {p}
          BY <1>1, <3>1 DEF RestoreEntry, OpType
        <4> QED BY <1>2, <2>3, <4>2, <4>3 DEF atBefore, untouched, before, beforeImages
      <3> QED BY <2>3, <3>1
    <2>5. undoing'
      BY <1>1, <1>2, <2>2, <2>3, <2>4 DEF undoing, At, stateIsBefore
    <2> QED BY <1>1, <1>2, <1>3, <2>1, <2>3, <2>5, StepEstablished DEF Steps
  <1> QED BY <1>4, <1>5

(* What other programs do to a file is not counted against the operation. *)
LEMMA EditEstablished ==
  ASSUME TypeOK, Established, NEW p \in Paths, Edit(p)
  PROVE  Established'
  <1>1. UNCHANGED <<registry, statefile, journal, op, lapsed>>
    BY DEF Edit
  <1>2. CASE At("idle")
    BY <1>1, <1>2, IdleEstablished DEF Established
  <1>3. ASSUME NEW pr \in Projects, pr = op.project, ~At("idle")  PROVE Established'
    <2>1. /\ untouched(pr)' \subseteq untouched(pr)
          /\ \A q \in untouched(pr)' : host'[q] = host[q]
      BY <1>1, JournalFields DEF Edit, untouched, TypeOK
    <2>2. /\ interrupted(pr)' = interrupted(pr)
          /\ before(pr, p)' = before(pr, p)
          /\ transitions(pr)' = transitions(pr)
          /\ recreates(pr)' = recreates(pr)
          /\ rollbackEligible(pr)' = rollbackEligible(pr)
          /\ finalizeEligible(pr)' = finalizeEligible(pr)
          /\ claimsMatch(pr, claimsBefore(pr))' = claimsMatch(pr, claimsBefore(pr))
          /\ claimsMatch(pr, claimsPrepared(pr))' = claimsMatch(pr, claimsPrepared(pr))
          /\ claimsMatch(pr, claimsAfter(pr))' = claimsMatch(pr, claimsAfter(pr))
      BY <1>1 DEF interrupted, before, beforeImages, transitions, recreates, rollbackEligible,
           finalizeEligible, claimsMatch, claimsBefore, claimsPrepared, claimsAfter,
           claimBefore, claimPrepared, claimAfter
    <2>3. stateIsBefore' = stateIsBefore /\ stateIsAfter' = stateIsAfter
          /\ \A step : At(step)' = At(step)
      BY <1>1 DEF stateIsBefore, stateIsAfter, At
    <2>4. \A S : atBefore(S) => atBefore(S)'
      BY <1>1, <1>3, <2>1 DEF atBefore, before, beforeImages
    <2>5. /\ allBefore(pr) => allBefore(pr)'
          /\ allAfter(pr) => allAfter(pr)'
      BY <1>1, <2>1, <2>2 DEF allBefore, allAfter, allOf, untouched, beforeImages, afterImages
    <2>6. planned => planned'
      BY <1>1 DEF planned, interrupted, managed
    <2>7. preparing => preparing'
      BY <1>1, <1>3, <2>2, <2>3, <2>4 DEF preparing
    <2>8. effecting => effecting'
      <3>1. \A q : reserving(q)' = reserving(q)
        BY <1>1 DEF reserving, At, first, afterImages
      <3>2. \A q \in transitions(pr) : claimPrepared(pr, q)' = claimPrepared(pr, q)
        BY <1>1 DEF claimPrepared
      <3>3. \A q : after(pr, q)' = after(pr, q) /\ before(pr, q)' = before(pr, q)
        BY <1>1 DEF after, before, afterImages, beforeImages
      <3> QED BY <1>1, <1>3, <2>1, <2>2, <2>3, <3>1, <3>2, <3>3 DEF effecting
    <2>9. undoing => undoing'
      BY <1>1, <1>3, <2>2, <2>3, <2>4 DEF undoing
    <2>10. finishing => finishing'
      BY <1>1, <1>3, <2>2, <2>3, <2>5 DEF finishing
    <2> QED BY <1>1, <1>3, <2>2, <2>3, <2>6, <2>7, <2>8, <2>9, <2>10 DEF Established
  <1> QED BY <1>2, <1>3, Running

LEMMA EstablishedStep ==
  ASSUME Inv, [Next]_vars
  PROVE  Established'
  <1> USE DEF Inv
  <1>1. ASSUME NEW pr \in Projects, BeginApply(pr) \/ BeginRecover(pr)  PROVE Established'
    BY <1>1, Planned, BeginRecoverEstablished
  <1>2. ASSUME \/ RefuseCapture \/ FailCapture \/ FailSettle \/ FailFinalize \/ FailLoad
               \/ FinishCompensate \/ FailRollbackClaims \/ RetireJournal \/ RefuseRetire
               \/ FailRetire \/ Crash
        PROVE  Established'
    BY <1>2, IdleEstablished DEF Return, RefuseCapture, FailCapture, FailSettle, FailFinalize,
         FailLoad, FinishCompensate, FailRollbackClaims, RetireJournal, RefuseRetire, FailRetire,
         Crash
  <1>3. ASSUME NEW p \in Paths, Edit(p)  PROVE Established'
    BY <1>3, EditEstablished
  <1>4. CASE UNCHANGED vars
    <2>1. ~At("idle") => op.project \in Projects
      BY Running
    <2>2. Established' = Established
      BY <1>4 DEF vars, Established, At, planned, preparing, effecting, undoing, finishing,
           stateIsBefore, stateIsAfter, atBefore, reserving, first, interrupted, untouched,
           before, after, beforeImages, afterImages, transitions, wellFormed, managed,
           rollbackEligible, finalizeEligible, claimsMatch, claimsBefore, claimsPrepared,
           claimsAfter, claimBefore, claimPrepared, claimAfter, allBefore, allAfter, allOf,
           recreates
    <2> QED BY <2>2
  <1>5. ASSUME NEW pr \in Projects, pr = op.project,
               \/ CaptureJournal \/ PrepareClaims \/ FailPrepare \/ ValidatePrepared
               \/ RefusePrepared \/ Settle
        PROVE  Established'
    BY <1>5, PrepareEstablished
  <1>6. ASSUME NEW pr \in Projects, pr = op.project, CommitState \/ FinalizeClaims
        PROVE  Established'
    BY <1>6, CommitEstablished
  <1>7. ASSUME NEW pr \in Projects, pr = op.project, LoadPlan \/ RollbackClaims \/ FailCommit
        PROVE  Established'
    BY <1>7, LoadEstablished, UndoEstablished, GiveUpEstablished
  <1>8. ASSUME NEW pr \in Projects, pr = op.project, NEW p \in Paths,
               \/ ApplyEffect(p) \/ SkipPromotion(p) \/ ReserveClaim(p) \/ PromoteIntent(p)
        PROVE  Established'
    BY <1>8, EffectEstablished, PromoteEstablished
  <1>9. ASSUME NEW pr \in Projects, pr = op.project, NEW p \in Paths,
               \/ RefuseEffect(p) \/ FailEffect(p) \/ RefusePromotion(p) \/ FailPromotion(p)
               \/ FailReserve(p)
        PROVE  Established'
    BY <1>9, GiveUpEstablished
  <1>10. ASSUME NEW pr \in Projects, pr = op.project, NEW p \in Paths,
                \/ RestoreEntry(p) \/ RefuseRestore(p) \/ FailRestore(p) \/ CompensateEntry(p)
                \/ FailCompensate(p)
         PROVE  Established'
    BY <1>10, UndoEstablished
  <1>11. CASE At("idle")
    BY <1>1, <1>3, <1>4, <1>11, IdleSteps
  <1>12. CASE ~At("idle")
    BY <1>1, <1>2, <1>3, <1>4, <1>5, <1>6, <1>7, <1>8, <1>9, <1>10, <1>12, Running
       DEF Next, Progress, Disturb
  <1> QED BY <1>11, <1>12

-----------------------------------------------------------------------------
(* The invariant. *)

LEMMA InitInv == Init => Inv
  <1> SUFFICES ASSUME Init  PROVE Inv
    OBVIOUS
  <1>1. TypeOK
    BY InitType
  <1>2. ASSUME NEW pr \in Projects  PROVE sound(pr)
    <2>1. journal[pr] = NoJournal
      BY DEF Init
    <2>2. ASSUME NEW p \in Paths  PROVE owned(pr, p)
      <3>1. (statefile[pr][p] # Absent) = (registry[p] = Claim("active", pr))
        BY DEF Init
      <3>2. registry[p] = NoClaim \/ \E q \in Projects : registry[p] = Claim("active", q)
        BY DEF Init
      <3>3. registry[p].owner = pr <=> registry[p] = Claim("active", pr)
        <4>1. /\ NoClaim.owner # pr
              /\ \A q \in Projects : Claim("active", q).owner = q
          BY ClaimPhases DEF Claim
        <4>2. Claim("active", pr) # NoClaim
          BY <4>1
        <4>3. CASE registry[p] = NoClaim
          BY <4>1, <4>2, <4>3
        <4>4. ASSUME NEW q \in Projects, registry[p] = Claim("active", q)
              PROVE  registry[p].owner = pr <=> registry[p] = Claim("active", pr)
          BY <4>1, <4>4
        <4> QED BY <3>2, <4>3, <4>4
      <3> QED BY <3>1, <3>3 DEF owned, managed, active
    <2> QED BY <2>1, <2>2 DEF sound, journaled, claimed, imaged, untouched, interrupted,
                              NoJournal, transitions
  <1>3. Established
    BY DEF Init, Established, At, Idle
  <1> QED BY <1>1, <1>2, <1>3 DEF Inv

LEMMA InvStep ==
  ASSUME Inv, [Next]_vars
  PROVE  Inv'
  <1>1. TypeOK'
    BY TypeStep DEF Inv
  <1> QED BY <1>1, SoundStep, EstablishedStep DEF Inv

(* Statefiles, claims, journals and files fit together whoever runs, whatever fails. *)
THEOREM Invariance == Spec => []Inv
  BY InitInv, InvStep, PTL DEF Spec

-----------------------------------------------------------------------------
(* What the invariant says. *)

(* A statefile is the one before the commit or the one after it. *)
LEMMA CommitPoint ==
  ASSUME NEW pr \in Projects, sound(pr), interrupted(pr)
  PROVE  statefile[pr] = IF committed(pr) THEN journal[pr].stateAfter ELSE journal[pr].stateBefore
  BY DEF sound, journaled, committed, recreates

(* What a project manages it has claimed, at every phase of its journal. *)
LEMMA ManagedOwned ==
  ASSUME TypeOK, NEW pr \in Projects, sound(pr), NEW p \in Paths \ lapsed[pr], managed(pr, p)
  PROVE  registry[p].owner = pr
  <1>1. CASE p \notin transitions(pr)
    BY <1>1 DEF sound, claimed, owned
  <1>2. CASE p \in transitions(pr)
    <2>1. interrupted(pr)
      BY <1>2 DEF transitions, interrupted
    <2>2. phased(pr, p)
      BY <1>2 DEF sound, claimed
    <2>3. \A c \in phases(pr, p) : c.owner = pr
      <3>0. claimPrepared(pr, p).owner = pr /\ Claim("active", pr).owner = pr
        BY ClaimPhases DEF Claim
      <3>1. CASE committed(pr)
        <4>1. journal[pr].stateAfter[p] # Absent
          BY <2>1, <3>1, CommitPoint DEF managed
        <4> QED BY <3>0, <3>1, <4>1 DEF phases, claimAfter
      <3>2. CASE ~committed(pr)
        <4>1. journal[pr].stateBefore[p] # Absent
          BY <2>1, <3>2, CommitPoint DEF managed
        <4> QED BY <3>0, <3>2, <4>1 DEF phases, claimBefore
      <3> QED BY <3>1, <3>2
    <2> QED BY <2>2, <2>3, ClaimPhases DEF phased
  <1> QED BY <1>1, <1>2

LEMMA InvClaims == Inv => ClaimsSound
  <1> SUFFICES ASSUME Inv  PROVE ClaimsSound
    OBVIOUS
  <1> USE DEF Inv
  <1>1. Accounted
    <2>1. ASSUME NEW pr \in Projects, NEW p \in Paths \ lapsed[pr], p \in transitions(pr)
          PROVE  \/ registry[p] \in {claimBefore(pr, p), claimPrepared(pr, p), claimAfter(pr, p)}
                 \/ p \in takenOver(pr) /\ NoClaim \in {claimBefore(pr, p), claimAfter(pr, p)}
      <3>1. phased(pr, p)
        BY <2>1 DEF sound, claimed
      <3> QED BY <3>1, ClaimPhases DEF phased, phases
    <2>2. ASSUME NEW pr \in Projects, NEW p \in Paths \ lapsed[pr], p \notin transitions(pr)
          PROVE  owned(pr, p)
      BY <2>2 DEF sound, claimed
    <2> QED BY <2>1, <2>2 DEF Accounted, owned
  <1>2. Exclusive
    BY ManagedOwned DEF Exclusive
  <1>3. NeverStale
    <2>1. CASE At("idle")
      BY <2>1 DEF NeverStale, At
    <2>2. CASE ~At("idle")
      BY <2>2, Running, BeforePhases
         DEF NeverStale, At, Established, preparing, undoing, finishing, stateIsBefore
    <2> QED BY <2>1, <2>2
  <1> QED BY <1>1, <1>2, <1>3 DEF ClaimsSound

LEMMA InvRecoverable == Inv => Recoverable
  <1> SUFFICES ASSUME Inv, NEW pr \in Projects, interrupted(pr), touched[pr] = {},
                      takenOver(pr) = {}
               PROVE  Classify(pr, journal[pr].entries, statefile[pr]) # "blocked"
    BY DEF Recoverable
  <1> USE DEF Inv
  <1>1. sound(pr) /\ transitions(pr) \subseteq Paths /\ journal[pr].entries \subseteq Paths
    BY JournalFields
  <1>2. \A p \in journal[pr].entries : ~blockedIntent(pr, p)
    <2>1. ASSUME NEW p \in journal[pr].intents, p \in journal[pr].entries
          PROVE  registry[p] = NoClaim
      <3>1. registry[p].owner = Nobody
        BY <1>1, <2>1 DEF sound, claimed, takenOver
      <3> QED BY <1>1, <2>1, <3>1, Owners DEF TypeOK
    <2> QED BY <2>1 DEF blockedIntent, visibleClaim
  <1>3. \A p \in transitions(pr) : registry[p] \in phases(pr, p)
    BY <1>1 DEF sound, claimed, phased
  <1>4. \A p \in journal[pr].entries :
           /\ host[p] \in {before(pr, p), after(pr, p)}
           /\ committed(pr) => host[p] = after(pr, p)
    BY <1>1 DEF sound, imaged, untouched
  <1>5. CASE committed(pr)
    <2>1. finalizeEligible(pr)
      BY <1>3, <1>5 DEF finalizeEligible, phases
    <2>2. pathsMatch(pr, journal[pr].entries, afterImages(pr))
      BY <1>2, <1>4, <1>5 DEF pathsMatch, after
    <2> QED BY <1>1, <1>5, <2>1, <2>2, CommitPoint, Classified
  <1>6. CASE ~committed(pr)
    <2>1. rollbackEligible(pr)
      BY <1>3, <1>6 DEF rollbackEligible, phases
    <2>2. pathsRecoverable(pr, journal[pr].entries)
      BY <1>2, <1>4 DEF pathsRecoverable
    <2> QED BY <1>1, <1>6, <2>1, <2>2, CommitPoint, Classified
  <1> QED BY <1>5, <1>6

(* Types hold in every state. *)
THEOREM TypeCorrect == Spec => []TypeOK
  <1>1. Inv => TypeOK
    BY DEF Inv
  <1> QED BY <1>1, Invariance, PTL

(* Ownership is accounted for in every state of every journal, no output is managed
   twice, and no convergence meets a claim in a third state (claimoperation). *)
THEOREM ClaimsAlwaysSound == Spec => []ClaimsSound
  BY InvClaims, Invariance, PTL

(* Wherever an operation stopped, its journal can be recovered unless others changed its
   files or took its outputs (recovery.go, Classify). *)
THEOREM AlwaysRecoverable == Spec => []Recoverable
  BY InvRecoverable, Invariance, PTL

-----------------------------------------------------------------------------
(* What a step may not do. *)

LEMMA RegistrySteps ==
  ASSUME [Next]_vars, registry' # registry
  PROVE  \/ PrepareClaims \/ FailPrepare \/ Settle \/ FailSettle \/ RollbackClaims
         \/ FailRollbackClaims \/ FinalizeClaims \/ FailFinalize
         \/ \E p \in Paths : ReserveClaim(p) \/ FailReserve(p)
  BY DEF Next, Progress, Disturb, vars, BeginApply, BeginRecover, CaptureJournal, RefuseCapture, PrepareClaims,
     ValidatePrepared, RefusePrepared, Settle, CommitState, FinalizeClaims, LoadPlan,
     RollbackClaims, FinishCompensate, RetireJournal, RefuseRetire, ApplyEffect,
     RefuseEffect, SkipPromotion, RefusePromotion, PromoteIntent, ReserveClaim,
     RestoreEntry, RefuseRestore, CompensateEntry, FailCapture, FailPrepare, FailSettle,
     FailCommit, FailFinalize, FailLoad, FailRollbackClaims, FailRetire, Crash,
     FailEffect, FailPromotion, FailReserve, FailRestore, FailCompensate, Edit

LEMMA StatefileSteps ==
  ASSUME [Next]_vars, statefile' # statefile
  PROVE  CommitState \/ FailCommit
  BY DEF Next, Progress, Disturb, vars, BeginApply, BeginRecover, CaptureJournal, RefuseCapture, PrepareClaims,
     ValidatePrepared, RefusePrepared, Settle, CommitState, FinalizeClaims, LoadPlan,
     RollbackClaims, FinishCompensate, RetireJournal, RefuseRetire, ApplyEffect,
     RefuseEffect, SkipPromotion, RefusePromotion, PromoteIntent, ReserveClaim,
     RestoreEntry, RefuseRestore, CompensateEntry, FailCapture, FailPrepare, FailSettle,
     FailCommit, FailFinalize, FailLoad, FailRollbackClaims, FailRetire, Crash,
     FailEffect, FailPromotion, FailReserve, FailRestore, FailCompensate, Edit

LEMMA HostSteps ==
  ASSUME [Next]_vars, host' # host
  PROVE  \E p \in Paths : \/ ApplyEffect(p) \/ FailEffect(p) \/ RestoreEntry(p)
                          \/ FailRestore(p) \/ CompensateEntry(p) \/ Edit(p)
  BY DEF Next, Progress, Disturb, vars, BeginApply, BeginRecover, CaptureJournal, RefuseCapture, PrepareClaims,
     ValidatePrepared, RefusePrepared, Settle, CommitState, FinalizeClaims, LoadPlan,
     RollbackClaims, FinishCompensate, RetireJournal, RefuseRetire, ApplyEffect,
     RefuseEffect, SkipPromotion, RefusePromotion, PromoteIntent, ReserveClaim,
     RestoreEntry, RefuseRestore, CompensateEntry, FailCapture, FailPrepare, FailSettle,
     FailCommit, FailFinalize, FailLoad, FailRollbackClaims, FailRetire, Crash,
     FailEffect, FailPromotion, FailReserve, FailRestore, FailCompensate, Edit

LEMMA JournalSteps ==
  ASSUME [Next]_vars, journal' # journal
  PROVE  \/ CaptureJournal \/ FailCapture \/ RetireJournal \/ FailRetire
         \/ \E p \in Paths : PromoteIntent(p) \/ FailPromotion(p)
  BY DEF Next, Progress, Disturb, vars, BeginApply, BeginRecover, CaptureJournal, RefuseCapture, PrepareClaims,
     ValidatePrepared, RefusePrepared, Settle, CommitState, FinalizeClaims, LoadPlan,
     RollbackClaims, FinishCompensate, RetireJournal, RefuseRetire, ApplyEffect,
     RefuseEffect, SkipPromotion, RefusePromotion, PromoteIntent, ReserveClaim,
     RestoreEntry, RefuseRestore, CompensateEntry, FailCapture, FailPrepare, FailSettle,
     FailCommit, FailFinalize, FailLoad, FailRollbackClaims, FailRetire, Crash,
     FailEffect, FailPromotion, FailReserve, FailRestore, FailCompensate, Edit

LEMMA RetireSteps ==
  ASSUME [Next]_vars, At("retire")
  PROVE  \/ RetireJournal \/ RefuseRetire \/ FailRetire \/ Crash
         \/ \E p \in Paths : Edit(p)
         \/ UNCHANGED vars
  BY DEF Next, Progress, Disturb, BeginApply, BeginRecover, At, writing, promoting, restoring,
     committing, CaptureJournal, RefuseCapture, PrepareClaims,
     ValidatePrepared, RefusePrepared, Settle, CommitState, FinalizeClaims, LoadPlan,
     RollbackClaims, FinishCompensate, RetireJournal, RefuseRetire, ApplyEffect,
     RefuseEffect, SkipPromotion, RefusePromotion, PromoteIntent, ReserveClaim,
     RestoreEntry, RefuseRestore, CompensateEntry, FailCapture, FailPrepare, FailSettle,
     FailCommit, FailFinalize, FailLoad, FailRollbackClaims, FailRetire, Crash,
     FailEffect, FailPromotion, FailReserve, FailRestore, FailCompensate, Edit

(* The statefile is written last. *)
LEMMA StateLastStep ==
  ASSUME Inv, [Next]_vars, NEW pr \in Projects, statefile'[pr] # statefile[pr]
  PROVE  /\ \A p \in journal[pr].entries \ touched[pr] : host[p] = after(pr, p)
         /\ \A p \in transitions(pr) : registry[p] = claimPrepared(pr, p)
  <1>1. CommitState \/ FailCommit
    BY StatefileSteps
  <1>2. committing /\ StateCommitted
    BY <1>1 DEF CommitState, FailCommit
  <1>3. effecting /\ pr = op.project
    BY <1>2 DEF Inv, Established, committing, At, StateCommitted, TypeOK
  <1> QED BY <1>2, <1>3 DEF effecting, committing, untouched, reserving, At

(* Only an image of the journal is overwritten, and only under a claim of its project. *)
LEMMA NoTrespassStep ==
  ASSUME Inv, [Next]_vars, NEW p \in Paths, host'[p] # host[p], used'["edit"] = used["edit"],
         host[p] # Absent
  PROVE  /\ registry[p].owner \in {Nobody, op.project}
         /\ host[p] \in {before(op.project, p), after(op.project, p)}
  <1> USE DEF Inv
  <1>1. ~\E q \in Paths : Edit(q)
    BY DEF Edit, Spend, TypeOK, Disturbances
  <1>2. PICK q \in Paths :
           ApplyEffect(q) \/ FailEffect(q) \/ RestoreEntry(q) \/ FailRestore(q) \/ CompensateEntry(q)
    BY <1>1, HostSteps
  <1>3. q = p
    BY <1>2 DEF ApplyEffect, FailEffect, RestoreEntry, FailRestore, CompensateEntry, Put, TypeOK
  <1>4. PICK pr \in Projects : pr = op.project
    BY <1>2, Running DEF ApplyEffect, FailEffect, RestoreEntry, FailRestore, CompensateEntry,
         writing, restoring, At
  <1>5. p \in journal[pr].entries /\ sound(pr) /\ interrupted(pr)
    BY <1>2, <1>3, <1>4 DEF ApplyEffect, FailEffect, RestoreEntry, FailRestore, CompensateEntry,
         writing, restoring, first, last, At, Established
  <1>6. p \in journal[pr].intents => before(pr, p) = Absent
    BY <1>5 DEF sound, journaled, wellFormed, before, beforeImages
  <1>7. CASE ApplyEffect(p) \/ FailEffect(p)
    <2>1. effecting /\ At("effect") /\ host[p] = before(pr, p)
      BY <1>4, <1>7 DEF ApplyEffect, FailEffect, writing, Established, At
    <2>2. p \in transitions(pr)
      BY <1>5, <1>6, <2>1 DEF transitions
    <2>3. registry[p] = claimPrepared(pr, p)
      BY <1>4, <2>1, <2>2 DEF effecting, reserving, At
    <2> QED BY <1>4, <2>1, <2>3, ClaimPhases
  <1>8. CASE RestoreEntry(p) \/ FailRestore(p) \/ CompensateEntry(p)
    <2>1. rollbackEligible(pr) /\ statefile[pr] = journal[pr].stateBefore
      BY <1>4, <1>8 DEF RestoreEntry, FailRestore, CompensateEntry, restoring, Established, At,
           undoing, stateIsBefore
    <2>2. p \in transitions(pr) => registry[p].owner \in {pr, Nobody}
      BY <2>1, BeforePhases
    <2>3. CASE RestoreEntry(p) \/ FailRestore(p)
      BY <1>4, <1>5, <2>2, <2>3, ClaimPhases DEF RestoreEntry, FailRestore, restorable, transitions
    <2>4. CASE CompensateEntry(p)
      BY <1>4, <1>5, <1>6, <2>2, <2>4 DEF CompensateEntry, transitions
    <2> QED BY <1>8, <2>3, <2>4
  <1> QED BY <1>2, <1>3, <1>7, <1>8

(* A claim is changed by the project that holds it. *)
LEMMA NoStealingStep ==
  ASSUME Inv, [Next]_vars, NEW p \in Paths, registry'[p] # registry[p], registry[p] # NoClaim
  PROVE  op.project = registry[p].owner
  <1> USE DEF Inv
  <1>1. \/ PrepareClaims \/ FailPrepare \/ Settle \/ FailSettle \/ RollbackClaims
        \/ FailRollbackClaims \/ FinalizeClaims \/ FailFinalize
        \/ \E q \in Paths : ReserveClaim(q) \/ FailReserve(q)
    BY RegistrySteps
  <1>2. PICK pr \in Projects : pr = op.project
    BY <1>1, Running DEF At, PrepareClaims, FailPrepare, Settle, FailSettle, RollbackClaims,
         FailRollbackClaims, FinalizeClaims, FailFinalize, ReserveClaim, FailReserve
  <1>3. CASE \/ PrepareClaims \/ FailPrepare \/ Settle \/ FailSettle \/ RollbackClaims
             \/ FailRollbackClaims \/ FinalizeClaims \/ FailFinalize
    <2>1. p \in transitions(pr)
      BY <1>2, <1>3 DEF PrepareClaims, FailPrepare, Settle, FailSettle, RollbackClaims,
           FailRollbackClaims, FinalizeClaims, FailFinalize, Converge
    <2>2. \A r \in transitions(pr) : registry[r].owner \in {pr, Nobody}
      <3>1. \/ statefile[pr] = journal[pr].stateBefore /\ rollbackEligible(pr)
            \/ statefile[pr] = journal[pr].stateAfter /\ finalizeEligible(pr)
        BY <1>2, <1>3, BeforePhases DEF PrepareClaims, FailPrepare, Settle, FailSettle,
             RollbackClaims, FailRollbackClaims, FinalizeClaims, FailFinalize, Established, At,
             preparing, undoing, finishing, stateIsBefore, stateIsAfter
      <3> QED BY <3>1, BeforePhases, AfterPhases
    <2> QED BY <1>2, <2>1, <2>2, Owners DEF TypeOK
  <1>4. ASSUME NEW q \in Paths, ReserveClaim(q) \/ FailReserve(q)  PROVE FALSE
    <2>1. q = p
      BY <1>4 DEF ReserveClaim, FailReserve, Reserved, TypeOK
    <2>2. effecting /\ reserving(q) /\ q \in journal[pr].entries
      BY <1>2, <1>4 DEF Established, At, reserving, first, ReserveClaim, FailReserve
    <2>3. q \in transitions(pr)
      BY <1>2, <2>2 DEF effecting, transitions
    <2> QED BY <1>2, <2>1, <2>2, <2>3 DEF effecting
  <1> QED BY <1>1, <1>3, <1>4

(* A journal goes only at the end of its own operation. *)
LEMMA RetiresOwn ==
  ASSUME Inv, [Next]_vars, NEW pr \in Projects, interrupted(pr), journal'[pr] = NoJournal
  PROVE  pr = op.project /\ At("retire")
  <1> USE DEF Inv
  <1>1. journal'[pr] # journal[pr]
    BY DEF interrupted, NoJournal
  <1>2. \/ CaptureJournal \/ FailCapture \/ RetireJournal \/ FailRetire
        \/ \E p \in Paths : PromoteIntent(p) \/ FailPromotion(p)
    BY <1>1, JournalSteps
  <1>3. CASE CaptureJournal \/ FailCapture
    <2>1. planned
      BY <1>3 DEF Established, At, CaptureJournal, FailCapture
    <2> QED BY <1>1, <1>3, <2>1 DEF CaptureJournal, FailCapture, TypeOK, planned, NoJournal
  <1>4. CASE RetireJournal \/ FailRetire
    BY <1>1, <1>4 DEF RetireJournal, FailRetire, Retired, TypeOK
  <1>5. ASSUME NEW p \in Paths, PromoteIntent(p) \/ FailPromotion(p)  PROVE FALSE
    <2>1. Promoted(p)
      BY <1>1, <1>5 DEF PromoteIntent, FailPromotion
    <2>2. journal'[pr].entries = journal[pr].entries
      <3>1. CASE pr = op.project
        BY <2>1, <3>1 DEF Promoted, TypeOK, JournalType
      <3>2. CASE pr # op.project
        BY <2>1, <3>2 DEF Promoted, TypeOK
      <3> QED BY <3>1, <3>2
    <2> QED BY <2>2 DEF NoJournal, interrupted
  <1> QED BY <1>2, <1>3, <1>4, <1>5

LEMMA SettledStep ==
  ASSUME Inv, [Next]_vars, NEW pr \in Projects, interrupted(pr), journal'[pr] = NoJournal
  PROVE  allBefore(pr) \/ allAfter(pr) \/ recreates(pr)
  BY RetiresOwn DEF Inv, Established, At, finishing

LEMMA TruthfulStep ==
  ASSUME Inv, [Next]_vars, NEW pr \in Projects, interrupted(pr), op.project = pr, At("retire"),
         op' = Idle, ~recreates(pr)
  PROVE  /\ result' = "applied" => allAfter(pr)
         /\ result' = "rolledback" => allBefore(pr)
         /\ result' = "failed" /\ op.goal = "settle" /\ journal'[pr] = NoJournal => allBefore(pr)
  <1> USE DEF Inv
  <1>1. finishing /\ (IF stateIsBefore THEN allBefore(pr) ELSE allAfter(pr))
    BY DEF Established, At, finishing
  <1>2. /\ op.goal \in {"settle", "rollback"} => allBefore(pr)
        /\ op.goal = "commit" => allAfter(pr)
    BY <1>1 DEF finishing, stateIsBefore, stateIsAfter, recreates
  <1>3. /\ result' = "applied" => op.goal = "commit"
        /\ result' = "rolledback" => op.goal = "rollback"
    <2>1. RetireJournal \/ RefuseRetire \/ FailRetire \/ Crash
      BY RetireSteps DEF At, Idle, Edit, vars
    <2> QED BY <2>1, OpFields DEF RetireJournal, RefuseRetire, FailRetire, Crash, Return, success,
                                  failure, Goals
  <1> QED BY <1>2, <1>3

(* A journal goes only when files, statefile and claims are all as before or all as after,
   and the apply says which (finishApply, rollback_outcome.go). *)
THEOREM AlwaysSettled == Spec => Settled
  <1>1. Inv /\ [Next]_vars
        => [\A pr \in Projects :
              interrupted(pr) /\ journal'[pr] = NoJournal
              => allBefore(pr) \/ allAfter(pr) \/ recreates(pr)]_vars
    BY SettledStep
  <1>2. Inv /\ [Next]_vars
        => [\A pr \in Projects :
              interrupted(pr) /\ op.project = pr /\ At("retire") /\ op' = Idle /\ ~recreates(pr)
              => /\ result' = "applied" => allAfter(pr)
                 /\ result' = "rolledback" => allBefore(pr)
                 /\ result' = "failed" /\ op.goal = "settle" /\ journal'[pr] = NoJournal
                    => allBefore(pr)]_vars
    BY TruthfulStep
  <1> QED BY <1>1, <1>2, Invariance, PTL DEF Spec, Settled, SettledOnRetire, Truthful

(* The statefile is the last thing an apply writes, no file of another project and no edit
   is overwritten, and nobody else's claim is changed. *)
THEOREM AlwaysGuarded == Spec => ChangesGuarded
  <1>1. Inv /\ [Next]_vars
        => [\A pr \in Projects :
              statefile'[pr] # statefile[pr]
              => /\ \A p \in journal[pr].entries \ touched[pr] : host[p] = after(pr, p)
                 /\ \A p \in transitions(pr) : registry[p] = claimPrepared(pr, p)]_vars
    BY StateLastStep
  <1>2. Inv /\ [Next]_vars
        => [\A p \in Paths :
              host'[p] # host[p] /\ used'["edit"] = used["edit"] /\ host[p] # Absent
              => /\ registry[p].owner \in {Nobody, op.project}
                 /\ host[p] \in {before(op.project, p), after(op.project, p)}]_vars
    BY NoTrespassStep
  <1>3. Inv /\ [Next]_vars
        => [\A p \in Paths :
              registry'[p] # registry[p] /\ registry[p] # NoClaim
              => op.project = registry[p].owner]_vars
    BY NoStealingStep
  <1> QED BY <1>1, <1>2, <1>3, Invariance, PTL
          DEF Spec, ChangesGuarded, StateLast, NoTrespass, NoStealing

=============================================================================
