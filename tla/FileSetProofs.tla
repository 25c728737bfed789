---------------------------- MODULE FileSetProofs ----------------------------
(***************************************************************************)
(* Proofs about FileSet for every set of paths, contents and requests and   *)
(* for every number of crashes, failures, cancellations and edits.          *)
(***************************************************************************)
EXTENDS FileSet, TLAPS

(* The initial and the quiescent operation are well-formed. *)
LEMMA IdleType == /\ NoPlan \in PlanType
                  /\ NoImages \in [Paths -> Contents]
                  /\ Idle \in OpType
                  /\ NoMarker \in MarkerType
<1>1. (CHOOSE b \in Bytes : TRUE) \in Bytes
  BY ImageAssumption
<1>2. NoPlan \in PlanType
  BY <1>1 DEF NoPlan, PlanType, Versions
<1>3. NoImages \in [Paths -> Contents]
  BY DEF NoImages, Contents
<1>4. Idle \in OpType
  BY <1>2, <1>3 DEF Idle, OpType, Steps, Goals
<1>5. NoMarker \in MarkerType
  BY <1>2, <1>3 DEF NoMarker, MarkerOf, MarkerType, NoPlan, PlanType
<1> QED BY <1>2, <1>3, <1>4, <1>5

(* Both images of a target are contents a file can have. *)
LEMMA ImageType == ASSUME TypeOK, NEW p \in Paths
                   PROVE  Before(p) \in Contents /\ After(p) \in Contents
<1>1. Before(p) \in Contents
  BY DEF TypeOK, MarkerType, Before
<1>2. fileMode(Before(p)) \in Modes
  BY <1>1, ImageAssumption DEF fileMode, Contents, Image
<1>3. marker.after[p] \in Bytes
  BY DEF TypeOK, MarkerType
<1> QED BY <1>1, <1>2, <1>3 DEF After, Contents, Image

LEMMA MarkerOfType == ASSUME NEW plan \in PlanType, NEW before \in [Paths -> Contents]
                      PROVE  MarkerOf(plan, before) \in MarkerType
BY DEF MarkerOf, PlanType, MarkerType

LEMMA SpendType == ASSUME TypeOK, NEW d \in Disturbances, Spend(d)
                   PROVE  used' \in [Disturbances -> Nat]
BY LimitAssumption DEF TypeOK, Spend

LEMMA PutType == ASSUME TypeOK, NEW p \in Paths, NEW image \in Contents, Put(p, image)
                 PROVE  disk' \in [Paths -> Contents] /\ edited' \subseteq Paths
BY DEF TypeOK, Put

LEMMA ReturnType == ASSUME NEW r \in Results, Return(r)
                    PROVE  op' \in OpType /\ result' \in Results
BY IdleType DEF Return

LEMMA BeginType == ASSUME NEW job \in {"commit", "recover"}, NEW plan \in PlanType,
                          NEW step \in Steps, Begin(job, plan, step)
                   PROVE  op' \in OpType /\ result' \in Results
BY IdleType DEF Begin, OpType, Results

LEMMA RollBackType == ASSUME TypeOK, RollBack PROVE op' \in OpType
<1>1. marker.targets \subseteq Paths
  BY DEF TypeOK, MarkerType
<1> QED BY <1>1 DEF RollBack, TypeOK, OpType, Steps, Goals

LEMMA ShrinkType == ASSUME TypeOK, NEW p \in Paths
                    PROVE  /\ [op EXCEPT !.todo = @ \ {p}] \in OpType
                           /\ [op EXCEPT !.todo = @ \ {p}, !.failed = TRUE] \in OpType
BY DEF TypeOK, OpType

LEMMA TypeInit == Init => TypeOK
<1> SUFFICES ASSUME Init PROVE TypeOK
  OBVIOUS
<1>1. used \in [Disturbances -> Nat]
  BY DEF Init
<1>2. op \in OpType /\ marker \in MarkerType
  BY IdleType DEF Init
<1> QED BY <1>1, <1>2 DEF Init, TypeOK, Results

LEMMA TypeStep == TypeOK /\ [Next]_vars => TypeOK'
<1> SUFFICES ASSUME TypeOK, [Next]_vars PROVE TypeOK'
  OBVIOUS
<1>1. CASE UNCHANGED vars
  BY <1>1 DEF vars, stateDir, TypeOK
<1>2. ASSUME NEW plan \in Plans, BeginCommit(plan) PROVE TypeOK'
  <2>1. plan \in PlanType BY PlanAssumption
  <2>2. op' \in OpType /\ result' \in Results
    BY <1>2, <2>1, BeginType, ReturnType DEF BeginCommit, Steps, Results
  <2>3. used' \in [Disturbances -> Nat]
    BY <1>2, SpendType DEF BeginCommit, Disturbances
  <2> QED BY <1>2, <2>2, <2>3 DEF BeginCommit, TypeOK, stateDir
<1>3. ASSUME NEW plan \in Plans, BeginRecover(plan) PROVE TypeOK'
  <2>1. plan \in PlanType BY PlanAssumption
  <2>2. op' \in OpType /\ result' \in Results
    BY <1>3, <2>1, BeginType DEF BeginRecover, Steps
  <2> QED BY <1>3, <2>2 DEF BeginRecover, TypeOK, stateDir
<1>4. ASSUME ObserveFence PROVE TypeOK'
  <2>1. op' \in OpType /\ result' \in Results
    BY <1>4, ReturnType DEF ObserveFence, TypeOK, OpType, Steps, Results
  <2> QED BY <1>4, <2>1 DEF ObserveFence, TypeOK, stateDir
<1>5. ASSUME LoadMarker PROVE TypeOK'
  <2>1. op' \in OpType /\ result' \in Results
    <3>1. op \in OpType /\ result \in Results /\ marker.targets \subseteq Paths
      BY DEF TypeOK, MarkerType
    <3>2. ASSUME op' = [op EXCEPT !.step = "census"] PROVE op' \in OpType
      BY <3>1, <3>2 DEF OpType, Steps
    <3>3. ASSUME op' = [op EXCEPT !.step = "classify", !.goal = "recovery",
                                  !.todo = marker.targets]
          PROVE  op' \in OpType
      BY <3>1, <3>3 DEF OpType, Steps, Goals
    <3>4. Return("refused") => op' \in OpType /\ result' \in Results
      BY ReturnType DEF Results
    <3> QED BY <1>5, <3>1, <3>2, <3>3, <3>4 DEF LoadMarker
  <2> QED BY <1>5, <2>1 DEF LoadMarker, TypeOK, stateDir
<1>6. ASSUME NEW p \in Paths, ClassifyTarget(p) PROVE TypeOK'
  <2>1. op' \in OpType
    BY <1>6 DEF ClassifyTarget, TypeOK, OpType
  <2>2. edited' \subseteq Paths
    BY <1>6 DEF ClassifyTarget, TypeOK
  <2> QED BY <1>6, <2>1, <2>2 DEF ClassifyTarget, TypeOK, stateDir
<1>7. ASSUME Decide PROVE TypeOK'
  <2>1. op' \in OpType /\ result' \in Results
    <3>1. op \in OpType /\ result \in Results /\ marker.targets \subseteq Paths
      BY DEF TypeOK, MarkerType
    <3>2. ASSUME op' = [op EXCEPT !.step = "retire", !.goal = "finalize"] PROVE op' \in OpType
      BY <3>1, <3>2 DEF OpType, Steps, Goals
    <3>3. ASSUME op' = [op EXCEPT !.step = "restore", !.todo = marker.targets]
          PROVE  op' \in OpType
      BY <3>1, <3>3 DEF OpType, Steps
    <3>4. Return("refused") => op' \in OpType /\ result' \in Results
      BY ReturnType DEF Results
    <3> QED BY <1>7, <3>1, <3>2, <3>3, <3>4 DEF Decide
  <2> QED BY <1>7, <2>1 DEF Decide, TypeOK, stateDir
<1>8. ASSUME NEW p \in Paths, RestoreTarget(p) PROVE TypeOK'
  <2>1. op' \in OpType
    BY <1>8, ShrinkType DEF RestoreTarget
  <2>2. disk' \in [Paths -> Contents] /\ edited' \subseteq Paths
    BY <1>8, PutType, ImageType DEF RestoreTarget, TypeOK
  <2>3. used' \in [Disturbances -> Nat]
    BY <1>8, SpendType DEF RestoreTarget, TypeOK, Disturbances
  <2> QED BY <1>8, <2>1, <2>2, <2>3 DEF RestoreTarget, TypeOK, stateDir
<1>9. ASSUME FinishRestore PROVE TypeOK'
  <2>1. op' \in OpType /\ result' \in Results
    BY <1>9, ReturnType DEF FinishRestore, TypeOK, OpType, Steps, Results
  <2> QED BY <1>9, <2>1 DEF FinishRestore, TypeOK, stateDir
<1>10. ASSUME RetireEvidence PROVE TypeOK'
  <2>1. op' \in OpType
    BY <1>10 DEF RetireEvidence, TypeOK, OpType, Steps
  <2> QED BY <1>10, <2>1 DEF RetireEvidence, TypeOK
<1>11. ASSUME DiscardTombstone PROVE TypeOK'
  <2>1. op' \in OpType /\ result' \in Results
    BY <1>11, ReturnType DEF DiscardTombstone, TypeOK, OpType, Steps, Results
  <2> QED BY <1>11, <2>1 DEF DiscardTombstone, TypeOK
<1>12. ASSUME Census PROVE TypeOK'
  <2>1. op' \in OpType /\ result' \in Results
    BY <1>12, ReturnType DEF Census, TypeOK, OpType, Steps, Goals, Results
  <2> QED BY <1>12, <2>1 DEF Census, TypeOK, stateDir
<1>13. ASSUME CreateStage PROVE TypeOK'
  <2>1. op.plan.targets \subseteq Paths
    BY DEF TypeOK, OpType, PlanType
  <2>2. [op EXCEPT !.step = "capture", !.todo = op.plan.targets] \in OpType
    BY <2>1 DEF TypeOK, OpType, Steps
  <2>3. op' \in OpType /\ result' \in Results
    BY <1>13, <2>2, ReturnType DEF CreateStage, TypeOK, Results
  <2> QED BY <1>13, <2>3, IdleType DEF CreateStage, TypeOK
<1>14. ASSUME NEW p \in Paths, CaptureTarget(p) PROVE TypeOK'
  <2>1. op' \in OpType
    BY <1>14 DEF CaptureTarget, TypeOK, OpType, Steps
  <2> QED BY <1>14, <2>1 DEF CaptureTarget, TypeOK, stateDir
<1>15. ASSUME RenameStage PROVE /\ published' \in BOOLEAN /\ marker' \in MarkerType
                                /\ damaged' \subseteq Paths
                                /\ private' \subseteq {"stage", "tombstone"}
  <2>1. op.plan \in PlanType /\ op.captured \in [Paths -> Contents]
    BY DEF TypeOK, OpType
  <2> QED BY <1>15, <2>1, MarkerOfType DEF RenameStage, TypeOK
<1>16. ASSUME PublishEvidence PROVE TypeOK'
  <2>1. op' \in OpType
    BY <1>16, IdleType DEF PublishEvidence, TypeOK, OpType, Steps
  <2> QED BY <1>16, <2>1, <1>15 DEF PublishEvidence, TypeOK
<1>17. ASSUME BeginWrites PROVE TypeOK'
  <2>1. op' \in OpType
    BY <1>17 DEF BeginWrites, TypeOK, OpType, PlanType, Steps, Goals
  <2> QED BY <1>17, <2>1 DEF BeginWrites, TypeOK, stateDir
<1>18. ASSUME NEW p \in Paths, WriteTarget(p) PROVE TypeOK'
  <2>1. op' \in OpType
    BY <1>18, ShrinkType, RollBackType DEF WriteTarget
  <2>2. disk' \in [Paths -> Contents] /\ edited' \subseteq Paths
    BY <1>18, PutType, ImageType DEF WriteTarget, TypeOK
  <2>3. used' \in [Disturbances -> Nat]
    BY <1>18, SpendType DEF WriteTarget, TypeOK, Disturbances
  <2> QED BY <1>18, <2>1, <2>2, <2>3 DEF WriteTarget, TypeOK, stateDir
<1>19. ASSUME FinishWrites PROVE TypeOK'
  <2>1. op' \in OpType
    BY <1>19 DEF FinishWrites, TypeOK, OpType, Steps, Goals
  <2> QED BY <1>19, <2>1 DEF FinishWrites, TypeOK, stateDir
<1>20. ASSUME CancelWrites PROVE TypeOK'
  <2>1. op' \in OpType /\ result' \in Results
    BY <1>20, ReturnType, RollBackType DEF CancelWrites, TypeOK, Results
  <2> QED BY <1>20, <2>1 DEF CancelWrites, TypeOK, stateDir
<1>21. ASSUME Interrupted \/ Faulted PROVE used' \in [Disturbances -> Nat]
  BY <1>21, SpendType DEF Interrupted, Faulted, TypeOK, Disturbances
<1>22. ASSUME FailStep PROVE TypeOK'
  <2>1. op' \in OpType /\ result' \in Results
    BY <1>22, ReturnType DEF FailStep, Results
  <2> QED BY <1>22, <2>1, <1>21 DEF FailStep, TypeOK
<1>23. ASSUME FailPublished PROVE TypeOK'
  <2>1. op' \in OpType /\ result' \in Results
    BY <1>23, ReturnType DEF FailPublished, Results
  <2> QED BY <1>23, <2>1, <1>15, <1>21 DEF FailPublished, TypeOK
<1>24. ASSUME Cancel PROVE TypeOK'
  <2>1. op' \in OpType
    BY <1>24 DEF Cancel, TypeOK, OpType
  <2>2. used' \in [Disturbances -> Nat]
    BY <1>24, SpendType DEF Cancel, Disturbances
  <2> QED BY <1>24, <2>1, <2>2 DEF Cancel, TypeOK, stateDir
<1>25. ASSUME Crash PROVE TypeOK'
  <2>1. op' \in OpType /\ result' \in Results
    BY <1>25, ReturnType DEF Crash, Results
  <2>2. used' \in [Disturbances -> Nat]
    BY <1>25, SpendType DEF Crash, Disturbances
  <2> QED BY <1>25, <2>1, <2>2 DEF Crash, TypeOK, stateDir
<1>26. ASSUME NEW p \in Paths, Edit(p) PROVE TypeOK'
  <2>1. disk' \in [Paths -> Contents]
    BY <1>26 DEF Edit, TypeOK
  <2>2. used' \in [Disturbances -> Nat]
    BY <1>26, SpendType DEF Edit, Disturbances
  <2>3. op' \in OpType
    BY <1>26 DEF Edit, TypeOK, OpType
  <2> QED BY <1>26, <2>1, <2>2, <2>3 DEF Edit, TypeOK, stateDir
<1>27. ASSUME NEW p \in Paths, DamageBackup(p) PROVE TypeOK'
  <2>1. used' \in [Disturbances -> Nat]
    BY <1>27, SpendType DEF DamageBackup, Disturbances
  <2> QED BY <1>27, <2>1 DEF DamageBackup, TypeOK
<1> QED
  BY <1>1, <1>2, <1>3, <1>4, <1>5, <1>6, <1>7, <1>8, <1>9, <1>10, <1>11, <1>12,
     <1>13, <1>14, <1>16, <1>17, <1>18, <1>19, <1>20, <1>22, <1>23, <1>24, <1>25,
     <1>26, <1>27
  DEF Next, Commit, Recovery, Failure, Environment

(* TypeOK is an invariant of the file-set transaction: every operation leaves a
   well-formed marker, disk and operation state. *)
THEOREM TypeCorrect == Spec => []TypeOK
BY TypeInit, TypeStep, PTL DEF Spec

(* A step that leaves the files and the evidence alone keeps what is said of them. *)
LEMMA QuietInv == ASSUME Inv, UNCHANGED <<disk, stateDir, edited>>
                  PROVE  Recoverable' /\ Atomic' /\ EvidenceExclusive'
BY DEF Inv, stateDir, Recoverable, Atomic, EvidenceExclusive, AllBefore, AllAfter, Before, After

(* An operation may stop at any step without a promise. *)
LEMMA StopInv == ASSUME Inv, TypeOK', UNCHANGED <<disk, published, marker, edited>>,
                        EvidenceExclusive', NEW r \in {"refused", "failed", "crashed"}, Return(r)
                 PROVE  Inv'
<1>1. op'.step = "idle" /\ result' \in {"refused", "failed", "crashed"}
  BY DEF Return, Idle
<1>2. Recoverable' /\ Atomic'
  BY DEF Inv, Recoverable, Atomic, AllBefore, AllAfter, Before, After
<1> QED BY <1>1, <1>2 DEF Inv, Truthful, Progress

(* Putting one of its images on a target keeps the transaction recoverable. *)
LEMMA PutInv == ASSUME Inv, published, UNCHANGED stateDir, NEW p \in Paths,
                       UNCHANGED <<disk, edited>> \/ Put(p, Before(p)) \/ Put(p, After(p))
                PROVE  Recoverable' /\ Atomic' /\ EvidenceExclusive'
<1>1. CASE UNCHANGED <<disk, edited>>
  BY <1>1, QuietInv
<1>2. CASE Put(p, Before(p)) \/ Put(p, After(p))
  <2>1. disk \in [Paths -> Contents] /\ marker.targets \subseteq Paths
    BY DEF Inv, TypeOK, MarkerType
  <2>2. \A q \in marker.targets \ edited' : disk'[q] \in {Before(q), After(q)}
    BY <1>2, <2>1 DEF Put, Inv, Recoverable
  <2> QED BY <2>2 DEF Inv, stateDir, Recoverable, Atomic, EvidenceExclusive, Before, After
<1> QED BY <1>1, <1>2

LEMMA InvInit == Init => Inv
<1> SUFFICES ASSUME Init PROVE Inv
  OBVIOUS
<1>1. op.step = "idle" /\ marker.targets = {}
  BY DEF Init, Idle, NoMarker, MarkerOf, NoPlan
<1> QED
  BY <1>1, TypeInit DEF Init, Inv, Recoverable, Atomic, EvidenceExclusive, Truthful, Progress, AllBefore

LEMMA InvCommit == ASSUME Inv, TypeOK', Commit PROVE Inv'
<1> USE DEF Inv
<1>1. ASSUME NEW plan \in Plans, BeginCommit(plan) PROVE Inv'
  <2>1. Recoverable' /\ Atomic' /\ EvidenceExclusive'
    BY <1>1, QuietInv DEF BeginCommit
  <2>2. CASE Return("refused")
    BY <1>1, <2>1, <2>2, StopInv DEF BeginCommit, stateDir
  <2>3. CASE Begin("commit", plan, IF plan.fresh THEN "fence" ELSE "load")
    <3>1. op'.step \in {"fence", "load"} /\ result' = "none"
      BY <2>3 DEF Begin, Idle
    <3> QED BY <2>1, <3>1 DEF Truthful, Progress
  <2> QED BY <1>1, <2>2, <2>3 DEF BeginCommit
<1>2. ASSUME ObserveFence PROVE Inv'
  <2>1. Recoverable' /\ Atomic' /\ EvidenceExclusive'
    BY <1>2, QuietInv DEF ObserveFence
  <2>2. CASE Return("refused")
    BY <1>2, <2>1, <2>2, StopInv DEF ObserveFence, stateDir
  <2>3. CASE op' = [op EXCEPT !.step = "load"] /\ UNCHANGED result
    <3>1. op'.step = "load" /\ result' = "none"
      BY <1>2, <2>3 DEF ObserveFence, At, Progress, TypeOK, OpType
    <3> QED BY <2>1, <3>1 DEF Truthful, Progress
  <2> QED BY <1>2, <2>2, <2>3 DEF ObserveFence
<1>3. ASSUME CreateStage PROVE Inv'
  <2>1. CASE published \/ private # {}
    <3>1. Return("refused") /\ UNCHANGED <<disk, published, marker, edited, private>>
      BY <1>3, <2>1 DEF CreateStage
    <3> QED BY <3>1, StopInv DEF EvidenceExclusive
  <2>2. CASE ~published /\ private = {}
    <3>1. /\ op'.step = "capture" /\ op'.todo = op.plan.targets /\ op'.plan = op.plan
          /\ result' = "none"
      BY <1>3, <2>2 DEF CreateStage, At, Progress, TypeOK, OpType
    <3>2. ~published' /\ private' = {"stage"} /\ marker'.targets = {}
      BY <1>3, <2>2 DEF CreateStage, NoMarker, MarkerOf, NoPlan
    <3> QED BY <3>1, <3>2
        DEF Recoverable, Atomic, EvidenceExclusive, Truthful, Progress, AllBefore
  <2> QED BY <2>1, <2>2
<1>4. ASSUME NEW p \in Paths, CaptureTarget(p) PROVE Inv'
  <2>1. ~published /\ marker.targets = {} /\ private = {"stage"}
    BY <1>4 DEF CaptureTarget, At, Progress
  <2>2. /\ op'.todo = op.todo \ {p} /\ op'.plan = op.plan
        /\ op'.captured = [op.captured EXCEPT ![p] = disk[p]]
        /\ op'.step = IF op.todo = {p} THEN "publish" ELSE "capture"
    <3>1. op.step = "capture" /\ op \in OpType
      BY <1>4 DEF CaptureTarget, At, TypeOK
    <3>2. op' = [op EXCEPT !.todo = op.todo \ {p},
                           !.captured = [op.captured EXCEPT ![p] = disk[p]],
                           !.step = IF op.todo = {p} THEN "publish" ELSE "capture",
                           !.raced = op.raced \ {p}]
      BY <1>4, <3>1 DEF CaptureTarget, OpType
    <3> QED BY <3>1, <3>2 DEF OpType
  <2>3. result' = "none"
    BY <1>4 DEF CaptureTarget, At, Progress
  <2>4. \A q \in op.plan.targets \ (op'.todo \cup edited') : disk'[q] = op'.captured[q]
    <3>1. op.captured \in [Paths -> Contents] /\ op.plan.targets \subseteq Paths
      BY DEF TypeOK, OpType, PlanType
    <3> QED BY <1>4, <2>2, <3>1 DEF CaptureTarget, At, Progress
  <2> QED BY <1>4, <2>1, <2>2, <2>3, <2>4
      DEF CaptureTarget, stateDir, Recoverable, Atomic, EvidenceExclusive, Truthful, Progress,
          AllBefore
<1>5. ASSUME PublishEvidence PROVE Inv'
  <2>1. published' /\ private' = {} /\ marker' = MarkerOf(op.plan, op.captured)
    BY <1>5 DEF PublishEvidence, RenameStage, At, Progress
  <2>2. /\ marker'.targets = op.plan.targets /\ marker'.writes = op.plan.writes
        /\ marker'.commitPoint = op.plan.commitPoint /\ marker'.before = op.captured
    BY <2>1 DEF MarkerOf
  <2>3. op'.step = "published" /\ op'.plan = op.plan /\ result' = "none"
    BY <1>5 DEF PublishEvidence, At, Progress, TypeOK, OpType
  <2>4. AllBefore'
    BY <1>5, <2>2 DEF PublishEvidence, At, Progress, AllBefore, Before
  <2> QED BY <2>1, <2>2, <2>3, <2>4
      DEF Recoverable, Atomic, EvidenceExclusive, Truthful, Progress, AllBefore
<1>6. ASSUME BeginWrites PROVE Inv'
  <2>1. Recoverable' /\ Atomic' /\ EvidenceExclusive'
    BY <1>6, QuietInv DEF BeginWrites
  <2>2. AllBefore /\ published /\ result' = "none" /\ op.plan.writes = marker.writes
    BY <1>6 DEF BeginWrites, At, Progress
  <2>3. \/ op'.step = "retire" /\ op'.goal = "abort"
        \/ op'.step = "write" /\ op'.todo = marker.writes /\ op'.plan = op.plan
    BY <1>6, <2>2 DEF BeginWrites, TypeOK, OpType
  <2> QED BY <1>6, <2>1, <2>2, <2>3
      DEF BeginWrites, At, stateDir, Truthful, Progress, AllBefore, Before, After
<1>7. ASSUME NEW p \in Paths, WriteTarget(p) PROVE Inv'
  <2>1. /\ published /\ private = {} /\ result' = "none" /\ UNCHANGED stateDir
        /\ p \in op.todo
    BY <1>7 DEF WriteTarget, At, first, Progress, EvidenceExclusive
  <2>2. \A q \in marker.targets \ edited : disk[q] = IF q \in op.todo THEN Before(q) ELSE After(q)
    BY <1>7 DEF WriteTarget, At, Progress
  <2>3. Recoverable' /\ Atomic' /\ EvidenceExclusive'
    <3>1. UNCHANGED <<disk, edited>> \/ Put(p, After(p))
      BY <1>7 DEF WriteTarget
    <3> QED BY <2>1, <3>1, PutInv
  <2>4. CASE op' = [op EXCEPT !.todo = @ \ {p}] /\ Put(p, After(p))
    <3>1. op'.step = "write" /\ op'.todo = op.todo \ {p} /\ op'.plan = op.plan
      BY <1>7, <2>4 DEF WriteTarget, At, TypeOK, OpType
    <3>2. \A q \in marker.targets \ edited' :
             disk'[q] = IF q \in op'.todo THEN Before(q) ELSE After(q)
      BY <2>2, <2>4, <3>1 DEF Put, TypeOK
    <3> QED BY <1>7, <2>1, <2>3, <3>1, <3>2
        DEF WriteTarget, At, stateDir, Truthful, Progress, Before, After
  <2>5. CASE RollBack
    <3>1. op'.step = "classify" /\ op'.todo = marker.targets /\ op'.goal = "rollback"
      BY <2>5 DEF RollBack, TypeOK, OpType
    <3> QED BY <2>1, <2>3, <3>1 DEF stateDir, Truthful, Progress
  <2> QED BY <1>7, <2>4, <2>5 DEF WriteTarget
<1>8. ASSUME FinishWrites PROVE Inv'
  <2>1. Recoverable' /\ Atomic' /\ EvidenceExclusive'
    BY <1>8, QuietInv DEF FinishWrites
  <2>2. published /\ AllAfter /\ result' = "none"
    BY <1>8 DEF FinishWrites, At, Progress, AllAfter
  <2>3. op'.step = "retire" /\ op'.goal = "commit"
    BY <1>8 DEF FinishWrites, TypeOK, OpType
  <2> QED BY <1>8, <2>1, <2>2, <2>3
      DEF FinishWrites, stateDir, Truthful, Progress, AllAfter, Before, After
<1>9. ASSUME CancelWrites PROVE Inv'
  <2>1. Recoverable' /\ Atomic' /\ EvidenceExclusive'
    BY <1>9, QuietInv DEF CancelWrites
  <2>2. CASE Return("failed")
    BY <1>9, <2>1, <2>2, StopInv DEF CancelWrites, stateDir
  <2>3. CASE RollBack /\ UNCHANGED result
    <3>1. op'.step = "classify" /\ op'.todo = marker.targets /\ op'.goal = "rollback"
      BY <2>3 DEF RollBack, TypeOK, OpType
    <3> QED BY <1>9, <2>1, <2>3, <3>1 DEF CancelWrites, At, stateDir, Truthful, Progress
  <2> QED BY <1>9, <2>2, <2>3 DEF CancelWrites
<1> QED BY <1>1, <1>2, <1>3, <1>4, <1>5, <1>6, <1>7, <1>8, <1>9 DEF Commit

LEMMA InvRecovery == ASSUME Inv, TypeOK', Recovery PROVE Inv'
<1> USE DEF Inv
<1>1. ASSUME LoadMarker PROVE Inv'
  <2>1. Recoverable' /\ Atomic' /\ EvidenceExclusive'
    BY <1>1, QuietInv DEF LoadMarker
  <2>2. CASE Return("refused")
    BY <1>1, <2>1, <2>2, StopInv DEF LoadMarker, stateDir
  <2>3. CASE ~published /\ op' = [op EXCEPT !.step = "census"] /\ UNCHANGED result
    <3>1. op'.step = "census" /\ result' = "none"
      BY <1>1, <2>3 DEF LoadMarker, At, Progress, TypeOK, OpType
    <3> QED BY <1>1, <2>1, <2>3, <3>1 DEF LoadMarker, stateDir, Truthful, Progress
  <2>4. CASE /\ published
             /\ op' = [op EXCEPT !.step = "classify", !.goal = "recovery", !.todo = marker.targets]
             /\ UNCHANGED result
    <3>1. op'.step = "classify" /\ op'.todo = marker.targets /\ result' = "none"
      BY <1>1, <2>4 DEF LoadMarker, At, Progress, TypeOK, OpType
    <3> QED BY <1>1, <2>1, <2>4, <3>1 DEF LoadMarker, stateDir, Truthful, Progress
  <2> QED BY <1>1, <2>2, <2>3, <2>4 DEF LoadMarker
<1>2. ASSUME NEW p \in Paths, ClassifyTarget(p) PROVE Inv'
  <2>1. /\ published /\ result' = "none" /\ UNCHANGED <<disk, stateDir>>
        /\ edited' \in {edited, edited \ {p}}
    BY <1>2 DEF ClassifyTarget, At, Progress
  <2>2. p \in edited \ edited' => disk[p] \in {Before(p), After(p)}
    BY <1>2 DEF ClassifyTarget, matches
  <2>3. Recoverable' /\ Atomic' /\ EvidenceExclusive'
    BY <2>1, <2>2 DEF stateDir, Recoverable, Atomic, EvidenceExclusive, Before, After
  <2>4. /\ op'.step = "classify" /\ op'.todo = op.todo \ {p} /\ op'.goal = op.goal
        /\ op'.allAfter = (op.allAfter /\ disk[p] = After(p))
    BY <1>2 DEF ClassifyTarget, At, matches, TypeOK, OpType
  <2>5. op'.allAfter => \A q \in marker.targets \ (op'.todo \cup edited') : disk[q] = After(q)
    BY <1>2, <2>1, <2>4 DEF ClassifyTarget, At, Progress
  <2>6. op.goal \in {"recovery", "rollback"}
    BY <1>2 DEF ClassifyTarget, At, Progress
  <2> QED BY <2>1, <2>3, <2>4, <2>5, <2>6 DEF stateDir, Truthful, Progress, Before, After
<1>3. ASSUME Decide PROVE Inv'
  <2>1. Recoverable' /\ Atomic' /\ EvidenceExclusive'
    BY <1>3, QuietInv DEF Decide
  <2>2. published
    BY <1>3 DEF Decide, At, Progress
  <2>3. CASE Return("refused")
    BY <1>3, <2>1, <2>3, StopInv DEF Decide, stateDir
  <2>4. CASE /\ op.allAfter /\ UNCHANGED result
             /\ op' = [op EXCEPT !.step = "retire", !.goal = "finalize"]
    <3>1. op'.step = "retire" /\ op'.goal = "finalize" /\ result' = "none"
      BY <1>3, <2>4 DEF Decide, At, Progress, TypeOK, OpType
    <3>2. AllAfter
      BY <1>3, <2>4 DEF Decide, At, Progress, AllAfter
    <3> QED BY <1>3, <2>1, <2>2, <3>1, <3>2
        DEF Decide, stateDir, Truthful, Progress, AllAfter, Before, After
  <2>5. CASE op' = [op EXCEPT !.step = "restore", !.todo = marker.targets] /\ UNCHANGED result
    <3>1. /\ op'.step = "restore" /\ op'.todo = marker.targets /\ result' = "none"
          /\ op'.goal \in {"recovery", "rollback"}
      BY <1>3, <2>5 DEF Decide, At, Progress, TypeOK, OpType
    <3> QED BY <1>3, <2>1, <2>2, <3>1 DEF Decide, stateDir, Truthful, Progress
  <2> QED BY <1>3, <2>3, <2>4, <2>5 DEF Decide
<1>4. ASSUME NEW p \in Paths, RestoreTarget(p) PROVE Inv'
  <2>1. published /\ private = {} /\ result' = "none" /\ UNCHANGED stateDir
    BY <1>4 DEF RestoreTarget, At, Progress, EvidenceExclusive
  <2>2. \/ UNCHANGED <<disk, edited>> \/ Put(p, Before(p))
    BY <1>4 DEF RestoreTarget
  <2>3. Recoverable' /\ Atomic' /\ EvidenceExclusive'
    BY <2>1, <2>2, PutInv
  <2>4. op'.step = "restore" /\ op'.todo = op.todo \ {p} /\ op'.goal = op.goal
    BY <1>4 DEF RestoreTarget, At, TypeOK, OpType
  <2>5. ASSUME ~op'.failed PROVE ~op.failed /\ disk'[p] = Before(p)
    BY <1>4, <2>5 DEF RestoreTarget, Put, matches, TypeOK, OpType
  <2>6. ASSUME ~op'.failed, NEW q \in marker.targets \ (op'.todo \cup edited')
        PROVE  disk'[q] = Before(q)
    <3>1. CASE q = p BY <2>5, <2>6, <3>1
    <3>2. CASE q # p
      <4>1. q \notin op.todo /\ q \notin edited /\ disk'[q] = disk[q]
        BY <2>2, <2>4, <2>6, <3>2 DEF Put, TypeOK, MarkerType
      <4>2. ~op.failed /\ op.step = "restore"
        BY <1>4, <2>5, <2>6 DEF RestoreTarget, At
      <4> QED BY <2>6, <4>1, <4>2 DEF Progress
    <3> QED BY <3>1, <3>2
  <2>7. op.goal \in {"recovery", "rollback"}
    BY <1>4 DEF RestoreTarget, At, Progress
  <2> QED BY <2>1, <2>3, <2>4, <2>6, <2>7 DEF stateDir, Truthful, Progress, Before
<1>5. ASSUME FinishRestore PROVE Inv'
  <2>1. Recoverable' /\ Atomic' /\ EvidenceExclusive'
    BY <1>5, QuietInv DEF FinishRestore
  <2>2. CASE op.failed
    BY <1>5, <2>1, <2>2, StopInv DEF FinishRestore, stateDir
  <2>3. CASE ~op.failed
    <3>1. op'.step = "retire" /\ op'.goal = op.goal /\ result' = "none"
      BY <1>5, <2>3 DEF FinishRestore, At, Progress, TypeOK, OpType
    <3>2. published /\ AllBefore
      BY <1>5, <2>3 DEF FinishRestore, At, Progress, AllBefore
    <3>3. op.goal \in {"recovery", "rollback"}
      BY <1>5 DEF FinishRestore, At, Progress
    <3> QED BY <1>5, <2>1, <3>1, <3>2, <3>3
        DEF FinishRestore, stateDir, Truthful, Progress, AllBefore, Before
  <2> QED BY <2>2, <2>3
<1>6. ASSUME RetireEvidence PROVE Inv'
  <2>1. /\ op'.step = "discard" /\ op'.goal = op.goal /\ result' = "none"
        /\ ~published' /\ private' = {"tombstone"}
    BY <1>6 DEF RetireEvidence, At, Progress, EvidenceExclusive, TypeOK, OpType
  <2>2. IF op.goal \in {"commit", "finalize"} THEN AllAfter' ELSE AllBefore'
    BY <1>6 DEF RetireEvidence, At, Progress, AllAfter, AllBefore, Before, After
  <2> QED BY <2>1, <2>2 DEF Recoverable, Atomic, EvidenceExclusive, Truthful, Progress
<1>7. ASSUME DiscardTombstone PROVE Inv'
  <2>1. ~published' /\ private' = {}
    BY <1>7 DEF DiscardTombstone, At, Progress
  <2>2. IF op.goal \in {"commit", "finalize"} THEN AllAfter' ELSE AllBefore'
    BY <1>7 DEF DiscardTombstone, At, Progress, AllAfter, AllBefore, Before, After
  <2>3. Recoverable' /\ Atomic' /\ EvidenceExclusive'
    BY <2>1, <2>2 DEF Recoverable, Atomic, EvidenceExclusive
  <2>4. CASE op.goal = "commit" /\ Return("committed")
    BY <2>1, <2>2, <2>3, <2>4 DEF Return, Idle, Truthful, Progress
  <2>5. CASE op.goal = "rollback" /\ Return("rolledback")
    BY <2>1, <2>2, <2>3, <2>5 DEF Return, Idle, Truthful, Progress
  <2>6. CASE Return("failed")
    BY <2>1, <2>3, <2>6 DEF Return, Idle, Truthful, Progress
  <2>7. CASE op' = [op EXCEPT !.step = "census"] /\ UNCHANGED result
    <3>1. op'.step = "census" /\ result' = "none"
      BY <1>7, <2>7 DEF DiscardTombstone, At, Progress, TypeOK, OpType
    <3> QED BY <2>1, <2>3, <3>1 DEF Truthful, Progress
  <2> QED BY <1>7, <2>4, <2>5, <2>6, <2>7 DEF DiscardTombstone
<1>8. ASSUME Census PROVE Inv'
  <2>1. Recoverable' /\ Atomic' /\ EvidenceExclusive'
    BY <1>8, QuietInv DEF Census
  <2>2. ~published /\ UNCHANGED stateDir
    BY <1>8 DEF Census, At, Progress
  <2>3. CASE Return("refused")
    BY <1>8, <2>1, <2>3, StopInv DEF Census, stateDir
  <2>4. CASE private = {} /\ Return("clear")
    BY <2>1, <2>2, <2>4 DEF Return, Idle, stateDir, Truthful, Progress
  <2>5. CASE op' = [op EXCEPT !.step = "stage", !.goal = "none"] /\ UNCHANGED result
    <3>1. op'.step = "stage" /\ result' = "none"
      BY <1>8, <2>5 DEF Census, At, Progress, TypeOK, OpType
    <3> QED BY <2>1, <2>2, <3>1 DEF stateDir, Truthful, Progress
  <2> QED BY <1>8, <2>3, <2>4, <2>5 DEF Census
<1> QED BY <1>1, <1>2, <1>3, <1>4, <1>5, <1>6, <1>7, <1>8 DEF Recovery

LEMMA InvOther == ASSUME Inv, TypeOK',
                         \/ \E plan \in Plans : BeginRecover(plan)
                         \/ Failure
                         \/ Environment
                  PROVE  Inv'
<1> USE DEF Inv
<1>1. ASSUME NEW plan \in Plans, BeginRecover(plan) PROVE Inv'
  <2>1. Recoverable' /\ Atomic' /\ EvidenceExclusive'
    BY <1>1, QuietInv DEF BeginRecover
  <2>2. Begin("recover", plan, "load")
    BY <1>1 DEF BeginRecover
  <2>3. op'.step = "load" /\ result' = "none"
    BY <2>2 DEF Begin, Idle
  <2> QED BY <2>1, <2>3 DEF Truthful, Progress
<1>2. ASSUME FailStep PROVE Inv'
  <2>1. EvidenceExclusive'
    BY <1>2 DEF FailStep, EvidenceExclusive
  <2> QED BY <1>2, <2>1, StopInv DEF FailStep
<1>3. ASSUME FailPublished PROVE Inv'
  <2>1. published' /\ private' = {} /\ marker' = MarkerOf(op.plan, op.captured)
    BY <1>3 DEF FailPublished, RenameStage, At, Progress
  <2>2. marker'.targets = op.plan.targets /\ marker'.before = op.captured
    BY <2>1 DEF MarkerOf
  <2>3. op'.step = "idle" /\ result' = "failed"
    BY <1>3 DEF FailPublished, Return, Idle
  <2>4. AllBefore'
    BY <1>3, <2>2 DEF FailPublished, At, Progress, AllBefore, Before
  <2> QED BY <2>1, <2>2, <2>3, <2>4
      DEF Recoverable, Atomic, EvidenceExclusive, Truthful, Progress, AllBefore
<1>4. ASSUME Cancel PROVE Inv'
  <2>1. Recoverable' /\ Atomic' /\ EvidenceExclusive'
    BY <1>4, QuietInv DEF Cancel
  <2>2. /\ op'.step = op.step /\ op'.plan = op.plan /\ op'.todo = op.todo /\ op'.goal = op.goal
        /\ op'.captured = op.captured /\ op'.allAfter = op.allAfter /\ op'.failed = op.failed
    BY <1>4 DEF Cancel, TypeOK, OpType
  <2> QED BY <1>4, <2>1, <2>2
      DEF Cancel, stateDir, Truthful, Progress, AllBefore, AllAfter, Before, After
<1>5. ASSUME Crash PROVE Inv'
  <2>1. EvidenceExclusive'
    BY <1>5, QuietInv DEF Crash
  <2> QED BY <1>5, <2>1, StopInv DEF Crash, stateDir
<1>6. ASSUME NEW p \in Paths, Edit(p) PROVE Inv'
  <2>1. /\ edited' = edited \cup {p} /\ UNCHANGED <<published, marker, private, result>>
        /\ \A q \in Paths \ {p} : disk'[q] = disk[q]
    BY <1>6 DEF Edit, stateDir, TypeOK
  <2>8. /\ op'.step = op.step /\ op'.plan = op.plan /\ op'.todo = op.todo /\ op'.goal = op.goal
        /\ op'.captured = op.captured /\ op'.allAfter = op.allAfter /\ op'.failed = op.failed
    BY <1>6 DEF Edit, TypeOK, OpType
  <2>2. marker.targets \subseteq Paths /\ op.plan.targets \subseteq Paths
    BY DEF TypeOK, MarkerType, OpType, PlanType
  <2>3. \A q \in marker.targets \ edited' : disk'[q] = disk[q] /\ q \notin edited
    BY <2>1, <2>2
  <2>4. \A q \in op.plan.targets \ edited' : disk'[q] = disk[q] /\ q \notin edited
    BY <2>1, <2>2
  <2>5. (AllBefore => AllBefore') /\ (AllAfter => AllAfter')
    BY <2>1, <2>3 DEF AllBefore, AllAfter, Before, After
  <2>6. Recoverable' /\ Atomic' /\ EvidenceExclusive' /\ Truthful'
    BY <2>1, <2>3, <2>5
    DEF Recoverable, Atomic, EvidenceExclusive, Truthful, Before, After
  <2>7. Progress'
    BY <2>1, <2>3, <2>4, <2>5, <2>8 DEF Progress, Before, After
  <2> QED BY <2>6, <2>7
<1>7. ASSUME NEW p \in Paths, DamageBackup(p) PROVE Inv'
  BY <1>7 DEF DamageBackup, Recoverable, Atomic, EvidenceExclusive, Truthful, Progress,
              AllBefore, AllAfter, Before, After
<1> QED BY <1>1, <1>2, <1>3, <1>4, <1>5, <1>6, <1>7 DEF Failure, Environment

LEMMA InvStep == Inv /\ [Next]_vars => Inv'
<1> SUFFICES ASSUME Inv, [Next]_vars PROVE Inv'
  OBVIOUS
<1>1. TypeOK'
  BY TypeStep DEF Inv
<1>2. CASE UNCHANGED vars
  BY <1>1, <1>2 DEF vars, stateDir, Inv, Recoverable, Atomic, EvidenceExclusive, Truthful,
                    Progress, AllBefore, AllAfter, Before, After
<1> QED BY <1>1, <1>2, InvCommit, InvRecovery, InvOther DEF Next

(* The inductive invariant holds throughout, for any number of disturbances. *)
THEOREM Invariance == Spec => []Inv
BY InvInit, InvStep, PTL DEF Spec

(* Once the evidence is gone, the transaction of commitWithOperationsVersion happened
   entirely or not at all on every target nobody else edited. *)
THEOREM Atomicity == Spec => []Atomic
<1>1. Inv => Atomic BY DEF Inv
<1> QED BY <1>1, Invariance, PTL

(* Published evidence always describes a state recovery can resolve. *)
THEOREM AlwaysRecoverable == Spec => []Recoverable
<1>1. Inv => Recoverable BY DEF Inv
<1> QED BY <1>1, Invariance, PTL

(* What an operation reports about its outcome is true. *)
THEOREM TruthfulOutcome == Spec => []Truthful
<1>1. Inv => Truthful BY DEF Inv
<1> QED BY <1>1, Invariance, PTL

LEMMA ScopeStep == Inv /\ Scope /\ [Next]_vars => Scope'
<1> SUFFICES ASSUME Inv, Scope, [Next]_vars PROVE Scope'
  OBVIOUS
<1>1. op \in OpType /\ marker.targets \subseteq Paths
  BY DEF Inv, TypeOK, MarkerType
<1>2. CASE UNCHANGED vars
  BY <1>2 DEF vars, stateDir, Scope
<1>3. ASSUME NEW r, Return(r) PROVE Scope'
  BY <1>3 DEF Return, Idle, Scope
<1>4. CASE Commit
  <2>1. ASSUME NEW plan \in Plans, BeginCommit(plan) PROVE Scope'
    <3>1. CASE admitted(plan)
      <4>1. Begin("commit", plan, IF plan.fresh THEN "fence" ELSE "load")
        BY <2>1, <3>1 DEF BeginCommit
      <4>2. op'.step \in {"fence", "load"} /\ op'.plan = plan
        BY <4>1 DEF Begin, Idle
      <4> QED BY <3>1, <4>2 DEF Scope, admitted
    <3>2. CASE ~admitted(plan)
      BY <2>1, <3>2, <1>3 DEF BeginCommit
    <3> QED BY <3>1, <3>2
  <2>2. ASSUME ObserveFence PROVE Scope'
    BY <2>2, <1>1, <1>3 DEF ObserveFence, Scope, OpType
  <2>3. ASSUME CreateStage PROVE Scope'
    BY <2>3, <1>1, <1>3 DEF CreateStage, At, Scope, OpType
  <2>4. ASSUME NEW p \in Paths, CaptureTarget(p) PROVE Scope'
    <3>1. /\ op.step = "capture" /\ op'.job = op.job /\ op'.plan = op.plan
          /\ op'.step = IF op.todo = {p} THEN "publish" ELSE op.step
      BY <2>4, <1>1 DEF CaptureTarget, At, OpType
    <3> QED BY <3>1 DEF Scope
  <2>5. ASSUME PublishEvidence PROVE Scope'
    BY <2>5, <1>1 DEF PublishEvidence, At, Scope, OpType
  <2>6. ASSUME BeginWrites PROVE Scope'
    BY <2>6, <1>1 DEF BeginWrites, At, stateDir, Scope, Inv, Progress, OpType
  <2>7. ASSUME NEW p \in Paths, WriteTarget(p) PROVE Scope'
    BY <2>7, <1>1 DEF WriteTarget, RollBack, At, stateDir, Scope, OpType
  <2>8. ASSUME FinishWrites PROVE Scope'
    BY <2>8, <1>1 DEF FinishWrites, Scope, OpType
  <2>9. ASSUME CancelWrites PROVE Scope'
    BY <2>9, <1>1, <1>3 DEF CancelWrites, RollBack, stateDir, Scope, OpType
  <2> QED BY <1>4, <2>1, <2>2, <2>3, <2>4, <2>5, <2>6, <2>7, <2>8, <2>9 DEF Commit
<1>5. CASE Recovery
  <2>1. ASSUME LoadMarker PROVE Scope'
    BY <2>1, <1>1, <1>3 DEF LoadMarker, stateDir, Scope, OpType
  <2>2. ASSUME NEW p \in Paths, ClassifyTarget(p) PROVE Scope'
    BY <2>2, <1>1 DEF ClassifyTarget, At, stateDir, Scope, OpType
  <2>3. ASSUME Decide PROVE Scope'
    BY <2>3, <1>1, <1>3 DEF Decide, stateDir, Scope, OpType
  <2>4. ASSUME NEW p \in Paths, RestoreTarget(p) PROVE Scope'
    <3>1. op'.step = "restore" /\ op'.todo = op.todo \ {p} /\ op'.job = op.job /\ op'.plan = op.plan
      BY <2>4, <1>1 DEF RestoreTarget, At, OpType
    <3> QED BY <2>4, <3>1 DEF RestoreTarget, At, stateDir, Scope
  <2>5. ASSUME FinishRestore PROVE Scope'
    BY <2>5, <1>1, <1>3 DEF FinishRestore, Scope, OpType
  <2>6. ASSUME RetireEvidence PROVE Scope'
    BY <2>6, <1>1 DEF RetireEvidence, Scope, OpType
  <2>7. ASSUME DiscardTombstone PROVE Scope'
    BY <2>7, <1>1, <1>3 DEF DiscardTombstone, Scope, OpType
  <2>8. ASSUME Census PROVE Scope'
    BY <2>8, <1>1, <1>3 DEF Census, Scope, OpType
  <2> QED BY <1>5, <2>1, <2>2, <2>3, <2>4, <2>5, <2>6, <2>7, <2>8 DEF Recovery
<1>6. ASSUME NEW plan \in Plans, BeginRecover(plan) PROVE Scope'
  <2>1. Begin("recover", plan, "load")
    BY <1>6 DEF BeginRecover
  <2> QED BY <2>1 DEF Begin, Idle, Scope
<1>7. CASE Failure
  BY <1>3, <1>7 DEF Failure, FailStep, FailPublished
<1>8. CASE Environment
  <2>1. ASSUME Cancel PROVE Scope'
    BY <2>1, <1>1 DEF Cancel, stateDir, Scope, OpType
  <2>2. ASSUME UNCHANGED <<op, marker>> PROVE Scope'
    BY <2>2 DEF Scope
  <2>3. ASSUME NEW p \in Paths, Edit(p) PROVE Scope'
    BY <2>3, <1>1 DEF Edit, stateDir, Scope, OpType
  <2> QED BY <1>3, <1>8, <2>1, <2>2, <2>3 DEF Environment, Crash, DamageBackup
<1> QED BY <1>2, <1>4, <1>5, <1>6, <1>7, <1>8 DEF Next

(* Besides the invariant, every operation stays within its own transaction: it
   classifies, restores and writes only targets that the marker names. *)
THEOREM Scoped == Spec => [](Inv /\ Scope)
<1>1. Init => Scope
  BY DEF Init, Idle, Scope
<1> QED BY <1>1, InvInit, InvStep, ScopeStep, PTL DEF Spec

(* Only the writes and restorations of a transaction change a file, besides edits. *)
LEMMA FilesStep ==
    ASSUME TypeOK, Next, daemStep
    PROVE  \/ UNCHANGED <<disk, edited>>
           \/ /\ UNCHANGED disk
              /\ \E p \in Paths : (ClassifyTarget(p) \/ CaptureTarget(p))
           \/ \E p \in Paths : (RestoreTarget(p) \/ WriteTarget(p))
<1>1. ASSUME NEW p \in Paths, Edit(p) PROVE FALSE
  BY <1>1, LimitAssumption DEF Edit, Spend, daemStep, TypeOK, Disturbances
<1>2. CASE Commit
  <2>1. ASSUME NEW p \in Paths, CaptureTarget(p) PROVE UNCHANGED disk
    BY <2>1 DEF CaptureTarget
  <2>2. ASSUME \/ \E plan \in Plans : BeginCommit(plan)
               \/ ObserveFence \/ CreateStage \/ PublishEvidence
               \/ BeginWrites \/ FinishWrites \/ CancelWrites
        PROVE  UNCHANGED <<disk, edited>>
    BY <2>2 DEF BeginCommit, ObserveFence, CreateStage, PublishEvidence, BeginWrites,
                FinishWrites, CancelWrites
  <2> QED BY <1>2, <2>1, <2>2 DEF Commit
<1>3. CASE Recovery
  <2>1. ASSUME NEW p \in Paths, ClassifyTarget(p) PROVE UNCHANGED disk
    BY <2>1 DEF ClassifyTarget
  <2>2. ASSUME \/ LoadMarker \/ Decide \/ FinishRestore \/ RetireEvidence
               \/ DiscardTombstone \/ Census
        PROVE  UNCHANGED <<disk, edited>>
    BY <2>2 DEF LoadMarker, Decide, FinishRestore, RetireEvidence, DiscardTombstone, Census
  <2> QED BY <1>3, <2>1, <2>2 DEF Recovery
<1>4. ASSUME NEW plan \in Plans, BeginRecover(plan) PROVE UNCHANGED <<disk, edited>>
  BY <1>4 DEF BeginRecover
<1>5. CASE Failure
  BY <1>5 DEF Failure, FailStep, FailPublished
<1>6. CASE Environment
  BY <1>1, <1>6 DEF Environment, Cancel, Crash, DamageBackup
<1> QED BY <1>2, <1>3, <1>4, <1>5, <1>6 DEF Next

LEMMA WatchedStep == Inv /\ Watched /\ [Next]_vars => Watched'
<1> SUFFICES ASSUME Inv, Watched, [Next]_vars PROVE Watched'
  OBVIOUS
<1>1. op \in OpType /\ marker \in MarkerType
  BY DEF Inv, TypeOK
<1>2. CASE UNCHANGED vars
  BY <1>2 DEF vars, stateDir, Watched
<1>4. ASSUME NEW r, Return(r) PROVE Watched'
  BY <1>4 DEF Return, Idle, Watched
<1>5. CASE Commit
  <2>1. ASSUME NEW plan \in Plans, BeginCommit(plan) PROVE Watched'
    <3>1. CASE Begin("commit", plan, IF plan.fresh THEN "fence" ELSE "load")
      BY <3>1 DEF Begin, Idle, Watched
    <3> QED BY <2>1, <1>4, <3>1 DEF BeginCommit
  <2>2. ASSUME ObserveFence PROVE Watched'
    BY <2>2, <1>1, <1>4 DEF ObserveFence, Watched, OpType
  <2>3. ASSUME CreateStage PROVE Watched'
    <3>1. CASE op' = [op EXCEPT !.step = "capture", !.todo = op.plan.targets]
      BY <1>1, <3>1 DEF Watched, OpType
    <3> QED BY <2>3, <1>4, <3>1 DEF CreateStage
  <2>4. ASSUME NEW p \in Paths, CaptureTarget(p) PROVE Watched'
    <3>1. /\ op.step = "capture" /\ op'.plan = op.plan /\ op'.todo = op.todo \ {p}
          /\ op'.raced = op.raced \ {p} /\ edited' = edited \ {p} /\ p \in op.todo
          /\ op'.step = IF op.todo = {p} THEN "publish" ELSE op.step
      BY <2>4, <1>1 DEF CaptureTarget, At, OpType, first
    <3> QED BY <3>1 DEF Watched
  <2>5. ASSUME PublishEvidence PROVE Watched'
    <3>1. /\ op.step = "publish" /\ op'.step = "published" /\ op'.raced = op.raced
          /\ edited' = edited /\ marker'.targets = op.plan.targets
      BY <2>5, <1>1 DEF PublishEvidence, RenameStage, MarkerOf, At, OpType
    <3> QED BY <3>1 DEF Watched
  <2>6. ASSUME BeginWrites PROVE Watched'
    BY <2>6, <1>1 DEF BeginWrites, At, stateDir, Watched, OpType
  <2>7. ASSUME NEW p \in Paths, WriteTarget(p) PROVE Watched'
    <3>1. op.step = "write" /\ edited' \subseteq edited /\ UNCHANGED marker
      BY <2>7 DEF WriteTarget, Put, At, stateDir
    <3>2. CASE op' = [op EXCEPT !.todo = @ \ {p}]
      BY <1>1, <3>1, <3>2 DEF Watched, OpType
    <3>3. CASE RollBack
      BY <1>1, <3>1, <3>3 DEF RollBack, Watched, OpType
    <3> QED BY <2>7, <3>2, <3>3 DEF WriteTarget
  <2>8. ASSUME FinishWrites PROVE Watched'
    BY <2>8, <1>1 DEF FinishWrites, Watched, OpType
  <2>9. ASSUME CancelWrites PROVE Watched'
    BY <2>9, <1>1, <1>4 DEF CancelWrites, RollBack, stateDir, Watched, OpType
  <2> QED BY <1>5, <2>1, <2>2, <2>3, <2>4, <2>5, <2>6, <2>7, <2>8, <2>9 DEF Commit
<1>6. CASE Recovery
  <2>1. ASSUME LoadMarker PROVE Watched'
    BY <2>1, <1>1, <1>4 DEF LoadMarker, stateDir, Watched, OpType
  <2>2. ASSUME NEW p \in Paths, ClassifyTarget(p) PROVE Watched'
    <3>1. /\ op.step = "classify" /\ op'.step = "classify" /\ op'.raced = op.raced \ {p}
          /\ op'.todo = op.todo \ {p} /\ UNCHANGED marker
          /\ op'.allKnown => op.allKnown /\ edited' = edited \ {p}
      BY <2>2, <1>1 DEF ClassifyTarget, At, stateDir, OpType
    <3> QED BY <3>1 DEF Watched
  <2>3. ASSUME Decide PROVE Watched'
    BY <2>3, <1>1, <1>4 DEF Decide, At, stateDir, Watched, OpType
  <2>4. ASSUME NEW p \in Paths, RestoreTarget(p) PROVE Watched'
    <3>1. op.step = "restore" /\ edited' \subseteq edited /\ UNCHANGED marker
      BY <2>4 DEF RestoreTarget, Put, At, stateDir
    <3>2. op'.raced = op.raced /\ op'.step = "restore"
      BY <2>4, <1>1 DEF RestoreTarget, At, OpType
    <3> QED BY <3>1, <3>2 DEF Watched
  <2>5. ASSUME FinishRestore PROVE Watched'
    BY <2>5, <1>1, <1>4 DEF FinishRestore, Watched, OpType
  <2>6. ASSUME RetireEvidence PROVE Watched'
    BY <2>6, <1>1 DEF RetireEvidence, Watched, OpType
  <2>7. ASSUME DiscardTombstone PROVE Watched'
    BY <2>7, <1>1, <1>4 DEF DiscardTombstone, Watched, OpType
  <2>8. ASSUME Census PROVE Watched'
    <3>1. CASE op' = [op EXCEPT !.step = "stage", !.goal = "none"]
      BY <1>1, <3>1 DEF Watched, OpType
    <3> QED BY <2>8, <1>4, <3>1 DEF Census
  <2> QED BY <1>6, <2>1, <2>2, <2>3, <2>4, <2>5, <2>6, <2>7, <2>8 DEF Recovery
<1>7. ASSUME NEW plan \in Plans, BeginRecover(plan) PROVE Watched'
  <2>1. Begin("recover", plan, "load")
    BY <1>7 DEF BeginRecover
  <2> QED BY <2>1 DEF Begin, Idle, Watched
<1>8. CASE Failure
  BY <1>4, <1>8 DEF Failure, FailStep, FailPublished
<1>9. CASE Environment
  <2>1. ASSUME Cancel PROVE Watched'
    BY <2>1, <1>1 DEF Cancel, stateDir, Watched, OpType
  <2>2. ASSUME NEW p \in Paths, Edit(p) PROVE Watched'
    <3>1. /\ op'.step = op.step /\ op'.plan = op.plan /\ op'.todo = op.todo
          /\ op'.allKnown = op.allKnown /\ edited' = edited \cup {p} /\ UNCHANGED marker
          /\ op.step # "idle" => op'.raced = op.raced \cup {p}
      BY <2>2, <1>1 DEF Edit, At, stateDir, OpType
    <3> QED BY <3>1 DEF Watched
  <2>3. ASSUME NEW p \in Paths, DamageBackup(p) PROVE Watched'
    BY <2>3 DEF DamageBackup, Watched
  <2> QED BY <1>4, <1>9, <2>1, <2>2, <2>3 DEF Environment, Crash
<1> QED BY <1>2, <1>5, <1>6, <1>7, <1>8, <1>9 DEF Next

(* An edit that was there when daem classified or captured the targets is never
   overwritten by a write, a rollback or a recovery. *)
THEOREM EditsKept == Spec => OnlyRacingEditsLost
<1>1. ASSUME Inv, Scope, Watched, Next, daemStep, NEW p \in Paths, disk'[p] # disk[p]
      PROVE  /\ published /\ p \in marker.targets
             /\ p \in op.raced \/ disk[p] \in {Before(p), After(p)}
  <2>1. PICK q \in Paths : RestoreTarget(q) \/ WriteTarget(q)
    BY <1>1, FilesStep DEF Inv
  <2>2. op.step \in {"restore", "write"} /\ q \in op.todo
    BY <2>1 DEF RestoreTarget, WriteTarget, At, first
  <2>3. published /\ q \in marker.targets
    BY <1>1, <2>2 DEF Inv, Progress, Scope
  <2>4. disk' = disk \/ \E image : disk' = [disk EXCEPT ![q] = image]
    BY <2>1 DEF RestoreTarget, WriteTarget, Put
  <2>5. p = q
    BY <1>1, <2>4 DEF Inv, TypeOK
  <2>6. p \in edited => p \in op.raced
    BY <1>1, <2>2, <2>3, <2>5 DEF Watched
  <2> QED BY <1>1, <2>3, <2>5, <2>6 DEF Inv, Recoverable
<1>2. Inv /\ Scope /\ Watched /\ [Next]_vars =>
        [daemStep => \A p \in Paths :
           disk'[p] # disk[p] =>
             /\ published /\ p \in marker.targets
             /\ p \in op.raced \/ disk[p] \in {Before(p), After(p)}]_vars
  BY <1>1
<1>3. Init => Watched
  BY DEF Init, Idle, Watched
<1> QED BY <1>2, <1>3, Scoped, WatchedStep, PTL DEF Spec, OnlyRacingEditsLost

(* commitWithOperationsVersion writes the commit point after every other target. *)
THEOREM CommitPointIsLast == Spec => CommitPointLast
<1>1. ASSUME Inv, Next, daemStep, At("write"), NEW c \in marker.targets,
             c = marker.commitPoint, disk'[c] # disk[c],
             NEW p \in marker.targets \ (edited \cup {c})
      PROVE  disk[p] = After(p)
  <2>1. PICK q \in Paths : WriteTarget(q)
    BY <1>1, FilesStep DEF Inv, RestoreTarget, At
  <2>2. c = q
    BY <1>1, <2>1 DEF WriteTarget, Put, Inv, TypeOK, MarkerType
  <2>3. op.plan.commitPoint = marker.commitPoint /\ p \in Paths
    BY <1>1 DEF At, Inv, Progress, TypeOK, MarkerType
  <2>4. first(c, op.todo, c)
    BY <1>1, <2>1, <2>2, <2>3 DEF WriteTarget
  <2>5. p \notin op.todo
    BY <2>4 DEF first, precedes
  <2> QED BY <1>1, <2>5 DEF At, Inv, Progress
<1>2. Inv /\ [Next]_vars =>
        [daemStep /\ At("write") =>
           \A c \in marker.targets :
              c = marker.commitPoint /\ disk'[c] # disk[c]
                => \A p \in marker.targets \ (edited \cup {c}) : disk[p] = After(p)]_vars
  BY <1>1
<1> QED BY <1>2, Scoped, PTL DEF Spec, CommitPointLast

(* Residue keeps every operation out: while it is there none gets past the census. *)
Fenced == /\ ~published
          /\ private # {}
          /\ op.step \in {"idle", "fence", "load", "census"}

LEMMA FencedStep == ASSUME Inv, Fenced, [Next]_vars PROVE Fenced'
<1>1. op \in OpType
  BY DEF Inv, TypeOK
<1>2. CASE UNCHANGED vars
  BY <1>2 DEF vars, stateDir, Fenced
<1>3. CASE Commit
  <2>1. ASSUME NEW plan \in Plans, BeginCommit(plan) PROVE Fenced'
    <3>1. CASE Return("refused")
      BY <2>1, <3>1 DEF BeginCommit, Return, Idle, stateDir, Fenced
    <3>2. CASE Begin("commit", plan, IF plan.fresh THEN "fence" ELSE "load")
      BY <2>1, <3>2 DEF BeginCommit, Begin, Idle, stateDir, Fenced
    <3> QED BY <2>1, <3>1, <3>2 DEF BeginCommit
  <2>2. ASSUME ObserveFence PROVE Fenced'
    BY <2>2, <1>1 DEF ObserveFence, Return, Idle, stateDir, Fenced, OpType
  <2>3. ~(CreateStage \/ PublishEvidence \/ BeginWrites \/ FinishWrites \/ CancelWrites)
    BY DEF CreateStage, PublishEvidence, BeginWrites, FinishWrites, CancelWrites, At, Fenced
  <2>4. ASSUME NEW p \in Paths PROVE ~CaptureTarget(p) /\ ~WriteTarget(p)
    BY DEF CaptureTarget, WriteTarget, At, Fenced
  <2> QED BY <1>3, <2>1, <2>2, <2>3, <2>4 DEF Commit
<1>4. CASE Recovery
  <2>1. ASSUME LoadMarker PROVE Fenced'
    BY <2>1, <1>1 DEF LoadMarker, Return, Idle, stateDir, Fenced, OpType
  <2>2. ASSUME Census PROVE Fenced'
    BY <2>2, <1>1 DEF Census, Return, Idle, stateDir, Fenced, OpType
  <2>3. ~(Decide \/ FinishRestore \/ RetireEvidence \/ DiscardTombstone)
    BY DEF Decide, FinishRestore, RetireEvidence, DiscardTombstone, At, Fenced
  <2>4. ASSUME NEW p \in Paths PROVE ~ClassifyTarget(p) /\ ~RestoreTarget(p)
    BY DEF ClassifyTarget, RestoreTarget, At, Fenced
  <2> QED BY <1>4, <2>1, <2>2, <2>3, <2>4 DEF Recovery
<1>5. ASSUME NEW plan \in Plans, BeginRecover(plan) PROVE Fenced'
  BY <1>5 DEF BeginRecover, Begin, Idle, stateDir, Fenced
<1>6. CASE Failure
  BY <1>6 DEF Failure, FailStep, FailPublished, At, Return, Idle, Fenced
<1>7. CASE Environment
  BY <1>1, <1>7 DEF Environment, Cancel, Crash, Edit, DamageBackup, At, Return, Idle, stateDir,
                    Fenced, OpType
<1> QED BY <1>2, <1>3, <1>4, <1>5, <1>6, <1>7 DEF Next

(* Private residue that outlives its operation fences the state directory for good:
   after it no transaction is published and no target is written. *)
THEOREM ResidueFencesForGood == Spec => ResidueFences
<1>1. Abandoned => Fenced
  BY DEF Abandoned, Fenced, At
<1>2. Inv /\ Fenced /\ [Next]_vars => Fenced'
  BY FencedStep
<1>3. Fenced => ~published
  BY DEF Fenced
<1> QED BY <1>1, <1>2, <1>3, Invariance, PTL DEF Spec, ResidueFences

(* A step that changes neither the files nor the evidence is invisible. *)
LEMMA Invisible == ASSUME UNCHANGED <<disk, published, edited>>, published => UNCHANGED marker
                   PROVE  UNCHANGED <<files, request, edited>>
BY DEF files, request, Before, After

(* Putting an image on a target changes an edited file at most. *)
LEMMA PutRefines == ASSUME Inv, TypeOK', published, UNCHANGED stateDir, NEW p \in marker.targets,
                           UNCHANGED <<disk, edited>> \/ Put(p, Before(p)) \/ Put(p, After(p))
                    PROVE  [Promise!Next]_<<files, request, edited>>
<1>1. CASE UNCHANGED <<disk, edited>>
  BY <1>1, Invisible DEF stateDir
<1>2. CASE Put(p, Before(p)) \/ Put(p, After(p))
  <2>1. p \in Paths /\ disk \in [Paths -> Contents] /\ marker.before \in [Paths -> Contents]
    BY DEF Inv, TypeOK, MarkerType
  <2>2. /\ edited' = edited \ {p} /\ UNCHANGED <<published, marker>>
        /\ \A q \in Paths \ {p} : disk'[q] = disk[q]
    BY <1>2, <2>1 DEF Put, stateDir
  <2>3. UNCHANGED request
    BY <2>2 DEF request, Before, After
  <2>4. \A q \in Paths \ {p} : files'[q] = files[q]
    BY <2>1, <2>2 DEF files, Before
  <2>5. files' \in [Paths -> Contents]
    BY <2>1, <2>2 DEF files, Before, TypeOK
  <2>6. CASE p \in edited
    BY <2>2, <2>3, <2>4, <2>5, <2>6 DEF Promise!Next, Promise!Reclaim
  <2>7. CASE p \notin edited
    <3>1. files' = files
      BY <2>1, <2>2, <2>7 DEF files, Before
    <3> QED BY <2>2, <2>3, <2>7, <3>1
  <2> QED BY <2>6, <2>7
<1> QED BY <1>1, <1>2

(* Publication starts the request that the marker records, on unchanged files. *)
LEMMA PublishRefines == ASSUME Inv, TypeOK', op.step = "publish", RenameStage,
                               UNCHANGED <<disk, edited>>
                        PROVE  [Promise!Next]_<<files, request, edited>>
<1>1. ~published /\ \A p \in op.plan.targets \ edited : disk[p] = op.captured[p]
  BY DEF Inv, Progress
<1>2. published' /\ marker'.targets = op.plan.targets /\ marker'.before = op.captured
  BY DEF RenameStage, MarkerOf
<1>3. files' = files
  BY <1>1, <1>2 DEF files, Before
<1>4. request = Promise!NoRequest
  BY <1>1 DEF request, Promise!NoRequest
<1>5. \A p \in marker'.targets : After(p)' \in Contents
  <2>1. marker' \in MarkerType
    BY DEF TypeOK
  <2>2. SUFFICES ASSUME NEW p \in marker'.targets PROVE After(p)' \in Contents
    OBVIOUS
  <2>3. p \in Paths /\ marker'.before[p] \in Contents /\ marker'.after[p] \in Bytes
    BY <2>1 DEF MarkerType
  <2>4. fileMode(marker'.before[p]) \in Modes
    BY <2>3, ImageAssumption DEF fileMode, Contents, Image
  <2> QED BY <2>3, <2>4 DEF After, Before, Contents, Image
<1>6. request' \in Promise!Requests
  <2>1. marker'.targets \in SUBSET Paths
    BY DEF TypeOK, MarkerType
  <2>2. request' \in [targets : {marker'.targets}, images : [marker'.targets -> Contents]]
    BY <1>2, <1>5 DEF request
  <2> QED BY <2>1, <2>2 DEF Promise!Requests
<1> QED BY <1>3, <1>4, <1>6 DEF Promise!Next, Promise!Start

(* Retiring the evidence is the step in which the transaction happens, or not. *)
LEMMA RetireRefines == ASSUME Inv, RetireEvidence
                       PROVE  [Promise!Next]_<<files, request, edited>>
<1>1. published /\ ~published' /\ UNCHANGED <<disk, marker, edited>> /\ (AllAfter \/ AllBefore)
  BY DEF Inv, RetireEvidence, At, Progress
<1>2. request' = Promise!NoRequest
  BY <1>1 DEF request, Promise!NoRequest
<1>3. marker.targets \subseteq Paths
  BY DEF Inv, TypeOK, MarkerType
<1>4. CASE AllBefore
  <2>1. files' = files
    BY <1>1, <1>3, <1>4 DEF files, AllBefore
  <2> QED BY <1>1, <1>2, <2>1 DEF Promise!Next, Promise!Abort
<1>5. CASE AllAfter
  <2>1. files' = [p \in Paths |-> disk[p]]
    BY <1>1 DEF files
  <2>2. request.targets = marker.targets /\ \A p \in marker.targets : request.images[p] = After(p)
    BY <1>1 DEF request
  <2>3. files' = [p \in Paths |-> IF p \in request.targets \ edited
                                  THEN request.images[p] ELSE files[p]]
    BY <1>1, <1>3, <1>5, <2>1, <2>2 DEF files, AllAfter
  <2> QED BY <1>1, <1>2, <2>3 DEF Promise!Next, Promise!Commit
<1> QED BY <1>1, <1>4, <1>5

LEMMA EditRefines == ASSUME Inv, TypeOK', NEW p \in Paths, Edit(p)
                     PROVE  [Promise!Next]_<<files, request, edited>>
<1>1. /\ edited' = edited \cup {p} /\ UNCHANGED <<published, marker>>
      /\ \A q \in Paths \ {p} : disk'[q] = disk[q]
  BY DEF Edit, stateDir, Inv, TypeOK
<1>2. UNCHANGED request
  BY <1>1 DEF request, Before, After
<1>3. \A q \in Paths \ {p} : files'[q] = files[q]
  BY <1>1 DEF files, Before
<1>4. files' \in [Paths -> Contents]
  BY <1>1 DEF files, Before, Inv, TypeOK, MarkerType
<1> QED BY <1>1, <1>2, <1>3, <1>4 DEF Promise!Next, Promise!Edit

(* Looking at an edited target again, without changing any file. *)
LEMMA LookRefines == ASSUME Inv, TypeOK', NEW p \in Paths, edited' = edited \ {p},
                            UNCHANGED <<disk, published, marker>>
                     PROVE  [Promise!Next]_<<files, request, edited>>
<1>1. UNCHANGED request
  BY DEF request, Before, After
<1>2. \A q \in Paths \ {p} : files'[q] = files[q]
  BY DEF files, Before
<1>3. files' \in [Paths -> Contents]
  BY DEF files, Before, Inv, TypeOK, MarkerType
<1>4. CASE p \in edited
  BY <1>1, <1>2, <1>3, <1>4 DEF Promise!Next, Promise!Reclaim
<1>5. CASE p \notin edited
  BY <1>5, Invisible
<1> QED BY <1>4, <1>5

LEMMA StepRefines == ASSUME Inv, Scope, TypeOK', [Next]_vars
                     PROVE  [Promise!Next]_<<files, request, edited>>
<1>1. CASE UNCHANGED vars
  BY <1>1, Invisible DEF vars, stateDir
<1>2. CASE Commit
  <2>1. ASSUME \/ \E plan \in Plans : BeginCommit(plan)
               \/ ObserveFence \/ BeginWrites \/ FinishWrites \/ CancelWrites
        PROVE  UNCHANGED <<disk, published, edited, marker>>
    BY <2>1 DEF BeginCommit, ObserveFence, BeginWrites, FinishWrites, CancelWrites, stateDir
  <2>2. ASSUME CreateStage
        PROVE  UNCHANGED <<disk, published, edited>> /\ (published => UNCHANGED marker)
    BY <2>2 DEF CreateStage
  <2>3. ASSUME NEW p \in Paths, CaptureTarget(p)
        PROVE  edited' = edited \ {p} /\ UNCHANGED <<disk, published, marker>>
    BY <2>3 DEF CaptureTarget, stateDir
  <2>4. ASSUME PublishEvidence PROVE [Promise!Next]_<<files, request, edited>>
    BY <2>4, PublishRefines DEF PublishEvidence, At
  <2>5. ASSUME NEW p \in Paths, WriteTarget(p) PROVE [Promise!Next]_<<files, request, edited>>
    <3>1. published /\ p \in marker.targets
      BY <2>5 DEF WriteTarget, At, first, Inv, Progress, Scope
    <3> QED BY <2>5, <3>1, PutRefines DEF WriteTarget
  <2> QED BY <1>2, <2>1, <2>2, <2>3, <2>4, <2>5, Invisible, LookRefines DEF Commit
<1>3. CASE Recovery
  <2>1. ASSUME LoadMarker \/ Decide \/ FinishRestore \/ DiscardTombstone \/ Census
        PROVE  UNCHANGED <<disk, published, edited, marker>>
    BY <2>1 DEF LoadMarker, Decide, FinishRestore, DiscardTombstone, Census, stateDir
  <2>2. ASSUME NEW p \in Paths, ClassifyTarget(p)
        PROVE  UNCHANGED <<disk, published, marker>> /\ (UNCHANGED edited \/ edited' = edited \ {p})
    BY <2>2 DEF ClassifyTarget, stateDir
  <2>3. ASSUME NEW p \in Paths, RestoreTarget(p) PROVE [Promise!Next]_<<files, request, edited>>
    <3>1. published /\ p \in marker.targets
      BY <2>3 DEF RestoreTarget, At, first, Inv, Progress, Scope
    <3> QED BY <2>3, <3>1, PutRefines DEF RestoreTarget
  <2> QED BY <1>3, <2>1, <2>2, <2>3, Invisible, LookRefines, RetireRefines DEF Recovery
<1>4. ASSUME NEW plan \in Plans, BeginRecover(plan) PROVE UNCHANGED <<disk, published, edited, marker>>
  BY <1>4 DEF BeginRecover, stateDir
<1>5. CASE Failure
  <2>1. ASSUME FailStep PROVE UNCHANGED <<disk, published, edited, marker>>
    BY <2>1 DEF FailStep
  <2>2. ASSUME FailPublished PROVE [Promise!Next]_<<files, request, edited>>
    BY <2>2, PublishRefines DEF FailPublished, At
  <2> QED BY <1>5, <2>1, <2>2, Invisible DEF Failure
<1>6. CASE Environment
  <2>1. ASSUME Cancel \/ Crash \/ \E p \in Paths : DamageBackup(p)
        PROVE  UNCHANGED <<disk, published, edited, marker>>
    BY <2>1 DEF Cancel, Crash, DamageBackup, stateDir
  <2> QED BY <1>6, <2>1, Invisible, EditRefines DEF Environment
<1> QED BY <1>1, <1>2, <1>3, <1>4, <1>5, <1>6, Invisible DEF Next

(* The file-set code implements the atomic file set: whatever is interrupted, failed,
   retried or edited meanwhile, the files of a request change together or not at all. *)
THEOREM Refinement == Spec => ImplementsPromise
<1>1. Init => Promise!Init
  <2> SUFFICES ASSUME Init PROVE Promise!Init
    OBVIOUS
  <2>1. files = disk
    BY DEF Init, files
  <2> QED BY <2>1 DEF Init, request, Promise!Init, Promise!NoRequest
<1>2. Inv /\ Scope /\ [Next]_vars => [Promise!Next]_<<files, request, edited>>
  BY TypeStep, StepRefines DEF Inv
<1> QED BY <1>1, <1>2, Scoped, PTL DEF Spec, ImplementsPromise, Promise!Spec
=============================================================================
