------------------------------ MODULE StateBarrier ------------------------------
(***************************************************************************)
(* An operation that changes state, behind the state barrier                 *)
(* (internal/recoverygate): the state directory is captured when the operation *)
(* is planned, or its absence is; all the work that the plan can need is       *)
(* reserved; and then every step of the plan is preceded by checks of the      *)
(* barrier, which spend what was reserved.  The first forward effect of a      *)
(* phase creates the directory, if it was absent, and binds the operation to   *)
(* exactly the one that it has created.                                     *)
(*                                                                         *)
(* A check is a sequence of small steps (`todo'), each of which looks at the   *)
(* directory anew, while other programs create, replace and remove it.  What a  *)
(* look costs is counted in components of the paths that are walked.          *)
(***************************************************************************)
EXTENDS EffectPlan

CONSTANTS
    Plans,      \* the plans that are tried
    Depth,      \* of the paths, and the cost of a census
    Foreign,    \* directories that other programs create
    None,
    Limit

Events == {"fault", "foreign", "fence"}

DepthAssumption ==
    Depth \in [{"namespace", "stateDir", "probe", "entry", "census", "entries"} -> Nat]
LimitAssumption == Limit \in [Events -> Nat]

Planned == "planned"
Created == "created"
Directories == {Planned, Created, None} \cup Foreign

VARIABLES
    plan,       \* the structure of the operation's effects
    dir,        \* what is at the path of the state directory
    fence,      \* an interrupted operation has left a journal or evidence
    authority,  \* the directory that was captured, and the one that is bound now
    status,
    cursor,
    reserved,   \* what is left of the reservation
    admitted,   \* path work that the whole operation was admitted for, and
    spent,      \* what it has walked
    doing,      \* the step of the plan whose checks are under way
    todo,       \* those checks
    failed,     \* a check has failed
    descendant, \* the authority over the statefile
    seen,       \* (history) the directory of the last census
    done,       \* (history) effects that the operation was let to carry out
    used

vars == <<plan, dir, fence, authority, status, cursor, reserved, admitted, spent, doing, todo,
          failed, descendant, seen, done, used>>

Checks == {"validate", "observe", "observe again", "journal", "census", "peer", "namespace",
           "create", "accept", "capture root", "root", "commit"}
Budgets == {"paths", "entries", "descendant"}

TypeOK ==
    /\ dir \in Directories /\ seen \in Directories
    /\ fence \in BOOLEAN /\ failed \in BOOLEAN
    /\ authority \in [captured : Directories, current : Directories]
    /\ status \in {"planned", "refused", "active", "exhausted", "finished", "aborted", "unsettled"}
    /\ reserved \in [Budgets -> Nat]
    /\ admitted \in Nat /\ spent \in Nat /\ done \in Nat
    /\ doing \in StepKinds \cup {None}
    /\ todo \in Seq(Checks)
    /\ descendant \in {"none", "reserved", "bound"}
    /\ used \in [Events -> Nat]

Spend(e) == /\ used[e] < Limit[e]
            /\ used' = [used EXCEPT ![e] = @ + 1]

world == <<dir, fence>>
budget == <<reserved, admitted, spent>>

Init ==
    /\ plan \in Plans
    /\ dir \in {Planned, None}
    /\ fence = FALSE
    /\ authority = [captured |-> dir, current |-> dir]
    /\ status = "planned"
    /\ cursor = next(Begin(plan))
    /\ reserved = [b \in Budgets |-> 0] /\ admitted = 0 /\ spent = 0
    /\ doing = None /\ todo = <<>> /\ failed = FALSE
    /\ descendant = "none"
    /\ seen = None /\ done = 0
    /\ used = [e \in Events |-> 0]

present == authority.captured # None
bound == authority.current # None

-----------------------------------------------------------------------------
(* The reservation *)

(* One validation of the state directory: its namespace and itself, twice each. *)
validationWork == 2 * Depth["namespace"] + 2 * Depth["stateDir"]

creationWork == 4 * Depth["namespace"] + 2 * Depth["stateDir"] + Depth["probe"]

(* Mutant: what comes after the creation of the directory is forgotten. *)
validationsBefore(d) ==
    d["barrier"] * (IF present THEN 4 ELSE 3) + d["stateDir"]
      + (IF d["establish"] = 0 THEN 0
         ELSE IF present THEN 9 * d["establish"] ELSE 3 + 7 * (d["establish"] - 1))

(* forwardStateDirValidationPlan *)
validations(d) ==
    d["barrier"] * (IF present THEN 4 ELSE 3) + d["stateDir"]
      + (IF d["establish"] = 0 THEN 0
         ELSE IF present THEN 9 * d["establish"] ELSE 6 + 7 * (d["establish"] - 1))

censuses(d) == 2 * d["establish"] + d["barrier"]

hasDescendant(d) == \E k \in DescendantSteps : d[k] > 0

(* planOperation, planDescendantAuthority *)
work(d) ==
    LET perValidation == Depth["stateDir"] + validationWork
        perCommit == 2 * Depth["stateDir"] + 2 * Depth["entry"]
    IN  [paths |-> validationWork * validations(d) + Depth["census"] * censuses(d)
                     + (IF ~present /\ d["establish"] > 0 THEN creationWork ELSE 0),
         entries |-> Depth["entries"] * censuses(d),
         descendant |-> IF hasDescendant(d)
                        THEN perValidation * (3 + d["validate"]) + perCommit * d["publish"]
                        ELSE 0]

most(S) == CHOOSE m \in S : \A x \in S : x <= m

(* ReserveForwardEffectExecution, lowerStructuralForwardWork: of each budget the most
   that an alternative needs, and for the whole operation the most that one needs of both. *)
Reserve ==
    /\ status = "planned"
    /\ LET alternatives == DemandAlternatives(plan)
       IN  IF alternatives = {} \/ \E d \in alternatives : d["bind"] > 1
           THEN status' = "refused" /\ UNCHANGED <<reserved, admitted, descendant>>
           ELSE /\ status' = "active"
                /\ reserved' = [b \in Budgets |-> most({work(d)[b] : d \in alternatives})]
                /\ admitted' = most({work(d).paths + work(d).descendant : d \in alternatives})
                /\ descendant' = IF \E d \in alternatives : hasDescendant(d) THEN "reserved" ELSE "none"
    /\ UNCHANGED <<plan, world, authority, cursor, spent, doing, todo, failed, seen, done, used>>

-----------------------------------------------------------------------------
(* The checks of a step *)

(* validateBarrier, requireClearWithBudget *)
barrier(isBound) ==
    (IF present THEN <<"validate">> ELSE <<>>) \o <<"journal">>
      \o (IF isBound THEN <<"validate", "census", "validate">> ELSE <<"observe", "census", "observe again">>)
      \o <<"validate">>

(* ensureReservedStateDirForEffect, EnsureOwnedIncarnation *)
ensure ==
    <<"peer">> \o barrier(bound)
      \o (IF bound THEN <<"validate">> ELSE <<"namespace", "create", "accept">>)
      \o <<"peer">> \o barrier(TRUE)

checks(kind) ==
    CASE kind = "establish" -> ensure
      [] kind = "forward"   -> IF establishes(cursor) THEN ensure ELSE <<"validate">>
      [] kind = "barrier"   -> barrier(bound)
      [] kind = "stateDir"  -> <<"validate">>
      [] kind = "bind"      -> <<"validate", "capture root", "validate", "root", "root", "validate">>
      [] kind = "validate"  -> <<"root", "validate">>
      [] kind = "publish"   -> <<"commit">>
      [] OTHER              -> <<>>

Select(i) ==
    /\ status = "active" /\ doing = None /\ atChoice(cursor)
    /\ i \in DOMAIN top(cursor).node.children
    /\ cursor' = SelectAlternative(cursor, i)
    /\ UNCHANGED <<plan, world, authority, status, budget, doing, todo, failed, descendant, seen, done, used>>

(* ValidateBarrier, ConsumeForwardEffect, BindDescendant, ..., ConsumeLifecycle: the step is
   consumed first, and then its checks are carried out.  A statefile that is not bound,
   or bound already, is refused.  After a failure its owner begins no forward effect. *)
Begins ==
    /\ status = "active" /\ doing = None /\ atStep(cursor)
    /\ LET kind == top(cursor).node.step
           refused == \/ kind = "bind" /\ descendant # "reserved"
                      \/ kind \in {"validate", "publish"} /\ descendant # "bound"
       IN  /\ failed => kind \notin {"forward", "establish"}
           /\ cursor' = Consume(cursor)
           /\ IF refused THEN failed' = TRUE /\ UNCHANGED <<doing, todo, descendant, done>>
              ELSE /\ UNCHANGED failed
                   /\ todo' = checks(kind)
                   /\ doing' = IF todo' = <<>> THEN None ELSE kind
                   /\ done' = IF kind = "external" THEN done + 1 ELSE done
                   /\ descendant' = IF kind = "bind" THEN "none" ELSE descendant
    /\ seen' = None
    /\ UNCHANGED <<plan, world, authority, status, budget, used>>

cost(check) ==
    CASE check \in {"validate", "observe", "observe again"} ->
            2 * Depth["namespace"] + Depth["stateDir"] * (IF dir = None THEN 1 ELSE 2)
      [] check = "namespace" -> 2 * Depth["namespace"]
      [] check = "create"    -> Depth["probe"]
      [] check = "accept"    -> validationWork
      [] check = "census"    -> Depth["census"]
      [] check \in {"capture root", "root"} -> Depth["stateDir"]
      [] check = "commit"    -> 2 * Depth["stateDir"] + 2 * Depth["entry"]
      [] OTHER               -> 0

account == IF doing \in DescendantSteps THEN "descendant" ELSE "paths"

(* Mutant: work is charged without a look at what is left. *)
affordableAlways(check) == TRUE

affordable(check) ==
    /\ cost(check) <= reserved[account]
    /\ check = "census" => Depth["entries"] <= reserved["entries"]

(* Validate: the directory is the one that is bound, or still absent. *)
asBound == dir = authority.current

(* Mutant: a directory that is there is taken to be the one that was created. *)
acceptableAny == dir # None

(* acceptCreationWitness *)
acceptable == dir = Created

passes(check) ==
    CASE check \in {"validate", "root"} -> asBound
      [] check \in {"observe", "observe again"} -> dir = None
      [] check \in {"journal", "census"} -> ~fence
      [] check = "create"        -> dir = None
      [] check = "accept"        -> acceptable
      [] check = "capture root"  -> dir # None
      [] OTHER                   -> TRUE

(* rollbackCreatedStateDir *)
rolledBack == IF Head(todo) = "accept" /\ dir = Created THEN None ELSE dir

Stops ==
    /\ todo' = <<>> /\ doing' = None /\ failed' = TRUE
    /\ dir' = rolledBack

(* A check passes, and with the last one the step is carried out. *)
Check ==
    /\ doing # None
    /\ LET check == Head(todo)
       IN  /\ affordable(check) /\ passes(check)
           /\ reserved' = [reserved EXCEPT ![account] = @ - cost(check),
                                           !["entries"] = @ - (IF check = "census" THEN Depth["entries"] ELSE 0)]
           /\ spent' = spent + cost(check)
           /\ dir' = IF check = "create" THEN Created ELSE dir
           /\ authority' = IF check = "accept" THEN [authority EXCEPT !.current = dir] ELSE authority
           /\ seen' = IF check = "census" THEN dir ELSE seen
           /\ todo' = Tail(todo)
           /\ doing' = IF todo' = <<>> THEN None ELSE doing
           /\ done' = IF todo' = <<>> /\ startsEffect(doing) THEN done + 1 ELSE done
           /\ descendant' = IF todo' = <<>> /\ doing = "bind" THEN "bound" ELSE descendant
    /\ UNCHANGED <<plan, fence, status, cursor, admitted, failed, used>>

CheckFails ==
    /\ doing # None
    /\ affordable(Head(todo)) /\ ~passes(Head(todo))
    /\ Stops
    /\ UNCHANGED <<plan, fence, authority, status, cursor, budget, descendant, seen, done, used>>

(* An error of the operating system, a cancellation, or a peer that objects. *)
Fault ==
    /\ doing # None /\ Spend("fault")
    /\ Stops
    /\ UNCHANGED <<plan, fence, authority, status, cursor, budget, descendant, seen, done>>

(* "reserved StateDir physical work is exhausted" *)
Exhausted ==
    /\ doing # None /\ ~affordable(Head(todo))
    /\ status' = "exhausted"
    /\ Stops
    /\ UNCHANGED <<plan, fence, authority, cursor, budget, descendant, seen, done, used>>

(* CloseDescendant, Finish *)
Finish ==
    /\ status = "active" /\ doing = None /\ ~atStep(cursor) /\ ~atChoice(cursor) /\ canFinish(cursor)
    /\ status' = "finished" /\ descendant' = "none"
    /\ UNCHANGED <<plan, world, authority, cursor, budget, doing, todo, failed, seen, done, used>>

(* Close *)
Close ==
    /\ status = "active" /\ doing = None
    /\ status' = IF canAbort(cursor) THEN "aborted" ELSE "unsettled"
    /\ descendant' = "none"
    /\ UNCHANGED <<plan, world, authority, cursor, budget, doing, todo, failed, seen, done, used>>

-----------------------------------------------------------------------------
(* Other programs.  Every directory that they make is a new one. *)

OtherReplaces ==
    /\ status \in {"planned", "active"} /\ Spend("foreign")
    /\ dir' \in (Foreign \cup {None}) \ {dir}
    /\ UNCHANGED <<plan, fence, authority, status, cursor, budget, doing, todo, failed, descendant, seen, done>>

OtherInterrupted ==
    /\ status \in {"planned", "active"} /\ ~fence /\ Spend("fence")
    /\ fence' = TRUE
    /\ UNCHANGED <<plan, dir, authority, status, cursor, budget, doing, todo, failed, descendant, seen, done>>

Next ==
    \/ Reserve \/ \E i \in 1 .. 3 : Select(i)
    \/ Begins \/ Check \/ CheckFails \/ Fault \/ Exhausted
    \/ Finish \/ Close
    \/ OtherReplaces \/ OtherInterrupted

Spec == Init /\ [][Next]_vars

-----------------------------------------------------------------------------
(* Properties *)

(* The demand that is computed from the plan is exactly what the cursor can come to need
   on its way to a successful end: nothing less, and no dimension more. *)
FrontierExact ==
    status = "planned" => DemandAlternatives(plan) = maximal(runs(cursor, NoDemand))

(* An operation that keeps to its plan does not run out of what was reserved for it
   between two effects, and never walks more than the whole operation was admitted for,
   although the budgets of branches that exclude each other are not added up.  (A run that
   is bound for a trigger whose follow-up has passed cannot end well in any case.) *)
ReservationSuffices ==
    (status = "exhausted" \/ spent > admitted) => ~completable(cursor)

(* The operation is never bound to a directory that it has neither found when it was
   planned nor created itself, however others race with its creation. *)
NeverAdopts == authority.current \in {authority.captured, Created}

(* A forward effect is let pass only with the bound directory in place; and when the
   directory has been established for it, the barrier was found clear in that very one. *)
ForwardGuarded ==
    [][(doing \in {"forward", "establish"} /\ done' = done + 1)
           => /\ dir' # None /\ dir' = authority'.current
              /\ seen' \in {None, dir'}]_vars

(* An operation that ends as aborted has changed nothing. *)
AbortedClean == status = "aborted" => done = 0 /\ authority.current = authority.captured

=============================================================================
