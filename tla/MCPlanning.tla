-------------------------------- MODULE MCPlanning --------------------------------
(* What an operation plans and pays for before its first effect: the checks of the
   state barrier along a plan of effects, the work budgets that its phases hand on, and
   what is reserved for the cleanup of removals.  They share no state here (the cleanup's
   costs are among those the budgets carry), so a run that explores each beside the others
   at rest explores all they do. *)
EXTENDS WorkBudget

CONSTANTS Nobody, foreign

VARIABLES
    part,   \* the part that runs
    plan, dir, fence, authority, status, cursor, left, admitted, walked, doing, todo,
    failed, descendant, seen, done, events,
    slots, mode, pc, place, found, fresh, pool, allotted, result, changed, spent

Shapes == INSTANCE PlanShapes

Depth == [namespace |-> 1, stateDir |-> 2, probe |-> 3, entry |-> 3, census |-> 5,
          entries |-> 1]

(* The plans of operations, disturbed by everything once. *)
Barrier ==
    INSTANCE StateBarrier WITH
        Plans <- Shapes!OperationPlans, Foreign <- {foreign}, None <- Nobody,
        Limit <- [fault |-> 1, foreign |-> 1, fence |-> 1],
        reserved <- left, spent <- walked, used <- events

(* Plans of every shape, undisturbed. *)
Undisturbed ==
    INSTANCE StateBarrier WITH
        Plans <- Shapes!ShapePlans, Foreign <- {foreign}, None <- Nobody,
        Limit <- [fault |-> 0, foreign |-> 0, fence |-> 0],
        reserved <- left, spent <- walked, used <- events

(* A file two levels beneath a project's root, at the greatest depth for which the
   reservation suffices, and a global tree of one entry at the greatest depth at which
   it can be planned. *)
Edge ==
    INSTANCE RemovalCleanup WITH
        Count <- 2, Depth <- <<13, 5>>, Root <- <<11, 4>>, Owned <- <<"file", "tree">>,
        Size <- <<1, 1>>, Modes <- {"apply"},
        DepthLimit <- 256, Capacity <- 67108864,
        Limit <- [runs |-> 0, faults |-> 1, strangers |-> 2],
        at <- place

(* The module's constants are those of an ordinary recovery, whose cleanup runs on the
   child of the lifecycle; a native one runs it on the budget itself. *)
Vec(p, t) == [d \in Dim |-> IF d = "paths" THEN p ELSE t]
MCLimit == Vec(4, 1)
MCWorks == {Vec(1, 0), Vec(1, 1)}
RecoveryPhases == {"backup", "lifecycle", "general", "semantic", "scratch", "retirement"}

Native ==
    INSTANCE WorkBudget WITH
        Direct <- TRUE,
        Phases <- {"forward", "execution", "general", "attach1", "command1", "safety1",
                   "command2", "safety2"}

ASSUME /\ Barrier!DepthAssumption /\ Barrier!LimitAssumption
       /\ Undisturbed!LimitAssumption
       /\ Edge!CleanupAssumption

barrierVars == <<plan, dir, fence, authority, status, cursor, left, admitted, walked, doing,
                 todo, failed, descendant, seen, done, events>>
cleanupVars == <<slots, mode, pc, place, found, fresh, pool, allotted, result, changed, spent>>
budgetVars == <<pending, used, own, reserved, granted, begun, excused, scratched, closed,
                handle>>

(* The parts that do not run are in one of their initial states. *)
PlanningInit ==
    /\ part \in {"barrier", "undisturbed", "edge", "recovery", "native"}
    /\ IF part = "undisturbed" THEN Undisturbed!Init ELSE Barrier!Init
    /\ Edge!Init
    /\ Init
    /\ part \notin {"barrier", "undisturbed"} =>
           plan = (CHOOSE p \in Shapes!OperationPlans : TRUE) /\ dir = "planned"
    /\ part # "edge" => \A i \in 1 .. 2 : slots[i] = Edge!Nothing
    /\ part \notin {"recovery", "native"} => pending

(* At most two of the three disturbances come together. *)
BarrierNext ==
    /\ part = "barrier" /\ Barrier!Next
    /\ events'["fault"] + events'["foreign"] + events'["fence"] <= 2
    /\ UNCHANGED <<part, cleanupVars, budgetVars>>

UndisturbedNext ==
    part = "undisturbed" /\ Undisturbed!Next /\ UNCHANGED <<part, cleanupVars, budgetVars>>

EdgeNext == part = "edge" /\ Edge!Next /\ UNCHANGED <<part, barrierVars, budgetVars>>

RecoveryNext == part = "recovery" /\ Next /\ UNCHANGED <<part, barrierVars, cleanupVars>>

NativeNext == part = "native" /\ Native!Next /\ UNCHANGED <<part, barrierVars, cleanupVars>>

PlanningNext ==
    BarrierNext \/ UndisturbedNext \/ EdgeNext \/ RecoveryNext \/ NativeNext

PlanningSpec ==
    PlanningInit /\ [][PlanningNext]_<<part, barrierVars, cleanupVars, budgetVars>>

-----------------------------------------------------------------------------
(* The barrier checks that are paid for before the first effect are those the plan can
   come to need, in every branch, repetition and follow-up (effect_alternatives.go,
   recoverygate), and what is reserved for the cleanup of removals suffices for it
   (removaloperation). *)
PlanCovered ==
    /\ part \in {"barrier", "undisturbed"} => Barrier!FrontierExact /\ Barrier!ReservationSuffices
    /\ part = "edge" => Edge!TypeOK /\ Edge!ReserveSuffices /\ Edge!AlwaysPlannable

(* An operation stays in the state directory that it found or made itself, and is closed
   as aborted only if it has done nothing (state_dir_authority.go). *)
DirectoryOwned ==
    part = "barrier" => Barrier!TypeOK /\ Barrier!NeverAdopts /\ Barrier!AbortedClean

(* No effect is let pass without the bound directory (recoverygate). *)
EffectsGuarded == Barrier!ForwardGuarded

=============================================================================
