--------------------------- MODULE RemovalCleanup ---------------------------
(***************************************************************************)
(* The cleanup of journaled removals before a journal may retire.          *)
(*                                                                         *)
(* A removal intent owns two private names beside the path it removes: the *)
(* residue, where the removed entry is moved first, and the cleanup stage, *)
(* where it is taken apart.  A crash or a failed unlink leaves an entry    *)
(* under one of them.  Before the journal retires, apply and recover plan  *)
(* the cleanup, observe every intent again without changing anything,      *)
(* reserve the work of the changes, and only then promote residues, empty  *)
(* cleanup stages and prove both names absent (CleanupIntents of           *)
(* removaloperation).                                                      *)
(*                                                                         *)
(* Every traversal is paid in path components, and the costs here are the  *)
(* code's.  The parent of every destination exists.  Planning captures it  *)
(* as the root; a run works from the root it holds, the parent itself for  *)
(* a global destination and the project's directory for a project's.       *)
(* Entries and bytes are budgeted the same way, with far higher limits,    *)
(* and are left out.                                                       *)
(***************************************************************************)
EXTENDS Integers, FiniteSetsExt

CONSTANTS
    Count,         \* number of removal intents, in journal order
    Depth,         \* components of each intent's destination
    Root,          \* components of the root each intent is bound to
    Owned,         \* what each intent may remove: "file" or "tree"
    Size,          \* entries beneath each tree
    Modes,         \* how the first run begins: "apply", "recover"
    DepthLimit,    \* MaximumPhysicalPathDepth
    Capacity,      \* maximumPhysicalPathComponentVisits
    Limit          \* bounds: runs, faults, strangers

Intents == 1..Count

CleanupAssumption ==
    /\ Count \in Nat \ {0}
    /\ Depth \in [Intents -> Nat \ {0}]
    /\ \A i \in Intents : Root[i] \in 1..(Depth[i] - 1)
    /\ Owned \in [Intents -> {"file", "tree"}]
    /\ Size \in [Intents -> Nat \ {0}]
    /\ Modes \subseteq {"apply", "recover"}
    /\ DepthLimit \in Nat /\ Capacity \in Nat
    /\ Limit \in [{"runs", "faults", "strangers"} -> Nat]

VARIABLES
    slots,      \* what is under each intent's two private names
    mode,       \* who runs the cleanup
    pc,         \* where the run is
    at,         \* the intent the run is working on
    found,      \* what the preflight found under the names
    fresh,      \* what the execution found under the names of intent `at`
    pool,       \* path components left in the budget in use
    allotted,   \* path components reserved for the execution
    result,     \* how the last run ended
    changed,    \* this run changed a private name
    spent       \* use of the bounds

vars == <<slots, mode, pc, at, found, fresh, pool, allotted, result, changed, spent>>

Entries == {"absent", "file", "tree", "partial", "alien"}
Nothing == [residue |-> "absent", cleanup |-> "absent"]
Places == {"residue", "cleanup"}

---------------------------------------------------------------------------
(* What an operation costs.                                                *)

\* AuthorityBounded validates the root once, acquire twice.
AcquireWork(i) == 3 * Root[i]

\* The namespace is the root itself or a parent captured anew.
NamespaceWork(i) ==
    IF Root[i] = Depth[i] - 1 THEN Root[i] ELSE Root[i] + 2 * (Depth[i] - 1)

\* One look at a private name: its identity and, when something is there,
\* a second descent to read it.
SlotWork(i, e) ==
    AcquireWork(i) + (IF e = "absent" THEN 1 ELSE 2) * Depth[i]

ObserveWork(i, s) ==
    NamespaceWork(i) + SlotWork(i, s.residue) + SlotWork(i, s.cleanup)

\* Four complete observations prove a name absent.
AbsenceWork(i) == AcquireWork(i) + 4 * Depth[i]

\* The entries beneath a directory; one is gone when it is partly emptied.
EntriesOf(i, e) == IF e = "tree" THEN Size[i] ELSE Size[i] - 1

\* The storage envelope of taking one entry apart beneath a root of r
\* components: so many validations of the chain of parents.
\* Mutant: a tree is charged for one entry more than it has.
EnvelopeLarger(i, e, r) ==
    LET parents == 2 * r + (Depth[i] - 1 - r)
    IN  CASE e = "absent" -> 0
          [] e \in {"file", "alien"} -> 8 * parents
          [] OTHER -> (14 * (EntriesOf(i, e) + 1) + 18) * parents
EnvelopeWork(i, e, r) ==
    LET parents == 2 * r + (Depth[i] - 1 - r)
    IN  CASE e = "absent" -> 0
          [] e \in {"file", "alien"} -> 8 * parents
          [] OTHER -> (14 * EntriesOf(i, e) + 18) * parents

\* What is reserved for one ready intent: five namespace passes, four
\* observation passes, three mutation passes and six absence passes for
\* each of the two names.
\* Mutant: the absence proofs are reserved as one pass for each name.
ShortReserve(i) == (5 + 2 * 4 + 2 * 3 + 2 * 1) * Depth[i]
ExecutionReserve(i) == (5 + 2 * 4 + 2 * 3 + 2 * 6) * Depth[i]

\* What recovery sets aside before its effects for one intent.
LifecycleReserve(i) == (5 + 2 * 4) * Depth[i] + ExecutionReserve(i)

---------------------------------------------------------------------------
(* The decision for one intent.                                            *)

\* The residue must be the complete original; of a tree under the cleanup
\* stage only the kind is compared, since taking it apart changes it.
AdmitsEntry(i, e) == e = Owned[i]
AdmitsProgress(i, e) == e = Owned[i] \/ e = "partial"

Assess(i, s) ==
    CASE s = Nothing -> "confirm"
      [] s.cleanup = "absent" /\ AdmitsEntry(i, s.residue) -> "promote"
      [] s.residue = "absent" /\ AdmitsProgress(i, s.cleanup) -> "empty"
      [] OTHER -> "blocked"

\* The entry that the execution will take apart.
Target(i, s) == IF Assess(i, s) = "promote" THEN s.residue ELSE s.cleanup

\* An observation at execution is bounded by what the preflight measured.
Weight(i, e) ==
    CASE e = "absent" -> 0
      [] e \in {"file", "alien"} -> 1
      [] OTHER -> 1 + EntriesOf(i, e)

Grown(i, s) == \E p \in Places : Weight(i, s[p]) > Weight(i, found[i][p])

Put(i, p, e) == slots' = [slots EXCEPT ![i][p] = e]

---------------------------------------------------------------------------
(* A run.                                                                  *)

Init ==
    /\ slots \in
         [Intents -> {[residue |-> r, cleanup |-> c] :
                        r \in {"absent", "file", "tree"}, c \in Entries \ {"alien"}}]
    /\ \A i \in Intents :
         /\ slots[i].residue \in {"absent", Owned[i]}
         /\ slots[i].cleanup \in {"absent", Owned[i]} \cup
                (IF Owned[i] = "tree" THEN {"partial"} ELSE {})
         /\ "absent" \in {slots[i].residue, slots[i].cleanup}
    /\ mode \in Modes
    /\ pc = "plan"
    /\ at = 1
    /\ found = [i \in Intents |-> Nothing]
    /\ fresh = Nothing
    /\ pool = 0
    /\ allotted = 0
    /\ result = "none"
    /\ changed = FALSE
    /\ spent = [b \in {"runs", "faults", "strangers"} |-> 0]

Return(r) ==
    /\ pc' = "idle"
    /\ result' = r
    /\ UNCHANGED <<slots, mode, at, found, fresh, pool, allotted, changed, spent>>

Spend(b) ==
    /\ spent[b] < Limit[b]
    /\ spent' = [spent EXCEPT ![b] = @ + 1]

\* Planning observes every intent and reserves its execution.  The planning
\* budget passes each charge on to the path budget shared with the journal
\* inventory, which takes any charge for the depth of one path.
Unplannable(i) ==
    /\ Assess(i, slots[i]) # "blocked"
    /\ EnvelopeWork(i, Target(i, slots[i]), Depth[i] - 1) > DepthLimit

Plan ==
    /\ pc = "plan"
    /\ IF \E i \in Intents : Unplannable(i)
       THEN Return("unplannable")
       ELSE IF \E i \in Intents : Assess(i, slots[i]) = "blocked"
            THEN Return("blocked")
            ELSE /\ pc' = "preflight"
                 /\ pool' =
                      IF mode = "apply" THEN Capacity
                      ELSE MapThenSumSet(LifecycleReserve, Intents)
                 /\ UNCHANGED <<slots, mode, at, found, fresh, allotted, result,
                                changed, spent>>

\* Mutant: the preflight spends without looking at what is left.
PreflightUnchecked ==
    /\ pc = "preflight"
    /\ at \in Intents
    /\ LET s == slots[at]
           reserve == IF Assess(at, s) = "blocked" THEN 0
                      ELSE ExecutionReserve(at)
                             + EnvelopeWork(at, Target(at, s), Root[at])
       IN  /\ found' = [found EXCEPT ![at] = s]
           /\ pool' = pool - ObserveWork(at, s) - reserve
           /\ allotted' = allotted + reserve
           /\ at' = at + 1
           /\ UNCHANGED <<slots, mode, pc, fresh, result, changed, spent>>
\* One intent of the read-only preflight: both names are observed, the
\* cleanup is assessed and, when it is ready, its execution is reserved.
\* A slot that cannot be paid for is unavailable; a reservation that cannot
\* be paid for is an error.  Either ends the run.
Preflight ==
    /\ pc = "preflight"
    /\ at \in Intents
    /\ LET s == slots[at]
           reserve == IF Assess(at, s) = "blocked" THEN 0
                      ELSE ExecutionReserve(at)
                             + EnvelopeWork(at, Target(at, s), Root[at])
       IN  IF ObserveWork(at, s) + reserve > pool
           THEN Return("exhausted")
           ELSE /\ found' = [found EXCEPT ![at] = s]
                /\ pool' = pool - ObserveWork(at, s) - reserve
                /\ allotted' = allotted + reserve
                /\ at' = at + 1
                /\ UNCHANGED <<slots, mode, pc, fresh, result, changed, spent>>

\* No intent is touched unless every intent is ready.  The execution gets
\* exactly what the preflight reserved.
\* Mutant: only the first intent has to be ready.
StartFirst ==
    /\ pc = "preflight"
    /\ at > Count
    /\ IF Assess(1, found[1]) = "blocked"
       THEN Return("blocked")
       ELSE /\ pc' = "observe"
            /\ at' = 1
            /\ pool' = allotted
            /\ UNCHANGED <<slots, mode, found, fresh, allotted, result, changed, spent>>
Start ==
    /\ pc = "preflight"
    /\ at > Count
    /\ IF \E i \in Intents : Assess(i, found[i]) = "blocked"
       THEN Return("blocked")
       ELSE /\ pc' = "observe"
            /\ at' = 1
            /\ pool' = allotted
            /\ UNCHANGED <<slots, mode, found, fresh, allotted, result, changed, spent>>

\* Spend components of the execution budget, or end the run.
Charge(work, next) ==
    IF work > pool THEN Return("exhausted")
    ELSE pool' = pool - work /\ next

\* The candidate is observed again and its action chosen from what is there
\* now, bounded by what the preflight measured.
Observe ==
    /\ pc = "observe"
    /\ LET s == slots[at]
       IN  Charge(ObserveWork(at, s),
             IF Grown(at, s) \/ Assess(at, s) = "blocked"
             THEN /\ pc' = "idle"
                  /\ result' = "blocked"
                  /\ UNCHANGED <<slots, mode, at, found, fresh, allotted, changed, spent>>
             ELSE /\ fresh' = s
                  /\ pc' = Assess(at, s)
                  /\ UNCHANGED <<slots, mode, at, found, allotted, result, changed, spent>>)

\* The residue moves to the cleanup stage: only the entry that was observed,
\* and never over another entry.
\* Mutant: the rename does not compare the entry and replaces what is there.
PromoteAny ==
    /\ pc = "promote"
    /\ Charge(AcquireWork(at) + Depth[at],
         /\ slots' = [slots EXCEPT ![at] =
              [residue |-> "absent", cleanup |-> slots[at].residue]]
         /\ changed' = TRUE
         /\ pc' = "empty"
         /\ fresh' = [residue |-> "absent", cleanup |-> fresh.residue]
         /\ UNCHANGED <<mode, at, found, allotted, result, spent>>)
Promote ==
    /\ pc = "promote"
    /\ Charge(AcquireWork(at) + Depth[at],
         IF slots[at] # [residue |-> fresh.residue, cleanup |-> "absent"]
         THEN /\ pc' = "idle"
              /\ result' = "failed"
              /\ UNCHANGED <<slots, mode, at, found, fresh, allotted, changed, spent>>
         ELSE /\ slots' = [slots EXCEPT ![at] =
                   [residue |-> "absent", cleanup |-> fresh.residue]]
              /\ changed' = TRUE
              /\ pc' = "empty"
              /\ fresh' = [residue |-> "absent", cleanup |-> fresh.residue]
              /\ UNCHANGED <<mode, at, found, allotted, result, spent>>)

\* The cleanup stage is paid for, compared and emptied.
Empty ==
    /\ pc = "empty"
    /\ Charge(AcquireWork(at) + Depth[at] +
                EnvelopeWork(at, Target(at, found[at]), Root[at]),
         IF slots[at].cleanup # fresh.cleanup
         THEN /\ pc' = "idle"
              /\ result' = "failed"
              /\ UNCHANGED <<slots, mode, at, found, fresh, allotted, changed, spent>>
         ELSE /\ pc' = "unlink"
              /\ UNCHANGED <<slots, mode, at, found, fresh, allotted, result, changed, spent>>)

\* A file goes at once, a tree entry by entry.
Unlink ==
    /\ pc = "unlink"
    /\ changed' = TRUE
    /\ LET e == slots[at].cleanup
       IN  IF e = "tree"
           THEN Put(at, "cleanup", "partial") /\ UNCHANGED pc
           ELSE Put(at, "cleanup", "absent") /\ pc' = "confirm"
    /\ UNCHANGED <<mode, at, found, fresh, pool, allotted, result, spent>>

\* Both names are proved absent, the residue first; then the next intent.
Confirm ==
    /\ pc = "confirm"
    /\ Charge(AbsenceWork(at),
         IF slots[at].residue # "absent"
         THEN /\ pc' = "idle"
              /\ result' = "failed"
              /\ UNCHANGED <<slots, mode, at, found, fresh, allotted, changed, spent>>
         ELSE /\ pc' = "confirmed"
              /\ UNCHANGED <<slots, mode, at, found, fresh, allotted, result, changed, spent>>)

\* Mutant: one discharged intent completes the cleanup.
ConfirmedEarly ==
    /\ pc = "confirmed"
    /\ Charge(AbsenceWork(at),
         IF slots[at].cleanup # "absent"
         THEN /\ pc' = "idle"
              /\ result' = "failed"
              /\ UNCHANGED <<slots, mode, at, found, fresh, allotted, changed, spent>>
         ELSE /\ pc' = "idle"
              /\ result' = "clean"
              /\ at' = at + 1
              /\ UNCHANGED <<slots, mode, found, fresh, allotted, changed, spent>>)
Confirmed ==
    /\ pc = "confirmed"
    /\ Charge(AbsenceWork(at),
         IF slots[at].cleanup # "absent"
         THEN /\ pc' = "idle"
              /\ result' = "failed"
              /\ UNCHANGED <<slots, mode, at, found, fresh, allotted, changed, spent>>
         ELSE /\ pc' = IF at = Count THEN "idle" ELSE "observe"
              /\ result' = IF at = Count THEN "clean" ELSE result
              /\ at' = at + 1
              /\ UNCHANGED <<slots, mode, found, fresh, allotted, changed, spent>>)

---------------------------------------------------------------------------
(* What happens around a run.                                              *)

\* An error of the storage layer, a cancelled context or a crash ends the
\* run wherever it is; what it changed stays changed.
Fault ==
    /\ pc # "idle"
    /\ Spend("faults")
    /\ pc' = "idle"
    /\ result' = "failed"
    /\ UNCHANGED <<slots, mode, at, found, fresh, pool, allotted, changed>>

\* The user runs `daem recover` while the journal is there.
Recover ==
    /\ pc = "idle"
    /\ result # "clean"
    /\ Spend("runs")
    /\ mode' = "recover"
    /\ pc' = "plan"
    /\ at' = 1
    /\ found' = [i \in Intents |-> Nothing]
    /\ fresh' = Nothing
    /\ pool' = 0
    /\ allotted' = 0
    /\ changed' = FALSE
    /\ UNCHANGED <<slots, result>>

\* Another program makes a file under a private name, or removes its own.
Stranger ==
    /\ Spend("strangers")
    /\ \E i \in Intents, p \in Places :
         \/ slots[i][p] = "absent" /\ Put(i, p, "alien")
         \/ slots[i][p] = "alien" /\ Put(i, p, "absent")
    /\ UNCHANGED <<mode, pc, at, found, fresh, pool, allotted, result, changed>>

Step ==
    Plan \/ Preflight \/ Start \/ Observe \/ Promote \/ Empty \/ Unlink
         \/ Confirm \/ Confirmed

Next == Step \/ Fault \/ Recover \/ Stranger

Spec == Init /\ [][Next]_vars

---------------------------------------------------------------------------
(* Properties.                                                             *)

Typed ==
    /\ slots \in [Intents -> [Places -> Entries]]
    /\ mode \in {"apply", "recover"}
    /\ pc \in {"idle", "plan", "preflight", "observe", "promote", "empty",
               "unlink", "confirm", "confirmed"}
    /\ at \in 1..(Count + 1)
    /\ found \in [Intents -> [Places -> Entries]]
    /\ fresh \in [Places -> Entries]
    /\ result \in {"none", "clean", "blocked", "unplannable", "exhausted", "failed"}
    /\ changed \in BOOLEAN
    /\ spent \in [DOMAIN Limit -> Nat] /\ \A b \in DOMAIN Limit : spent[b] <= Limit[b]

TypeOK == Typed /\ pool \in Nat /\ allotted \in Nat

\* Nothing is renamed or unlinked in a run in which some intent was found
\* blocked: the preflight of CleanupIntents is complete before the first
\* change, so one intent's blocker is never discovered after another intent
\* was mutated.
ReadyFirst == changed => \A i \in Intents : Assess(i, found[i]) # "blocked"

alienKept ==
    \A i \in Intents, p \in Places :
        slots[i][p] = "alien" =>
            slots'[i][p] = "alien" \/ spent'.strangers # spent.strangers

\* A run never moves or destroys an entry that another program made under a
\* private name: promotion and cleanup compare the entry with the one that
\* was observed and authorized.
AlienKept == [][alienKept]_vars

\* When a run reports that the obligations are discharged, so that the
\* journal may retire, nothing that a removal left behind is still there.
DischargedClean ==
    result = "clean" =>
        \A i \in Intents, p \in Places : slots[i][p] \in {"absent", "alien"}

\* What the preflight reserved is enough: a run that planned and began is
\* never refused for want of path components.
ReserveSuffices == result # "exhausted"

\* The cleanup of an entry that a removal left behind can be planned.
AlwaysPlannable == result # "unplannable"

---------------------------------------------------------------------------
(* What holds at every step, from which the first three follow.            *)

Executing == {"observe", "promote", "empty", "unlink", "confirm", "confirmed"}

cleared(i) == \A p \in Places : slots[i][p] \in {"absent", "alien"}
ready == \A i \in Intents : Assess(i, found[i]) # "blocked"

\* Nothing has been changed before all were ready; what lies behind is done.
Ordered ==
    /\ pc \in {"plan", "preflight"} => ~changed
    /\ changed => ready
    /\ pc \in Executing => /\ at \in Intents /\ ready
                           /\ \A i \in Intents : i < at => cleared(i)
    /\ pc = "confirmed" => slots[at].residue \in {"absent", "alien"}
    /\ result = "clean" => pc = "idle" /\ \A i \in Intents : cleared(i)

\* What is about to be moved or taken apart is the intent's own.
Authorized ==
    /\ pc = "promote" => fresh.residue = Owned[at]
    /\ pc = "empty" => fresh.cleanup \in {Owned[at], "partial"}
    /\ pc = "unlink" => slots[at].cleanup \in {Owned[at], "partial"}

Inv == Typed /\ Ordered /\ Authorized
=============================================================================
