----------------------------- MODULE WorkBudget -----------------------------
(***************************************************************************)
(* The physical work budget of one operation (effect/physicalwork).  A     *)
(* budget bounds the path components that an operation visits and the tree *)
(* entries and bytes that it reads.  Before the first effect, work of each *)
(* later phase is charged and reserved; when the phase begins, exactly its *)
(* reservation is transferred to a child budget, and a few transfers also  *)
(* hand over what is left of the parent.                                   *)
(*                                                                         *)
(* Entries and bytes are charged, reserved and transferred side by side by *)
(* the same statements, so one dimension, "tree", stands for both.  The    *)
(* counts of observations and of probe bytes, and the shared envelope of   *)
(* planning, from which nothing is transferred, are left out.              *)
(***************************************************************************)
EXTENDS Integers

CONSTANTS
  Limit,      \* the limits of the allocation, by dimension
  Works,      \* the amounts of work that one call charges
  Phases,     \* the phases that the operation's client uses
  Direct      \* whether removal cleanup runs on this very budget (apply and
              \* native recovery) or on the lifecycle's child (recovery)

Dim == {"paths", "tree"}
Vector == [Dim -> Nat]

(* The phases of the code.  An invocation is a command of a host program   *)
(* that is run under protection; two of them stand for any number, each    *)
(* with an attachment, a forward and a safety part.                        *)
Phase == {"forward", "backup", "lifecycle", "execution", "general", "control",
          "semantic", "scratch", "retirement",
          "attach1", "command1", "safety1", "attach2", "command2", "safety2"}
Handle == {"first", "second"}
Attach(h) == IF h = "first" THEN "attach1" ELSE "attach2"
Command(h) == IF h = "first" THEN "command1" ELSE "command2"
Safety(h) == IF h = "first" THEN "safety1" ELSE "safety2"

ASSUME LimitAssumption == Limit \in Vector
ASSUME WorksAssumption == Works \subseteq Vector
ASSUME PhasesAssumption == Phases \subseteq Phase
ASSUME DirectAssumption == Direct \in BOOLEAN
(* ReserveCleanupLifecycle adds to the reservation of a cleanup execution  *)
(* as well as to its own, so no client may transfer both from one budget:  *)
(* only ordinary recovery prepares a lifecycle, and its cleanup then runs  *)
(* on the lifecycle's child.                                               *)
ASSUME ClientAssumption == ~(Direct /\ "lifecycle" \in Phases)

VARIABLES
  pending,    \* removalAdmissionPending
  used,       \* pathComponents, entries and bytes
  own,        \* the part of it that the holder has spent itself
  reserved,   \* the reserved... counters, by phase
  granted,    \* what all children of a phase together may spend
  begun,      \* the phases whose transfer has taken place
  excused,    \* the phases concluded as not applicable
  scratched,  \* scratchCleanupReserved
  closed,     \* the invocation ledger's transferring
  handle      \* the invocation reservations

vars == <<pending, used, own, reserved, granted, begun, excused, scratched,
          closed, handle>>
rest == <<pending, own, granted, begun, excused, scratched, closed, handle>>

None == [d \in Dim |-> 0]
Plus(v, w) == [d \in Dim |-> v[d] + w[d]]
Fits(w) == \A d \in Dim : w[d] <= Limit[d] - used[d]
(* Mutant: the operands are swapped.                                       *)
RemainingBackwards == [d \in Dim |-> used[d] - Limit[d]]
Remaining == [d \in Dim |-> Limit[d] - used[d]]

Init ==
  /\ pending \in BOOLEAN
  /\ used = None
  /\ own = None
  /\ reserved = [p \in Phase |-> None]
  /\ granted = [p \in Phase |-> None]
  /\ begun = {}
  /\ excused = {}
  /\ scratched = FALSE
  /\ closed = FALSE
  /\ handle = [h \in Handle |-> "none"]

(* AdmitRemovalDemands: the complete demand set is known, and transfers    *)
(* and removal observations open.                                          *)
AdmitRemovalDemands ==
  /\ pending
  /\ pending' = FALSE
  /\ UNCHANGED <<used, own, reserved, granted, begun, excused, scratched, closed, handle>>

(* The holder does bounded work itself.                                    *)
AdmitPhysicalWork(w) ==
  /\ Fits(w)
  /\ used' = Plus(used, w)
  /\ own' = Plus(own, w)
  /\ UNCHANGED <<pending, reserved, granted, begun, excused, scratched, closed, handle>>

Settled(p) == p \in begun \/ p \in excused

(* What a reservation for a phase checks before it charges anything.       *)
MayReserve(p) ==
  CASE p = "forward"    -> ~pending
    [] p = "backup"     -> "backup" \notin begun
    [] p = "execution"  -> ~pending /\ Direct
    [] p = "general"    -> "general" \notin begun
    [] p = "semantic"   -> "semantic" \notin begun /\ "general" \notin begun
    [] p = "scratch"    -> ~Settled("scratch") /\ "general" \notin begun
    [] p = "retirement" -> ~Settled("retirement") /\ "general" \notin begun
    [] OTHER            -> FALSE

(* Semantic reservations are of path components only.                      *)
MayAsk(p, w) == p = "semantic" => w["tree"] = 0

(* Reserve...: the work is charged now and set aside for the phase.        *)
Charge(p, w) ==
  /\ Fits(w)
  /\ used' = Plus(used, w)
  /\ reserved' = [reserved EXCEPT ![p] = Plus(reserved[p], w)]

(* Mutant: the work is set aside without being charged.                    *)
ReserveUncharged(p, w) ==
  /\ p \in Phases
  /\ MayReserve(p)
  /\ MayAsk(p, w)
  /\ Fits(w)
  /\ reserved' = [reserved EXCEPT ![p] = Plus(reserved[p], w)]
  /\ UNCHANGED used
  /\ UNCHANGED rest

Reserve(p, w) ==
  /\ p \in Phases
  /\ MayReserve(p)
  /\ MayAsk(p, w)
  /\ Charge(p, w)
  /\ UNCHANGED rest

(* The lifecycle of one removal intent: a preflight and an execution, of   *)
(* path components; the execution's part is counted twice.                 *)
ReserveCleanupLifecycle(v, w) ==
  /\ "lifecycle" \in Phases
  /\ ~pending
  /\ ~Settled("lifecycle")
  /\ "general" \notin begun
  /\ v["tree"] = 0 /\ w["tree"] = 0
  /\ Fits(Plus(v, w))
  /\ used' = Plus(used, Plus(v, w))
  /\ reserved' = [reserved EXCEPT
       !["lifecycle"] = Plus(reserved["lifecycle"], Plus(v, w)),
       !["execution"] = Plus(reserved["execution"], w)]
  /\ UNCHANGED rest

(* The rollback stage's own cleanup is reserved once, and decides whether  *)
(* the scratch phase applies.                                              *)
ReserveScratchCleanup(w) ==
  /\ "scratch" \in Phases
  /\ MayReserve("scratch")
  /\ ~scratched
  /\ Charge("scratch", w)
  /\ scratched' = TRUE
  /\ UNCHANGED <<pending, own, granted, begun, excused, closed, handle>>

(* What a transfer checks.  The backup and the forward phase may begin at  *)
(* any time, the others before general execution; that a cleanup execution *)
(* begins once is up to its only caller.                                   *)
MayBegin(p) ==
  /\ ~pending
  /\ p \notin begun
  /\ p \in {"semantic", "scratch", "retirement", "lifecycle"} =>
       /\ "general" \notin begun
       /\ p \notin excused
  /\ p = "scratch" => scratched
  /\ p = "execution" => Direct

Transfer(p) ==
  /\ begun' = begun \cup {p}
  /\ granted' = [granted EXCEPT ![p] = Plus(granted[p], reserved[p])]

(* BeginReserved...: the child's limits are the phase's reservation.       *)
BeginReserved(p) ==
  /\ p \in Phases \cap {"forward", "backup", "execution", "semantic", "scratch", "retirement"}
  /\ MayBegin(p)
  /\ Transfer(p)
  /\ UNCHANGED <<pending, used, own, reserved, excused, scratched, closed, handle>>

(* The cleanup lifecycle's child takes its reserved path components and    *)
(* all of the tree work that is left.                                      *)
BeginReservedCleanupLifecycle ==
  /\ "lifecycle" \in Phases
  /\ MayBegin("lifecycle")
  /\ begun' = begun \cup {"lifecycle"}
  /\ granted' = [granted EXCEPT !["lifecycle"] =
       [d \in Dim |-> IF d = "tree" THEN Remaining["tree"] ELSE reserved["lifecycle"]["paths"]]]
  /\ used' = [used EXCEPT !["tree"] = Limit["tree"]]
  /\ UNCHANGED <<pending, own, reserved, excused, scratched, closed, handle>>

(* A coordinator that has discharged every removal on this budget closes   *)
(* the phase without a transfer.                                           *)
ConcludeCleanupLifecycle ==
  /\ ~pending
  /\ ~Settled("lifecycle")
  /\ "general" \notin begun
  /\ Direct
  /\ excused' = excused \cup {"lifecycle"}
  /\ UNCHANGED <<pending, used, own, reserved, granted, begun, scratched, closed, handle>>

(* Mutant: a reserved rollback stage is taken for an absent one.           *)
ConcludeScratchAnyway ==
  /\ ~Settled("scratch")
  /\ "general" \notin begun
  /\ excused' = excused \cup {"scratch"}
  /\ UNCHANGED <<pending, used, own, reserved, granted, begun, scratched, closed, handle>>

ConcludeScratchCleanupNotApplicable ==
  /\ ~Settled("scratch")
  /\ ~scratched
  /\ "general" \notin begun
  /\ excused' = excused \cup {"scratch"}
  /\ UNCHANGED <<pending, used, own, reserved, granted, begun, scratched, closed, handle>>

ConcludeRetirementNotApplicable ==
  /\ ~Settled("retirement")
  /\ reserved["retirement"] = None
  /\ "general" \notin begun
  /\ excused' = excused \cup {"retirement"}
  /\ UNCHANGED <<pending, used, own, reserved, granted, begun, scratched, closed, handle>>

(* General execution, the host's effects, begins when every phase that     *)
(* will have to clean up after it has its capacity or needs none.          *)
MayBeginGeneral ==
  /\ "general" \in Phases
  /\ ~pending
  /\ "general" \notin begun
  /\ \A p \in {"lifecycle", "scratch", "retirement"} : Settled(p)

(* The control child takes the path components that are left.              *)
BeginGeneralExecution ==
  /\ MayBeginGeneral
  /\ begun' = begun \cup {"general", "control"}
  /\ granted' = [granted EXCEPT
       !["general"] = Plus(granted["general"], reserved["general"]),
       !["control"] = [d \in Dim |-> IF d = "paths" THEN Remaining["paths"] ELSE 0]]
  /\ used' = Limit
  /\ UNCHANGED <<pending, own, reserved, excused, scratched, closed, handle>>

BeginGeneralExecutionRetainingControl ==
  /\ MayBeginGeneral
  /\ Transfer("general")
  /\ UNCHANGED <<pending, used, own, reserved, excused, scratched, closed, handle>>

(* Mutant: each part is compared with all of what is left.                 *)
PrepayApart(h, a, c, s) ==
  /\ Fits(a) /\ Fits(c) /\ Fits(s)
  /\ used' = Plus(used, Plus(Plus(a, c), s))
  /\ reserved' = [reserved EXCEPT ![Attach(h)] = a, ![Command(h)] = c, ![Safety(h)] = s]

(* Invocations: admission of all of them ends with the first transfer, and *)
(* an attachment is transferred before the command.                        *)
Prepay(h, a, c, s) ==
  /\ Fits(Plus(Plus(a, c), s))
  /\ used' = Plus(used, Plus(Plus(a, c), s))
  /\ reserved' = [reserved EXCEPT ![Attach(h)] = a, ![Command(h)] = c, ![Safety(h)] = s]

ReserveInvocation(h, c, s) ==
  /\ {Command(h), Safety(h)} \subseteq Phases
  /\ handle[h] = "none"
  /\ ~closed
  /\ Prepay(h, None, c, s)
  /\ handle' = [handle EXCEPT ![h] = "attached"]
  /\ UNCHANGED <<pending, own, granted, begun, excused, scratched, closed>>

ReserveInvocationWithAttachment(h, a, c, s) ==
  /\ {Attach(h), Command(h), Safety(h)} \subseteq Phases
  /\ handle[h] = "none"
  /\ ~closed
  /\ Prepay(h, a, c, s)
  /\ handle' = [handle EXCEPT ![h] = "held"]
  /\ UNCHANGED <<pending, own, granted, begun, excused, scratched, closed>>

TakeAttachment(h) ==
  /\ handle[h] = "held"
  /\ closed' = TRUE
  /\ handle' = [handle EXCEPT ![h] = "attached"]
  /\ Transfer(Attach(h))
  /\ UNCHANGED <<pending, used, own, reserved, excused, scratched>>

Take(h) ==
  /\ handle[h] = "attached"
  /\ closed' = TRUE
  /\ handle' = [handle EXCEPT ![h] = "taken"]
  /\ begun' = begun \cup {Command(h), Safety(h)}
  /\ granted' = [granted EXCEPT
       ![Command(h)] = Plus(granted[Command(h)], reserved[Command(h)]),
       ![Safety(h)] = Plus(granted[Safety(h)], reserved[Safety(h)])]
  /\ UNCHANGED <<pending, used, own, reserved, excused, scratched>>

Next ==
  \/ AdmitRemovalDemands
  \/ \E w \in Works : AdmitPhysicalWork(w) \/ ReserveScratchCleanup(w)
  \/ \E p \in Phase : BeginReserved(p) \/ \E w \in Works : Reserve(p, w)
  \/ \E v, w \in Works : ReserveCleanupLifecycle(v, w)
  \/ BeginReservedCleanupLifecycle
  \/ ConcludeCleanupLifecycle
  \/ ConcludeScratchCleanupNotApplicable
  \/ ConcludeRetirementNotApplicable
  \/ BeginGeneralExecution
  \/ BeginGeneralExecutionRetainingControl
  \/ \E h \in Handle : TakeAttachment(h) \/ Take(h)
  \/ \E h \in Handle : \E c, s \in Works : ReserveInvocation(h, c, s)
  \/ \E h \in Handle : \E a, c, s \in Works : ReserveInvocationWithAttachment(h, a, c, s)

Spec == Init /\ [][Next]_vars
----------------------------------------------------------------------------
TypeOK ==
  /\ pending \in BOOLEAN
  /\ used \in Vector
  /\ own \in Vector
  /\ reserved \in [Phase -> Vector]
  /\ granted \in [Phase -> Vector]
  /\ begun \subseteq Phase
  /\ excused \subseteq Phase
  /\ scratched \in BOOLEAN
  /\ closed \in BOOLEAN
  /\ handle \in [Handle -> {"none", "held", "attached", "taken"}]

(* The sum over all phases.                                                *)
OfRemovals(f, d) == f["forward"][d] + f["backup"][d] + f["lifecycle"][d] + f["execution"][d]
OfControl(f, d) ==
  f["general"][d] + f["control"][d] + f["semantic"][d] + f["scratch"][d] + f["retirement"][d]
OfInvocation(f, d, h) == f[Attach(h)][d] + f[Command(h)][d] + f[Safety(h)][d]
Total(f, d) ==
  OfRemovals(f, d) + OfControl(f, d) + OfInvocation(f, d, "first") + OfInvocation(f, d, "second")

(* What its holder has spent and what all the children of a budget may     *)
(* still spend never exceed the limit together, however reservations,      *)
(* transfers, conclusions and refusals follow each other: no phase is paid *)
(* twice, and no transfer hands out what another one has been promised.    *)
Conserved == \A d \in Dim : own[d] + Total(granted, d) <= Limit[d]

(* When the host's effects begin, the capacity that was set aside for what *)
(* has to follow them has been handed over: the retirement of the journal, *)
(* the cleanup of the rollback stage and that of removed paths are not     *)
(* stranded in a parent that can transfer nothing any more.                *)
Handed ==
  "general" \in begun =>
    /\ reserved["retirement"] = granted["retirement"]
    /\ scratched => reserved["scratch"] = granted["scratch"]
    /\ reserved["lifecycle"]["paths"] = granted["lifecycle"]["paths"]
=============================================================================
