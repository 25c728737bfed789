---------------------------- MODULE CarrierLife ----------------------------
(***************************************************************************)
(* The life of a delegated relation (a "carrier": a plugin or package that *)
(* a host program installs on daem's behalf) from its installation to its  *)
(* removal, with several manifests that manage the same relation.          *)
(*                                                                         *)
(* Three kinds of state live apart and are written one after another: the  *)
(* host's own inventory, which only host commands (and the user) change;   *)
(* the statefile of each manifest, which holds the write-ahead facts (a    *)
(* pending install, a pending removal) and the claims of project scope;    *)
(* and the registry of global claims, which all manifests share.  A run    *)
(* may stop between any two of these writes, a host command may fail, an   *)
(* observation may be unavailable, and users change the declarations and   *)
(* the host's inventory when they like.                                    *)
(*                                                                         *)
(* One owner is one manifest with its statefile; it manages one relation,  *)
(* at one of the commit pins in Pins.  Owners in Globals manage the same   *)
(* relation of the host; every other owner has a relation of its own.      *)
(***************************************************************************)
EXTENDS Naturals, FiniteSets

CONSTANTS
  Owners,    \* the manifests
  Globals,   \* the owners whose relation has global scope
  Pins,      \* the pins a declaration may ask for
  None,      \* no pin, no claim, no fact, nobody
  Unknown,   \* an inventory that could not be observed
  Limit      \* bounds: stops, failures, blind, edits, declares, unmanages

BoundNames == {"stops", "failures", "blind", "edits", "declares", "unmanages"}

Shared == "shared"
Site(o) == IF o \in Globals THEN Shared ELSE o
Sites == {Site(o) : o \in Owners}

\* A claim: the pin it manages, the pin a reserved change leads to, and how
\* it was acquired.
Claims ==
  [pin : Pins, pend : Pins \cup {None}, prov : {"installed", "adopted", "pin"}]

CarrierAssumption ==
  /\ Globals \subseteq Owners
  /\ None \notin Pins /\ Unknown \notin Pins /\ None # Unknown
  /\ None \notin Claims /\ None \notin Owners
  /\ Shared \notin Owners /\ "user" \notin Owners /\ "nobody" \notin Owners
  /\ Limit \in [BoundNames -> Nat]

VARIABLES
  desired,   \* the pin each owner's declarations and lock ask for, or None
  host,      \* the pin each place of the host has installed, or None
  by,        \* who put it there: an owner's command, "user", or nobody
  file,      \* each owner's statefile: pending install, pending removal, claim
  registry,  \* the shared registry: a claim or None for every global owner
  lease,     \* the owner whose run holds the registry's mutation lease
  run,       \* each owner's apply run
  used       \* how much of every bound has been used

vars == <<desired, host, by, file, registry, lease, run, used>>

\* Mutant: a reserved change of pin goes unnoticed.
StableAlways(c) == TRUE

Stable(c) == c.pend = None

Claim(o) == IF o \in Globals THEN registry[o] ELSE file[o].claim

\* The claims of other owners on the same relation of the host.
Others(o) ==
  IF o \in Globals THEN {registry[q] : q \in Globals \ {o}} \ {None} ELSE {}

----------------------------------------------------------------------------
(***************************************************************************)
(* What one run decides for its relation from one view of the host.  The   *)
(* route to the host is taken to be admitted and the relation's evidence   *)
(* to be source-exact.                                                     *)
(***************************************************************************)

\* Mutant: a relation that is gone is retired without asking for a pending
\* removal of it.
AbsenceDecisionForgetsPending(o, seen) ==
  LET c == Claim(o) IN
  IF c = None THEN "none"
  ELSE IF ~Stable(c) \/ seen = Unknown THEN "block"
  ELSE IF seen = None THEN "retire"
  ELSE IF seen = c.pin /\ \A q \in Others(o) : q.pin # c.pin
       THEN "remove" ELSE "block"

\* A claim whose declaration is gone.
AbsenceDecision(o, seen) ==
  LET c == Claim(o) IN
  IF c = None THEN "none"
  ELSE IF ~Stable(c) \/ seen = Unknown THEN "block"
  ELSE IF seen = None THEN IF file[o].rem # None THEN "verify" ELSE "retire"
  ELSE IF seen = c.pin /\ \A q \in Others(o) : q.pin # c.pin
       THEN "remove" ELSE "block"

\* A claim at another pin than the declared one.
PinDecision(o, seen) ==
  LET c == Claim(o)
      resuming == c.pend = desired[o]
      exclusive == Others(o) = {} /\ file[o].inst = None /\ file[o].rem = None
  IN IF /\ c.pend \in {None, desired[o]}
        /\ exclusive
        /\ seen = c.pin \/ (resuming /\ seen = desired[o])
     THEN "pin" ELSE "block"

\* A declared relation with a stable claim at its pin, or with none.
RelationDecision(o, seen, manage) ==
  LET managed == Claim(o) # None IN
  IF \E q \in Others(o) : ~Stable(q) THEN "block"
  ELSE IF seen = Unknown THEN "none"
  ELSE IF seen = None THEN "create"
  ELSE IF seen # desired[o] THEN "block"
  ELSE IF file[o].inst = desired[o] THEN "promote"
  ELSE IF managed THEN "none"
  ELSE IF manage /\ file[o].inst = None THEN "adopt" ELSE "block"

Decide(o, seen, manage) ==
  LET c == Claim(o)
      f == file[o]
  IN IF f.rem # None /\ f.rem # c THEN "block"
     ELSE IF desired[o] = None THEN AbsenceDecision(o, seen)
     ELSE IF f.rem # None THEN "block"
     ELSE IF c # None /\ c.pin # desired[o] THEN PinDecision(o, seen)
     ELSE IF c # None /\ ~Stable(c) THEN "block"
     ELSE RelationDecision(o, seen, manage)

\* What the user confirms and the run compares again once it holds the lease.
PlanOf(o, seen, manage) ==
  [kind |-> Decide(o, seen, manage), manage |-> manage, declared |-> desired[o],
   claim |-> Claim(o), others |-> Others(o), seen |-> seen]

NoPlan ==
  [kind |-> "none", manage |-> FALSE, declared |-> None, claim |-> None,
   others |-> {}, seen |-> None]

Kinds == {"none", "retire", "remove", "verify", "promote", "create", "pin", "adopt"}

Steps ==
  {"core", "regRetire", "remPending", "remHost", "remSee", "remVerify", "remClear",
   "remRetire", "instPending", "instHost", "instSee", "regPromote", "converge",
   "filePromote", "instRetire", "pinReserve", "pinHost", "pinSee", "pinComplete",
   "regAdopt"}

Idle == [pc |-> "idle", plan |-> NoPlan]

Plans ==
  [kind : Kinds, manage : BOOLEAN, declared : Pins \cup {None}, claim : Claims \cup {None},
   others : SUBSET Claims, seen : Pins \cup {None, Unknown}]

Files == [inst : Pins \cup {None}, rem : Claims \cup {None}, claim : Claims \cup {None}]

TypeOK ==
  /\ desired \in [Owners -> Pins \cup {None}]
  /\ host \in [Sites -> Pins \cup {None}]
  /\ by \in [Sites -> Owners \cup {"user", "nobody"}]
  /\ file \in [Owners -> Files]
  /\ \A o \in Globals : file[o].claim = None
  /\ registry \in [Globals -> Claims \cup {None}]
  /\ lease \in Globals \cup {None}
  /\ run \in [Owners -> [pc : {"idle", "planned"} \cup Steps, plan : Plans]]
  /\ used \in [BoundNames -> Nat]
  /\ \A b \in BoundNames : used[b] <= Limit[b]

Init ==
  /\ desired = [o \in Owners |-> None]
  /\ host = [s \in Sites |-> None]
  /\ by = [s \in Sites |-> "nobody"]
  /\ file = [o \in Owners |-> [inst |-> None, rem |-> None, claim |-> None]]
  /\ registry = [o \in Globals |-> None]
  /\ lease = None
  /\ run = [o \in Owners |-> Idle]
  /\ used = [b \in BoundNames |-> 0]

----------------------------------------------------------------------------
(* Common parts of the actions. *)

Use(b) == used[b] < Limit[b] /\ used' = [used EXCEPT ![b] = @ + 1]

\* One look at the inventory of o's relation; it may fail.
Look(o, seen) ==
  \/ seen = host[Site(o)] /\ UNCHANGED used
  \/ seen = Unknown /\ Use("blind")

At(o, pc) == run[o].pc = pc
Goto(o, pc) == run' = [run EXCEPT ![o].pc = pc] /\ UNCHANGED lease

\* The run returns, with or without an error, and gives the lease back.
Return(o) ==
  /\ run' = [run EXCEPT ![o] = Idle]
  /\ lease' = IF lease = o THEN None ELSE lease

Pin(o) == run[o].plan.declared

\* The declarations are those the plan was made from.
Current(o) == desired[o] = run[o].plan.declared

\* The registry still holds what the plan was made from.
Unchanged(o) == Claim(o) = run[o].plan.claim /\ Others(o) = run[o].plan.others

SetClaim(o, c) ==
  IF o \in Globals
  THEN registry' = [registry EXCEPT ![o] = c] /\ UNCHANGED file
  ELSE file' = [file EXCEPT ![o].claim = c] /\ UNCHANGED registry

----------------------------------------------------------------------------
(* Planning, and planning again under the lease. *)

Plan(o, seen, manage) ==
  /\ At(o, "idle")
  /\ Look(o, seen)
  /\ Decide(o, seen, manage) \in Kinds
  /\ run' = [run EXCEPT ![o] = [pc |-> "planned", plan |-> PlanOf(o, seen, manage)]]
  /\ UNCHANGED <<desired, host, by, file, registry, lease>>

\* Mutant: a run of global scope does not wait for the registry's lease.
BeginUnleased(o, seen) ==
  /\ At(o, "planned")
  /\ Look(o, seen)
  /\ IF PlanOf(o, seen, run[o].plan.manage) = run[o].plan
     THEN run' = [run EXCEPT ![o].pc = "core"] /\ UNCHANGED lease
     ELSE run' = [run EXCEPT ![o] = Idle] /\ UNCHANGED lease
  /\ UNCHANGED <<desired, host, by, file, registry>>

\* The lease, then the same plan from fresh facts, or nothing.
Begin(o, seen) ==
  /\ At(o, "planned")
  /\ o \in Globals => lease = None
  /\ Look(o, seen)
  /\ IF PlanOf(o, seen, run[o].plan.manage) = run[o].plan
     THEN /\ run' = [run EXCEPT ![o].pc = "core"]
          /\ lease' = IF o \in Globals THEN o ELSE lease
     ELSE run' = [run EXCEPT ![o] = Idle] /\ UNCHANGED lease
  /\ UNCHANGED <<desired, host, by, file, registry>>

----------------------------------------------------------------------------
(* The ordinary core: one commit of the statefile. *)

\* Mutant: a pending install whose claim is already registered is kept.
ConvergedKeepsInstall(o) == file[o].inst

\* A pending install whose exact claim the registry already has is complete.
Converged(o) ==
  IF o \in Globals /\ registry[o] # None
     /\ Stable(registry[o]) /\ registry[o].pin = file[o].inst
  THEN None ELSE file[o].inst

\* The claim that an observed install leads to, and the claim of an adoption.
Installed(p) == [pin |-> p, pend |-> None, prov |-> "installed"]
Adopted(p) == [pin |-> p, pend |-> None, prov |-> "adopted"]

ClaimAfterInstall(o) == IF Claim(o) # None THEN Claim(o) ELSE Installed(Pin(o))

\* Mutant: a global relation is completed in the statefile as well.
CoreStateAnyScope(o) ==
  IF run[o].plan.kind = "promote"
  THEN [file[o] EXCEPT !.inst = None, !.claim = ClaimAfterInstall(o)]
  ELSE [file[o] EXCEPT !.inst = Converged(o)]

CoreState(o) ==
  LET kind == run[o].plan.kind
      f == [file[o] EXCEPT !.inst = Converged(o)]
  IN IF o \in Globals THEN f
     ELSE CASE kind = "retire"  -> [f EXCEPT !.claim = None]
            [] kind = "promote" -> [f EXCEPT !.inst = None, !.claim = ClaimAfterInstall(o)]
            [] kind = "adopt"   -> [f EXCEPT !.claim = Adopted(Pin(o))]
            [] OTHER            -> f

\* Where the rest of the run begins, or "" when the core was all of it.
AfterCore(o) ==
  LET kind == run[o].plan.kind IN
  CASE kind = "remove" -> "remPending"
    [] kind = "verify" -> "remVerify"
    [] kind = "create" -> "instPending"
    [] kind = "pin"    -> "pinReserve"
    [] kind = "retire" /\ o \in Globals -> "regRetire"
    [] kind = "adopt" /\ o \in Globals -> "regAdopt"
    [] kind = "promote" /\ o \in Globals /\ Converged(o) # None -> "regPromote"
    [] OTHER -> ""

Core(o) ==
  /\ At(o, "core")
  /\ Current(o)
  /\ file' = [file EXCEPT ![o] = CoreState(o)]
  /\ IF AfterCore(o) = "" THEN Return(o) ELSE Goto(o, AfterCore(o))
  /\ UNCHANGED <<desired, host, by, registry, used>>

----------------------------------------------------------------------------
(* The claim of a relation that was already gone. *)

RegRetire(o) ==
  /\ At(o, "regRetire")
  /\ Current(o) /\ Unchanged(o) /\ Stable(Claim(o))
  /\ SetClaim(o, None)
  /\ Return(o)
  /\ UNCHANGED <<desired, host, by, used>>

----------------------------------------------------------------------------
(* Removal: write-ahead fact, host command, observation, retirement. *)

RemPending(o) ==
  /\ At(o, "remPending")
  /\ Current(o) /\ Claim(o) = run[o].plan.claim
  /\ file[o].rem \in {None, Claim(o)} /\ file[o].inst = None
  /\ file' = [file EXCEPT ![o].rem = Claim(o)]
  /\ Goto(o, "remHost")
  /\ UNCHANGED <<desired, host, by, registry, used>>

\* The host's uninstall command, which may fail with or without effect.
RemHost(o) ==
  /\ At(o, "remHost")
  /\ \/ /\ host[Site(o)] = file[o].rem.pin
        /\ host' = [host EXCEPT ![Site(o)] = None]
        /\ by' = [by EXCEPT ![Site(o)] = "nobody"]
        /\ UNCHANGED used
     \/ /\ host[Site(o)] # file[o].rem.pin \/ used.failures < Limit.failures
        /\ IF host[Site(o)] = file[o].rem.pin THEN Use("failures") ELSE UNCHANGED used
        /\ UNCHANGED <<host, by>>
  /\ Goto(o, "remSee")
  /\ UNCHANGED <<desired, file, registry>>

\* Mutant: the claim is retired on the strength of the command alone.
RemSeeTrustsCommand(o, seen) ==
  /\ At(o, "remSee")
  /\ Look(o, seen)
  /\ Goto(o, "remClear")
  /\ UNCHANGED <<desired, host, by, file, registry>>

\* The observation that the command is followed by; whatever does not show
\* the relation absent keeps the claim and the pending removal.
RemSee(o, seen) ==
  /\ At(o, "remSee")
  /\ Look(o, seen)
  /\ IF seen = None THEN Goto(o, "remClear") ELSE Return(o)
  /\ UNCHANGED <<desired, host, by, file, registry>>

\* A later run settles a pending removal from what it observes now.
RemVerify(o, seen) ==
  /\ At(o, "remVerify")
  /\ Look(o, seen)
  /\ IF seen = None /\ Current(o) THEN Goto(o, "remClear") ELSE Return(o)
  /\ UNCHANGED <<desired, host, by, file, registry>>

\* Mutant: the registry is written before the pending removal is cleared.
RemClearRegistryFirst(o) ==
  /\ At(o, "remClear")
  /\ Claim(o) = file[o].rem /\ Stable(Claim(o))
  /\ IF o \in Globals
     THEN /\ registry' = [registry EXCEPT ![o] = None]
          /\ UNCHANGED file
          /\ Goto(o, "remRetire")
     ELSE /\ file' = [file EXCEPT ![o].rem = None, ![o].claim = None]
          /\ UNCHANGED registry
          /\ Return(o)
  /\ UNCHANGED <<desired, host, by, used>>

\* Project scope: claim and pending removal go in one commit.  Global scope:
\* the pending removal first, the claim after it.
RemClear(o) ==
  /\ At(o, "remClear")
  /\ Claim(o) = file[o].rem /\ Stable(Claim(o))
  /\ IF o \in Globals
     THEN /\ file' = [file EXCEPT ![o].rem = None]
          /\ Goto(o, "remRetire")
     ELSE /\ file' = [file EXCEPT ![o].rem = None, ![o].claim = None]
          /\ Return(o)
  /\ UNCHANGED <<desired, host, by, registry, used>>

RemRetire(o) ==
  /\ At(o, "remRetire")
  /\ Unchanged(o) /\ Stable(Claim(o))
  /\ SetClaim(o, None)
  /\ Return(o)
  /\ UNCHANGED <<desired, host, by, used>>

----------------------------------------------------------------------------
(* Installation: write-ahead fact, host command, observation, claim. *)

\* Mutant: the command runs before the pending install is on disk.
InstPendingUnwritten(o) ==
  /\ At(o, "instPending")
  /\ file[o].inst \in {None, Pin(o)} /\ file[o].rem = None
  /\ Goto(o, "instHost")
  /\ UNCHANGED <<desired, host, by, file, registry, used>>

InstPending(o) ==
  /\ At(o, "instPending")
  /\ file[o].inst \in {None, Pin(o)} /\ file[o].rem = None
  /\ file' = [file EXCEPT ![o].inst = Pin(o)]
  /\ Goto(o, "instHost")
  /\ UNCHANGED <<desired, host, by, registry, used>>

\* The host's install command, for an install and for a change of pin.
HostInstalls(o) ==
  LET s == Site(o) IN
  \/ /\ host' = [host EXCEPT ![s] = Pin(o)]
     /\ by' = IF host[s] = Pin(o) THEN by ELSE [by EXCEPT ![s] = o]
     /\ UNCHANGED used
  \/ /\ Use("failures")
     /\ UNCHANGED <<host, by>>

InstHost(o) ==
  /\ At(o, "instHost")
  /\ HostInstalls(o)
  /\ Goto(o, "instSee")
  /\ UNCHANGED <<desired, file, registry>>

\* What o's command put there without anybody having seen it is nobody's.
Lapse(o) ==
  by' = IF by[Site(o)] = o /\ Claim(o) = None
        THEN [by EXCEPT ![Site(o)] = "user"] ELSE by

InstSee(o, seen) ==
  /\ At(o, "instSee")
  /\ Look(o, seen)
  /\ IF seen # Pin(o) THEN Lapse(o) ELSE UNCHANGED by
  /\ Goto(o, IF seen # Pin(o) THEN "instRetire"
             ELSE IF o \in Globals THEN "regPromote" ELSE "filePromote")
  /\ UNCHANGED <<desired, host, file, registry>>

\* Project scope: pending install and claim in one commit.
FilePromote(o) ==
  /\ At(o, "filePromote")
  /\ file[o].inst = Pin(o)
  /\ file' = [file EXCEPT ![o].inst = None, ![o].claim = ClaimAfterInstall(o)]
  /\ Goto(o, "instRetire")
  /\ UNCHANGED <<desired, host, by, registry, used>>

\* A new claim has no conflict when no other claim on the same checkout has a
\* reserved pin change.
NoReservation(o) == \A q \in Others(o) : Stable(q)

\* Global scope: the registry first, then the statefile.
RegPromote(o) ==
  /\ At(o, "regPromote")
  /\ Current(o) /\ Unchanged(o) /\ NoReservation(o)
  /\ ClaimAfterInstall(o).pin = Pin(o) /\ Stable(ClaimAfterInstall(o))
  /\ SetClaim(o, ClaimAfterInstall(o))
  /\ Goto(o, "converge")
  /\ UNCHANGED <<desired, host, by, used>>

Converge(o) ==
  /\ At(o, "converge")
  /\ file' = [file EXCEPT ![o].inst = Converged(o)]
  /\ IF run[o].plan.kind = "create" THEN Goto(o, "instRetire") ELSE Return(o)
  /\ UNCHANGED <<desired, host, by, registry, used>>

\* A command that has returned leaves no pending install behind.
InstRetire(o) ==
  /\ At(o, "instRetire")
  /\ file' = [file EXCEPT ![o].inst = IF @ = Pin(o) THEN None ELSE @]
  /\ Return(o)
  /\ UNCHANGED <<desired, host, by, registry, used>>

----------------------------------------------------------------------------
(* A change of pin: reservation, host command, observation, completion. *)

PinReserve(o) ==
  /\ At(o, "pinReserve")
  /\ Current(o) /\ Unchanged(o) /\ Others(o) = {}
  /\ Claim(o).pend \in {None, Pin(o)}
  /\ SetClaim(o, [Claim(o) EXCEPT !.pend = Pin(o)])
  /\ Goto(o, "pinHost")
  /\ UNCHANGED <<desired, host, by, used>>

PinHost(o) ==
  /\ At(o, "pinHost")
  /\ HostInstalls(o)
  /\ Goto(o, "pinSee")
  /\ UNCHANGED <<desired, file, registry>>

\* Mutant: the change counts as complete when the command has returned.
PinSeeBlind(o, seen) ==
  /\ At(o, "pinSee")
  /\ Look(o, seen)
  /\ Goto(o, "pinComplete")
  /\ UNCHANGED <<desired, host, by, file, registry>>

PinSee(o, seen) ==
  /\ At(o, "pinSee")
  /\ Look(o, seen)
  /\ IF seen = Pin(o) THEN Goto(o, "pinComplete") ELSE Return(o)
  /\ UNCHANGED <<desired, host, by, file, registry>>

PinComplete(o) ==
  /\ At(o, "pinComplete")
  /\ o \in Globals => Current(o)
  /\ Claim(o) = [run[o].plan.claim EXCEPT !.pend = Pin(o)]
  /\ Others(o) = run[o].plan.others
  /\ SetClaim(o, [pin |-> Pin(o), pend |-> None, prov |-> "pin"])
  /\ Return(o)
  /\ UNCHANGED <<desired, host, by, used>>

----------------------------------------------------------------------------
(* Adoption of a relation that is there and nobody claims. *)

RegAdopt(o) ==
  /\ At(o, "regAdopt")
  /\ Current(o) /\ Unchanged(o) /\ NoReservation(o)
  /\ SetClaim(o, Adopted(Pin(o)))
  /\ Return(o)
  /\ UNCHANGED <<desired, host, by, used>>

----------------------------------------------------------------------------
(* The ways a run ends early. *)

\* What a step asks of the declarations, the registry and the statefile
\* before it writes.
Admitted(o) ==
  LET pc == run[o].pc IN
  CASE pc = "core" -> Current(o)
    [] pc = "regRetire" -> Current(o) /\ Unchanged(o) /\ Stable(Claim(o))
    [] pc = "remPending" ->
         /\ Current(o) /\ Claim(o) = run[o].plan.claim
         /\ file[o].rem \in {None, Claim(o)} /\ file[o].inst = None
    [] pc = "remClear" -> Claim(o) = file[o].rem /\ Stable(Claim(o))
    [] pc = "remRetire" -> Unchanged(o) /\ Stable(Claim(o))
    [] pc = "instPending" -> file[o].inst \in {None, Pin(o)} /\ file[o].rem = None
    [] pc = "filePromote" -> file[o].inst = Pin(o)
    [] pc = "regPromote" ->
         /\ Current(o) /\ Unchanged(o) /\ NoReservation(o)
         /\ ClaimAfterInstall(o).pin = Pin(o) /\ Stable(ClaimAfterInstall(o))
    [] pc = "pinReserve" ->
         /\ Current(o) /\ Unchanged(o) /\ Others(o) = {}
         /\ Claim(o).pend \in {None, Pin(o)}
    [] pc = "pinComplete" ->
         /\ o \in Globals => Current(o)
         /\ Claim(o) = [run[o].plan.claim EXCEPT !.pend = Pin(o)]
         /\ Others(o) = run[o].plan.others
    [] pc = "regAdopt" -> Current(o) /\ Unchanged(o) /\ NoReservation(o)
    [] OTHER -> TRUE

Refuse(o) ==
  /\ run[o].pc \in Steps
  /\ ~Admitted(o)
  /\ Return(o)
  /\ UNCHANGED <<desired, host, by, file, registry, used>>

\* A crash, a cancellation, or an error of a write: whatever the write left
\* behind, the run goes no further.
Stop(o) ==
  /\ run[o].pc # "idle"
  /\ Use("stops")
  /\ Return(o)
  /\ UNCHANGED <<desired, host, by, file, registry>>

----------------------------------------------------------------------------
(* What users do. *)

Declare(o, p) ==
  /\ desired[o] # p
  /\ Use("declares")
  /\ desired' = [desired EXCEPT ![o] = p]
  /\ UNCHANGED <<host, by, file, registry, lease, run>>

\* The user installs, uninstalls or repins by hand.
Edit(s, p) ==
  /\ host[s] # p
  /\ Use("edits")
  /\ host' = [host EXCEPT ![s] = p]
  /\ by' = [by EXCEPT ![s] = IF p = None THEN "nobody" ELSE "user"]
  /\ UNCHANGED <<desired, file, registry, lease, run>>

\* Mutant: unmanage forgets the pending removal.
UnmanageKeepsRemoval(o) ==
  LET facts == {file[o].inst} \cup {c.pin : c \in {Claim(o), file[o].rem} \ {None}}
      pins == facts \ {None}
  IN /\ At(o, "idle") /\ (o \in Globals => lease = None)
     /\ Cardinality(pins) = 1
     /\ desired[o] # None => pins = {desired[o]}
     /\ Claim(o) # None => Stable(Claim(o))
     /\ Use("unmanages")
     /\ desired' = [desired EXCEPT ![o] = None]
     /\ file' = [file EXCEPT ![o].inst = None, ![o].claim = None]
     /\ registry' = IF o \in Globals THEN [registry EXCEPT ![o] = None] ELSE registry
     /\ by' = IF by[Site(o)] = o THEN [by EXCEPT ![Site(o)] = "user"] ELSE by
     /\ UNCHANGED <<host, lease, run>>

\* One transaction over declarations, statefile and registry gives up every
\* management fact of the relation and leaves the host alone.
Unmanage(o) ==
  LET facts == {file[o].inst} \cup {c.pin : c \in {Claim(o), file[o].rem} \ {None}}
      pins == facts \ {None}
  IN /\ At(o, "idle") /\ (o \in Globals => lease = None)
     /\ Cardinality(pins) = 1
     /\ desired[o] # None => pins = {desired[o]}
     /\ Claim(o) # None => Stable(Claim(o))
     /\ Use("unmanages")
     /\ desired' = [desired EXCEPT ![o] = None]
     /\ file' = [file EXCEPT ![o] = [inst |-> None, rem |-> None, claim |-> None]]
     /\ registry' = IF o \in Globals THEN [registry EXCEPT ![o] = None] ELSE registry
     /\ by' = IF by[Site(o)] = o THEN [by EXCEPT ![Site(o)] = "user"] ELSE by
     /\ UNCHANGED <<host, lease, run>>

----------------------------------------------------------------------------
Views(o) == {host[Site(o)], Unknown}

Step(o) ==
  \/ Core(o) \/ RegRetire(o)
  \/ RemPending(o) \/ RemHost(o) \/ RemClear(o) \/ RemRetire(o)
  \/ InstPending(o) \/ InstHost(o) \/ FilePromote(o) \/ RegPromote(o)
  \/ Converge(o) \/ InstRetire(o)
  \/ PinReserve(o) \/ PinHost(o) \/ PinComplete(o)
  \/ RegAdopt(o) \/ Refuse(o)
  \/ \E seen \in Views(o) : RemSee(o, seen) \/ RemVerify(o, seen)
                            \/ InstSee(o, seen) \/ PinSee(o, seen)

Next ==
  \/ \E o \in Owners :
       \/ \E seen \in Views(o), manage \in BOOLEAN : Plan(o, seen, manage)
       \/ \E seen \in Views(o) : Begin(o, seen)
       \/ Step(o)
       \/ Stop(o)
       \/ \E p \in Pins \cup {None} : Declare(o, p)
       \/ Unmanage(o)
  \/ \E s \in Sites, p \in Pins \cup {None} : Edit(s, p)

Spec == Init /\ [][Next]_vars

\* Users run apply again and again, a run's next step comes, and a run that
\* asks for the lease whenever it is free is given it in the end.
Fairness ==
  \A o \in Owners :
    /\ WF_vars(\E seen \in Views(o), manage \in BOOLEAN : Plan(o, seen, manage))
    /\ SF_vars(\E seen \in Views(o) : Begin(o, seen))
    /\ WF_vars(Step(o))

FairSpec == Spec /\ Fairness

----------------------------------------------------------------------------
(***************************************************************************)
(* Properties.                                                             *)
(***************************************************************************)

\* A pending removal always names the claim that backs it: a stop between
\* the two writes that retire a global relation never leaves a statefile that
\* orders the removal of what the manifest no longer manages (retireClaim
\* clears the statefile first; every later plan refuses an orphaned removal).
RemovalBacked == \A o \in Owners : file[o].rem # None => Claim(o) = file[o].rem

\* While a change of pin is reserved in the registry nobody else holds a
\* claim on the checkout that the change is about to move.
PinAlone ==
  \A o \in Globals : registry[o] # None /\ registry[o].pend # None => Others(o) = {}

\* What an owner's command installed is never lost sight of: the owner's
\* statefile or claim speaks of it from before the command until the relation
\* is gone, is given up, or was looked for and not seen.
Recorded ==
  \A o \in Owners : by[Site(o)] = o => file[o].inst # None \/ Claim(o) # None

\* The commands of a removal and of a change of pin never take the relation
\* away from another manifest that claims it at the pin it is at.
SharedKept ==
  [][\A o \in Owners :
       run[o].pc \in {"remHost", "pinHost"} /\ run'[o].pc # run[o].pc
         /\ host'[Site(o)] # host[Site(o)]
       => \A c \in Others(o) : c.pin # host[Site(o)]]_vars

\* A reserved change of pin ends only in the pin it was reserved for, with
\* the host there (or changed by its user since): no stop, refusal, later run
\* or unmanage drops it.
PinKept ==
  [][\A o \in Owners :
       Claim(o) # None /\ ~Stable(Claim(o)) /\ Claim(o)' # Claim(o)
       => /\ Claim(o)' = [pin |-> Claim(o).pend, pend |-> None, prov |-> "pin"]
          /\ host[Site(o)] = Claim(o).pend \/ by[Site(o)] \notin Owners]_vars

\* A removal command takes away only what a command of daem installed or what
\* an owner adopted (docs/features.md: "it requires a daem-created or
\* explicitly adopted installation").
OnlyOwnRemoved ==
  [][\A o \in Owners :
       run[o].pc = "remHost" /\ host[Site(o)] # None /\ host'[Site(o)] = None
       => by[Site(o)] \in Owners \/ Claim(o).prov = "adopted"]_vars

\* What keeps a pending removal from being carried out or settled: its
\* declaration came back, the host is at another pin, or another manifest
\* uses the relation.
RemovalBlocked(o) ==
  \/ desired[o] # None
  \/ host[Site(o)] \notin {None, file[o].rem.pin}
  \/ \E c \in Others(o) : c.pin = file[o].rem.pin

\* A pending removal that nothing keeps back is carried out or settled: no
\* stop and no failed command leaves one that every later run only repeats.
RemovalSettles ==
  \A o \in Owners : []<>(file[o].rem = None \/ RemovalBlocked(o))

InstallBlocked(o) ==
  \/ desired[o] # file[o].inst
  \/ host[Site(o)] \notin {None, file[o].inst}
  \/ file[o].rem # None
  \/ Claim(o) # None /\ (Claim(o).pin # desired[o] \/ ~Stable(Claim(o)))
  \/ ~NoReservation(o)

\* A pending install that is still declared and still possible becomes a
\* claim or is given up.
InstallSettles ==
  \A o \in Owners : []<>(file[o].inst = None \/ InstallBlocked(o))

----------------------------------------------------------------------------
(***************************************************************************)
(* What holds at every step of a run, from which the properties follow.    *)
(***************************************************************************)

Running(o) == run[o].pc \in Steps

Kind(o) == run[o].plan.kind

\* A run of global scope has the registry's lease from its first write on.
LeaseHeld == \A o \in Globals : lease = o <=> Running(o)

\* What is not there was put there by nobody.
NobodysGap == \A s \in Sites : host[s] = None => by[s] = "nobody"

\* The steps that a run takes for each kind of plan, each in its own scope.
InPlace(o) ==
  LET pc == run[o].pc
  IN /\ Kind(o) \in {"promote", "create", "pin", "adopt"} => Pin(o) \in Pins
     /\ Kind(o) = "pin" => run[o].plan.claim \in Claims
     /\ pc = "regRetire" => Kind(o) = "retire"
     /\ pc \in {"remPending", "remHost", "remSee"} => Kind(o) = "remove"
     /\ pc = "remVerify" => Kind(o) = "verify"
     /\ pc \in {"remClear", "remRetire"} => Kind(o) \in {"remove", "verify"}
     /\ pc \in {"instPending", "instHost", "instSee", "filePromote", "instRetire"}
          => Kind(o) = "create"
     /\ pc \in {"regPromote", "converge"} => Kind(o) \in {"create", "promote"}
     /\ pc \in {"pinReserve", "pinHost", "pinSee", "pinComplete"} => Kind(o) = "pin"
     /\ pc = "regAdopt" => Kind(o) = "adopt"
     /\ pc \in {"regRetire", "remRetire", "regPromote", "converge", "regAdopt"} => o \in Globals
     /\ pc = "filePromote" => o \notin Globals

\* A relation that is given up is gone, and nobody else's.
GivingUp(o) ==
  LET pc == run[o].pc
  IN /\ Kind(o) = "retire" /\ Running(o) =>
          file[o].rem = None /\ by[Site(o)] # o /\ Claim(o) # None /\ Stable(Claim(o))
     /\ (pc = "core" /\ Kind(o) = "remove") \/ pc \in {"remPending", "remHost"} =>
          Claim(o) # None /\ \A c \in Others(o) : c.pin # Claim(o).pin
     /\ pc = "remHost" => file[o].rem # None
     /\ pc \in {"remClear", "remRetire"} => by[Site(o)] # o
     /\ pc = "remRetire" => file[o].rem = None

\* A relation that is installed, moved or adopted is on record from before it is there.
TakingUp(o) ==
  LET pc == run[o].pc
  IN /\ Kind(o) \in {"promote", "create", "pin", "adopt"} /\ Running(o) => file[o].rem = None
     /\ Kind(o) = "adopt" /\ Running(o) => Claim(o) = None
     /\ Kind(o) = "pin" /\ Running(o) => Claim(o) # None
     /\ pc = "instHost" => file[o].inst # None
     /\ pc = "converge" => Claim(o) # None
     /\ pc = "instRetire" => by[Site(o)] # o \/ Claim(o) # None
     /\ pc = "pinHost" => Others(o) = {}
     /\ pc = "pinComplete" => host[Site(o)] = Pin(o) \/ by[Site(o)] \notin Owners

Inv ==
  /\ TypeOK /\ RemovalBacked /\ Recorded /\ PinAlone /\ LeaseHeld /\ NobodysGap
  /\ \A o \in Owners : InPlace(o) /\ GivingUp(o) /\ TakingUp(o)
============================================================================
