---------------------------- MODULE JournalRetirement ----------------------------
(***************************************************************************)
(* How the journal of an operation is retired (internal/effect/journal:     *)
(* retirement, inventory, recoveryoperation).                               *)
(*                                                                         *)
(* The recovery root holds the active journal of the operation in progress. *)
(* Retiring it takes several renames and writes: a control record is         *)
(* published, the journal becomes residue, the record advances to the        *)
(* finalizing phase, the residue is deleted, the control becomes garbage,    *)
(* and the garbage is deleted.  A command may fail or die after any of them, *)
(* and the next one reads off the root what is left to do.  Apply creates     *)
(* and retires journals; recover resumes, once the user has confirmed what    *)
(* it showed.  Somebody else may tamper with a journal at any time.          *)
(***************************************************************************)
EXTENDS Naturals

CONSTANTS
    Commands,   \* processes that apply or recover
    NoCommand,
    Limit       \* how often each kind of event may happen

Events == {"publish", "promote", "crash", "fault", "tamper"}

ASSUME CommandAssumption == NoCommand \notin Commands
ASSUME LimitAssumption == Limit \in [Events -> Nat]

VARIABLES
    root,      \* the recovery root
    lease,     \* the command that holds the lease on it
    cmd,       \* the commands
    used       \* events so far

vars == <<root, lease, cmd, used>>

(* Operations are numbered in the order of their journals.  A journal record is
   known by its fingerprint; each promotion writes the next one, and somebody
   else's valid record is Foreign. *)
Ops == 1 .. Limit["publish"]
Foreign == Limit["promote"] + 1
Records == 0 .. Foreign

Ids == [op : Ops, record : Records]

(* A journal directory: its record, the other files, and the directory itself. *)
Journals == [op : Ops, record : Records, tree : {"whole", "changed", "partial"},
             object : {"own", "foreign"}]

Controls == [id : Ids, phase : {"prepared", "finalizing"}]
Residues == [name : Ids, journal : Journals]

Roots == [active : SUBSET Journals, controls : SUBSET Controls,
          residues : SUBSET Residues, garbage : SUBSET Ids]

EmptyRoot == [active |-> {}, controls |-> {}, residues |-> {}, garbage |-> {}]

identity(j) == [op |-> j.op, record |-> j.record]

(* Without its record a journal cannot be loaded. *)
readable(j) == j.tree # "partial"

-----------------------------------------------------------------------------
(* retirement.Classify, on what LoadRoot makes of the root *)

only(S) == CHOOSE x \in S : TRUE
several(S) == \E x, y \in S : x # y

matchingGC(r) ==
    \E g \in r.garbage : \/ \E j \in r.active : identity(j) = g
                         \/ \E k \in r.controls : k.id = g
                         \/ \E s \in r.residues : s.name = g

(* Mutant: residue is known by its name alone. *)
matchesByName(s, id) == s.name = id

(* The journal of a residue must itself reproduce the identity of the control. *)
independentlyMatches(s, id) ==
    s.name = id /\ readable(s.journal) /\ identity(s.journal) = id

activeWithControl(r) ==
    \/ r.controls = {}
    \/ only(r.controls) = [id |-> identity(only(r.active)), phase |-> "prepared"]

Classify(r) ==
    IF \/ several(r.active) \/ several(r.controls) \/ several(r.residues)
       \/ \E j \in r.active : ~readable(j)
       \/ matchingGC(r)
    THEN "blocked"
    ELSE CASE r.active = {} /\ r.controls = {} /\ r.residues = {} ->
                  IF r.garbage = {} THEN "clean" ELSE "finalized"
           [] r.active # {} /\ r.residues = {} ->
                  IF ~activeWithControl(r) THEN "blocked"
                  ELSE IF r.controls = {} THEN "active" ELSE "prepared"
           [] r.active = {} /\ r.controls # {} ->
                  LET k == only(r.controls)
                  IN  IF k.phase = "prepared"
                      THEN IF \E s \in r.residues : independentlyMatches(s, k.id)
                           THEN "retained" ELSE "blocked"
                      ELSE IF \A s \in r.residues : s.name = k.id
                           THEN "finalizing" ELSE "blocked"
           [] OTHER -> "blocked"

Clear(r) == Classify(r) \in {"clean", "finalized"}
Recoverable(r) == Classify(r) \in {"active", "prepared", "retained", "finalizing"}

(* The identity that a recoverable root is about, and how its retirement starts. *)
subject(r) == IF r.active # {} THEN identity(only(r.active)) ELSE only(r.controls).id

startOf(r) ==
    CASE Classify(r) \in {"active", "prepared"} -> "active"
      [] Classify(r) = "retained"               -> "prepared"
      [] OTHER -> IF r.residues = {} THEN "finalizing" ELSE "finalizingResidue"

(* What a confirmed plan is compared by: the entries of the root, the control, and
   the record of an active journal; not what lies deeper. *)
view(r) == [active |-> {[id |-> identity(j), object |-> j.object] : j \in r.active},
            controls |-> r.controls,
            residues |-> {[name |-> s.name, object |-> s.journal.object] : s \in r.residues},
            garbage |-> r.garbage]

-----------------------------------------------------------------------------

Starts == {"active", "prepared", "finalizingResidue", "finalizing"}

(* `id' is the retirement record's identity, `basis' the record the command last
   wrote or read, `expected' the journal it prepared for, `controlled' whether it
   found a control then.  `seen' is the root the user confirmed.  `changed'
   and `touched' are history: whether the command has changed the root, and whether
   somebody tampered since it took the lease.  `outcome' is the result of its steps,
   `said' its last report. *)
Steps == {"idle", "planned", "replan", "publish", "prepare", "effects", "layout",
          "identity", "control", "record", "retire", "phase", "advance", "final", "residue",
          "gc", "garbage", "report"}

Reports == {"nothing", "retired", "gcResidue", "stale", "failed", "retained"}

NoJournal == [op |-> 0]
NoId == [op |-> 0, record |-> 0]

CommandType ==
    [step : Steps, kind : {"apply", "recover"}, start : Starts, id : Ids \cup {NoId},
     basis : Records, expected : Journals \cup {NoJournal}, controlled : BOOLEAN,
     seen : Roots, changed : BOOLEAN, touched : BOOLEAN, outcome : Reports,
     said : Reports]

TypeOK ==
    /\ root \in Roots
    /\ lease \in Commands \cup {NoCommand}
    /\ cmd \in [Commands -> CommandType]
    /\ used \in [Events -> Nat]
    /\ \A e \in Events : used[e] <= Limit[e]

NewCommand ==
    [step |-> "idle", kind |-> "recover", start |-> "active", id |-> NoId, basis |-> 0,
     expected |-> NoJournal, controlled |-> FALSE, seen |-> EmptyRoot, changed |-> FALSE,
     touched |-> FALSE, outcome |-> "nothing", said |-> "nothing"]

Init ==
    /\ root = EmptyRoot
    /\ lease = NoCommand
    /\ cmd = [c \in Commands |-> NewCommand]
    /\ used = [e \in Events |-> 0]

Spend(e) == /\ used[e] < Limit[e]
            /\ used' = [used EXCEPT ![e] = @ + 1]

At(c, step) == cmd[c].step = step

GoTo(c, step) == cmd' = [cmd EXCEPT ![c].step = step]

(* A command ends with a report and gives the lease back. *)
End(c, report) ==
    /\ cmd' = [cmd EXCEPT ![c] = [NewCommand EXCEPT !.said = report]]
    /\ lease' = IF lease = c THEN NoCommand ELSE lease

-----------------------------------------------------------------------------
(* Beginning a command *)

(* Mutant: the inventory is not consulted before a journal is published. *)
BeginApplyAnyway(c) ==
    /\ At(c, "idle") /\ lease = NoCommand
    /\ used["publish"] < Limit["publish"]
    /\ lease' = c
    /\ cmd' = [cmd EXCEPT ![c] = [NewCommand EXCEPT !.step = "publish", !.kind = "apply",
                                                    !.said = cmd[c].said]]
    /\ UNCHANGED <<root, used>>

(* Apply takes the lease and goes on only if no journal is in the way. *)
BeginApply(c) ==
    /\ At(c, "idle") /\ lease = NoCommand
    /\ Clear(root) /\ used["publish"] < Limit["publish"]
    /\ lease' = c
    /\ cmd' = [cmd EXCEPT ![c] = [NewCommand EXCEPT !.step = "publish", !.kind = "apply",
                                                    !.said = cmd[c].said]]
    /\ UNCHANGED <<root, used>>

(* Mutant: operations are numbered from the one after the next. *)
PublishTooHigh(c) ==
    /\ At(c, "publish")
    /\ Spend("publish")
    /\ LET j == [op |-> used["publish"] + 2, record |-> 0, tree |-> "whole",
                 object |-> "own"]
       IN  /\ root' = [root EXCEPT !.active = @ \cup {j}]
           /\ cmd' = [cmd EXCEPT ![c].step = "prepare", ![c].id = identity(j),
                                 ![c].changed = TRUE]
    /\ UNCHANGED lease

(* The journal appears at once, complete, under the name of its operation. *)
Publish(c) ==
    /\ At(c, "publish")
    /\ Spend("publish")
    /\ LET j == [op |-> used["publish"] + 1, record |-> 0, tree |-> "whole",
                 object |-> "own"]
       IN  /\ root' = [root EXCEPT !.active = @ \cup {j}]
           /\ cmd' = [cmd EXCEPT ![c].step = "prepare", ![c].id = identity(j),
                                 ![c].changed = TRUE]
    /\ UNCHANGED lease

(* Recover shows the user what it would do; nothing is locked meanwhile. *)
Plan(c) ==
    /\ At(c, "idle") /\ Recoverable(root)
    /\ cmd' = [cmd EXCEPT ![c] = [NewCommand EXCEPT !.step = "planned", !.seen = root,
                                                    !.said = cmd[c].said]]
    /\ UNCHANGED <<root, lease, used>>

Confirm(c) ==
    /\ At(c, "planned") /\ lease = NoCommand
    /\ lease' = c
    /\ GoTo(c, "replan")
    /\ UNCHANGED <<root, used>>

StartFrom(c, r) ==
    cmd' = [cmd EXCEPT ![c].step = "prepare", ![c].start = startOf(r), ![c].id = subject(r),
                       ![c].basis = subject(r).record]

(* Mutant: under the lease the root is read again, but not compared. *)
ReplanWithoutComparing(c) ==
    /\ At(c, "replan")
    /\ IF Recoverable(root)
       THEN StartFrom(c, root) /\ UNCHANGED lease
       ELSE End(c, "stale")
    /\ UNCHANGED <<root, used>>

(* Under the lease the root is read again; it must be what the user saw. *)
Replan(c) ==
    /\ At(c, "replan")
    /\ IF Recoverable(root) /\ view(root) = view(cmd[c].seen)
       THEN StartFrom(c, root) /\ UNCHANGED lease
       ELSE End(c, "stale")
    /\ UNCHANGED <<root, used>>

-----------------------------------------------------------------------------
(* Retirement.  A check that fails ends the command. *)

(* An error ends an apply; a recover looks at the root again before it reports. *)
Refuse(c) ==
    IF cmd[c].kind = "apply"
    THEN End(c, "failed")
    ELSE /\ cmd' = [cmd EXCEPT ![c].step = "report", ![c].outcome = "failed"]
         /\ UNCHANGED lease

Check(c, step, condition, next) ==
    /\ At(c, step)
    /\ IF condition THEN GoTo(c, next) /\ UNCHANGED lease ELSE Refuse(c)
    /\ UNCHANGED <<root, used>>

controlsOf(id) == {k \in root.controls : k.id = id}
residuesOf(id) == {s \in root.residues : s.name = id}
journalsOf(op) == {j \in root.active : j.op = op}

(* The phase in which the control should be found. *)
expectedPhase(c) ==
    IF cmd[c].start \in {"active", "prepared"} THEN "prepared" ELSE "finalizing"

controlIs(c, phase) == controlsOf(cmd[c].id) = {[id |-> cmd[c].id, phase |-> phase]}

holdsResidue(c) == cmd[c].start # "finalizing"

(* observeRetirementPreparation *)
preparable(c) ==
    LET id == cmd[c].id
    IN  /\ id \notin root.garbage
        /\ IF cmd[c].start = "active"
           THEN /\ \E j \in journalsOf(id.op) : identity(j) = id /\ readable(j) /\ j.object = "own"
                /\ controlsOf(id) = {} \/ controlIs(c, "prepared")
                /\ residuesOf(id) = {}
           ELSE /\ controlIs(c, expectedPhase(c))
                /\ (residuesOf(id) # {}) <=> holdsResidue(c)

Prepare(c) ==
    /\ At(c, "prepare")
    /\ IF ~preparable(c)
       THEN Refuse(c)
       ELSE LET found == journalsOf(cmd[c].id.op)
                kept == residuesOf(cmd[c].id)
            IN  /\ cmd' = [cmd EXCEPT
                      ![c].step = IF cmd[c].start = "active" THEN "effects" ELSE "layout",
                      ![c].controlled = controlsOf(cmd[c].id) # {},
                      ![c].expected = IF cmd[c].start = "active" THEN only(found)
                                      ELSE IF kept # {} THEN only(kept).journal
                                      ELSE NoJournal]
                /\ UNCHANGED lease
    /\ UNCHANGED <<root, used>>

(* While apply takes effect it may rewrite the journal's record, if that is still
   the one it wrote. *)
Promote(c) ==
    /\ At(c, "effects") /\ cmd[c].kind = "apply"
    /\ Spend("promote")
    /\ \E j \in journalsOf(cmd[c].id.op) :
           /\ j.record = cmd[c].basis /\ readable(j) /\ j.object = "own"
           /\ root' = [root EXCEPT !.active = (@ \ {j}) \cup {[j EXCEPT !.record = @ + 1]}]
    /\ cmd' = [cmd EXCEPT ![c].basis = @ + 1]
    /\ UNCHANGED lease

(* Mutant: the names of the retirement stay those of the record it was prepared
   for. *)
AdvanceBasisKeepingId(c) ==
    /\ At(c, "effects")
    /\ LET current == {j \in journalsOf(cmd[c].id.op) :
                          /\ j.record = cmd[c].basis /\ j.object = "own"
                          /\ j.tree = cmd[c].expected.tree}
       IN  IF current # {}
           THEN /\ cmd' = [cmd EXCEPT ![c].step = "layout", ![c].expected = only(current)]
                /\ UNCHANGED lease
           ELSE Refuse(c)
    /\ UNCHANGED <<root, used>>

(* advanceActiveBasisLocked: when the effects are done the retirement follows the
   record that the command last wrote. *)
AdvanceBasis(c) ==
    /\ At(c, "effects")
    /\ LET id == cmd[c].id
           new == [id EXCEPT !.record = cmd[c].basis]
           current == {j \in journalsOf(id.op) :
                          /\ j.record = cmd[c].basis /\ j.object = "own"
                          /\ j.tree = cmd[c].expected.tree}
       IN  IF /\ current # {}
              /\ new = id \/ /\ ~cmd[c].controlled /\ id \notin root.garbage
                             /\ controlsOf(id) = {} /\ residuesOf(id) = {}
           THEN /\ cmd' = [cmd EXCEPT ![c].step = "layout", ![c].id = new,
                                      ![c].expected = only(current)]
                /\ UNCHANGED lease
           ELSE Refuse(c)
    /\ UNCHANGED <<root, used>>

(* requirePreparedRetirementLayout: everything is as it was prepared for. *)
ValidateLayout(c) ==
    Check(c, "layout",
          LET id == cmd[c].id
          IN  /\ cmd[c].start = "active" => cmd[c].expected \in root.active
              /\ IF cmd[c].controlled THEN controlIs(c, expectedPhase(c))
                                      ELSE controlsOf(id) = {}
              /\ IF cmd[c].start \in {"prepared", "finalizingResidue"}
                 THEN residuesOf(id) = {[name |-> id, journal |-> cmd[c].expected]}
                 ELSE residuesOf(id) = {}
              /\ id \notin root.garbage,
          CASE cmd[c].start = "active"   -> "identity"
            [] cmd[c].start = "prepared" -> "phase"
            [] OTHER                     -> "final")

ValidateActiveIdentity(c) ==
    Check(c, "identity", \E j \in journalsOf(cmd[c].id.op) : j.object = "own", "control")

withControl(c, phase) ==
    [root EXCEPT !.controls = (@ \ controlsOf(cmd[c].id)) \cup {[id |-> cmd[c].id, phase |-> phase]}]

(* What each of the steps that write does to the root. *)
PublishControl(c) == withControl(c, "prepared")
AdvanceRecord(c) == withControl(c, "finalizing")

RetireActiveJournal(c) ==
    LET moved == journalsOf(cmd[c].id.op)
    IN  [root EXCEPT !.active = @ \ moved,
                     !.residues = @ \cup {[name |-> cmd[c].id, journal |-> j] : j \in moved}]

CleanupResidue(c) == [root EXCEPT !.residues = @ \ residuesOf(cmd[c].id)]

(* The deletion of a tree that is interrupted: the record may be gone already. *)
PartResidue(c) ==
    [root EXCEPT !.residues = {IF s.name = cmd[c].id THEN [s EXCEPT !.journal.tree = "partial"]
                                                     ELSE s : s \in @}]

RetireControl(c) ==
    [root EXCEPT !.controls = @ \ controlsOf(cmd[c].id), !.garbage = @ \cup {cmd[c].id}]

CleanupGarbage(c) == [root EXCEPT !.garbage = @ \ {cmd[c].id}]

written(c) ==
    CASE At(c, "control") -> IF cmd[c].controlled THEN root ELSE PublishControl(c)
      [] At(c, "retire")  -> RetireActiveJournal(c)
      [] At(c, "advance") -> AdvanceRecord(c)
      [] At(c, "residue") -> CleanupResidue(c)
      [] At(c, "gc")      -> RetireControl(c)
      [] At(c, "garbage") -> CleanupGarbage(c)

(* What a step that writes looks at first.  Only the rename of the journal, the
   advance of the record and the publication of the control know what they act on;
   the others take whatever has the name. *)
ready(c) ==
    CASE At(c, "control") -> cmd[c].controlled \/ controlsOf(cmd[c].id) = {}
      [] At(c, "retire")  -> /\ \E j \in journalsOf(cmd[c].id.op) : j.object = "own"
                             /\ residuesOf(cmd[c].id) = {}
      [] At(c, "advance") -> controlIs(c, "prepared")
      [] At(c, "residue") -> residuesOf(cmd[c].id) # {}
      [] At(c, "gc")      -> controlsOf(cmd[c].id) # {} /\ cmd[c].id \notin root.garbage
      [] At(c, "garbage") -> cmd[c].id \in root.garbage

nextStep(c) ==
    CASE At(c, "control") -> "record"
      [] At(c, "retire")  -> "phase"
      [] At(c, "advance") -> "final"
      [] At(c, "residue") -> "gc"
      [] At(c, "gc")      -> "garbage"
      [] At(c, "garbage") -> "report"

Writing(c) == cmd[c].step \in {"control", "retire", "advance", "residue", "gc", "garbage"}

Write(c) ==
    /\ Writing(c)
    /\ IF ready(c)
       THEN /\ root' = written(c)
            /\ cmd' = [cmd EXCEPT ![c].step = nextStep(c), ![c].changed = TRUE,
                                  ![c].outcome = IF At(c, "garbage") THEN "retired" ELSE @]
            /\ UNCHANGED lease
       ELSE UNCHANGED root /\ Refuse(c)
    /\ UNCHANGED used

ValidateActiveRecord(c) ==
    Check(c, "record",
          \E j \in journalsOf(cmd[c].id.op) : readable(j) /\ j.record = cmd[c].id.record, "retire")

sameResidue(c) ==
    \E s \in residuesOf(cmd[c].id) : /\ s.journal.tree = cmd[c].expected.tree
                                     /\ s.journal.record = cmd[c].expected.record

ValidatePhaseLayout(c) ==
    Check(c, "phase", controlIs(c, "prepared") /\ sameResidue(c), "advance")

ValidateFinalLayout(c) ==
    Check(c, "final",
          /\ controlIs(c, "finalizing")
          /\ IF holdsResidue(c) THEN sameResidue(c) ELSE residuesOf(cmd[c].id) = {},
          IF holdsResidue(c) THEN "residue" ELSE "gc")

-----------------------------------------------------------------------------
(* The end of a command, faults and other people *)

(* Mutant: an error while the control is renamed is about garbage too. *)
lateFailureHarmless(c, r) == IF cmd[c].step \in {"gc", "garbage"} THEN {"gcResidue"} ELSE {"failed"}

(* finalizedWithGCResidue: once the control is known to have been renamed, an error
   is only about garbage; a rename whose outcome is unknown is a plain error. *)
lateFailure(c, r) ==
    CASE At(c, "garbage")                -> {"gcResidue"}
      [] At(c, "gc") /\ r # root         -> {"failed", "gcResidue"}
      [] OTHER                           -> {"failed"}

(* A write fails: it happened or not, or a deletion got only so far. *)
Fail(c) ==
    /\ Writing(c) /\ ready(c)
    /\ Spend("fault")
    /\ \E r \in {root, written(c)} \cup (IF At(c, "residue") THEN {PartResidue(c)} ELSE {}) :
       \E report \in lateFailure(c, r) :
           /\ root' = r
           /\ cmd' = [cmd EXCEPT ![c].step = "report", ![c].outcome = report,
                                 ![c].changed = TRUE]
    /\ UNCHANGED lease

(* classifyPostExecutionAuthority: a recover reads the root once more and believes
   that rather than its own steps; apply reports its error. *)
Report(c) ==
    /\ At(c, "report")
    /\ End(c, IF cmd[c].kind = "apply" THEN cmd[c].outcome
              ELSE CASE Recoverable(root) -> "retained"
                     [] Clear(root)       -> IF cmd[c].outcome = "retired" THEN "retired"
                                             ELSE "gcResidue"
                     [] OTHER             -> "failed")
    /\ UNCHANGED <<root, used>>

(* The process dies, in the middle of a deletion perhaps. *)
Crash(c) ==
    /\ ~At(c, "idle")
    /\ Spend("crash")
    /\ root' \in {root} \cup (IF At(c, "residue") /\ ready(c) THEN {PartResidue(c)} ELSE {})
    /\ End(c, "nothing")

tampered(j) == {[j EXCEPT !.record = Foreign], [j EXCEPT !.tree = "changed"],
                [j EXCEPT !.tree = "partial"], [j EXCEPT !.object = "foreign", !.tree = "changed"]}

(* Somebody edits the journal or its residue, or puts another directory there. *)
Tamper ==
    /\ Spend("tamper")
    /\ \/ \E j \in root.active : \E new \in tampered(j) :
              root' = [root EXCEPT !.active = (@ \ {j}) \cup {new}]
       \/ \E s \in root.residues : \E new \in tampered(s.journal) :
              root' = [root EXCEPT !.residues = (@ \ {s}) \cup {[s EXCEPT !.journal = new]}]
    /\ cmd' = [c \in Commands |-> [cmd[c] EXCEPT !.touched = @ \/ lease = c]]
    /\ UNCHANGED lease

Begin(c) == BeginApply(c) \/ Plan(c) \/ Confirm(c) \/ Replan(c)

Validate(c) ==
    \/ ValidateLayout(c) \/ ValidateActiveIdentity(c) \/ ValidateActiveRecord(c)
    \/ ValidatePhaseLayout(c) \/ ValidateFinalLayout(c)

Work(c) == Publish(c) \/ Prepare(c) \/ AdvanceBasis(c) \/ Validate(c) \/ Write(c) \/ Report(c)

Next ==
    \/ \E c \in Commands : Begin(c) \/ Work(c) \/ Promote(c) \/ Fail(c) \/ Crash(c)
    \/ Tamper

Spec == Init /\ [][Next]_vars

-----------------------------------------------------------------------------
(* Properties *)

(* Whatever command fails or dies at whatever step, the root is never left in a
   layout that Classify refuses, unless somebody tampered with a journal. *)
NeverBlocked == used["tamper"] = 0 => Classify(root) # "blocked"

(* The lease and the replan together make the confirmation count: until a recover
   changes something, the root is what the user was shown, whatever other commands
   have done in the meantime. *)
Confirmed ==
    \A c \in Commands :
        (/\ cmd[c].kind = "recover" /\ cmd[c].step \in Steps \ {"idle", "planned", "replan"}
         /\ ~cmd[c].changed /\ ~cmd[c].touched)
            => view(root) = view(cmd[c].seen)

(* A journal is deleted only after its own record vouched for it: tampered content
   is destroyed only if the tampering came later than the command's first look, or
   than the advance to finalizing by an earlier command. *)
OnlyKnownDestroyed ==
    [][\A s \in root.residues :
          (\A t \in root'.residues : t # s) =>
              \/ identity(s.journal) = s.name
              \/ \E c \in Commands : lease = c /\ (cmd[c].touched
                                                   \/ cmd[c].start = "finalizingResidue")
              \/ used'["tamper"] # used["tamper"]]_vars

(* A report that the journal is retired, garbage or not, is true when it is made,
   and no report of a recover hides a journal that is still there. *)
Truthful ==
    [][\A c \in Commands :
          (cmd'[c].said # cmd[c].said /\ ~cmd[c].touched) =>
              /\ cmd'[c].said \in {"retired", "gcResidue"} => Clear(root')
              /\ cmd'[c].said = "retained" => ~Clear(root')]_vars

(* Seen from outside a journal has a life of three phases. *)
life(r) ==
    CASE Clear(r)                                    -> "none"
      [] Classify(r) \in {"active", "prepared"}     -> "recoverable"
      [] Classify(r) \in {"retained", "finalizing"} -> "cleanup"
      [] OTHER                                       -> "blocked"

lifePhase == IF used["tamper"] > 0 THEN "tampered" ELSE life(root)

Life == INSTANCE JournalLife WITH phase <- lifePhase, published <- used["publish"]

(* Interruptions at any step only delay that life: a retired journal never returns,
   and a new one waits for the end of the last; until somebody tampers with it. *)
ImplementsLife == Life!Spec

(* The properties of states together: no crash leaves a recovery root that nobody can
   clear, and what a recovery does is what the user was shown. *)
RetirementConfirmed == TypeOK /\ NeverBlocked /\ Confirmed

(* The properties of steps: what is said of a journal's retirement is so, and no content is
   destroyed that its own record did not vouch for. *)
RetirementTruthful == Truthful /\ OnlyKnownDestroyed

-----------------------------------------------------------------------------
(* What they rest on. *)

control(id, phase) == [id |-> id, phase |-> phase]

(* The layouts that a retirement goes through: a journal that can be loaded, which may
   already have its control; its residue, which reproduces the identity of the control; a
   control that is finalizing, with whatever is left of the residue; and nothing. *)
activeLayout(r, id) ==
    /\ \E j \in r.active : r.active = {j} /\ readable(j) /\ identity(j) = id
    /\ r.controls \subseteq {control(id, "prepared")}
    /\ r.residues = {} /\ id \notin r.garbage

retainedLayout(r, id) ==
    /\ r.active = {} /\ r.controls = {control(id, "prepared")}
    /\ \E s \in r.residues : r.residues = {s} /\ independentlyMatches(s, id)
    /\ id \notin r.garbage

finalLayout(r, id) ==
    /\ r.active = {} /\ r.controls = {control(id, "finalizing")}
    /\ r.residues = {} \/ \E s \in r.residues : r.residues = {s} /\ s.name = id
    /\ id \notin r.garbage

clearLayout(r) == r.active = {} /\ r.controls = {} /\ r.residues = {}

(* The layout that a command k has prepared for. *)
started(k, r) ==
    CASE k.start = "active"   -> activeLayout(r, k.id)
      [] k.start = "prepared" -> retainedLayout(r, k.id)
      [] OTHER -> finalLayout(r, k.id) /\ (k.start = "finalizing" <=> r.residues = {})

(* While it takes effect an apply's journal gets new records; no operation before has left
   garbage of its number. *)
promoted(k, r) ==
    /\ k.start = "active" /\ ~k.controlled
    /\ activeLayout(r, [k.id EXCEPT !.record = k.basis]) /\ r.controls = {}
    /\ \A g \in r.garbage : g.op # k.id.op

(* The content of a residue is vouched for, by the look that came before. *)
vouched(k, r) ==
    k.start \in {"active", "prepared"} => \A s \in r.residues : identity(s.journal) = k.id

(* What a command at work knows of the root, as long as nobody has tampered with it. *)
informed(k, r) ==
    /\ k.step = "publish" => clearLayout(r) /\ k.start = "active" /\ k.basis = 0 /\ ~k.controlled
    /\ k.step = "prepare" => started(k, r) /\ k.basis = k.id.record
    /\ k.step \in {"prepare", "effects"} /\ k.kind = "apply" => promoted(k, r)
    /\ k.step = "effects" => k.start = "active"
    /\ k.step = "effects" /\ k.kind = "recover" => activeLayout(r, k.id) /\ k.basis = k.id.record
    /\ k.step = "layout" => started(k, r)
    /\ k.step \in {"effects", "layout", "identity", "control"} /\ k.start = "active" /\ k.controlled =>
           r.controls = {control(k.id, "prepared")}
    /\ k.step \in {"identity", "control", "record", "retire"} => k.start = "active" /\ activeLayout(r, k.id)
    /\ k.step \in {"record", "retire"} => r.controls = {control(k.id, "prepared")}
    /\ k.step \in {"phase", "advance"} => k.start \in {"active", "prepared"} /\ retainedLayout(r, k.id)
    /\ k.step = "final" => finalLayout(r, k.id) /\ (k.start = "finalizing" <=> r.residues = {})
    /\ k.step = "residue" => finalLayout(r, k.id) /\ k.start # "finalizing"
    /\ k.step \in {"final", "residue"} => vouched(k, r)
    /\ k.step = "gc" => finalLayout(r, k.id) /\ r.residues = {}
    /\ k.step = "garbage" => clearLayout(r)
    /\ k.step = "report" => k.outcome # "retained"
    /\ k.step = "report" /\ k.outcome \in {"retired", "gcResidue"} => clearLayout(r)

working(k) == k.step \notin {"idle", "planned", "replan"}

(* Who works has the lease, *)
held(c) == cmd[c].step \notin {"idle", "planned"} => lease = c

(* and works on a journal that was published, with a record that was written. *)
known(k, u) ==
    /\ k.step \in {"planned", "replan"} => k.kind = "recover"
    /\ k.step \notin {"idle", "planned", "replan", "publish", "report"} =>
           k.id \in Ids /\ k.id.op <= u["publish"]
    /\ k.kind = "apply" => k.basis <= u["promote"]

(* Until it writes, a recover finds what the user was shown. *)
shown(k, r) == k.kind = "recover" /\ working(k) /\ ~k.changed /\ ~k.touched => view(r) = view(k.seen)

(* Everything in the root belongs to an operation that has published its journal. *)
numbered(r, n) ==
    /\ \A j \in r.active : j.op <= n
    /\ \A k \in r.controls : k.id.op <= n
    /\ \A s \in r.residues : s.name.op <= n
    /\ \A g \in r.garbage : g.op <= n

sound(k, r, u) ==
    /\ known(k, u) /\ shown(k, r)
    /\ k.touched => u["tamper"] > 0
    /\ working(k) /\ ~k.touched => informed(k, r)

(* The inductive invariant. *)
Inv ==
    /\ TypeOK /\ NeverBlocked /\ numbered(root, used["publish"])
    /\ \A c \in Commands : held(c) /\ sound(cmd[c], root, used)

=============================================================================
