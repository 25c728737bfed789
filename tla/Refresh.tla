--------------------------------- MODULE Refresh ---------------------------------
(***************************************************************************)
(* Refreshing an extension through its host (internal/workflow/refresh): a    *)
(* plan is made twice and shown; the prepared command that carries it can be   *)
(* executed once, cancelled or closed; execution makes the plan again under    *)
(* the leases, starts the host's command, looks at what came of it, and        *)
(* records the attempt in the statefile, whose whole content it replaces by     *)
(* the one that it has read, with a row more.                               *)
(*                                                                         *)
(* Meanwhile other daem commands, which take the leases, and users, who do not, *)
(* change the declarations, the statefile, the host's configuration and the     *)
(* project's directory.                                                     *)
(***************************************************************************)
EXTENDS FiniteSets, Naturals

CONSTANTS
    Runs,       \* prepared commands, each of a process of its own
    Profiles,   \* of the extension: is it observed, has it native settings
    None,
    Limit

Events == {"other", "edit", "fault", "cancel", "crash", "effect"}

ASSUME LimitAssumption == Limit \in [Events -> Nat]
ASSUME ProfilesAssumption == Profiles \subseteq [observed : BOOLEAN, native : BOOLEAN]
ASSUME NoneAssumption == None \notin Runs

Relations == {"present", "missing", "conflict"}

(* What a process did, as the executor reports it. *)
NotStarted == {"launch failed", "no working directory", "cancelled early"}
Interrupted == {"timed out", "cancelled", "signaled"}
Attempts == {"none"} \cup NotStarted \cup Interrupted \cup {"ok", "failed", "lost directory"}

Results == {"none", "refused", "cancelled", "failed", "partial", "unverified", "observed"}

VARIABLES
    profile,
    disk,       \* declarations and lock, statefile, host, root, registries, journal
    lease,      \* the run that has the exclusive lease of the statefile
    token,      \* the prepared command, which value copies share
    witness,    \* the captured root of the project
    run,        \* the runs
    cancelled,  \* runs whose context is cancelled
    edited,     \* (history) runs behind whose back a user has edited since they last looked
    hurt,       \* (history) runs that met a fault or an edit
    used

vars == <<profile, disk, lease, token, witness, run, cancelled, edited, hurt, used>>

Steps == {"idle", "read", "load", "capture", "stable", "ready", "check", "acquire", "recheck",
          "recapture", "compare", "native", "keep", "peer", "barrier", "invoke", "running",
          "post barrier", "observe", "classify", "persist", "publish", "settle", "report",
          "cleanup", "done", "crashed"}

BeforeStart == {"check", "acquire", "recheck", "recapture", "read", "load", "compare", "native",
                "keep", "peer", "barrier"}

States == [version : Nat, rows : SUBSET Runs]
Views == [decl : 0..1, state : States, relation : Relations, root : Nat]
Seen == [decl : 0..1, relation : Relations]
Disks == [decl : 0..1, state : States, relation : Relations, root : Nat,
          pending : BOOLEAN, journal : BOOLEAN]

RunType ==
    [step : Steps, pass : {"plan", "stabilize", "execute"}, first : Seen, seen : Seen, state : States,
     revisions : Views, keep : Views, attempt : Attempts, started : BOOLEAN,
     nativeErr : BOOLEAN, relation : Relations \cup {"unknown"}, observeErr : BOOLEAN,
     persistErr : BOOLEAN, persisted : BOOLEAN, result : Results,
     calls : Nat, wrote : BOOLEAN, left : BOOLEAN, declined : BOOLEAN]

TypeOK ==
    /\ profile \in Profiles
    /\ disk \in Disks
    /\ lease \in Runs \cup {None}
    /\ token \in [Runs -> {"none", "unavailable", "ready", "closed", "consumed"}]
    /\ witness \in [Runs -> [open : BOOLEAN, root : Nat]]
    /\ run \in [Runs -> RunType]
    /\ cancelled \subseteq Runs /\ edited \subseteq Runs /\ hurt \subseteq Runs
    /\ used \in [Events -> Nat]

(* What the revisions of a plan cover; the host's inventory only when it is looked at. *)
view == [decl |-> disk.decl, state |-> disk.state, root |-> disk.root,
         relation |-> IF profile.observed THEN disk.relation ELSE "present"]

Init ==
    /\ profile \in Profiles
    /\ disk = [decl |-> 0, state |-> [version |-> 0, rows |-> {}], relation |-> "present",
               root |-> 0, pending |-> FALSE, journal |-> FALSE]
    /\ lease = None
    /\ token = [r \in Runs |-> "none"]
    /\ witness = [r \in Runs |-> [open |-> FALSE, root |-> 0]]
    /\ run = [r \in Runs |->
                [step |-> "idle", pass |-> "plan", first |-> [decl |-> 0, relation |-> "present"],
                 seen |-> [decl |-> 0, relation |-> "present"], state |-> disk.state,
                 revisions |-> view, keep |-> view, attempt |-> "none", started |-> FALSE,
                 nativeErr |-> FALSE, relation |-> "unknown", observeErr |-> FALSE,
                 persistErr |-> FALSE, persisted |-> FALSE, result |-> "none",
                 calls |-> 0, wrote |-> FALSE, left |-> FALSE, declined |-> FALSE]]
    /\ cancelled = {} /\ edited = {} /\ hurt = {}
    /\ used = [e \in Events |-> 0]

Spend(e) == /\ used[e] < Limit[e]
            /\ used' = [used EXCEPT ![e] = @ + 1]

At(r, step) == run[r].step = step

GoTo(r, step) == run' = [run EXCEPT ![r].step = step]

(* The run ends with this result, after its deferred calls. *)
Ends(r, result) == run' = [run EXCEPT ![r].step = "cleanup", ![r].result = result]

outside == <<profile, disk, cancelled, edited, hurt, used>>

-----------------------------------------------------------------------------
(* PlanWrite *)

(* The plan is refused: the prepared command is unavailable and the root is closed. *)
Unplanned(r) ==
    /\ run' = [run EXCEPT ![r].step = "done", ![r].result = "refused"]
    /\ token' = [token EXCEPT ![r] = "unavailable"]
    /\ witness' = [witness EXCEPT ![r].open = FALSE]

(* NewEffectAuthority, CaptureRoot *)
PlanWrite(r) ==
    /\ At(r, "idle")
    /\ IF disk.journal THEN Unplanned(r)
       ELSE /\ GoTo(r, "read")
            /\ witness' = [witness EXCEPT ![r] = [open |-> TRUE, root |-> disk.root]]
            /\ UNCHANGED token
    /\ UNCHANGED <<outside, lease>>

(* A plan that cannot be made: before the command is prepared it is unavailable; when it is
   executed the disclosed one is stale. *)
NoPlan(r) ==
    IF run[r].pass = "execute" THEN Ends(r, "refused") /\ UNCHANGED <<token, witness>>
    ELSE Unplanned(r)

(* planAtPathsWithBarrier: the barrier, the manifest and the lockfile, *)
Read(r) ==
    /\ At(r, "read")
    /\ IF disk.journal THEN NoPlan(r)
       ELSE /\ run' = [run EXCEPT ![r].seen.decl = disk.decl, ![r].step = "load"]
            /\ UNCHANGED <<token, witness>>
    /\ UNCHANGED <<outside, lease>>

after == [plan |-> "capture", stabilize |-> "stable", execute |-> "compare"]

(* Mutant: a pending pin change or protection is no obstacle. *)
obstacleLax == profile.observed /\ disk.relation # "present"

(* requireNoPendingPinRefresh, observeRefreshProtectionFence, RelationPostconditionPresent *)
obstacle == disk.pending \/ (profile.observed /\ disk.relation # "present")

(* ... and then the statefile, pending pins, the host's relation and pending protections. *)
Load(r) ==
    /\ At(r, "load")
    /\ IF obstacle THEN NoPlan(r)
       ELSE /\ run' = [run EXCEPT ![r].state = disk.state, ![r].seen.relation = view.relation,
                                  ![r].step = after[run[r].pass]]
            /\ UNCHANGED <<token, witness>>
    /\ UNCHANGED <<outside, lease>>

(* stabilizePlan: the revisions, and then everything once more, *)
Capture(r) ==
    /\ At(r, "capture")
    /\ run' = [run EXCEPT ![r].revisions = view, ![r].first = run[r].seen,
                          ![r].pass = "stabilize", ![r].step = "read"]
    /\ UNCHANGED <<outside, lease, token, witness>>

rooted(r) == disk.root = witness[r].root

(* ... which must come to the same. *)
Stabilize(r) ==
    /\ At(r, "stable")
    /\ IF run[r].seen = run[r].first /\ rooted(r) /\ view = run[r].revisions
       THEN /\ GoTo(r, "ready")
            /\ token' = [token EXCEPT ![r] = "ready"]
            /\ UNCHANGED witness
       ELSE Unplanned(r)
    /\ UNCHANGED <<outside, lease>>

-----------------------------------------------------------------------------
(* The prepared command.  Its three operations may be called at any time. *)

(* Mutant: a command is executed whether it is still there or not. *)
BeginAny(r) ==
    /\ token[r] \in {"ready", "consumed", "closed"} /\ run[r].step \in {"ready", "done"}
    /\ token' = [token EXCEPT ![r] = "consumed"]
    /\ GoTo(r, "check")
    /\ UNCHANGED <<outside, lease, witness>>

(* beginExecution; every other call is refused *)
Begin(r) ==
    /\ token[r] = "ready"
    /\ token' = [token EXCEPT ![r] = "consumed"]
    /\ GoTo(r, "check")
    /\ UNCHANGED <<outside, lease, witness>>

(* Mutant: the root is closed although it has been handed on. *)
CloseAlways(r) ==
    /\ token[r] \in {"ready", "consumed"}
    /\ token' = [token EXCEPT ![r] = IF @ = "ready" THEN "closed" ELSE @]
    /\ witness' = [witness EXCEPT ![r].open = FALSE]
    /\ run' = IF At(r, "ready") THEN [run EXCEPT ![r].step = "done"] ELSE run
    /\ UNCHANGED <<outside, lease>>

Close(r) ==
    /\ token[r] = "ready"
    /\ token' = [token EXCEPT ![r] = "closed"]
    /\ witness' = [witness EXCEPT ![r].open = FALSE]
    /\ GoTo(r, "done")
    /\ UNCHANGED <<outside, lease>>

(* The operator declines. *)
Cancel(r) ==
    /\ token[r] = "ready"
    /\ token' = [token EXCEPT ![r] = "closed"]
    /\ witness' = [witness EXCEPT ![r].open = FALSE]
    /\ run' = [run EXCEPT ![r].step = "done", ![r].result = "cancelled", ![r].declined = TRUE]
    /\ UNCHANGED <<outside, lease>>

-----------------------------------------------------------------------------
(* Execute, before the attempt *)

Confirmed(r, step, ok, next) ==
    /\ At(r, step)
    /\ IF ok THEN GoTo(r, next) ELSE Ends(r, "refused")
    /\ UNCHANGED <<profile, disk, token, witness, cancelled, hurt, used>>

asPlanned(r) == rooted(r) /\ view = run[r].revisions

(* buildAuthorityEvidence, MatchesCurrent *)
Check(r) == Confirmed(r, "check", asPlanned(r), "acquire") /\ UNCHANGED <<lease, edited>>

Acquire(r) ==
    /\ At(r, "acquire") /\ lease = None
    /\ lease' = r
    /\ GoTo(r, "recheck")
    /\ UNCHANGED <<outside, token, witness>>

(* DomainsMatchCurrent, MatchesCurrent *)
Recheck(r) == Confirmed(r, "recheck", asPlanned(r), "recapture") /\ UNCHANGED <<lease, edited>>

Recapture(r) ==
    /\ At(r, "recapture")
    /\ run' = [run EXCEPT ![r].revisions = view, ![r].first = run[r].seen,
                          ![r].pass = "execute", ![r].step = "read"]
    /\ UNCHANGED <<outside, lease, token, witness>>

(* Mutant: the plan that is made under the leases is not compared with the disclosed one. *)
CompareNothing(r) == Confirmed(r, "compare", asPlanned(r), "native") /\ UNCHANGED <<lease, edited>>

(* The fingerprints of operation and authority, ValidateSelection, MatchesCurrent *)
Compare(r) ==
    /\ Confirmed(r, "compare", run[r].seen = run[r].first /\ asPlanned(r), "native")
    /\ UNCHANGED <<lease, edited>>

(* prepareNativeRefreshInvocation *)
PrepareNative(r) ==
    /\ Confirmed(r, "native", profile.native => ~disk.pending, "keep")
    /\ UNCHANGED <<lease, edited>>

(* Mutant: the revisions that the record depends on are never captured. *)
KeepNothing(r) ==
    /\ At(r, "keep")
    /\ run' = [run EXCEPT ![r].keep = None, ![r].step = "peer"]
    /\ UNCHANGED <<outside, lease, token, witness>>

(* The revisions that the attempt's record depends on: the host may change everything else. *)
Keep(r) ==
    /\ At(r, "keep")
    /\ run' = [run EXCEPT ![r].keep = view, ![r].step = "peer"]
    /\ UNCHANGED <<outside, lease, token, witness>>

(* Mutant: the last look before the attempt is left out. *)
PeerSkipped(r) ==
    /\ Confirmed(r, "peer", TRUE, "barrier")
    /\ edited' = edited \ {r}
    /\ UNCHANGED lease

(* validateRefreshPeerAuthority *)
Peer(r) ==
    /\ Confirmed(r, "peer", asPlanned(r), "barrier")
    /\ edited' = edited \ {r}
    /\ UNCHANGED lease

PreAttemptBarrier(r) ==
    Confirmed(r, "barrier", ~disk.journal, "invoke") /\ UNCHANGED <<lease, edited>>

-----------------------------------------------------------------------------
(* The attempt *)

(* The native invocation ends before a process, or with one that could not be started. *)
NotStartedNative(r) ==
    /\ At(r, "invoke") /\ profile.native /\ Spend("fault")
    /\ \E left \in BOOLEAN :
          /\ disk' = [disk EXCEPT !.pending = @ \/ left]
          /\ run' = [run EXCEPT ![r].step = "cleanup", ![r].result = "refused", ![r].left = left]
    /\ hurt' = hurt \cup {r}
    /\ UNCHANGED <<profile, lease, token, witness, cancelled, edited>>

(* Native settings may be found changed, or the protection of their documents unsettled. *)
Native(r, attempt, step) ==
    \E err \in BOOLEAN, left \in BOOLEAN :
        /\ err => profile.native
        /\ left => err
        /\ run' = [run EXCEPT ![r].attempt = attempt, ![r].nativeErr = err, ![r].left = left,
                              ![r].step = step]
        /\ disk' = [disk EXCEPT !.pending = @ \/ left]

(* The executor: environment, working directory, launch. *)
Fails(r) ==
    /\ At(r, "invoke")
    /\ \E attempt \in NotStarted :
          /\ (attempt = "no working directory") <=> ~rooted(r)
          /\ attempt = "cancelled early" => r \in cancelled
          /\ Native(r, attempt, "observe")
    /\ UNCHANGED <<profile, lease, token, witness, cancelled, edited, hurt, used>>

Start(r) ==
    /\ At(r, "invoke") /\ rooted(r) /\ witness[r].open
    /\ run' = [run EXCEPT ![r].step = "running", ![r].started = TRUE, ![r].calls = @ + 1]
    /\ UNCHANGED <<outside, lease, token, witness>>

(* The host changes its configuration. *)
Effect(r) ==
    /\ At(r, "running") /\ Spend("effect")
    /\ disk' = [disk EXCEPT !.relation = "missing"]
    /\ UNCHANGED <<profile, lease, token, witness, run, cancelled, edited, hurt>>

ends(r) == {"ok", "failed", "timed out", "signaled"} \cup (IF r \in cancelled THEN {"cancelled"} ELSE {})

(* The process is gone.  A working directory that is not the selected one any more outdoes
   what else is known. *)
End(r) ==
    /\ At(r, "running")
    /\ \E attempt \in ends(r) : Native(r, IF rooted(r) THEN attempt ELSE "lost directory", "post barrier")
    /\ UNCHANGED <<profile, lease, token, witness, cancelled, edited, hurt, used>>

(* Mutant: the time after the attempt ends with the operator's. *)
PostAttemptBarrierCancelled(r) ==
    /\ At(r, "post barrier")
    /\ run' = [run EXCEPT ![r].persistErr = disk.journal \/ r \in cancelled, ![r].step = "observe"]
    /\ UNCHANGED <<outside, lease, token, witness>>

(* With five seconds of its own, whatever has been cancelled. *)
PostAttemptBarrier(r) ==
    /\ At(r, "post barrier")
    /\ run' = [run EXCEPT ![r].persistErr = disk.journal, ![r].step = "observe"]
    /\ UNCHANGED <<outside, lease, token, witness>>

(* The observer, if the route has one; a cancelled context may stop it. *)
Observe(r) ==
    /\ At(r, "observe")
    /\ \/ ~profile.observed /\ GoTo(r, "classify")
       \/ profile.observed /\ run' = [run EXCEPT ![r].relation = disk.relation, ![r].step = "classify"]
       \/ profile.observed /\ r \in cancelled
          /\ run' = [run EXCEPT ![r].observeErr = TRUE, ![r].step = "classify"]
    /\ UNCHANGED <<outside, lease, token, witness>>

(* The result of a process that succeeded. *)
succeeded(p) ==
    CASE p.relation = "present" -> "observed"
      [] p.relation = "unknown" -> "unverified"
      [] OTHER -> "partial"

(* Mutant: a process that was stopped counts as one that failed. *)
classPlain(p) ==
    IF p.attempt = "cancelled early" THEN "cancelled"
    ELSE IF p.attempt \notin {"ok", "lost directory"} THEN "failed"
    ELSE IF p.attempt = "lost directory" THEN "partial"
    ELSE succeeded(p)

(* ClassifyResult, applyClassification *)
class(p) ==
    CASE p.attempt = "lost directory" \/ p.attempt \in Interrupted -> "partial"
      [] p.attempt = "cancelled early" -> "cancelled"
      [] p.attempt \in {"failed", "launch failed", "no working directory"} -> "failed"
      [] OTHER -> succeeded(p)

(* resultAfterClassificationFailure *)
unclassified(p) ==
    IF p.started /\ p.attempt # "failed" THEN "partial"
    ELSE IF p.attempt = "cancelled early" THEN "cancelled" ELSE "failed"

Classify(r) ==
    /\ At(r, "classify")
    /\ run' = [run EXCEPT ![r].result = class(run[r]),
                          ![r].step = IF run[r].started THEN "persist" ELSE "report"]
    /\ UNCHANGED <<outside, lease, token, witness>>

ClassifyFails(r) ==
    /\ At(r, "classify") /\ Spend("fault")
    /\ Ends(r, unclassified(run[r]))
    /\ hurt' = hurt \cup {r}
    /\ UNCHANGED <<profile, disk, lease, token, witness, cancelled, edited>>

-----------------------------------------------------------------------------
(* The record of the attempt *)

Unpersisted(r) == run' = [run EXCEPT ![r].persistErr = TRUE, ![r].step = "report"]

(* Mutant: the statefile is not compared with the one that was read. *)
keptLax(r) == rooted(r) /\ disk.decl = run[r].keep.decl

kept(r) == rooted(r) /\ disk.decl = run[r].keep.decl /\ disk.state = run[r].keep.state

(* EstablishStateDir with validateRefreshPeerAuthority *)
Establish(r) ==
    /\ At(r, "persist")
    /\ IF run[r].persistErr \/ disk.journal \/ ~kept(r) THEN Unpersisted(r) ELSE GoTo(r, "publish")
    /\ edited' = edited \ {r}
    /\ UNCHANGED <<profile, disk, lease, token, witness, cancelled, hurt, used>>

(* Mutant: the attempts of earlier runs are dropped. *)
PublishAlone(r) ==
    /\ At(r, "publish")
    /\ disk' = [disk EXCEPT !.state = [run[r].state EXCEPT !.rows = {r}]]
    /\ run' = [run EXCEPT ![r].wrote = TRUE, ![r].step = "settle"]
    /\ UNCHANGED <<profile, lease, token, witness, cancelled, edited, hurt, used>>

(* BindDescendant, the barrier, PublishDescendant with CommitHostRouteAttempts *)
Publish(r) ==
    /\ At(r, "publish")
    /\ disk' = [disk EXCEPT !.state = [run[r].state EXCEPT !.rows = @ \cup {r}]]
    /\ run' = [run EXCEPT ![r].wrote = TRUE, ![r].step = "settle"]
    /\ UNCHANGED <<profile, lease, token, witness, cancelled, edited, hurt, used>>

(* The descendant and the barrier once more, and the end of the schedule. *)
Settle(r) ==
    /\ At(r, "settle")
    /\ run' = [run EXCEPT ![r].persistErr = disk.journal, ![r].persisted = ~disk.journal,
                          ![r].step = "report"]
    /\ UNCHANGED <<outside, lease, token, witness>>

(* Mutant: a failed record does not change the result. *)
reportedUnrecorded(p) ==
    IF p.nativeErr THEN IF p.started THEN "partial" ELSE "refused"
    ELSE IF p.observeErr /\ p.attempt = "ok" THEN "partial" ELSE p.result

reported(p) ==
    IF p.persistErr THEN "partial"
    ELSE IF p.nativeErr THEN IF p.started THEN "partial" ELSE "refused"
    ELSE IF p.observeErr /\ p.attempt = "ok" THEN "partial" ELSE p.result

Report(r) ==
    /\ At(r, "report")
    /\ run' = [run EXCEPT ![r].result = reported(run[r]), ![r].step = "cleanup"]
    /\ UNCHANGED <<outside, lease, token, witness>>

-----------------------------------------------------------------------------
(* The deferred calls: the schedule, the native observation, the leases, the root. *)

Released(r) ==
    /\ lease' = IF lease = r THEN None ELSE lease
    /\ witness' = [witness EXCEPT ![r].open = FALSE]

Cleanup(r) ==
    /\ At(r, "cleanup")
    /\ GoTo(r, "done")
    /\ Released(r)
    /\ UNCHANGED <<outside, token>>

(* resultWithCleanupFailure *)
CleanupFails(r) ==
    /\ At(r, "cleanup") /\ Spend("fault")
    /\ run' = [run EXCEPT ![r].step = "done", ![r].result = IF run[r].started THEN "partial" ELSE "refused"]
    /\ Released(r)
    /\ hurt' = hurt \cup {r}
    /\ UNCHANGED <<profile, disk, token, cancelled, edited>>

-----------------------------------------------------------------------------
(* What else happens *)

(* A step before the attempt fails, or notices that it was cancelled. *)
Stopped(r) ==
    /\ run[r].step \in BeforeStart /\ (run[r].pass = "execute" \/ token[r] = "consumed")
    /\ \/ r \in cancelled /\ Ends(r, "cancelled") /\ UNCHANGED <<hurt, used>>
       \/ Spend("fault") /\ Ends(r, "refused") /\ hurt' = hurt \cup {r}
    /\ UNCHANGED <<profile, disk, lease, token, witness, cancelled, edited>>

(* A step after it: nothing is written, or (at the publication) all is, and an error is returned;
   the observation fails, or finds that it has looked elsewhere. *)
Fault(r) ==
    /\ Spend("fault") /\ hurt' = hurt \cup {r}
    /\ \/ At(r, "post barrier") /\ UNCHANGED disk
          /\ run' = [run EXCEPT ![r].persistErr = TRUE, ![r].step = "observe"]
       \/ At(r, "observe") /\ profile.observed /\ UNCHANGED disk
          /\ run' = [run EXCEPT ![r].observeErr = TRUE, ![r].step = "classify"]
       \/ run[r].step \in {"persist", "publish", "settle"} /\ Unpersisted(r) /\ UNCHANGED disk
       \/ At(r, "publish")
          /\ disk' = [disk EXCEPT !.state = [run[r].state EXCEPT !.rows = @ \cup {r}]]
          /\ run' = [run EXCEPT ![r].wrote = TRUE, ![r].persistErr = TRUE, ![r].step = "report"]
    /\ UNCHANGED <<profile, lease, token, witness, cancelled, edited>>

Interrupt(r) ==
    /\ r \notin cancelled /\ token[r] = "consumed" /\ run[r].step \notin {"done", "crashed"}
    /\ Spend("cancel")
    /\ cancelled' = cancelled \cup {r}
    /\ UNCHANGED <<profile, disk, lease, token, witness, run, edited, hurt>>

Crash(r) ==
    /\ run[r].step \notin {"idle", "done", "crashed"} /\ Spend("crash")
    /\ GoTo(r, "crashed")
    /\ Released(r)
    /\ token' = [token EXCEPT ![r] = "unavailable"]
    /\ UNCHANGED <<profile, disk, cancelled, edited, hurt>>

(* Another command of daem, with the leases: it changes the declarations or the statefile,
   begins or ends a pin change or a protection, is interrupted or recovered. *)
OtherCommand ==
    /\ lease = None /\ Spend("other")
    /\ disk' \in {[disk EXCEPT !.decl = 1 - @], [disk EXCEPT !.state.version = @ + 1],
                  [disk EXCEPT !.pending = ~@], [disk EXCEPT !.journal = ~@]}
    /\ UNCHANGED <<profile, lease, token, witness, run, cancelled, edited, hurt>>

(* A user, who has no lease. *)
HandEdit ==
    /\ Spend("edit")
    /\ disk' \in {[disk EXCEPT !.decl = 1 - @], [disk EXCEPT !.state.version = @ + 1],
                  [disk EXCEPT !.root = @ + 1]}
                 \cup {[disk EXCEPT !.relation = s] : s \in Relations \ {disk.relation}}
    /\ edited' = Runs /\ hurt' = Runs
    /\ UNCHANGED <<profile, lease, token, witness, run, cancelled>>

Step(r) ==
    \/ PlanWrite(r) \/ Read(r) \/ Load(r) \/ Capture(r) \/ Stabilize(r)
    \/ Check(r) \/ Recheck(r) \/ Recapture(r) \/ Compare(r) \/ PrepareNative(r)
    \/ Keep(r) \/ Peer(r) \/ PreAttemptBarrier(r)
    \/ Fails(r) \/ Start(r) \/ End(r) \/ PostAttemptBarrier(r) \/ Observe(r) \/ Classify(r)
    \/ Establish(r) \/ Publish(r) \/ Settle(r) \/ Report(r) \/ Cleanup(r)

Next ==
    \/ \E r \in Runs :
          \/ Step(r) \/ Acquire(r) \/ Begin(r) \/ Close(r) \/ Cancel(r)
          \/ NotStartedNative(r) \/ Effect(r) \/ ClassifyFails(r) \/ CleanupFails(r)
          \/ Stopped(r) \/ Fault(r) \/ Interrupt(r) \/ Crash(r)
    \/ OtherCommand \/ HandEdit
    \/ (\A r \in Runs : run[r].step \in {"done", "crashed"}) /\ UNCHANGED vars

Spec == Init /\ [][Next]_vars

-----------------------------------------------------------------------------
(* Properties *)

(* The host's command is started only for what was disclosed: the plan is the one that the
   user has seen, made with the declarations, the statefile and the root there are, with
   nothing pending and nothing interrupted; unless a user has changed them since the last
   look, a moment ago.  A look compares contents (revision.go, SnapshotRevision.Equal):
   declarations that are changed and changed back between two looks are not noticed. *)
StartsDisclosed ==
    [][\A r \in Runs : run'[r].calls > run[r].calls =>
          /\ run[r].seen = run[r].first
          /\ r \notin edited =>
                /\ run[r].first.decl = disk.decl \/ used["edit"] > 1
                /\ run[r].state = disk.state
                /\ view = run[r].revisions
                /\ ~disk.pending /\ ~disk.journal]_vars

(* The record of an attempt replaces only the statefile that the run has read: no change
   of anybody else is lost, unless it was made by hand since the last look. *)
NothingOverwritten ==
    [][\A r \in Runs :
          (run'[r].wrote /\ ~run[r].wrote /\ r \notin edited)
              => disk'.state = [disk.state EXCEPT !.rows = @ \cup {r}]]_vars

(* A prepared command starts one process at most, and none once it was declined; its root
   is open as long as it is needed, and whoever has it closes it. *)
SingleUse ==
    \A r \in Runs :
        /\ run[r].calls <= 1
        /\ run[r].declined => run[r].calls = 0
        /\ token[r] = "consumed" /\ run[r].step # "done" => witness[r].open
        /\ run[r].step \in {"done", "crashed"} => ~witness[r].open /\ lease # r

(* What is reported is so: "refused" and "cancelled" only without a process; "partial" only
   with one; a stopped process is never a plain failure; success only when the
   process succeeded, its attempt is recorded, nothing is left pending, and, where the route
   has an observer, the relation was seen afterwards. *)
told(p) ==
    /\ p.result \in {"refused", "cancelled"} => ~p.started
    /\ p.result = "partial" => p.started
    /\ p.result = "failed" => p.attempt \notin Interrupted /\ p.attempt # "ok"
    /\ p.result \in {"observed", "unverified"} =>
           /\ p.attempt = "ok" /\ p.persisted /\ p.wrote /\ ~p.left
           /\ (p.result = "observed") <=> profile.observed
    /\ p.result = "observed" => p.relation = "present"
    /\ p.persisted => p.wrote

Truthful == \A r \in Runs : At(r, "done") => told(run[r])

(* A started process is recorded, cancelled or not, when no step failed and no user interfered. *)
NeverForgotten ==
    \A r \in Runs : (At(r, "done") /\ run[r].started /\ r \notin hurt) => r \in disk.state.rows

(* A prepared refresh starts one process at most, which is recorded and reported as it
   ended (refresh/execute.go). *)
RefreshTold == TypeOK /\ SingleUse /\ NeverForgotten /\ Truthful

(* A refresh starts only what the user has seen, and writes over nothing that it has not
   read. *)
RefreshCurrent == StartsDisclosed /\ NothingOverwritten

-----------------------------------------------------------------------------
(* What holds at every step, from which the properties follow. *)

(* The steps of an execution from the plan that it makes under the leases: until the
   attempt, from what it depends on, and afterwards. *)
Renewed == {"native", "keep", "peer", "barrier", "invoke"}
Attempted == {"running", "post barrier", "observe", "classify", "persist", "publish"}
Held == {"compare", "settle", "report"} \cup Renewed \cup Attempted

replanning(p) == p.pass = "execute" /\ p.step \in {"read", "load"}

planning(p) ==
    \/ p.step \in {"idle", "capture", "stable"}
    \/ p.step \in {"read", "load"} /\ p.pass # "execute"

leased(p) == p.step \in {"recheck", "recapture"} \cup Held \/ replanning(p)

(* The command's token, its root and the leases go with the step that its run is at. *)
Placed(r) ==
    LET p == run[r]
    IN  /\ p.step \in {"idle", "capture"} => p.pass = "plan"
        /\ p.step \in {"stable", "ready", "check", "acquire", "recheck", "recapture"}
               => p.pass = "stabilize"
        /\ p.step \in Held => p.pass = "execute"
        /\ planning(p) => token[r] = "none"
        /\ token[r] = "ready" <=> p.step = "ready"
        /\ leased(p) \/ p.step \in {"check", "acquire", "cleanup"} => token[r] = "consumed"
        /\ p.step = "crashed" => token[r] = "unavailable"
        /\ witness[r].open <=> p.step \notin {"idle", "done", "crashed"}
        /\ leased(p) => lease = r
        /\ lease = r => leased(p) \/ p.step = "cleanup"

(* What a run knows of its attempt: nothing before it; how it ended; what was
   observed; that it is on record; what it reports. *)
fresh(p) ==
    /\ ~p.observeErr /\ ~p.persisted /\ ~p.wrote
    /\ p.relation = "unknown" /\ p.result = "none"

blank(p) == fresh(p) /\ ~p.persistErr /\ p.attempt = "none" /\ ~p.nativeErr /\ ~p.left

ended(p) ==
    /\ p.attempt \in IF p.started THEN Interrupted \cup {"ok", "failed", "lost directory"}
                     ELSE NotStarted
    /\ p.left => p.nativeErr

observed(p) == IF profile.observed THEN p.observeErr <=> p.relation = "unknown"
               ELSE ~p.observeErr /\ p.relation = "unknown"

Followed(p) ==
    /\ p.calls = IF p.started THEN 1 ELSE 0
    /\ p.declined => p.step = "done" /\ ~p.started
    /\ p.step \in {"idle", "read", "load", "capture", "stable", "ready", "check", "acquire",
                   "recheck", "recapture", "compare"} \cup Renewed => ~p.started /\ blank(p)
    /\ p.step = "running" => p.started /\ blank(p)
    /\ p.step = "post barrier" => p.started /\ ended(p) /\ fresh(p) /\ ~p.persistErr
    /\ p.step = "observe" => ended(p) /\ fresh(p)
    /\ p.step \in {"classify", "persist", "publish", "settle", "report"} => ended(p) /\ observed(p)
    /\ p.step \in {"classify", "persist", "publish"} => ~p.persisted /\ ~p.wrote
    /\ p.step \in {"observe", "classify", "report"} => (p.persistErr => p.started)
    /\ p.step \in {"persist", "publish", "settle"} => p.started
    /\ p.step \in {"publish", "settle"} => ~p.persistErr
    /\ p.step = "settle" => p.wrote /\ ~p.persisted
    /\ p.step \in {"persist", "publish", "settle", "report"} => p.result = class(p)
    /\ p.step = "report" => (p.persisted => p.wrote) /\ (p.started => (p.persisted <=> ~p.persistErr))
    /\ p.step \in {"cleanup", "done"} => told(p)

(* The statefile changes in a version at most behind the back of the run that has the lease. *)
since(old, new) == old.rows = new.rows /\ old.version <= new.version

(* What a run has read under the leases is what its revisions were taken of, and what
   was disclosed; edits that it has not seen were made since it last looked, or undone. *)
Looked(r) ==
    LET p == run[r]
    IN  /\ replanning(p) \/ p.step = "compare" => since(p.revisions.state, disk.state)
        /\ replanning(p) /\ disk.decl # p.revisions.decl => used["edit"] >= 1
        /\ (replanning(p) /\ p.step = "load") \/ p.step \in {"compare"} \cup Renewed =>
               /\ p.seen.decl # p.revisions.decl => used["edit"] >= 1
               /\ p.seen.decl # p.revisions.decl /\ disk.decl = p.revisions.decl => used["edit"] >= 2
        /\ p.step = "compare" => since(p.revisions.state, p.state) /\ since(p.state, disk.state)
        /\ p.step \in {"compare"} \cup Renewed => ~disk.pending
        /\ p.step \in Renewed => p.seen = p.first
        /\ p.step \in Renewed \cup Attempted =>
               p.state = p.revisions.state /\ since(p.state, disk.state)
        /\ p.step = "peer" => since(p.state, p.keep.state) /\ since(p.keep.state, disk.state)
        /\ p.step \in {"barrier", "invoke"} \cup Attempted => p.keep.state = p.state
        /\ p.step \in {"barrier", "invoke"} /\ r \notin edited => view = p.revisions
        /\ p.step \in {"invoke", "settle"} \cup Attempted => ~disk.journal
        /\ p.step = "publish" /\ r \notin edited => disk.state = p.state

(* Where no user has edited anything what was read is what there is, *)
Calm(r) ==
    LET p == run[r]
    IN  used["edit"] = 0 =>
        /\ disk.root = 0 /\ witness[r].root = 0
        /\ replanning(p) \/ p.step \in {"compare"} \cup Renewed \cup Attempted
               => p.revisions.state = disk.state
        /\ p.step = "compare" => p.state = disk.state
        /\ p.step \in {"peer", "barrier", "invoke"} \cup Attempted => p.keep.decl = disk.decl

(* ... and an attempt whose steps do not fail gets on record and stays there. *)
Unhurt(r) ==
    LET p == run[r]
    IN  r \notin hurt =>
        /\ used["edit"] = 0
        /\ p.step \in Attempted => ~p.persistErr
        /\ p.started /\ p.step \in {"settle", "report", "cleanup", "done"} => r \in disk.state.rows

Holds(r) == Placed(r) /\ Followed(run[r]) /\ Looked(r) /\ Calm(r) /\ Unhurt(r)

Inv == TypeOK /\ \A r \in Runs : Holds(r)

=============================================================================
