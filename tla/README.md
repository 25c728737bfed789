# A verification project for daem

daem (Declarative Agent Environment Manager) makes the files and settings of
agent hosts agree with a manifest, `daem.toml`. It is a command line program:
nothing runs between two commands. What makes it hard is that a command changes
several files that other programs use too, that several commands may run at
once, and that any of them may die between any two system calls; what is left
must be understood and cleaned up by the next command.

This directory has TLA+ models of the parts of daem that carry this burden, the
TLC configurations that check them on small instances, and proofs, checked by
TLAPS, of the main results for every instance. `PROJECT.json` lists the
components, the runs, the lines of code that each definition stands for, the
mutants that show that each property can fail, the hazards the properties are
for, the theorems, and the findings.

    tlc -workers 2 -config MCFileSet.cfg MCFileSet      # one run
    tlapm FileSetProofs.tla                             # one proof module

`tlapm --stretch 2` helps on a slow or loaded machine: some steps of
`StorageProofs`, `ApplyProofs` and `WorkflowProofs` take several seconds.

## 1. The system

A command reads the manifest, compiles it (desired environment, topology,
supply, realization), observes the host (assurance), decides what to do
(reconciliation, a pure function) and carries it out (effects). Everything
before the effects is data in and data out. The effects, and what protects them,
keep state and are the subject of this project.

| component | state | operations | with whom |
| --- | --- | --- | --- |
| mutation leases (`effect/mutation`) | lock records with `flock`, a registry per process | acquire and release the domains of a command | taken by every mutating workflow before it looks at anything |
| file-set transaction (`effect/fileset`) | `StateDir/metadata-transaction`: marker and backups; private stages and tombstones | commit, roll back, recover, inspect the fence | manifest and lock file edits, migration, unmanage; under leases; its fence is part of the state barrier |
| state barrier (`recoverygate`) | the state directory that was captured, what is left of a reservation; looks for a file-set fence and a journal | reserve, check around every step, establish the directory, close | before and during every mutating workflow |
| operation journal (`effect/journal`) | one journal per project: before- and after-images of paths, statefile and claims | capture, publish, qualify, classify, retire | apply, refresh and recover |
| journal retirement (`effect/journal/retirement`) | control record, residue and garbage in the recovery root | prepare, publish the control, advance, clean up; classify what a crash left | apply, refresh and recover, at the end |
| ownership registry (`output/ownership`) | one file shared by all projects: who owns which output | converge claim transitions (reserve, activate, release) | apply and recover of every project, under the registry's lease |
| apply execution (`effect/execute`) | host files, statefile | publish and retire outputs, promote claims, commit the statefile, roll back | calls journal, registry and storage |
| recovery (`effect/execute/recovery.go`, `journal/recovery`) | the same | finalize, restore, compensate, retire | run by the user after an interrupted command |
| storage commits (`effect/storage/commit`) | stages, tombstones next to the destination | replace, publish a tree, remove | used by everything above |
| carrier claims (`effect/storage/carrierclaim`, facts in the statefile) | who manages a relation that a host program installed, and what is pending for it | install, remove, reserve and complete a pin, adopt | the carrier steps of apply, by manifests that share the relation |
| removal cleanup (`effect/execute/removaloperation`) | two private names beside each removed path | plan, preflight, promote, empty, confirm | before a journal retires |
| physical work budgets (`effect/physicalwork`) | counters, and reservations by phase | charge, reserve, hand over to a child | every operation that reads or writes trees |
| operation plans (`operationplan`) | the planned effects and a cursor | compute the demand, admit the next effect | every operation behind the state barrier |
| rooted paths (`effect/mutation/rootedpath`) | open directories from the root of the file system to the captured one | capture, validate, acquire, remember as a layout | everything that writes or starts a program |
| refresh (`workflow/refresh`) | a prepared command, an attempt in the statefile | prepare, execute, cancel, close | leases, barrier, subprocess, statefile |
| protected invocations (`workflow/protection`) | rows in the ownership registry, permissions of documents | arm, bind, release, settle, recover | host commands that may touch documents daem protects |
| import (`workflow/adopt`) | sources, a manifest and their new directories | write, validate, commit, roll back | concurrent imports, under leases that do not exclude them all |
| source cache (`supply/source/cache`) | verified entries, a lock per key | publish once, verify, retire | resolvers of several processes |
| subprocess (`subprocess`) | a process group | start, wait, terminate, abandon | refresh, native and delegated effects |

What is hard, and what makes each part correct:

* **Leases.** Goroutines of one process share one `flock`, processes contend
  for files that can be replaced under them, and the records of nested paths
  stand for each other. Correct: conflicting requests are never both held; no
  lock is lost or leaked; nobody sleeps through a wake-up; nobody deadlocks.
* **File sets.** Crashes, failures, cancellation and foreign edits between any
  two file operations of a commit, a rollback or a recovery. Correct: all or
  nothing, always recoverable, reported as it is, and no foreign edit lost
  unless it raced with the very write.
* **Apply and recover.** Four stores (host files, statefile, journal, registry)
  that cannot change together, two projects that want the same output, and
  recovery that is interrupted itself. Correct: what the stores say agrees
  whenever no journal is there; with a journal every state can be recovered;
  no output is stolen and no edit overwritten.
* **Storage commits.** What a process sees of a directory is not what a power
  failure leaves; every rename and sync can fail or be unknown. Correct: the
  outcome that is reported holds, and holds after a power failure.
* **Retirement and cleanup of removals.** Journals and removed trees are taken
  apart in steps that can each be interrupted. Correct: no layout that a crash
  leaves is refused, what the user confirmed is what is done, nothing is deleted
  that was not vouched for, and the budget is enough to finish.
* **Barrier, budgets and plans.** Everything that may be needed after the first
  effect is reserved before it, from a computation over the plan. Correct: the
  computation covers every run, capacity is neither invented nor lost when it is
  handed on, and the operation stays in the directory that it planned for.
* **Host commands.** They may outlive daem, ignore signals, fail after having
  acted, and widen permissions. Correct: what may still write is on record, what
  is reported is what happened, an attempt is neither forgotten nor made twice.
* **Carriers.** Host inventory, statefiles and a shared registry are written one
  after another by manifests that share a relation. Correct: nothing is removed
  that another manifest needs, no fact is lost, every removal settles.
* **Paths.** A path is looked at one name at a time while other programs change
  it. Correct: when a check succeeds there was a moment at which the path led to
  what daem holds.
* **Import and cache.** No journal, and leases or locks that do not exclude every
  other. Correct: one may not destroy what another has made, and what is left
  behind is told.

## 2. Modules

| module | what it is |
| --- | --- |
| `FileSet` | the file-set transaction, step by step |
| `AtomicFileSet` | what it promises: the files change in one step; the refinement mapping ends `FileSet` |
| `JournaledApply` | apply, rollback and recover over host files, statefile, journal and registry |
| `LeaseDomains` | domains, how they are normalized to lock records, and what they are meant to exclude |
| `MutationLease` | acquisition and release by goroutines of several processes; extends `LeaseDomains` |
| `JournalRetirement` | the recovery root: publication, retirement and its recovery, step by step |
| `JournalLife` | what it promises: at most one journal, recoverable, then in cleanup, then gone |
| `StorageCommit` | one commit or removal in one directory, with process death and power failure |
| `SourceCache` | resolvers that share a cache |
| `WorkBudget` | reservations and transfers of a budget |
| `EffectPlan`, `PlanShapes` | plans as trees of effects, their demand, and the cursor; the plans that are run |
| `StateBarrier` | an operation behind the barrier; extends `EffectPlan` |
| `RemovalCleanup` | the cleanup of journaled removals and what it costs |
| `CarrierLife` | installation, pins, adoption and removal of a relation by several manifests |
| `Refresh` | a prepared refresh, from its two plans to its record |
| `RootedPath` | captures, validations and layouts, one name at a time |
| `ImportWrite` | imports and their directories |
| `ProtectedInvocation` | a host command on protected documents, its settlement and recovery |
| `ProcessGroup` | a command in a process group: wait, watcher, termination, caller |
| `MCFileSet`, `MCJournaledApply`, `MCMutationLease`, `MCProtectedInvocation` | instances of one module for TLC (`ProcessGroup` needs none) |
| `MCStorage`, `MCPlanning`, `MCWorkflows`, `MCPaths` | instances of several modules side by side |
| `MCCarrierLife`, `MCRemovalCleanup` | instances for findings and liveness |
| `FileSetProofs`, `LeaseProofs`, `WorkBudgetProofs`, `ApplyProofs`, `ProcessGroupProofs`, `ProtectedInvocationProofs` | theorems about the module each is named for |
| `StorageProofs` | theorems about `JournalRetirement`, `StorageCommit`, `SourceCache` and `RemovalCleanup` |
| `WorkflowProofs` | theorems about `Refresh` and `CarrierLife` |

The modules compose as the code does. `MutationLease` uses the normalization of
`LeaseDomains`. `FileSet` and `JournaledApply` have one running operation each
because the workflows hold exclusive leases on the state directory and on the
registry, which is what `MutationLease` shows leases to provide. `StateBarrier`
runs the cursor of `EffectPlan` and pays every check from the demand that it
computes. `JournalRetirement` is inside the step `RetireJournal` of
`JournaledApply`, and `JournalLife` is what is left of it there. `StorageCommit`
is inside every write of `FileSet`, `JournaledApply`, `ImportWrite` and
`CarrierLife`: the outcomes that these let a write have are those that it shows a
commit to report. `ProcessGroup` is inside the attempt of `Refresh` and the
command of `ProtectedInvocation`. `RemovalCleanup` spends what `WorkBudget` keeps
apart. They are separate modules because together they have too many states;
where one assumes what another shows, its header or this file says so.

The four `MC` modules of several parts are unions and not compositions: a run
picks one part in its initial state (`at` or `part`), the others stay at rest,
and since they share no state this explores all that each of them does. The
properties of a union are named for what they say of the system and are
conjunctions of the modules' own. `MCStorage` extends `JournalRetirement`,
`MCPlanning` extends `WorkBudget` and `MCWorkflows` extends `Refresh`, so that the
run evaluates the assumptions and checks the very definitions the theorems are
about. `MCWorkflows` also has `CarrierLife` as `Carrier`, and `MCStorage` has `StorageCommit`
as `Commit`, `SourceCache` as `Cache` and `RemovalCleanup` as `Removal`, with the
constants of all of them left to the configuration; `WorkflowsProved` and `StorageProved` show that what TLC
explores there are behaviours of each of the specifications that the theorems are
about.

Definitions named *Mutant* in a comment are wrong on purpose. They belong to no
specification; `PROJECT.json` says which definition each stands in for and which
property then fails.

Data is abstracted throughout: contents, hashes, fingerprints and revisions are
values that are equal or not; a check of identity and a comparison of bytes is an
equality. Variables and fields marked *(history)* in a comment are no state of
the program; they remember what properties are about.

### FileSet

State: the targets (`disk`), whether the evidence directory is there
(`published`), its marker, backups that were lost (`damaged`), private
directories (`private`: a stage, a tombstone), the running operation (`op`), and
its last result. `edited` and `op.raced` are history: what others have changed,
and what they changed since daem last looked.

Actions follow `transaction.go` and `marker.go`: `BeginCommit`, `ObserveFence`,
`Census`, `CreateStage`, `CaptureTarget`, `PublishEvidence`, `BeginWrites`,
`WriteTarget`, `FinishWrites`, `RetireEvidence`, `DiscardTombstone` for a commit;
`BeginRecover`, `LoadMarker`, `ClassifyTarget`, `Decide`, `RestoreTarget`,
`FinishRestore` for recovery and for the rollback of a failed commit, which share
code. `FailStep` and `FailPublished` are I/O errors, `Cancel` and `CancelWrites`
the context, `Crash` the death of the process, `Edit` another program, and
`DamageBackup` a backup that no longer has its hash. A commit point is written
last and restored last, as in `canonicalTargetsWithResolver`. Two marker
generations differ in who may recover: generation 3 allows a superset of the
targets, generation 4 requires the exact set.

### JournaledApply

State: `host`, `registry`, and per project `statefile` and `journal`; the running
operation and its result; `touched` (files of a journal that others have
changed) and `lapsed` (outputs whose claim was passed over) are history.

An apply goes through `BeginApply` (reconciliation), `CaptureJournal`,
`PrepareClaims`, `ValidatePrepared`, `ApplyEffect` for each path in the order of
the schedule (publications, then retirements), promotion of intents
(`PromoteIntent`, `ReserveClaim`, `SkipPromotion`), `CommitState`,
`FinalizeClaims`, `RetireJournal`. A failure before the first host change is
settled (`Settle`), a later one rolled back: `LoadPlan`, `RestoreEntry`,
`RollbackClaims`, `RetireJournal`, which are also the steps of recovery; a failed
restoration is compensated (`CompensateEntry`). Each step has a `Fail` variant in
which the write may or may not have happened, and a `Refuse` variant where the
code checks a precondition. A name that the file system may spell differently
(`Sensitive`) has no address until it exists, so its acquisition is an intent
that is promoted once the file is visible.

Left out: project-scope outputs, managed aggregates, relocations, removal
residues, file modes, and the window between checking a destination and renaming
over it (`docs/state-and-recovery.md` excludes it for writers other than daem;
`FileSet` has it).

### LeaseDomains and MutationLease

A request is a set of domains: paths, logical or on a host, with an access mode,
and routes of host programs with what is known of their footprint. `normalize`
turns it into lock records with a mode each: ancestors of a path are locked
shared, paths below an exclusively locked one are dropped, a path that does not
exist yet locks the directory it will be created in.

`MutationLease` has lock records (`record`, a generation number per key, since
a record can be removed and created again), kernel locks (`flock`, per process),
the registry of each process (`registry`) and the lease sets (`set`). An owner
opens records in the order of their keys (`OpenRecord`), becomes the one in its
process to call flock (`EnterFlock`), shares (`EnterShare`), is refused because
the record changed (`RefuseShare`) or sleeps (`EnterSleep`); the kernel grants
(`LockRecord`); the record is verified (`VerifyRecord`, `RefuseRecord`); `GiveUp`
is cancellation, timeout and every failure to open or lock; release goes in
reverse order. `Crash` ends a process, `ReplaceRecord` is somebody who deletes a
record in use. The mutex of the process registry makes each of these one step.

### JournalRetirement and JournalLife

State: the recovery root (`root`: an active journal, a control record, private
residues, garbage), the lease on it, the commands (`cmd`) and events. `Classify`
is the code's classification of what is found. A command begins as an apply, or
plans a recovery, shows it and is confirmed (`Begin`); it publishes a journal,
prepares, and works through a retirement (`Work`: publish the control, rename the
journal to residue, advance the control to finalizing, delete the residue, turn
the control into garbage, delete the garbage, each after validating anew);
`Promote` rewrites the record of an apply's journal while it takes effect;
`Fail`, `Crash` and `Tamper` are the disturbances. Deleting a directory is one
step whose failure leaves it in part.
Once a journal was tampered with the promises end: `JournalLife` has a phase
`tampered` in which anything may happen.

### StorageCommit and SourceCache

`StorageCommit` keeps what a process sees of a directory (`dir`) apart from the
contents a power failure may leave (`disks`), which a sync makes equal; renames
whose result is unknown, failed undo and failed syncs are actions of their own,
and `op.outcome` is what the caller is told. Removing a child after verifying it is
one step; private names that were reserved are not used by others; modes of
directories and the Windows backend are left out; created ancestors are in
`ImportWrite`.

`SourceCache` has an index entry and content entries, each under a lock record
that somebody may replace (`ReplaceRecord`). A resolver looks up, verifies,
retires an invalid entry, fetches, publishes without replacement, and checks again
on release. What is fetched and hashed is a value.

### WorkBudget, EffectPlan, StateBarrier, RemovalCleanup

`WorkBudget` is the ledger of `physicalwork`: one action per exported operation
(`AdmitPhysicalWork`, `Reserve`, `BeginReserved`, `ReserveCleanupLifecycle`, the
conclusions, `BeginGeneralExecution`, `ReserveInvocation`, `Take`, ...), for
vectors over the dimensions of work; `tree` stands for entries and bytes, which
move together. `ClientAssumption` says which phases an operation may have.
Observation counts, probe bytes, the shared planning envelope and traversal
phases are left out.

`EffectPlan` has plans as trees (sequences, choices, repetitions, phases of
forward effects, and follow-ups of a trigger), the demand alternatives the code computes from them before the
first effect, and the cursor. `StateBarrier` runs a cursor: `Reserve`, `Select`,
`Begins`, `Check`, `CheckFails`, `Fault`, `Exhausted`, `Finish`, `Close`, and
others who replace the directory or leave a fence. Owners begin no forward effect
after a failed check; step identities are places in the tree; the limits of 4096
nodes and 64 alternatives, `FinishHandoff` and `BeginForwardPhaseContinuation` are
left out.

`RemovalCleanup` has the private names of removal intents (`slots`) and runs the
cleanup of apply or of recovery with the costs of the code (`pool`, `allotted`), so
that it shows whether what is reserved is enough. `MCStorage` explores what a cleanup
does to the names, `MCPlanning` whether it can be paid for. Parents of destinations exist,
foreign entries are files; planning and the observation of one intent is one step.

### CarrierLife and Refresh

`CarrierLife`: what is declared (`desired`), installed (`host`), on record per
manifest (`file`: pending install, pending removal, claim) and shared
(`registry`), and each manifest's run of apply. A run plans under no lease
(`Plan`), begins under the registry's lease (`Begin`) and takes one step at a
time (`Step`); `Stop` is an error or a crash before or after any write; users
declare, unmanage and edit the host at any time. One relation per owner; evidence
is the exact source; the attempts' history is left out.

`Refresh`: a prepared command plans twice, in two steps each, asks for the lease,
revalidates everything, starts the host's command once, observes, classifies and
records; value copies of the prepared command share a `token`. One exclusive
lease stands for the statefile's. Faults, cancellation, crashes, another command
and edits by hand may come between any two steps. The dry run, and observations
that are stale, unsupported or unavailable afterwards, are left out.

### RootedPath and ImportWrite

`RootedPath` has directories with names (`fs`) that other programs replace, move
and retarget while daem walks one name at a time; the three captures, validation,
acquisition, selections, launch directories, matches of a recorded root, and
layouts with the work they reserve. `began` and `led` (history) say whether there
was a moment at which the path led to what is held. A directory that was taken
away does not come back (the code compares identities that the system may reuse).
Mounts, boot identities, Windows and layouts of referents are left out, and at
most 3 aliases stand for 255.

`ImportWrite` has objects with kind, maker and place (`node`), the imports
(`imp`) that create directories, a source and the manifest and take them back,
and the host's files they copy (`live`). Leases let imports with different
outputs run together. There is no journal, so a crash is the same as stopping and
is left out.

A source is a file or a tree (`Skills`), and the two are committed differently. A
file goes through `AncestorCleanup.CommitFile`: the directories that it had to create
become the import's (`owned`), and `RemoveEmpty` takes them back. A tree is committed
beneath a root: its destination must be absent (`RequireAbsent`), its parent is
prepared once more, the nearest directory above it that exists is captured as the root
(`Bind`, `CaptureRoot`), what is missing below is created in an anchor of the commit,
the tree is staged, filled, compared with the plan and renamed (`StageTree` to
`CommitEntry`), and everything is closed (`Released`). Directories that are created on
this way belong to nobody afterwards (`loose`, a history variable). A failure before
the rename first verifies the chain again; if it is broken, stage and directories stay
where they are (`FailBefore`). Of the three rounds of checks before the rename of a
tree the model has the last, and the captured root is validated together with the
directory that is opened or created under it. The entries of the tree are one object.

### ProtectedInvocation and ProcessGroup

`ProtectedInvocation`: the rows of protections in the registry (`row`), the
documents' permissions (`mode`), the process group of every command with the pipe
on which its helper waits (`group`, `gate`), boots (`epoch`), the lease and the
daem processes, which invoke, settle, recover or write an ordinary document.
Documents are restricted one by one in two passes, each after looking whether the
group is quiet.

`ProcessGroup`: the life and the nature of each process (it dies of SIGTERM, only
of SIGKILL, of neither, or may not be signalled), the signals sent, the context,
and the three goroutines that meet (the one in `Wait`, os/exec's watcher, the
caller) with the one termination that either of the last two may carry out. The reuse of group identities is left out; `Wait` and
`watchCtx` of os/exec are external and modelled as they are used.

## 3. Runs

| run | question | instance and bounds |
| --- | --- | --- |
| `fileset` | is a commit of several files atomic, recoverable and truthfully reported, and does it end | 2 files with any initial contents of 2 byte values or none, 3 requests (a commit point that sorts first; a fresh commit with a retained target; a set of one target of the older generation); 1 commit, any number of recoveries, 1 crash, 1 failure, 1 edit, 1 cancellation, 1 lost backup |
| `apply` | do host files, statefiles, claims and journals stay in step | 2 projects, 2 outputs, one of them sensitive and spelt differently by the projects, 2 contents, any initial state in which claims and statefiles agree; 2 applies, any number of recoveries, 1 crash, 1 failure, 1 edit |
| `apply_liveness` | does repeated recovery clear every journal | as above with 1 content and no edit |
| `lease` | exclusion, lost locks, lost wake-ups, progress | 2 goroutines in one process and 1 in another, 2 requests over 3 paths and 6 lock records; 2 acquisitions, 1 crash, 1 that gives up, 1 replaced record. An assumption of the instance compares `normalize` with conflicts for all pairs of small requests |
| `storage` | are the outcomes of commits true after a power failure, what is resolved from the cache genuine, the cleanup of removals done when it is said to be, and journals retired as promised | `StorageCommit`: 2 operations, 2 failures, 2 foreign entries, 1 crash. `SourceCache`: 2 resolvers, 3 resolutions, 1 each of damage, replaced record, failure, crash. `RemovalCleanup`: a file and a tree in a home directory, 2 more runs, 2 faults, 2 strangers. `JournalRetirement`: 2 commands, 2 journals, 1 promotion, 1 crash, and 1 failure or 1 tampering |
| `protected` | is every command that can write on record, and protection not cleared under it | 2 processes, 2 invocations with a document in common; 2 begin, and 1 each of ordinary writer, refusal, failure, user's change, crash, reboot |
| `process_group` | is the report of a command true, are signals meant, is the caller answered | a leader and 1 descendant of each of 4 natures |
| `planning` | does what is paid for before the first effect suffice | the plans of adopt, pin and apply with 2 of the 3 disturbances, and undisturbed plans of every shape; cleanup of 2 removals at the greatest depth for which the reservation suffices (1 fault, 2 strangers); a budget of 4 path components and 1 of every other dimension for an ordinary and a native recovery |
| `workflows` | is nothing forgotten or taken from others when relations are installed, removed, re-pinned, refreshed | `CarrierLife`: 2 manifests that share a relation with 1 interruption (stop, failure, unseen host, edit, unmanage), 1 of its own with 3; 2 pins. `Refresh`: one run with 2 disturbances, two runs undisturbed, beside another command |
| `paths` | did the path lead there when daem last asked; what do imports leave | `RootedPath`: a root two levels deep, reached directly or through an alias, and an entry in it; 3 calls, 2 changes by others. `ImportWrite`: 2 imports with 1 failure; one of a tree with 1 failure and 2 foreign changes; one into an existing manifest with 1 of each |
| `apply_release`, `import_replaced` | two of the findings of section 6 | the fewest disturbances that show them; `import_replaced` is the import of a tree of `paths` alone (`TreeSpec`) |

Two files are enough for a mixture of old and new, and for a commit point among
others. One disturbance of each kind, in any order, includes a failure in the
rollback of a crash's recovery and the like; more of the same kind repeat states
that are reached by then, and where a theorem covers the property the number does
not matter. Three owners are the fewest with both sharing inside a process and
contention from outside it. Where two transactions, journals or applies matter,
there are two. Counters are bounded by `Limit`, an argument of the specification,
not by a state constraint. Symmetry is used only for constants that are compared
for nothing but equality, and in no run with a liveness property.

Eight more configurations are kept beside the runs. Seven show the other findings
of section 6: `MCJournaledApplyRollback`, `MCJournaledApplyLapse`,
`MCCarrierLifeByHand` (module `MCCarrierLife`), `MCPathsRecreated` (module
`MCPaths`), `MCRemovalCleanupRecover`,
`MCRemovalCleanupDeep` and `MCRemovalCleanupPlan` (module `MCRemovalCleanup`). Each
of them checks one property and ends in its violation. `MCCarrierLifeLiveness`
checks that pending installs and removals settle (`InstallSettles`,
`RemovalSettles`). Two more liveness properties have no configuration:
`EventuallySettled` of `ProtectedInvocation` (`MCProtectedInvocation` with `FairSpec`,
`Limit <- LivenessLimit`, no symmetry), and `Ends` of `ImportWrite`, which holds under
`FairSpec` for two imports of one process, of which one copies a tree, no manifest to
merge into, one fault and no other program.

`FileSet` checks for deadlock: an idle state can always start a recovery. A
configuration that says `CHECK_DEADLOCK FALSE` is one in which every owner,
command or process may be done, or the bounds on events used up.

**Fairness.** `FileSet!FairSpec` and `JournaledApply!FairSpec` assume that a started
operation takes its next step (a process that runs does; its death is the action
`Crash`), and that the interrupted command, or `daem recover`, is run again for as
long as the evidence or the journal is there. Both properties are statements about
repeated recovery: without a user who runs it nothing happens between commands.
Strong fairness is needed because the start of an operation is disabled while
another one runs. `MutationLease!FairSpec` assumes weak fairness of every owner's next
step: a polling loop whose `flock` is free gets it, and operations that hold leases
end. `GiveUp` is not fair: the property shows that no acquisition needs its timeout.
`ProcessGroup!FairSpec` assumes that the goroutines run, timers expire, the
attempt's deadline comes, and a process that can be killed dies of SIGKILL; nothing
is assumed of a command's own end. `CarrierLife!Fairness` assumes that users run
apply again and a run goes on and gets the lease in the end;
`ProtectedInvocation!FairSpec` likewise, and that commands end.

## 4. Properties

A run checks a few properties with the names below; most are conjunctions of
named parts in the module, with the type invariant of the module among them.

* *FileSet.* `Recoverable`: while evidence is there, every target nobody else edited
  has one of its two images. `Atomic`: once it is gone, all have their new image or
  all their old one. `Truthful`: success, rollback and clearance are reported only if
  they are so. `OnlyRacingEditsLost`: a foreign edit is overwritten only if it was
  made after daem last looked at the file. `CommitPointLast`. `ImplementsPromise`: the
  refinement of `AtomicFileSet`. `EventuallyCleared`. By theorem alone:
  `EvidenceExclusive` (evidence and private residue never coexist, so the fence
  against residue never shuts out a recovery) and `ResidueFences` (residue that
  outlives its operation blocks all later transactions).
* *JournaledApply.* `ClaimsSound`: claims and statefiles agree, or differ as a phase of
  the journal allows (`Accounted`); no output has two managers (`Exclusive`); no
  convergence of claims meets a third value (`NeverStale`). `Recoverable`: a journal
  whose files and claims others left alone is never blocked. `Settled`: a journal
  goes only when everything is as before or everything is as after
  (`SettledOnRetire`), and what is reported is so. `ChangesGuarded`: the statefile
  comes last, no edit or other project's file is overwritten, no claim stolen
  (`StateLast`, `NoTrespass`, `NoStealing`). `EventuallyCleared`. They except exactly
  the cases of the findings, by the history variable `lapsed`, the set `takenOver`
  and the definition `recreates`.
* *Leases.* `Exclusion`: conflicting requests are held together only if a record that
  one of them held was replaced, and then only by two processes. `Backed`: what an
  owner counts as held is locked by its process, in the right mode, and nothing else
  is. `NoMissedSignal`: nobody sleeps while the state it sleeps on would let it go
  on. `EventuallyReleased`.
* *Storage.* `CommitTruthful`: each of the four outcomes means what it says, in all
  contents that a power failure may leave, and no power failure leaves half an
  entry. `ForeignKept`: neither a commit nor the cleanup of removals destroys anything
  of others. `CleanupSound`: nothing is changed before all intents are ready, and
  discharged means that nothing is left. `CacheSound`: what a
  resolution returns stays what was hashed while it is used, and of two that work on
  an entry under a replaced lock record only one ends well.
* *Retirement.* `RetirementConfirmed`: no crash leaves a root that `Classify` refuses
  (`NeverBlocked`), and until a recover writes the root is as its user was shown it
  (`Confirmed`). `RetirementTruthful`: no report of a retirement that has not
  happened, none that hides a journal, and no residue destroyed that its own record
  did not vouch for. `ImplementsLife`: the refinement of `JournalLife`.
* *Protected invocations.* `WritersKnown`: a command that runs or was told to go on is
  on record with its group, a document has one writer at a time, reports of
  settlement are so. `ClearedSafe`: a row is cleared only when its documents are
  restricted, or a user changed them since they were checked.
* *Process groups.* `ReportTrue`: an exit that came before the end of the context is
  what is reported, success leaves nothing of the group, an end of the context is
  reported as it was. `NoStraySignal`: the leader gets no signal while its context
  lives. `Ends`: the caller is answered, whatever the natures, and the leader is
  reaped if it dies.
* *Planning.* `PlanCovered`: the demand is exactly the maximum over the runs of the
  cursor, and no run that keeps to its plan exhausts it; and what is reserved for the
  cleanup of removals suffices up to the depths of section 6. `DirectoryOwned`,
  `EffectsGuarded`: an operation is never bound to a directory it neither found nor
  made, lets no forward effect pass without the bound directory, and closes as
  aborted only if it did nothing. `Conserved`: an operation and all children it handed
  capacity to stay within its limits.
* *Workflows.* `RelationsRecorded`, `RelationsKept`: what daem installed is never lost
  sight of, a pending removal names its claim, nobody else claims a checkout whose pin
  is being changed, no command takes a relation away from another manifest, and a
  reserved pin is never dropped. `RefreshTold`: one process at most, recorded and
  reported as it ended. `RefreshCurrent`: it is started only for what was disclosed,
  and overwrites no statefile it has not read.
* *Paths.* `PathsCurrent`: after a successful call there was a moment during it at
  which the path led to what daem holds, and no more was looked up than was reserved.
  `ImportBacked`: a manifest never lacks its source, an import that reports success
  its manifest. `ImportTold`: a failed import names all that it leaves, except directories that the
  commit of a tree has created (section 6). `OthersKept`.

## 5. Proofs

The theorems hold for every value of the constants that satisfies the assumptions
of the module: any number of paths, projects, processes, commands, documents and
disturbances. None of the safety properties is inductive as it stands. Each proof
module has the same plan: `Inv`, the property together with what it rests on, is
defined in the component's module and was checked by TLC there; it holds
initially; a lemma for every action shows that it is preserved; and the properties
follow. `Invariance` and `TypeCorrect` are theorems of every proof module
(`WorkBudgetProofs` has its invariant, `IInv`, and the lemma `AlwaysIInv` itself;
`WorkflowProofs` an invariant, with types, for each of its two modules; and
`StorageProofs` the two theorems for `JournalRetirement`, and an invariant, with types,
for `StorageCommit`, for `SourceCache` and for `RemovalCleanup`).

| module | theorems |
| --- | --- |
| `FileSetProofs` | `AlwaysRecoverable`, `Atomicity`, `TruthfulOutcome`, `EditsKept`, `CommitPointIsLast`, `ResidueFencesForGood`, `Refinement` |
| `ApplyProofs` | `ClaimsAlwaysSound`, `AlwaysRecoverable`, `AlwaysSettled`, `AlwaysGuarded` |
| `LeaseProofs` | `ConflictsContend`, `LeasesExclude`, `LocksBacked`, `SignalsSeen` |
| `StorageProofs` | `AlwaysConfirmed`, `AlwaysTruthful`, `JournalLives`; `CommitInvariant`, `CommitAlwaysTruthful`, `ForeignAlwaysKept`; `CacheInvariant`, `CacheAlwaysSound`, `ValidAlwaysKept`; `CleanupInvariant`, `CleanupAlwaysSound`; `StorageProved` |
| `ProtectedInvocationProofs` | `WritersAlwaysKnown`, `ClearedAlwaysSafe` |
| `ProcessGroupProofs` | `ReportsTrue`, `NeverStray` |
| `WorkBudgetProofs` | `BudgetConserved`, `ReservationsHanded` |
| `WorkflowProofs` | `RefreshInvariant`, `RefreshToldHolds`, `RefreshCurrentHolds`; `CarrierInvariant`, `CarrierRecorded`, `CarrierKept`; `WorkflowsProved` |

**FileSet.** That the targets are all old or all new when the evidence goes depends
on what the operation had established in each of its steps. `Progress` says what:
during the writes, the targets still to be written are old and the others new;
while targets are classified, those seen are new if all were; when the evidence is
about to go, all are one or the other according to the goal. Each action is shown
to take one line of `Progress` to the next. `EditsKept` and `CommitPointIsLast` need
two more facts, proved invariant in turn: the operation works on targets of its own
transaction only (`Scope`), and what it has looked at is unedited or known to have
raced (`Watched`). `Refinement` maps every step to a step of `AtomicFileSet` or a
stutter. Assumptions: paths are strictly ordered, there is a default mode,
requests are well formed, the counters are naturals.

**JournaledApply.** The invariant has a part for each project whoever runs (`sound`:
each output of its journal has a claim in one of the journal's phases and, if
nobody else touched it, a file in one of its images; all other outputs are owned
exactly if the statefile says so) and a part for the operation under way
(`Established`: what has been done by each step, and that it is possible to go on or
to go back). Most steps touch one project and one output. A step is *mild* to a
project if it changes neither its statefile nor its journal, nor files or claims
that concern it without marking them as touched; `MildSound` shows once that a mild
step keeps a project sound, and each action is shown to be mild to all other
projects. Recovery starts in any state that a crash can leave, so `LoadPlan`, the
classification, is where `sound` becomes `Established` again, for finalizing and for
rolling back.

**Leases.** `ConflictsContend` is about requests alone: for any tree of paths, two
conflicting requests contend for a lock record that both lock and one of them
exclusively. The argument picks the highest exclusive path above a dropped one,
which exists because the directories above a path are finite and ordered by
inclusion (`TreeAssumption`). `Inv` of `MutationLease` says that an owner needs what
its domains normalize to and lacks the record it is working on (`Needed`); that one
goroutine at a time calls flock on a record, while nobody holds it (`Serialized`);
that a record is locked by one owner alone or shared by all (`Alone`); and that a
held record that nobody replaced is the current file of its key (`Current`), which
is what verification after locking buys. `LeasesExclude` follows: two holders of
conflicting requests contend for a record by `ConflictsContend`, have both locked it
by `Backed`; in one process they would be one owner by `Alone`, in two processes they
have locked different files, so that one of them was replaced. Most actions change
one owner and the state of one record of one process; `FocusedStep` proves for all of
them that everything else keeps its part of the invariant.

**JournalRetirement.** An untampered root is in one of four layouts that a
retirement goes through (`activeLayout`, `retainedLayout`, `finalLayout`,
`clearLayout`), and one lemma each says what `Classify` makes of it. That the root is
in one of them is not preserved by itself: a command writes by what it prepared
for, several steps ago. The invariant therefore says that who works has the lease
(`held`, by which all other commands are idle or only planned), what a command that
found no tampering knows of the root at each step (`informed`), that it works on a
journal that was published, with a record that was written (`known`, `numbered`),
and that until a recover writes the root is as shown (`shown`). A failure or a crash
may leave a write done or not done, and every write is shown to take one layout to
another. `JournalLives` maps the layouts to the phases of `JournalLife` and every step
to a step or a stutter; tampering maps to the phase in which nothing is promised.

**StorageCommit.** What a commit reports is about all contents that a power failure
may leave, which is a set that each rename enlarges and each sync reduces to one.
`Arrived` says, for a commit that neither a power failure nor another program has
disturbed, what the directory and that set are at each step, in terms of what they were at the
beginning: as then, with the temporary file, with the entry moved aside or
promoted, or as they were meant to be. To take one line of it to the next one
needs which private names were free at the beginning (`Freed`), that what the
commit expects is what was there (`Grounded`), and which steps a commit of each
kind takes (`Staged`). An error ends at any step, done, undone or unknown, in the
one of the four outcomes that the code computes from it, and each is shown to be so.
Two parts hold without exception: what is reported is so, and a file whose payload is not synced
is under its temporary name only (`Unpublished`), so that no disk has half an
entry under the name it is meant for. `ForeignAlwaysKept` is about the commit that
others do disturb, and follows from `Staged`. Assumption: the objects in the
directory are told apart.

**SourceCache.** `Alone`, that no two resolvers hold one lock on one file, is what
flock gives; that two never work on one entry follows from it only while the lock
records are left alone, because then all have opened the same file (`Locking`: which
locks are held at each step; a file that was opened is no younger than the record).
`Seeing` is then preserved by the steps of others: what a resolver is about to
remove stays invalid, and what it has looked at last stays valid, since only the holder of
its lock changes an entry, and never a valid one. Once a record is
replaced two may work on one entry under different files; whoever ends well finds
its own file under the name, so that the other's is not (`beaten`), and stays so
because records are replaced by new files. `ValidAlwaysKept` is the property
`ValidKept` of the module, which no run has in its configuration: that as long as
the lock records are left alone no resolver takes a valid entry away. Assumption: nothing else is taken for
a hash.

**RemovalCleanup.** The preflight looks at every intent and the execution at one after
another, while strangers come and go between the looks. `Ordered` says that nothing
has been changed unless all intents were found ready and that what lies behind the
run is cleared; `Authorized` that what is about to be moved or taken apart is the
intent's own, which is what the second look and the comparison at the rename buy.
`DischargedClean` and the part of `ForeignAlwaysKept` about cleanups follow, whatever
the costs, the reserve and the capacity are: they decide when a run gives up, never
what it may touch. That the reserve suffices is a sum over intents, a fold, and stays
with TLC. Assumption: each destination lies beneath the root it is bound to, and
the other constants have the types that their comments say.

**ProtectedInvocation.** Rows that are there together cover different documents
(`Apart`), a pipe belongs to a helper and a live group to this boot (`backed`), who
works has the lease, and each step of an invocation or of a settlement knows what
the look before it established (`starting`, `settling`, `told`). Commands, reboots and
users act without the lease; the proof shows that none of them takes back what a
process knows, except through `touched`.

**ProcessGroup.** The invariant relates the three goroutines and the termination: the leader is gone once
`Wait` is past it and the termination is over only when the group is empty
(`groupKnown`); whoever says that the context ended says how (`contextKnown`); before
that nobody terminates a command that was not waited for (`terminationDue`); and
what the caller goes on with is what `Wait` returned or a wait given up after the
context's end (`exitKnown`).

**WorkBudget.** `IInv` says that the counter `used` is the holder's own spending plus
what is reserved and what was handed on, that nothing is granted before its phase
begins, and how handles and dispositions correspond to phases. A sum over phases is
a fold, whose recursion cannot be reasoned about here; `Total` therefore adds the
fixed phases of the code one by one, and two lemmas say how it changes when one
phase does. `ClientAssumption` is what the callers keep to: an operation whose
cleanup runs on the budget itself does not also reserve a lifecycle for it.

**Refresh.** Each step of a run is said to know where the root, the token and the lease
are (`Placed`), what its attempt has come to and what of it is reported (`Followed`),
and what it has read (`Looked`). The property to be reached, that what is started is
what was shown and what is written over is what was read, has to survive users who
edit while a run reads in several steps. `Looked` therefore says that a statefile that
changed under the lease only got a new version (`since`), that what differs from what
the revisions were taken of was edited, and that an edit that was made and taken back
was two. `Calm` says that without edits all that was read is what is there, and
`Unhurt` that an attempt of which nothing failed is on record and stays there; other
runs and commands keep the record because they need the lease. `StartsDisclosed`
excepts declarations that were changed and changed back between the two readings,
which the code cannot notice, and an edit by hand always gives the statefile a version
of its own.

**CarrierLife.** A relation shows up in three places that are written one after another:
host, statefile, registry. Whoever has left planning at global scope has the
registry's lease (`LeaseHeld`), so that the claims of others do not change under a
run; `InPlace` says which steps each kind of plan takes, and at which scope. `GivingUp`
is what a removal relies on until its last write (nobody else claims the pin that is
taken away; after the command the host no longer has what this manifest installed),
`TakingUp` what an install, a change of pin or an adoption relies on (the statefile
names the install before the host's command; a reserved pin is completed only when
the host has it or its user has changed it since). Users edit and declare
between any two steps; `NobodysGap` says that what is not there was put there by
nobody. The assumption on the constants is that manifests of global scope share one
site and the others have one each.

A proof found that some alternatives of `CASE` definitions overlapped, where TLA+
leaves open which one counts and TLC takes the first; they exclude each other now.

**Only model-checked.** Liveness under fairness and `ENABLED`, which are out of the
provers' reach. All properties of `StateBarrier` and `EffectPlan`: demand and cursor
are recursive over plans, and neither recursive operators nor induction over data
can be used in a proof here. For the same reason the properties of `RootedPath`, whose
walk is a recursive operator, and that the reserve of a removal's cleanup suffices,
which is a fold over the intents. The properties of `ImportWrite`, for which there is no
proof yet. And that locks contend *only* if requests conflict: the converse of
`ConflictsContend` is about performance and is checked for small requests by
`NormalizeExact`.

## 6. Findings

Nine statements of the documentation, of a comment, a test or an error message are
violated by what the code does; a configuration for each ends in the
counterexample.

* `MCJournaledApplyRollback` (`HostChangesRolledBack`): an apply that only re-creates
  missing outputs leaves the statefile as it is. When it fails after some of them,
  the guarded rollback finds the written ones clean, restores nothing, and the
  outcome is still reported as rolled back.
* `MCJournaledApplyLapse` (`CleanAfterOwned`): promotion passes over an intent whose
  file is not visible at that moment. If the file comes back before the journal is
  retired, the output is managed without a claim.
* `apply_release` (`InterruptedNotTaken`): claims are reserved after the journal is
  published and released before it is retired. Another project can take the output
  of an interrupted apply in these windows, and the recovery of the first is then
  blocked.
* `MCCarrierLifeByHand` (`OnlyOwnRemoved`): a pending install is completed from any
  later exact observation. A relation that the user installed by hand meanwhile is
  claimed as daem's and taken away when its declaration is omitted.
* `MCRemovalCleanupRecover` (`ReserveSuffices`): the cleanup of an executing recovery
  runs inside what was reserved for its lifecycle, but its preflight also reserves a
  storage envelope that is not part of it. One file at depth 3 is enough for it to
  be refused, after the effects and for good.
* `MCRemovalCleanupDeep` (`ReserveSuffices`): the acquisition of a removal slot
  validates the root three times, two are reserved. From depth 14, two levels beneath
  the root, the run is refused.
* `MCRemovalCleanupPlan` (`AlwaysPlannable`): an aggregate charge is refused above 256,
  the limit on the depth of one path, so that the cleanup of a tree at depth 6 cannot
  be planned.
* `import_replaced` (`ReplacementKept`): the identity of an imported source is read
  from its path after the commit. A replacement made before this is taken for the
  import's own, and the rollback removes it.
* `MCPathsRecreated` (`ParentsTakenBack`): a test says that a parent which is removed
  after it was prepared, and which the copy of a skill creates anew, is taken back. If
  it is removed after the last `PrepareParent`, the commit of the tree creates it in an
  anchor of its own, which is closed without being handed to `AncestorCleanup`. After a
  later failure the directory stays, and the error does not name it.

`docs/state-and-recovery.md` also gives 524,288 path visits as a limit where
`physicalwork` has 64 Mi components.

## 7. What comes next

1. Proofs for `ImportWrite`, with the constants of `MCPaths` left to configurations as
   `MCWorkflows` and `MCStorage` do, and for `RootedPath`, whose walk would have to be
   written without a recursive operator.
2. Managed aggregates and removals in `JournaledApply`.

## 8. Not modelled

The contents of files, codecs, hashes and fingerprints are values that are equal
or not. Manifest, topology, realization and reconciliation beyond the decision for
one managed path are pure data transformation. What host programs do is outside
the repository and a nondeterministic choice. The Windows backends are left out
everywhere. On network file systems leases do not exclude across nodes
(`docs/concepts.md`), and a writer that is not daem can change a file between daem's
last look and its rename (`docs/state-and-recovery.md`): `FileSet` has this window,
`JournaledApply` leaves it out and takes check and write as one step. The lock and
init workflows write one file each through the storage commits; the read-only
workflows and the command line keep no state. `PROJECT.json` says for each component
what is left out and why.
