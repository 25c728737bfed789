------------------------------- MODULE ImportWrite -------------------------------
(***************************************************************************)
(* `daem import' copies what it finds on the host into source files and       *)
(* writes a manifest that refers to them (internal/workflow/adopt).  There is *)
(* no journal: an import that fails takes back what it has created.  That      *)
(* includes the directories above its files, which another import or another  *)
(* program may have begun to use, to move or to replace meanwhile; the rules   *)
(* for them are those of the stable commits (anchor_unix.go,                  *)
(* ancestor_publish_unix.go, cleanup_unix.go and parent_unix.go of            *)
(* internal/effect/storage/commit).  A file is committed with AncestorCleanup,  *)
(* which remembers the directories that had to be created; a tree is committed *)
(* beneath a root that is captured for it, by a commit that remembers nothing  *)
(* (rooted_tree_unix.go).                                                     *)
(*                                                                         *)
(* The tree has a directory D in the root for the manifests and a directory E *)
(* in D for the sources; each import has a manifest ("output") and a source of *)
(* its own.  Objects are numbers, 0 stands for no entry, 1 is the root.       *)
(* The tree that is imported is a `file' here: nobody looks for entries in it. *)
(* Other programs do not touch the private names of stages and temporaries.    *)
(***************************************************************************)
EXTENDS Naturals, SequencesExt

CONSTANTS
    Imports,
    Process,   \* of each import
    Skills,    \* the imports whose source is a tree
    Merging,   \* the imports into a manifest that exists
    Limit

Events == {"fault", "foreign"}

ImportAssumption == /\ Skills \subseteq Imports /\ Merging \subseteq Imports
                           /\ DOMAIN Process = Imports
                           /\ Limit \in [Events -> Nat]

Other == "other"
D == <<"D">>
E == <<"E">>
Aside == <<"aside">>       \* where another program moves a directory to
Theirs == <<"theirs">>     \* a file that another program keeps in a directory
Stage(a) == <<"stage", a>>
Temporary(a) == <<"temporary", a>>
Name(of, a) == <<of, a>>

VARIABLES
    node,    \* the objects: kind, maker, the path where they were made, revision, entries
    live,    \* the revision of what each import copies from the host
    imp,     \* the imports
    hurt,    \* (history) imports whose source another program has changed or moved
    raced,   \* (history) imports that another program overtook between look and effect
    outdated, \* (history) imports whose host files changed before they were confirmed
    used     \* events so far

vars == <<node, live, imp, hurt, raced, outdated, used>>

Steps == {"idle", "revalidate", "absent", "bind", "root", "walk", "opening", "create", "publish", "concurrent",
          "published", "verify", "sync", "prepared", "target", "identity", "destination",
          "recheck", "commit", "landed", "stage", "populate", "vacant", "released",
          "discard", "capture", "validate", "undo", "undo rmdir", "rollback", "remove", "empty", "unlink", "gone", "done"}

Paths == {"D", "E", "source", "output"}

(* `chain' are the directories that are open, the first `root' of them the captured root of a
   tree, `v' how many are verified and `then' the step that follows, `look' is what was seen under a name, `lock' the directory in which
   this process publishes, `temp' the stage or the temporary file, `expected' what a
   replacement replaces; `owned' is AncestorCleanup, `loose' (history) what the commit of a
   tree has created, `made' the source that rollback removes, `i' the place of a cleanup or of
   a search upwards, `told' what the error names. *)
Import == [step : Steps, then : Steps, task : Nat, removing : BOOLEAN,
           chain : Seq([name : {D, E}, object : Nat, created : BOOLEAN]),
           root : Nat, v : Nat, look : Nat, lock : Nat, temp : Nat, expected : Nat \X Nat,
           owned : Seq([path : Seq({D, E}), object : Nat]), loose : SUBSET Nat, made : Nat \X Nat,
           i : Nat, told : SUBSET Paths, seen : [output : Nat \X Nat, live : Nat],
           kept : BOOLEAN, result : {"", "imported", "failed", "unknown"}]

owned(a) == {imp[a].owned[k].object : k \in DOMAIN imp[a].owned}

TypeOK ==
    /\ \A o \in DOMAIN node :
        /\ node[o].kind \in {"directory", "file"} /\ node[o].by \in Imports \cup {Other}
        /\ node[o].home \in Paths /\ node[o].rev \in Nat
        /\ \A n \in DOMAIN node[o].in : node[o].in[n] \in DOMAIN node
        /\ node[o].kind = "file" => node[o].in = << >>
    /\ live \in [Imports -> Nat]
    /\ imp \in [Imports -> Import]
    /\ \A a \in Imports : \A o \in owned(a) \cup imp[a].loose : node[o].by = a
    /\ hurt \subseteq Imports /\ raced \subseteq Imports /\ outdated \subseteq Imports
    /\ used \in [Events -> Nat]

Nothing == <<0, 0>>

Idle == [step |-> "idle", then |-> "idle", task |-> 1, removing |-> FALSE, chain |-> << >>,
         root |-> 0, v |-> 0, look |-> 0, lock |-> 0, temp |-> 0, expected |-> Nothing,
         owned |-> << >>, loose |-> {}, made |-> Nothing, i |-> 0, told |-> {}, seen |-> [output |-> Nothing, live |-> 0],
         kept |-> FALSE, result |-> ""]

Object(kind, by, home) == [kind |-> kind, by |-> by, home |-> home, rev |-> 0, in |-> << >>]
Enter(nodes, o, n, x) == [nodes EXCEPT ![o].in = (n :> x) @@ @]
Leave(nodes, o, n) == [nodes EXCEPT ![o].in = Restrict(@, DOMAIN @ \ {n})]
New(nodes, object, o, n) == Enter(Append(nodes, object), o, n, Len(nodes) + 1)

Root == <<Object("directory", Other, "D")>>
WithD == New(Root, Object("directory", Other, "D"), 1, D)
WithE == New(WithD, Object("directory", Other, "E"), 2, E)

(* A manifest to merge into. *)
WithOutput(nodes, a) == New(nodes, Object("file", Other, "output"), 2, Name("output", a))

Init ==
    /\ IF Merging = {} THEN node \in {Root, WithD, WithE}
       ELSE \E a \in Merging : Merging = {a} /\ node \in {WithOutput(WithD, a), WithOutput(WithE, a)}
    /\ live = [a \in Imports |-> 0]
    /\ imp = [a \in Imports |-> Idle]
    /\ hurt = {} /\ raced = {} /\ outdated = {}
    /\ used = [e \in Events |-> 0]

Spend(e) == /\ used[e] < Limit[e]
            /\ used' = [used EXCEPT ![e] = @ + 1]

-----------------------------------------------------------------------------
(* The tree *)

At(o, n) == IF o # 0 /\ n \in DOMAIN node[o].in THEN node[o].in[n] ELSE 0

Linked(o) == o = 1 \/ \E p \in DOMAIN node : \E n \in DOMAIN node[p].in : node[p].in[n] = o

Empty(o) == node[o].in = << >>

(* The directory of a manifest or a source. *)
AtPath(names) == FoldLeft(At, 1, names)
parents(of) == IF of = "output" THEN <<D>> ELSE <<D, E>>
Place(of) == AtPath(parents(of))
There(of, a) == At(Place(of), Name(of, a))

(* An entry with its revision. *)
Stamp(o) == IF o = 0 THEN Nothing ELSE <<o, node[o].rev>>

-----------------------------------------------------------------------------
(* Where an import is *)

Prepare(of) == [op |-> "prepare", of |-> of]
Commit(of) == [op |-> "commit", of |-> of]

(* writePlan: all parents first, then the sources, and the manifest last.  Before a tree is
   copied nothing may be there, and its parent is prepared once more. *)
Tasks(a) == <<Prepare("output"), Prepare("source")>>
            \o (IF a \in Skills THEN <<[op |-> "absent", of |-> "source"], Prepare("source")>>
                ELSE << >>)
            \o <<Commit("source"), [op |-> "validate", of |-> "output"], Commit("output")>>

Task(a) == Tasks(a)[imp[a].task]
Replacing(a) == Task(a).of = "output" /\ a \in Merging
file(a) == Name(Task(a).of, a)

(* The directories to open: the parents of a file, or of a directory to be removed. *)
Goal(a) == IF imp[a].removing THEN Front(imp[a].owned[imp[a].i].path)
           ELSE parents(Task(a).of)

parentOf(chain, k) == IF k = 1 THEN 1 ELSE chain[k - 1].object
parent(a) == parentOf(imp[a].chain, Len(imp[a].chain) + 1)
next(a) == Goal(a)[Len(imp[a].chain) + 1]
atStep(a, step) == imp[a].step = step

(* The commit of a tree (PreparedRootedTree), which has a stage from "populate" on. *)
isTree(a, task) == a \in Skills /\ task = Commit("source")
treeCommit(a) == ~imp[a].removing /\ isTree(a, Task(a))
prepared(a) == treeCommit(a) /\ imp[a].temp # 0 /\ node[imp[a].temp].kind = "file"

Label(n) == n[1]
createdPaths(a) == {Label(imp[a].chain[k].name) : k \in {j \in DOMAIN imp[a].chain : imp[a].chain[j].created}}

opened(a, o, created) ==
    [imp[a] EXCEPT !.look = 0, !.temp = 0,
                   !.chain = Append(@, [name |-> next(a), object |-> o, created |-> created])]

GoOn(a, p) == imp' = [imp EXCEPT ![a] = p]
GoTo(a, step) == GoOn(a, [imp[a] EXCEPT !.step = step])

(* The next directory, or the verification of all of them. *)
verifying(p, then) == [p EXCEPT !.step = "verify", !.v = 0, !.then = then]
walked(a, p) == IF Len(p.chain) < Len(Goal(a)) THEN [p EXCEPT !.step = "walk"]
                ELSE IF treeCommit(a) THEN [p EXCEPT !.step = "stage"]
                ELSE verifying(p, IF p.removing THEN "empty"
                                  ELSE IF Task(a).op = "prepare" THEN "sync" ELSE "destination")

others == <<live, hurt, raced, outdated>>

(* capture: the directories that this task has created belong to the import.  The commit of a
   tree closes them instead (releaseLocked). *)
captured(a) ==
    LET p == imp[a]
        created == SelectSeq([k \in DOMAIN p.chain |-> k], LAMBDA k : p.chain[k].created)
        entries == [j \in DOMAIN created |->
                        [path |-> [k \in 1 .. created[j] |-> p.chain[k].name],
                         object |-> p.chain[created[j]].object]]
        closed == [p EXCEPT !.chain = << >>, !.root = 0, !.temp = 0, !.look = 0]
    IN  IF treeCommit(a)
        THEN [closed EXCEPT !.loose = @ \cup {entries[j].object : j \in DOMAIN entries}]
        ELSE [closed EXCEPT !.owned = @ \o entries]

-----------------------------------------------------------------------------
(* Planning *)

Plan(a) ==
    /\ atStep(a, "idle")
    /\ (There("output", a) # 0) = (a \in Merging)
    /\ GoOn(a, [imp[a] EXCEPT !.step = "revalidate",
                              !.seen = [output |-> Stamp(There("output", a)), live |-> live[a]]])
    /\ UNCHANGED <<node, others, used>>

current(a) == imp[a].seen = [output |-> Stamp(There("output", a)), live |-> live[a]]

end(p) == [p EXCEPT !.step = "done", !.result = IF p.kept THEN "unknown" ELSE "failed"]

(* begin a task, or end the import *)
started(a, p) ==
    IF p.task > Len(Tasks(a)) THEN [p EXCEPT !.step = "done", !.result = "imported"]
    ELSE [p EXCEPT !.step = CASE Tasks(a)[p.task].op = "validate" -> "validate"
                              [] Tasks(a)[p.task].op = "absent" -> "absent"
                              [] isTree(a, Tasks(a)[p.task]) -> "bind"
                              [] Tasks(a)[p.task] = Commit("output") /\ a \in Merging -> "target"
                              [] OTHER -> "walk"]

(* executeCommandPlan: under the leases everything is observed again. *)
Revalidate(a) ==
    /\ atStep(a, "revalidate")
    /\ GoOn(a, IF current(a) THEN started(a, imp[a]) ELSE end(imp[a]))
    /\ UNCHANGED <<node, others, used>>

-----------------------------------------------------------------------------
(* Failing *)

private(a) == IF node[imp[a].temp].kind = "directory" THEN Stage(a) ELSE Temporary(a)

(* The stage or the temporary goes, then the created directories. *)
discarded(a) == IF imp[a].temp = 0 THEN node ELSE Leave(node, parent(a), private(a))

undoing(a) == [imp[a] EXCEPT !.step = "undo", !.i = Len(imp[a].chain), !.temp = 0, !.lock = 0]

(* failFileBeforeVisibility; failBeforeVisibilityLocked verifies the chain of a tree first. *)
FailBefore(a) ==
    IF prepared(a) THEN GoOn(a, verifying(imp[a], "discard")) /\ UNCHANGED node
    ELSE GoOn(a, undoing(a)) /\ node' = discarded(a)

(* Mutant: the sources are rolled back although the manifest may be there. *)
failedPlain(a, told) ==
    [captured(a) EXCEPT !.step = "rollback", !.lock = 0, !.told = @ \cup told]

(* Nothing more is done about this task; the manifest may be there if it is the last one. *)
failed(a, told) ==
    LET p == captured(a)
        kept == Task(a) = Commit("output")
    IN  [p EXCEPT !.step = "rollback", !.kept = kept, !.lock = 0, !.told = @ \cup told]

FailAfter(a, told) == GoOn(a, LET p == failed(a, told) IN IF p.kept THEN end(p) ELSE p)

(* A failure of a task that leaves nothing in doubt is followed by the rollback. *)
givenUp(a) == [captured(a) EXCEPT !.step = "rollback"]

Told(p, path) == [p EXCEPT !.told = @ \cup {path}]

-----------------------------------------------------------------------------
(* Opening and creating directories *)

(* openChildDirectoryWithMode *)
Walk(a) ==
    LET x == At(parent(a), next(a))
    IN  /\ atStep(a, "walk")
        /\ x # 0 \/ ~imp[a].removing
        /\ GoOn(a, IF x = 0 THEN [imp[a] EXCEPT !.step = "create"]
                   ELSE [imp[a] EXCEPT !.step = "opening", !.look = x])
        /\ UNCHANGED <<node, others, used>>

bound(a, k) == At(parentOf(imp[a].chain, k), imp[a].chain[k].name)

(* ValidateDirectoryHandle: the captured root of a tree is still at its path. *)
rooted(a) == \A k \in 1 .. imp[a].root : bound(a, k) = imp[a].chain[k].object

(* openObservedChildDirectory *)
Open(a) ==
    /\ atStep(a, "opening")
    /\ At(parent(a), next(a)) = imp[a].look /\ rooted(a)
    /\ GoOn(a, LET p == [opened(a, imp[a].look, FALSE) EXCEPT !.lock = 0] IN walked(a, p))
    /\ UNCHANGED <<node, others, used>>

OpenChanged(a) ==
    /\ atStep(a, "opening") /\ ~imp[a].removing
    /\ At(parent(a), next(a)) # imp[a].look \/ ~rooted(a)
    /\ FailBefore(a) /\ UNCHANGED <<others, used>>

(* lockAncestorPublication: one at a time in a process and a directory. *)
unlocked(a) == \A b \in Imports : Process[b] = Process[a] => imp[b].lock # parent(a)

(* createAndPublishChildDirectory, up to the stage. *)
Create(a) ==
    LET x == At(parent(a), next(a))
    IN  /\ atStep(a, "create") /\ unlocked(a)
        /\ x # 0 \/ (Linked(parent(a)) /\ rooted(a))
        /\ IF x # 0 THEN /\ GoOn(a, [imp[a] EXCEPT !.step = "opening", !.look = x, !.lock = parent(a)])
                         /\ UNCHANGED node
           ELSE /\ node' = New(node, Object("directory", a, Label(next(a))), parent(a), Stage(a))
                /\ GoOn(a, [imp[a] EXCEPT !.step = "publish", !.temp = Len(node) + 1, !.lock = parent(a)])
        /\ UNCHANGED <<others, used>>

(* Nothing can be created in a directory that has been removed; a stage outside the captured
   root is taken back at once. *)
CreateRefused(a) ==
    /\ atStep(a, "create") /\ unlocked(a)
    /\ At(parent(a), next(a)) = 0 /\ ~(Linked(parent(a)) /\ rooted(a))
    /\ FailBefore(a) /\ UNCHANGED <<others, used>>

staged(a) == Enter(Leave(node, parent(a), Stage(a)), parent(a), next(a), imp[a].temp)

(* renameNoReplace of the stage *)
Publish(a) ==
    LET x == At(parent(a), next(a))
    IN  /\ atStep(a, "publish")
        /\ IF x = 0 THEN /\ node' = staged(a)
                         /\ GoOn(a, [opened(a, imp[a].temp, TRUE) EXCEPT !.step = "published"])
           ELSE /\ node' = discarded(a)
                /\ GoOn(a, [imp[a] EXCEPT !.step = "concurrent", !.temp = 0])
        /\ UNCHANGED <<others, used>>

(* The directory that somebody else has created is opened instead. *)
Concurrent(a) ==
    LET x == At(parent(a), next(a))
    IN  /\ atStep(a, "concurrent")
        /\ IF x # 0 THEN GoOn(a, [imp[a] EXCEPT !.step = "opening", !.look = x]) /\ UNCHANGED node
           ELSE FailBefore(a)
        /\ UNCHANGED <<others, used>>

Published(a) ==
    LET k == Len(imp[a].chain)
    IN  /\ atStep(a, "published")
        /\ IF bound(a, k) = imp[a].chain[k].object
           THEN GoOn(a, walked(a, [imp[a] EXCEPT !.lock = 0])) /\ UNCHANGED node
           ELSE FailBefore(a)
        /\ UNCHANGED <<others, used>>

(* verifyChain, one name at a time *)
Verify(a) ==
    LET k == imp[a].v + 1
    IN  /\ atStep(a, "verify")
        /\ \/ /\ k > Len(imp[a].chain) /\ GoTo(a, imp[a].then)
           \/ /\ k \in DOMAIN imp[a].chain /\ bound(a, k) = imp[a].chain[k].object
              /\ GoOn(a, IF k = Len(imp[a].chain) THEN [imp[a] EXCEPT !.step = imp[a].then]
                         ELSE [imp[a] EXCEPT !.v = k])
        /\ UNCHANGED <<node, others, used>>

broken(a) == LET k == imp[a].v + 1
             IN  k \in DOMAIN imp[a].chain /\ bound(a, k) # imp[a].chain[k].object

(* A chain that has changed fails the task, before or after its effect is visible; then, and
   before the stage of a tree is discarded, everything is left as it is. *)
visible(a) == imp[a].then \in {"prepared", "landed", "released", "discard"}

VerifyFails(a) ==
    /\ atStep(a, "verify") /\ ~imp[a].removing /\ broken(a)
    /\ IF visible(a)
       THEN FailAfter(a, IF Task(a).op = "commit" THEN {Task(a).of} ELSE {}) /\ UNCHANGED node
       ELSE FailBefore(a)
    /\ UNCHANGED <<others, used>>

-----------------------------------------------------------------------------
(* Tasks *)

nextTask(a) == started(a, [captured(a) EXCEPT !.task = @ + 1])

(* prepareCommitParentWithFaults; a commit goes on from its own "sync" *)
Sync(a) ==
    /\ atStep(a, "sync")
    /\ GoOn(a, verifying(imp[a], CASE Task(a).op = "prepare" -> "prepared"
                                   [] treeCommit(a)         -> "released"
                                   [] OTHER                 -> "landed"))
    /\ UNCHANGED <<node, others, used>>

PrepareParent(a) ==
    /\ atStep(a, "prepared")
    /\ GoOn(a, nextTask(a))
    /\ UNCHANGED <<node, others, used>>

(* commitExistingImportFile: the manifest is looked at once more, and then identified. *)
ValidateTarget(a) ==
    /\ atStep(a, "target")
    /\ GoOn(a, IF imp[a].seen.output = Stamp(There("output", a)) THEN [imp[a] EXCEPT !.step = "identity"]
               ELSE givenUp(a))
    /\ UNCHANGED <<node, others, used>>

CaptureTarget(a) ==
    LET x == There("output", a)
    IN  /\ atStep(a, "identity")
        /\ GoOn(a, IF x = 0 THEN givenUp(a) ELSE [imp[a] EXCEPT !.step = "walk", !.expected = Stamp(x)])
        /\ UNCHANGED <<node, others, used>>

(* validateFileDestination *)
admissible(a) == Stamp(At(parent(a), file(a))) = IF Replacing(a) THEN imp[a].expected ELSE Nothing

(* createTemporaryFile *)
CreateTemporary(a) ==
    /\ atStep(a, "destination")
    /\ IF admissible(a) /\ Linked(parent(a))
       THEN /\ node' = New(node, Object("file", a, Task(a).of), parent(a), Temporary(a))
            /\ GoOn(a, verifying([imp[a] EXCEPT !.temp = Len(node) + 1],
                                 IF Replacing(a) THEN "recheck" ELSE "commit"))
       ELSE FailBefore(a)
    /\ UNCHANGED <<others, used>>

Recheck(a) ==
    /\ atStep(a, "recheck")
    /\ IF admissible(a) THEN GoOn(a, verifying(imp[a], "commit")) /\ UNCHANGED node
       ELSE FailBefore(a)
    /\ UNCHANGED <<others, used>>

renamed(a) == Enter(Leave(node, parent(a), Temporary(a)), parent(a), file(a), imp[a].temp)

(* renameNoReplace, or renameReplace for a manifest that is merged into *)
CommitEntry(a) ==
    /\ atStep(a, "commit")
    /\ IF Replacing(a) \/ At(parent(a), file(a)) = 0
       THEN /\ node' = renamed(a)
            /\ IF treeCommit(a) THEN GoOn(a, verifying(imp[a], "landed")) ELSE GoTo(a, "sync")
       ELSE FailBefore(a)
    /\ UNCHANGED <<others, used>>

(* verifyCommittedFile; of a tree it is enough that it is the same object. *)
landed(a) == LET x == At(parent(a), file(a))
             IN  IF treeCommit(a) THEN x = imp[a].temp ELSE Stamp(x) = <<imp[a].temp, 0>>

Landed(a) ==
    /\ atStep(a, "landed")
    /\ IF ~landed(a) THEN FailAfter(a, {Task(a).of})
       ELSE IF treeCommit(a) THEN GoTo(a, "sync")
       ELSE IF Task(a).of = "source" THEN GoOn(a, [captured(a) EXCEPT !.step = "capture"])
       ELSE GoOn(a, nextTask(a))
    /\ UNCHANGED <<node, others, used>>

(* captureCreatedImportPath *)
Capture(a) ==
    LET x == There("source", a)
    IN  /\ atStep(a, "capture")
        /\ GoOn(a, IF x = 0 THEN Told(givenUp(a), "source")
                   ELSE started(a, [imp[a] EXCEPT !.made = Stamp(x), !.task = @ + 1]))
        /\ UNCHANGED <<node, others, used>>

(* validateStable *)
ValidateStable(a) ==
    /\ atStep(a, "validate")
    /\ GoOn(a, IF current(a) THEN nextTask(a) ELSE givenUp(a))
    /\ UNCHANGED <<node, others, used>>

-----------------------------------------------------------------------------
(* The commit of a tree *)

(* pathExists *)
RequireAbsent(a) ==
    /\ atStep(a, "absent")
    /\ GoOn(a, IF There("source", a) = 0 THEN nextTask(a) ELSE givenUp(a))
    /\ UNCHANGED <<node, others, used>>

(* CaptureDestination: the parents are tried upwards; the first one that is there becomes the
   root of the commit, unless it goes before it is opened. *)
candidate(a) == SubSeq(Goal(a), 1, Len(Goal(a)) - imp[a].i)

Bind(a) ==
    /\ atStep(a, "bind")
    /\ GoOn(a, IF AtPath(candidate(a)) = 0 THEN [imp[a] EXCEPT !.i = @ + 1]
               ELSE [imp[a] EXCEPT !.step = "root"])
    /\ UNCHANGED <<node, others, used>>

CaptureRoot(a) ==
    LET names == candidate(a)
        chain == [k \in DOMAIN names |-> [name |-> names[k], object |-> AtPath(SubSeq(names, 1, k)),
                                         created |-> FALSE]]
        p == [imp[a] EXCEPT !.i = 0]
    IN  /\ atStep(a, "root")
        /\ GoOn(a, IF AtPath(names) = 0 THEN [givenUp(a) EXCEPT !.i = 0]
                   ELSE verifying([p EXCEPT !.chain = chain, !.root = Len(names)],
                                  IF names = Goal(a) THEN "stage" ELSE "walk"))
        /\ UNCHANGED <<node, others, used>>

(* createPreparedRootedTree *)
StageTree(a) ==
    /\ atStep(a, "stage")
    /\ IF Linked(parent(a))
       THEN /\ node' = New(node, Object("file", a, "source"), parent(a), Temporary(a))
            /\ GoOn(a, [imp[a] EXCEPT !.step = "populate", !.temp = Len(node) + 1])
       ELSE FailBefore(a)
    /\ UNCHANGED <<others, used>>

(* CopyVerifiedWithLimits: what is copied must be what was planned. *)
Populate(a) ==
    /\ atStep(a, "populate")
    /\ IF live[a] = imp[a].seen.live THEN GoOn(a, verifying(imp[a], "vacant")) /\ UNCHANGED node
       ELSE FailBefore(a)
    /\ UNCHANGED <<others, used>>

(* requireDestinationAbsentLocked, of whose rounds the last one counts *)
RequireVacant(a) ==
    /\ atStep(a, "vacant")
    /\ IF At(parent(a), file(a)) = 0 THEN GoTo(a, "commit") /\ UNCHANGED node ELSE FailBefore(a)
    /\ UNCHANGED <<others, used>>

(* releaseLocked *)
Released(a) ==
    /\ atStep(a, "released")
    /\ GoOn(a, [captured(a) EXCEPT !.step = "capture"])
    /\ UNCHANGED <<node, others, used>>

(* cleanupStageLocked: the stage stays if the chain is found changed while it is removed. *)
Discard(a) ==
    /\ atStep(a, "discard")
    /\ \/ node' = discarded(a) /\ GoOn(a, undoing(a))
       \/ /\ \E k \in DOMAIN imp[a].chain : bound(a, k) # imp[a].chain[k].object
          /\ GoOn(a, Told(undoing(a), "source")) /\ UNCHANGED node
    /\ UNCHANGED <<others, used>>

-----------------------------------------------------------------------------
(* Undoing: the directories of the task that failed, last one first *)

last(a) == imp[a].chain[imp[a].i]
undone(a) == [imp[a] EXCEPT !.step = "undo", !.i = @ - 1]

(* cleanupCreatedAncestors *)
Undo(a) ==
    /\ atStep(a, "undo")
    /\ GoOn(a, IF imp[a].i = 0 THEN givenUp(a)
               ELSE IF ~last(a).created \/ bound(a, imp[a].i) = 0 THEN undone(a)
               ELSE IF bound(a, imp[a].i) # last(a).object THEN Told(undone(a), Label(last(a).name))
               ELSE [imp[a] EXCEPT !.step = "undo rmdir"])
    /\ UNCHANGED <<node, others, used>>

UndoRmdir(a) ==
    LET x == bound(a, imp[a].i)
    IN  /\ atStep(a, "undo rmdir")
        /\ IF x # 0 /\ Empty(x)
           THEN /\ node' = Leave(node, parentOf(imp[a].chain, imp[a].i), last(a).name)
                /\ GoOn(a, undone(a))
           ELSE UNCHANGED node /\ GoOn(a, Told(undone(a), Label(last(a).name)))
        /\ UNCHANGED <<others, used>>

(* The deferred function of writePlan: the source, if it is as it was when it was created. *)
removable(a) == There("source", a) # 0 /\ Stamp(There("source", a)) = imp[a].made

removal(a, p) == [p EXCEPT !.step = "remove", !.removing = TRUE, !.i = Len(p.owned)]

(* Mutant: the source is taken for the one that was created. *)
RollbackAny(a) ==
    /\ atStep(a, "rollback")
    /\ IF There("source", a) # 0 /\ imp[a].made # Nothing
       THEN node' = Leave(node, Place("source"), Name("source", a)) ELSE UNCHANGED node
    /\ GoOn(a, removal(a, imp[a]))
    /\ UNCHANGED <<others, used>>

Rollback(a) ==
    /\ atStep(a, "rollback")
    /\ IF imp[a].made # Nothing /\ removable(a)
       THEN node' = Leave(node, Place("source"), Name("source", a)) /\ GoOn(a, removal(a, imp[a]))
       ELSE /\ UNCHANGED node
            /\ GoOn(a, LET p == removal(a, imp[a])
                       IN  IF imp[a].made # Nothing /\ There("source", a) # 0 THEN Told(p, "source") ELSE p)
    /\ UNCHANGED <<others, used>>

-----------------------------------------------------------------------------
(* RemoveEmpty *)

entry(a) == imp[a].owned[imp[a].i]
removed(a) == [imp[a] EXCEPT !.step = "remove", !.i = @ - 1, !.chain = << >>, !.look = 0]
refused(a) == Told(removed(a), Label(Last(entry(a).path)))
here(a) == At(parent(a), Last(entry(a).path))

(* Mutant: a directory that is not at its path counts as removed. *)
missingIgnored(a) == removed(a)

(* classifyMissingCreatedDirectory: it may have been moved. *)
missing(a) == IF Linked(entry(a).object) THEN refused(a) ELSE removed(a)

RemoveEmpty(a) ==
    /\ atStep(a, "remove")
    /\ GoOn(a, IF imp[a].i = 0 THEN end(imp[a]) ELSE walked(a, imp[a]))
    /\ UNCHANGED <<node, others, used>>

RemoveMissing(a) ==
    /\ imp[a].removing
    /\ \/ atStep(a, "walk") /\ At(parent(a), next(a)) = 0
       \/ atStep(a, "opening") /\ At(parent(a), next(a)) = 0
       \/ atStep(a, "verify") /\ broken(a) /\ bound(a, imp[a].v + 1) = 0 /\ imp[a].then # "gone"
       \/ atStep(a, "empty") /\ here(a) = 0
    /\ GoOn(a, missing(a))
    /\ UNCHANGED <<node, others, used>>

RemoveRefused(a) ==
    /\ imp[a].removing
    /\ \/ atStep(a, "opening") /\ At(parent(a), next(a)) \notin {0, imp[a].look}
       \/ atStep(a, "verify") /\ broken(a) /\ (bound(a, imp[a].v + 1) # 0 \/ imp[a].then = "gone")
       \/ atStep(a, "empty") /\ here(a) # 0 /\ (here(a) # entry(a).object \/ ~Empty(here(a)))
    /\ GoOn(a, refused(a))
    /\ UNCHANGED <<node, others, used>>

(* requireEmptyCreatedDirectory *)
RequireEmpty(a) ==
    /\ atStep(a, "empty")
    /\ here(a) = entry(a).object /\ Empty(here(a))
    /\ GoOn(a, verifying(imp[a], "unlink"))
    /\ UNCHANGED <<node, others, used>>

Unlink(a) ==
    /\ atStep(a, "unlink")
    /\ IF here(a) # 0 /\ Empty(here(a))
       THEN /\ node' = Leave(node, parent(a), Last(entry(a).path))
            /\ GoOn(a, verifying(imp[a], "gone"))
       ELSE UNCHANGED node /\ GoOn(a, refused(a))
    /\ UNCHANGED <<others, used>>

Gone(a) ==
    /\ atStep(a, "gone")
    /\ GoOn(a, IF here(a) = entry(a).object THEN refused(a) ELSE removed(a))
    /\ UNCHANGED <<node, others, used>>

-----------------------------------------------------------------------------
(* Failures of the system, and cancellation *)

FaultBefore(a) ==
    /\ Spend("fault") /\ ~imp[a].removing
    /\ \/ imp[a].step \in {"walk", "opening", "create", "publish", "concurrent", "published",
                           "destination", "recheck", "stage", "populate", "vacant", "commit"}
       \/ atStep(a, "verify") /\ ~visible(a)
       \/ atStep(a, "sync") /\ Task(a).op = "prepare"
    /\ FailBefore(a) /\ UNCHANGED others

(* A rename of which it is unknown whether it has happened *)
FaultUnknown(a) ==
    /\ Spend("fault")
    /\ \/ /\ atStep(a, "publish")
          /\ node' \in {node} \cup (IF At(parent(a), next(a)) = 0 THEN {staged(a)} ELSE {})
          /\ FailAfter(a, createdPaths(a) \cup {Label(next(a))})
       \/ /\ atStep(a, "commit")
          /\ node' \in {node} \cup (IF Replacing(a) \/ At(parent(a), file(a)) = 0 THEN {renamed(a)} ELSE {})
          /\ FailAfter(a, createdPaths(a) \cup {Task(a).of})
    /\ UNCHANGED others

FaultAfter(a) ==
    /\ Spend("fault") /\ ~imp[a].removing
    /\ \/ atStep(a, "verify") /\ visible(a)
       \/ atStep(a, "sync") /\ Task(a).op = "commit"
       \/ atStep(a, "landed")
    /\ FailAfter(a, IF Task(a).op = "commit" THEN {Task(a).of} ELSE {})
    /\ UNCHANGED <<node, others>>

(* While nothing is under way, or in the observations between two tasks *)
FaultBetween(a) ==
    /\ Spend("fault")
    /\ \/ atStep(a, "revalidate") /\ GoOn(a, end(imp[a]))
       \/ /\ imp[a].step \in {"target", "identity", "absent", "bind", "root", "validate"}
          /\ GoOn(a, [givenUp(a) EXCEPT !.i = 0])
       \/ atStep(a, "capture") /\ GoOn(a, Told(givenUp(a), "source"))
    /\ UNCHANGED <<node, others>>

FaultCleanup(a) ==
    /\ Spend("fault")
    /\ \/ /\ imp[a].step \in {"undo", "undo rmdir"} /\ imp[a].i > 0 /\ last(a).created
          /\ GoOn(a, Told(undone(a), Label(last(a).name))) /\ UNCHANGED node
       \/ /\ atStep(a, "discard")
          /\ node' \in {node, discarded(a)} /\ GoOn(a, Told(undoing(a), "source"))
       \/ /\ atStep(a, "rollback") /\ imp[a].made # Nothing /\ There("source", a) # 0
          /\ node' \in {node} \cup (IF removable(a) THEN {Leave(node, Place("source"), Name("source", a))}
                                    ELSE {})
          /\ GoOn(a, Told(removal(a, imp[a]), "source"))
       \/ /\ imp[a].removing /\ imp[a].step \in {"walk", "opening", "verify", "empty", "unlink", "gone"}
          /\ GoOn(a, refused(a)) /\ UNCHANGED node
    /\ UNCHANGED others

-----------------------------------------------------------------------------
(* Other programs *)

(* Between its last look at an entry and its effect an import can be overtaken. *)
exposed(a) == \/ imp[a].step \in {"unlink", "undo rmdir", "identity"}
              \/ atStep(a, "verify") /\ imp[a].then = "unlink"
              \/ a \in Merging /\ "commit" \in {imp[a].step} \cup
                    (IF atStep(a, "verify") THEN {imp[a].then} ELSE {})

Foreign(hit) ==
    /\ Spend("foreign")
    /\ hurt' = hurt \cup hit
    /\ raced' = raced \cup {a \in Imports : exposed(a)}
    /\ UNCHANGED imp

holder(n) == IF n = D THEN 1 ELSE At(1, D)

MakeDirectory(n) ==
    /\ holder(n) # 0 /\ At(holder(n), n) = 0
    /\ node' = New(node, Object("directory", Other, Label(n)), holder(n), n)
    /\ Foreign({}) /\ UNCHANGED <<live, outdated>>

PutFile(n) ==
    /\ At(holder(n), n) # 0 /\ At(At(holder(n), n), Theirs) = 0
    /\ node' = New(node, Object("file", Other, "source"), At(holder(n), n), Theirs)
    /\ Foreign({}) /\ UNCHANGED <<live, outdated>>

MoveDirectory(n) ==
    /\ At(holder(n), n) # 0 /\ At(1, Aside) = 0
    /\ node' = Enter(Leave(node, holder(n), n), 1, Aside, At(holder(n), n))
    /\ Foreign(Imports) /\ UNCHANGED <<live, outdated>>

DeleteDirectory(n) ==
    /\ At(holder(n), n) # 0 /\ Empty(At(holder(n), n))
    /\ node' = Leave(node, holder(n), n)
    /\ Foreign({}) /\ UNCHANGED <<live, outdated>>

EditFile(of, a) ==
    /\ There(of, a) # 0
    /\ node' = [node EXCEPT ![There(of, a)].rev = @ + 1]
    /\ Foreign({a}) /\ UNCHANGED <<live, outdated>>

ReplaceFile(of, a) ==
    /\ Place(of) # 0
    /\ node' = New(node, Object("file", Other, of), Place(of), Name(of, a))
    /\ Foreign({a}) /\ UNCHANGED <<live, outdated>>

DeleteFile(of, a) ==
    /\ There(of, a) # 0
    /\ node' = Leave(node, Place(of), Name(of, a))
    /\ Foreign({a}) /\ UNCHANGED <<live, outdated>>

EditHost(a) ==
    /\ live' = [live EXCEPT ![a] = @ + 1]
    /\ outdated' = outdated \cup {b \in {a} : ~atStep(a, "idle") /\ imp[a].task < Len(Tasks(a))}
    /\ Foreign({}) /\ UNCHANGED node

OtherProgram ==
    \/ \E n \in {D, E} : MakeDirectory(n) \/ PutFile(n) \/ MoveDirectory(n) \/ DeleteDirectory(n)
    \/ \E of \in {"source", "output"}, a \in Imports :
        EditFile(of, a) \/ ReplaceFile(of, a) \/ DeleteFile(of, a)
    \/ \E a \in Imports : EditHost(a)

Step(a) ==
    \/ Revalidate(a) \/ Walk(a) \/ Open(a) \/ OpenChanged(a) \/ Create(a) \/ CreateRefused(a)
    \/ Publish(a) \/ Concurrent(a) \/ Published(a) \/ Verify(a) \/ VerifyFails(a) \/ Sync(a)
    \/ PrepareParent(a) \/ ValidateTarget(a) \/ CaptureTarget(a) \/ CreateTemporary(a)
    \/ Recheck(a) \/ CommitEntry(a) \/ Landed(a) \/ Capture(a) \/ ValidateStable(a)
    \/ RequireAbsent(a) \/ Bind(a) \/ CaptureRoot(a) \/ StageTree(a) \/ Populate(a)
    \/ RequireVacant(a) \/ Released(a) \/ Discard(a) \/ Undo(a)
    \/ UndoRmdir(a) \/ Rollback(a) \/ RemoveEmpty(a) \/ RemoveMissing(a) \/ RemoveRefused(a)
    \/ RequireEmpty(a) \/ Unlink(a) \/ Gone(a)

Fault(a) == \/ FaultBefore(a) \/ FaultUnknown(a) \/ FaultAfter(a) \/ FaultBetween(a)
            \/ FaultCleanup(a)

Next == (\E a \in Imports : Plan(a) \/ Step(a) \/ Fault(a)) \/ OtherProgram

Spec == Init /\ [][Next]_vars

FairSpec == Spec /\ \A a \in Imports : WF_vars(Step(a))

-----------------------------------------------------------------------------
(* Properties *)

written(of, a) == There(of, a) # 0 /\ node[There(of, a)].by = a

(* A manifest that refers to a source is never without it: whatever fails, the rollback of
   writePlan leaves the source if the manifest may be visible. *)
ManifestBacked ==
    \A a \in Imports : written("output", a) /\ a \notin hurt => written("source", a)

(* An import that reports success has written its manifest, in spite of the imports that
   take back the directories it uses. *)
ImportedThere ==
    \A a \in Imports : imp[a].result = "imported" /\ a \notin hurt => written("output", a)

(* An import that fails names everything that it leaves behind: every directory that it has
   created and every file that nobody else has touched (AncestorCleanup, importResidueError).
   That is not so of directories that the commit of a tree creates itself, which are closed
   with it and then in nobody's care. *)
Disclosed ==
    \A a \in Imports, o \in DOMAIN node :
        /\ imp[a].result = "failed" /\ a \notin raced
        /\ node[o].by = a /\ Linked(o) /\ o \notin imp[a].loose
        /\ node[o].kind = "file" => a \notin hurt
        => node[o].home \in imp[a].told

(* A parent that was taken away after it was prepared, and that the commit of a source has
   created anew, does not remain after the rollback
   (TestCopyImportedSkillTracksParentRecreatedAfterPreflight), or is named at least. *)
ParentsTakenBack ==
    \A a \in Imports : \A o \in {Place("output"), Place("source")} \ {0} :
        imp[a].result = "failed" /\ a \notin raced /\ node[o].by = a /\ Empty(o)
        => node[o].home \in imp[a].told

(* What an import may take out of the tree: its own objects, unless they were changed. *)
own(a, o) == node[o].by = a /\ node[o].rev = 0

Keeps(a, Except(_)) ==
    \A p \in DOMAIN node : \A n \in DOMAIN node[p].in :
        \/ own(a, node[p].in[n]) \/ Except(node[p].in[n])
        \/ n \in DOMAIN node'[p].in /\ node'[p].in[n] = node[p].in[n]

(* No import removes or replaces what others have made or changed: neither directories that
   somebody else was faster to create, nor files that took the place of its own.  The
   exceptions are the manifest it was asked to merge into, what another program puts between its last look
   and its effect, and a source that was replaced before it was identified. *)
KeepsOthers ==
    \A a \in Imports : imp'[a] # imp[a] =>
        Keeps(a, LAMBDA o : \/ a \in raced
                            \/ Stamp(o) = imp[a].seen.output /\ a \in Merging
                            \/ Stamp(o) = imp[a].made)
OthersKept == [][KeepsOthers]_vars

(* The rollback of an import refuses to remove a source that "was replaced after creation". *)
ReplacementKept ==
    [][\A a \in Imports : imp'[a] # imp[a] =>
        Keeps(a, LAMBDA o : a \in raced \/ node[o].kind = "directory"
                            \/ There("source", a) # o)]_vars

(* What was imported is what the host had when everything was validated for the last time
   (validateStable): no manifest is written for a host that changed between planning and then. *)
Confirmed == \A a \in Imports : written("output", a) => a \notin outdated

(* An import that has begun ends, also if it waits for another one of its process. *)
Ends == \A a \in Imports : imp[a].step = "revalidate" ~> imp[a].step = "done"
=============================================================================
