------------------------------- MODULE RootedPath -------------------------------
(***************************************************************************)
(* How daem turns a path into the right to act in a directory               *)
(* (internal/effect/mutation/rootedpath).  A path is walked one component at  *)
(* a time; every directory on the way is opened and kept open.  What the walk *)
(* has opened, the chain, is the authority: it is validated by looking again  *)
(* at the name of each directory in the one above it, and effects go through  *)
(* the open directory and never through the path.  A layout remembers where a *)
(* path led without keeping anything open.                                  *)
(*                                                                         *)
(* No step here looks at more than one name, and between any two steps other  *)
(* programs may replace directories and aliases.  They do not put back what  *)
(* they have taken away: no walk can see that.                              *)
(***************************************************************************)
EXTENDS Naturals, SequencesExt

CONSTANTS
    Directories, Slash,   \* the directories, and the root of the file system
    Names, Up,            \* names of entries, and ".."
    None,
    Trees,                \* the file systems to begin with
    Spellings,            \* the paths that a caller selects
    Places,               \* the entries that other programs change, and what they put there
    Targets,              \* where aliases lead to
    Wanted,               \* the kinds of calls that the caller makes
    Limit

Events == {"call", "foreign"}

LimitAssumption == Limit \in [Events -> Nat] /\ Slash \in Directories

(* An alias may lead from the root or from where it is. *)
DirectoryAt(d) == [is |-> "directory", at |-> d]
AliasTo(t) == [is |-> "alias", to |-> t]
Nothing == [is |-> "nothing"]
Entries == {Nothing} \cup {DirectoryAt(d) : d \in Directories} \cup {AliasTo(t) : t \in Targets}

VARIABLES
    fs,        \* what each directory has under each name
    gone,      \* the entries that other programs have taken away
    root,      \* the captured root
    grant,     \* the capability that was acquired from it
    evidence,  \* what a journal has recorded of the root
    layout,    \* the layout that was prepared
    call,      \* the call under way
    began,     \* (history) when it began, the chain was where it had been captured
    led,       \* (history) during it, the selected path has led to the captured directory
    used       \* events so far

vars == <<fs, gone, root, grant, evidence, layout, call, began, led, used>>

Link(name, d) == [name |-> name, at |-> d]
Top == <<Link(None, Slash)>>

(* The path by which a chain was reached. *)
PathOf(chain) == [i \in 1 .. Len(chain) - 1 |-> chain[i + 1].name]

Object(chain) == Last(chain).at

(* Every directory of the chain is where it was found. *)
Intact(f, chain) ==
    \A i \in 2 .. Len(chain) : f[chain[i - 1].at][chain[i].name] = DirectoryAt(chain[i].at)

(* What a path leads to when nothing moves: a chain, or nothing. *)
RECURSIVE Walk(_, _, _, _)
Walk(f, chain, path, aliases) ==
    IF path = <<>> THEN chain
    ELSE IF Head(path) = Up
    THEN Walk(f, IF Len(chain) > 1 THEN Front(chain) ELSE chain, Tail(path), aliases)
    ELSE LET entry == f[Object(chain)][Head(path)]
         IN CASE entry.is = "directory" ->
                     Walk(f, Append(chain, Link(Head(path), entry.at)), Tail(path), aliases)
              [] entry.is = "alias" /\ aliases > 0 ->
                     Walk(f, IF entry.to.absolute THEN Top ELSE chain,
                          entry.to.names \o Tail(path), aliases - 1)
              [] OTHER -> <<>>

MaximumAliases == 3

Leads(f, path, chain) ==
    LET end == Walk(f, Top, path, MaximumAliases)
    IN /\ end # <<>>
       /\ PathOf(end) = PathOf(chain) /\ Object(end) = Object(chain)

-----------------------------------------------------------------------------
(* Calls.  A call is a sequence of routines; each begins with a path or with a chain. *)

Modes == {"plain", "resolve", "evaluate"}

Resolve(path, missing, final, plain) ==
    [do |-> "resolve", path |-> path, missing |-> missing, final |-> final, plain |-> plain]
Open(path) == [do |-> "open", path |-> path]
Evaluate(path) == [do |-> "evaluate", path |-> path]
OpenEvaluated == [do |-> "open evaluated"]
Validate(whose) == [do |-> "validate", whose |-> whose]
Compare == [do |-> "compare"]
Same(d) == [do |-> "same", directory |-> d]
ReadAlias(alias) == [do |-> "alias", alias |-> alias]
Retains(anchor) == [do |-> "retains", anchor |-> anchor]
Nearest(path, mode) == [do |-> "nearest", path |-> path, mode |-> mode]

(* captureRootPlatform *)
Capture(path, mode) ==
    CASE mode = "plain"    -> <<Open(path)>>
      [] mode = "resolve"  -> <<Resolve(path, FALSE, TRUE, FALSE)>>
      [] mode = "evaluate" -> <<Evaluate(path), OpenEvaluated>>

(* Mutant: the selected path is not resolved again. *)
SelectionRoutinesOnce(path, mode) == <<Validate("subject")>>

(* ValidateSelection, validateSelectionAgainstAuthority *)
SelectionRoutines(path, mode) ==
    <<Validate("subject")>> \o Capture(path, mode) \o <<Validate("walked"), Compare>>

(* PathLayout.CaptureDestinationBounded: the prepared directory and every alias that led to
   it are looked up, the path is walked without following any alias, and walked again to
   capture it. *)
LayoutRoutines(l) ==
    <<Resolve(l.anchor.path, FALSE, FALSE, TRUE), Same(l.anchor.directory)>>
    \o FlattenSeq([i \in 1 .. Len(l.aliases) |->
                       <<Resolve(l.aliases[i].path, FALSE, FALSE, TRUE),
                         Same(l.aliases[i].directory), ReadAlias(l.aliases[i])>>])
    \o <<Resolve(Front(l.path), TRUE, FALSE, TRUE), Resolve(Front(l.path), TRUE, TRUE, TRUE),
         Retains(l.anchor)>>

NoCall ==
    [kind |-> None, todo |-> <<>>, step |-> "returned", subject |-> <<>>, spelling |-> <<>>,
     mode |-> None, chain |-> Top, pending |-> <<>>, index |-> 0, before |-> Slash,
     aliases |-> <<>>, links |-> 0, suffix |-> <<>>, visits |-> 0, ok |-> FALSE]

Validated == {"authority", "acquire", "acquire selected", "use", "launch", "select"}
Selected == {"select", "acquire selected", "launch", "match"}
Kinds == Validated \cup {"capture", "destination", "match", "prepare", "rebind"}

TypeOK ==
    /\ fs \in [Directories -> [Names -> Entries]]
    /\ gone \subseteq (Directories \X Names \X Entries)
    /\ root # None => /\ Len(root.chain) > 1 /\ root.mode \in Modes
                      /\ \A i \in 2 .. Len(root.chain) : root.chain[i].name \in Names
    /\ grant # None => Len(grant.chain) > 1 /\ grant.mode \in Modes
    /\ layout # None => \A i \in 1 .. Len(layout.aliases) : layout.aliases[i].target \in Targets
    /\ call.kind \in Kinds \cup {None} /\ call.ok \in BOOLEAN
    /\ call.step \in {"inspect", "read", "look", "open", "reopen", "routine", "returned"}
    /\ call.chain[1] = Top[1] /\ \A i \in DOMAIN call.suffix : call.suffix[i] \in Names
    /\ began \in BOOLEAN /\ led \in BOOLEAN /\ used \in [Events -> Nat]

Init ==
    /\ fs \in Trees
    /\ gone = {}
    /\ root = None /\ grant = None /\ evidence = None /\ layout = None
    /\ call = NoCall
    /\ began = FALSE /\ led = FALSE
    /\ used = [e \in Events |-> 0]

Spend(e) == /\ used[e] < Limit[e]
            /\ used' = [used EXCEPT ![e] = @ + 1]

held == <<root, grant, evidence, layout>>
history == <<began, led>>

(* The routine that comes next, with the component to look at first. *)
Start(c) ==
    IF c.todo = <<>> THEN [c EXCEPT !.step = "returned", !.ok = TRUE]
    ELSE LET routine == Head(c.todo)
         IN CASE routine.do \in {"resolve", "evaluate"} ->
                     [c EXCEPT !.chain = Top, !.links = 0, !.step = "inspect",
                               !.suffix = IF routine.do = "resolve" THEN <<>> ELSE @,
                               !.pending = [i \in DOMAIN routine.path |->
                                               [name |-> routine.path[i], required |-> FALSE]]]
              [] routine.do \in {"open", "open evaluated"} ->
                     LET path == IF routine.do = "open" THEN routine.path ELSE PathOf(c.chain)
                     IN [c EXCEPT !.chain = Top, !.step = "look",
                                  !.pending = [i \in DOMAIN path |->
                                                  [name |-> path[i], required |-> FALSE]]]
              [] routine.do = "validate" -> [c EXCEPT !.step = "routine", !.index = 2]
              [] routine.do = "nearest" -> [c EXCEPT !.step = "routine", !.index = Len(routine.path)]
              [] OTHER -> [c EXCEPT !.step = "routine"]

Proceed(c) == Start([c EXCEPT !.todo = Tail(@)])

Routine == Head(call.todo)

Fails(c) == [c EXCEPT !.step = "returned", !.ok = FALSE]

(* What a call that succeeds gives to its caller. *)
Deliver(c) ==
    LET gives(kinds) == c.step = "returned" /\ c.ok /\ c.kind \in kinds
    IN /\ root' = IF gives({"capture", "destination", "rebind"})
                  THEN [chain |-> c.chain, mode |-> c.mode, spelling |-> c.spelling,
                        suffix |-> c.suffix]
                  ELSE root
       /\ grant' = IF gives({"acquire", "acquire selected"})
                   THEN [chain |-> c.subject, mode |-> c.mode, spelling |-> c.spelling,
                         selected |-> c.kind = "acquire selected"]
                   ELSE grant
       /\ layout' = IF gives({"prepare"})
                    THEN [path |-> PathOf(c.chain) \o c.suffix \o <<Last(c.spelling)>>,
                          anchor |-> [path |-> PathOf(c.chain), directory |-> Object(c.chain)],
                          aliases |-> c.aliases]
                    ELSE layout
       /\ UNCHANGED evidence

Step(c) == call' = c /\ Deliver(c) /\ UNCHANGED <<fs, gone, began, led, used>>

(* A call begins.  The subject is the chain that it is about, the spelling the path that
   its caller selects; `before' is what the history remembers of the beginning. *)
Begin(kind, subject, spelling, mode, todo, before) ==
    /\ call.step = "returned" /\ kind \in Wanted
    /\ Spend("call")
    /\ call' = Start([NoCall EXCEPT !.kind = kind, !.todo = todo, !.subject = subject,
                                    !.spelling = spelling, !.mode = mode])
    /\ began' = before
    /\ led' = (subject # <<>> /\ Leads(fs, spelling, subject))
    /\ UNCHANGED <<fs, gone>> /\ UNCHANGED held

-----------------------------------------------------------------------------
(* The operations *)

(* CaptureRoot, CaptureRootNoFollow, CaptureRootBounded *)
CaptureRoot(path, mode) ==
    /\ root = None
    /\ Begin("capture", <<>>, path, mode, Capture(path, mode), FALSE)

(* CaptureDestinationBounded, CaptureCanonicalDestinationBounded *)
CaptureDestinationBounded(path) ==
    /\ root = None
    /\ Begin("destination", <<>>, path, "plain", <<Resolve(Front(path), TRUE, TRUE, FALSE)>>, FALSE)

(* CaptureDestination, CaptureDestinationNoFollow *)
CaptureDestination(path, mode) ==
    /\ root = None
    /\ Begin("destination", <<>>, path, mode, <<Nearest(Front(path), mode)>>, FALSE)

(* Authority; ChildrenExistNoFollow looks at two names in the root afterwards. *)
Authority ==
    /\ root # None
    /\ Begin("authority", root.chain, root.spelling, root.mode, <<Validate("subject")>>,
             Intact(fs, root.chain))

(* BindSelectedEntryAuthority binds the entry after this. *)
ValidateSelection ==
    /\ root # None /\ root.suffix = <<>>
    /\ Begin("select", root.chain, root.spelling, root.mode,
             SelectionRoutines(root.spelling, root.mode), Intact(fs, root.chain))

(* Acquire, AcquireWorkingDirectory: the descriptors are duplicated between the validations. *)
Acquire ==
    /\ root # None /\ grant = None
    /\ Begin("acquire", root.chain, root.spelling, root.mode,
             <<Validate("subject"), Validate("subject")>>, Intact(fs, root.chain))

AcquireSelectedWorkingDirectory ==
    /\ root # None /\ root.suffix = <<>> /\ grant = None
    /\ Begin("acquire selected", root.chain, root.spelling, root.mode,
             SelectionRoutines(root.spelling, root.mode)
             \o <<Validate("subject"), Validate("subject")>>, Intact(fs, root.chain))

(* OpenRootDirectory, OpenRootDirectoryForMutation, OpenDirectory *)
Use ==
    /\ grant # None
    /\ Begin(IF grant.selected THEN "launch" ELSE "use", grant.chain, grant.spelling, grant.mode,
             IF grant.selected THEN SelectionRoutines(grant.spelling, grant.mode)
             ELSE <<Validate("subject")>>, Intact(fs, grant.chain))

CloseRoot ==
    /\ call.step = "returned" /\ root # None
    /\ root' = None
    /\ UNCHANGED <<fs, gone, grant, evidence, layout, call, began, led, used>>

CloseCapability ==
    /\ call.step = "returned" /\ grant # None
    /\ grant' = None
    /\ UNCHANGED <<fs, gone, root, evidence, layout, call, began, led, used>>

(* Provenance: what a journal records of a root. *)
RecordProvenance ==
    /\ call.step = "returned" /\ root # None /\ root.suffix = <<>> /\ evidence = None
    /\ evidence' = root
    /\ UNCHANGED <<fs, gone, root, grant, layout, call, began, led, used>>

(* AuthorityProvenance.Match, of a fresh capture *)
Match ==
    /\ evidence # None /\ root = None
    /\ Begin("match", evidence.chain, evidence.spelling, evidence.mode,
             Capture(evidence.spelling, evidence.mode) \o <<Validate("walked"), Compare>>, FALSE)

(* CaptureDirectoryEntryLayoutBounded *)
PrepareLayout(path) ==
    /\ layout = None
    /\ Begin("prepare", <<>>, path, "plain", <<Resolve(Front(path), TRUE, FALSE, FALSE)>>, FALSE)

AliasesKept(f, l) ==
    \A i \in DOMAIN l.aliases :
        f[l.aliases[i].directory][l.aliases[i].name] = AliasTo(l.aliases[i].target)

CaptureByLayout ==
    /\ layout # None /\ root = None
    /\ Begin("rebind", <<>>, layout.path, "plain", LayoutRoutines(layout), AliasesKept(fs, layout))

-----------------------------------------------------------------------------
(* The walk *)

At(step) == call.step = step

Component == Head(call.pending)
Entry == fs[Object(call.chain)][Component.name]

(* After a component: the next one, or what follows the last. *)
Onwards(c) ==
    CASE c.pending # <<>> ->
             [c EXCEPT !.step = IF Routine.do \in {"resolve", "evaluate"} THEN "inspect" ELSE "look"]
      [] c.pending = <<>> /\ Routine.do = "resolve" /\ Routine.final -> [c EXCEPT !.step = "reopen"]
      [] OTHER -> Proceed(c)

Visited == [call EXCEPT !.visits = @ + 1]

Pop(chain) == IF Len(chain) > 1 THEN Front(chain) ELSE chain

(* The name of an alias gives way to the components of its target, all of which must exist. *)
Follow(c, target) ==
    Onwards([c EXCEPT !.chain = IF target.absolute THEN Top ELSE @, !.links = @ + 1,
                      !.pending = [i \in DOMAIN target.names |->
                                      [name |-> target.names[i], required |-> TRUE]] \o Tail(@)])

(* Mutant: what an alias leads to may be missing. *)
MayBeMissingAlways == Routine.missing

(* A name may be missing if its caller allows it, but not in the target of an alias; and
   the root of the file system is not captured. *)
MayBeMissing == Routine.missing /\ ~Component.required /\ (Routine.final => Len(call.chain) > 1)

(* resolveNativePathPlatform: a component is inspected. *)
Inspect ==
    /\ At("inspect") /\ Routine.do = "resolve"
    /\ IF call.pending = <<>> THEN Step(Onwards(call))
       ELSE IF Component.name = Up
       THEN Step(Onwards([Visited EXCEPT !.chain = Pop(@), !.pending = Tail(@)]))
       ELSE CASE Entry.is = "nothing" ->
                     Step(IF ~MayBeMissing THEN Fails(Visited)
                          ELSE Proceed([Visited EXCEPT !.pending = <<>>,
                                                       !.suffix = [i \in DOMAIN call.pending |->
                                                                      call.pending[i].name]]))
              [] Entry.is = "alias" ->
                     Step(IF Routine.plain \/ call.links = MaximumAliases THEN Fails(Visited)
                          ELSE [Visited EXCEPT !.step = "read"])
              [] OTHER -> Step([Visited EXCEPT !.step = "look"])

(* readlinkAt; a layout keeps the alias and the directory that has it. *)
Read ==
    /\ At("read")
    /\ IF Entry.is # "alias" THEN Step(Fails(call))
       ELSE Step(Follow([call EXCEPT !.aliases =
                           IF call.kind = "prepare"
                           THEN Append(@, [path |-> PathOf(call.chain), name |-> Component.name,
                                           directory |-> Object(call.chain), target |-> Entry.to])
                           ELSE @], Entry.to))

(* openCapturedChild: the entry is inspected, *)
Look ==
    /\ At("look")
    /\ Step(IF call.pending = <<>> \/ Entry.is # "directory" THEN Fails(call)
            ELSE [call EXCEPT !.step = "open", !.before = Entry.at,
                              !.visits = IF Routine.do = "resolve" THEN @ ELSE @ + 1])

(* and opened, and must be the same. *)
OpenChild ==
    /\ At("open")
    /\ Step(IF Entry # DirectoryAt(call.before) THEN Fails(call)
            ELSE Onwards([call EXCEPT !.chain = Append(@, Link(Component.name, Entry.at)),
                                      !.pending = Tail(@)]))

(* reopenCapturedRootFinal *)
ReopenFinal ==
    /\ At("reopen")
    /\ Step(IF Len(call.chain) > 1 /\ Intact(fs, SubSeq(call.chain, Len(call.chain) - 1, Len(call.chain)))
            THEN Proceed(call)
            ELSE Fails(call))

(* filepath.EvalSymlinks: the same walk by paths, with nothing open. *)
EvaluateComponent ==
    /\ At("inspect") /\ Routine.do = "evaluate"
    /\ LET parent == Walk(fs, Top, PathOf(call.chain), MaximumAliases)
           entry == fs[Object(parent)][Component.name]
       IN CASE Component.name = Up ->
                   Step(Onwards([call EXCEPT !.chain = Pop(@), !.pending = Tail(@)]))
            [] Component.name # Up /\ (parent = <<>> \/ entry.is = "nothing") -> Step(Fails(call))
            [] Component.name # Up /\ parent # <<>> /\ entry.is = "alias" ->
                   Step(IF call.links = MaximumAliases THEN Fails(call) ELSE Follow(call, entry.to))
            [] OTHER -> Step(Onwards([call EXCEPT !.chain = Append(@, Link(Component.name, entry.at)),
                                                  !.pending = Tail(@)]))

-----------------------------------------------------------------------------
(* The other routines *)

Doing(do) == At("routine") /\ Routine.do = do

(* Mutant: only the last directory is looked for. *)
ValidateLinkLast ==
    /\ Doing("validate")
    /\ LET chain == IF Routine.whose = "subject" THEN call.subject ELSE call.chain
       IN Step(IF Intact(fs, SubSeq(chain, Len(chain) - 1, Len(chain))) THEN Proceed(call) ELSE Fails(call))

(* validateCapturedRootPlatform: the name of each directory in the one above it, from the top. *)
ValidateLink ==
    /\ Doing("validate")
    /\ LET chain == IF Routine.whose = "subject" THEN call.subject ELSE call.chain
           i == call.index
       IN Step(IF fs[chain[i - 1].at][chain[i].name] # DirectoryAt(chain[i].at) THEN Fails(call)
               ELSE IF i < Len(chain) THEN [call EXCEPT !.index = i + 1] ELSE Proceed(call))

(* The directory that was walked to has the path and the identity of the captured one. *)
CompareAuthority ==
    /\ Doing("compare")
    /\ Step(IF /\ PathOf(call.chain) = PathOf(call.subject)
               /\ Object(call.chain) = Object(call.subject)
            THEN Proceed(call)
            ELSE Fails(call))

(* captureDestinationWithSelection: the nearest ancestor that exists is captured as a root,
   and validated. *)
FindNearest ==
    /\ Doing("nearest")
    /\ LET i == call.index
           ancestor == SubSeq(Routine.path, 1, i)
       IN Step(CASE i = 0 -> Fails(call)
                 [] i > 0 /\ Walk(fs, Top, ancestor, MaximumAliases) = <<>> ->
                        [call EXCEPT !.index = i - 1]
                 [] OTHER -> Start([call EXCEPT !.todo = Capture(ancestor, Routine.mode)
                                                          \o <<Validate("walked")>>,
                                                !.suffix = SubSeq(Routine.path, i + 1, Len(Routine.path))]))

(* validateLayoutAnchor *)
CheckSame ==
    /\ Doing("same")
    /\ Step(IF Object(call.chain) = Routine.directory THEN Proceed(call) ELSE Fails(call))

(* Mutant: an alias may have been retargeted. *)
CheckAliasExists ==
    /\ Doing("alias")
    /\ Step(IF fs[Object(call.chain)][Routine.alias.name].is = "alias" THEN Proceed(Visited) ELSE Fails(call))

(* validateLayoutAlias *)
CheckAlias ==
    /\ Doing("alias")
    /\ Step(IF fs[Object(call.chain)][Routine.alias.name] = AliasTo(Routine.alias.target)
            THEN Proceed(Visited)
            ELSE Fails(call))

(* validateCapturedLayoutAnchorPlatform *)
CheckRetains ==
    /\ Doing("retains")
    /\ Step(IF \E i \in DOMAIN call.chain :
                  /\ PathOf(SubSeq(call.chain, 1, i)) = Routine.anchor.path
                  /\ call.chain[i].at = Routine.anchor.directory
            THEN Proceed(call)
            ELSE Fails(call))

-----------------------------------------------------------------------------
(* Other programs *)

Placed(f, d) == \E o \in Directories, n \in Names : f[o][n] = DirectoryAt(d)

(* Another program replaces what is at a place. *)
OtherChanges(place, entry) ==
    LET now == fs[place.in][place.name]
    IN /\ Spend("foreign")
       /\ entry # now /\ <<place.in, place.name, entry>> \notin gone
       /\ entry.is = "directory" => ~Placed(fs, entry.at)
       /\ fs' = [fs EXCEPT ![place.in][place.name] = entry]
       /\ gone' = IF now = Nothing THEN gone ELSE gone \cup {<<place.in, place.name, now>>}
       /\ led' = (led \/ (call.subject # <<>> /\ Leads(fs', call.spelling, call.subject)))
       /\ UNCHANGED <<call, began>> /\ UNCHANGED held

-----------------------------------------------------------------------------
Operation ==
    \/ \E path \in Spellings, mode \in Modes : CaptureRoot(path, mode)
    \/ \E path \in Spellings : CaptureDestinationBounded(path)
    \/ \E path \in Spellings, mode \in {"plain", "evaluate"} : CaptureDestination(path, mode)
    \/ Authority
    \/ ValidateSelection
    \/ Acquire
    \/ AcquireSelectedWorkingDirectory
    \/ Use
    \/ CloseRoot
    \/ CloseCapability
    \/ RecordProvenance
    \/ Match
    \/ \E path \in Spellings : PrepareLayout(path)
    \/ CaptureByLayout

WalkStep ==
    \/ Inspect
    \/ Read
    \/ Look
    \/ OpenChild
    \/ ReopenFinal
    \/ EvaluateComponent

RoutineStep ==
    \/ ValidateLink
    \/ CompareAuthority
    \/ FindNearest
    \/ CheckSame
    \/ CheckAlias
    \/ CheckRetains

Next ==
    \/ Operation
    \/ WalkStep
    \/ RoutineStep
    \/ \E place \in Places : \E entry \in place.may : OtherChanges(place, entry)

Spec == Init /\ [][Next]_vars

-----------------------------------------------------------------------------
Succeeded(kinds) == call.step = "returned" /\ call.ok /\ call.kind \in kinds

(* When a call that validates a captured root succeeds (Authority, ValidateSelection, Acquire,
   opening the directory for an effect or for a program to start in), then at the moment
   that the call began the captured path led, through directories alone, to exactly the
   directories that daem holds.  The walk that captured them, and the validation, look at
   one name at a time and give no such moment by themselves. *)
CallsCurrent == Succeeded(Validated) => began

(* When a call that also resolves the selected path again succeeds (ValidateSelection, a
   program's working directory, the match of a recorded root with a fresh capture), there
   was a moment during the call when the path as the caller spells it, aliases included,
   led to the captured directory, unless that directory has been moved from its place
   meanwhile. *)
SelectionCurrent == Succeeded(Selected) => led \/ ~Intact(fs, call.subject)

(* A destination that is captured by a layout has the path that was prepared and lies below
   the directory that was prepared, and when the capture began no alias that had led there
   had been retargeted, though the layout kept nothing open. *)
LayoutCurrent ==
    Succeeded({"rebind"}) =>
        /\ began
        /\ PathOf(call.chain) \o call.suffix = Front(layout.path)
        /\ \E i \in DOMAIN call.chain : call.chain[i].at = layout.anchor.directory

RECURSIVE AliasWork(_)
AliasWork(aliases) ==
    IF aliases = <<>> THEN 0 ELSE Len(Head(aliases).path) + 1 + AliasWork(Tail(aliases))

(* Mutant: the aliases are left out. *)
ReservationPlain(l) == Len(l.anchor.path) + 2 * Len(Front(l.path))

(* ReserveDestinationCapture, ReserveObservation *)
Reservation(l) == Len(l.anchor.path) + AliasWork(l.aliases) + 2 * Len(Front(l.path))

(* The path work that is reserved for a capture by a layout, from the layout alone, covers
   what the capture visits, whatever other programs have put in its way. *)
ReservationCovers == call.kind = "rebind" => call.visits <= Reservation(layout)

=============================================================================
