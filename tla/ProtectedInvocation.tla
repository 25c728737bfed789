--------------------------- MODULE ProtectedInvocation ---------------------------
(***************************************************************************)
(* Running a host's own command on documents whose permissions must not       *)
(* grow (internal/workflow/protection, effect/protection,                    *)
(* subprocess/workdir and the protections of output/ownership).              *)
(*                                                                         *)
(* The command may outlive the daem process that started it, so what it may   *)
(* touch is recorded first: the row is armed before the helper is started,    *)
(* bound to the helper's process group before the helper is told to go on,    *)
(* and cleared only when the group is gone and every document has been found  *)
(* within its recorded permissions, twice.  While the row is there nobody     *)
(* else writes the documents.  A later process takes over a row that a crash  *)
(* has left.                                                                *)
(***************************************************************************)
EXTENDS FiniteSets, Naturals

CONSTANTS
    Procs,         \* daem processes
    Invocations,
    Documents,
    Covers,        \* the documents each invocation may touch
    LeftModes,     \* the permissions in which a command, or a user, may leave a document
    None,
    Limit

Events == {"begin", "write", "refuse", "fault", "user", "crash", "reboot"}

ASSUME CoversAssumption == Covers \in [Invocations -> SUBSET Documents]
ASSUME NoneAssumption == None \notin Procs
ASSUME LimitAssumption == Limit \in [Events -> Nat]

(* A document's permissions relative to those recorded: the same, fewer, more, such
   that no restriction applies (owner, special or execute bits changed), or it is gone. *)
Modes == {"exact", "tighter", "wider", "foreign", "absent"}

ASSUME LeftModesAssumption == LeftModes \subseteq Modes

VARIABLES
    row,       \* the protections in the ownership registry, by invocation
    mode,      \* the documents' permissions
    group,     \* the process group of each invocation
    gate,      \* the pipe on which its helper waits for the release
    epoch,     \* boots of the machine
    lease,     \* who has the exclusive lease of registry, state and documents
    proc,      \* the daem processes
    touched,   \* (history) documents changed by a user since they were last checked
    used       \* events so far

vars == <<row, mode, group, gate, epoch, lease, proc, touched, used>>

Rows == [phase : {"none", "armed"}] \cup [phase : {"bound"}, epoch : Nat]

NoRow == [phase |-> "none"]
Armed == [phase |-> "armed"]

(* Mutant: a bound row that does not say in which boot. *)
BoundAnyBoot(e) == [phase |-> "bound"]

Bound(e) == [phase |-> "bound", epoch |-> e]

Groups == {"none", "waiting", "running", "gone"}

Steps == {"idle", "arm", "correlate", "start", "ready", "bind", "release", "await", "finalize",
          "planned", "next row", "quiesce", "restrict", "clear", "read back", "report", "write"}

(* `inv' is the invocation at work, `expected' its row as it was read; `plan' are the
   rows that a recovery has shown, `rows' those that it has still to settle.  `acked' says that the row was published
   for certain, `done' what is known of the command: nothing, that it ended, that a
   helper was bound as well, or that it was released.  `todo' are the documents of this
   pass and `secure' says that all others were found secure.
   `result' is what was last reported of a row's settlement. *)
ProcType ==
    [step : Steps, inv : Invocations \cup {None}, expected : Rows,
     plan : [Invocations -> Rows], rows : SUBSET Invocations, acked : BOOLEAN,
     done : {"unknown", "ended", "bound", "released"}, recovering : BOOLEAN,
     pass : 1..2, todo : SUBSET Documents, secure : BOOLEAN,
     doc : Documents \cup {None},
     result : {"none", "nothing", "cleared", "pending", "unknown"}]

NewProc ==
    [step |-> "idle", inv |-> None, expected |-> NoRow,
     plan |-> [i \in Invocations |-> NoRow], rows |-> {}, acked |-> FALSE,
     done |-> "unknown", recovering |-> FALSE, pass |-> 1, todo |-> {}, secure |-> TRUE,
     doc |-> None, result |-> "none"]

TypeOK ==
    /\ row \in [Invocations -> Rows]
    /\ mode \in [Documents -> Modes]
    /\ group \in [Invocations -> Groups]
    /\ gate \in [Invocations -> {"open", "released", "closed"}]
    /\ epoch \in Nat
    /\ lease \in Procs \cup {None}
    /\ proc \in [Procs -> ProcType]
    /\ touched \subseteq Documents
    /\ used \in [Events -> Nat]

Init ==
    /\ row = [i \in Invocations |-> NoRow]
    /\ mode = [d \in Documents |-> "exact"]
    /\ group = [i \in Invocations |-> "none"]
    /\ gate = [i \in Invocations |-> "open"]
    /\ epoch = 0
    /\ lease = None
    /\ proc = [p \in Procs |-> NewProc]
    /\ touched = {}
    /\ used = [e \in Events |-> 0]

Spend(e) == /\ used[e] < Limit[e]
            /\ used' = [used EXCEPT ![e] = @ + 1]

At(p, step) == proc[p].step = step

GoTo(p, step) == proc' = [proc EXCEPT ![p].step = step]

(* Of what a process does nobody else sees anything but rows, modes, groups and gates. *)
world == <<row, mode, group, gate, epoch, touched>>

-----------------------------------------------------------------------------
(* The registry *)

(* Mutant: a row keeps out other invocations, but not ordinary writes. *)
anyWritable(d) == TRUE

(* RequireWritable: whoever's row it is, and whoever asks. *)
writable(d) == \A i \in Invocations : row[i] # NoRow => d \notin Covers[i]

(* Mutant: a group is taken to be gone when its leader has been waited for. *)
quiescentWhenWaited(r, i) == TRUE

(* Mutant: only the boot in which the row was bound can tell. *)
quiescentInBoot(r, i) ==
    r.phase = "bound" => r.epoch = epoch /\ group[i] \notin {"waiting", "running"}

(* RequireQuiescence: an armed row has no writer; of a bound one, this boot's group
   must be gone. *)
quiescent(r, i) ==
    r.phase = "bound" => r.epoch # epoch \/ group[i] \notin {"waiting", "running"}

-----------------------------------------------------------------------------
(* Invocation *)

(* The lease is held by the containing operation; layout and start are qualified. *)
BeginInvoke(p, i) ==
    /\ At(p, "idle") /\ lease = None /\ Spend("begin")
    /\ row[i] = NoRow /\ group[i] = "none"
    /\ \A d \in Covers[i] : writable(d) /\ mode[d] = "exact"
    /\ lease' = p
    /\ proc' = [proc EXCEPT ![p] = [NewProc EXCEPT !.step = "arm", !.inv = i]]
    /\ UNCHANGED world

Arm(p) ==
    /\ At(p, "arm")
    /\ row' = [row EXCEPT ![proc[p].inv] = Armed]
    /\ proc' = [proc EXCEPT ![p].step = "correlate", ![p].acked = TRUE]
    /\ UNCHANGED <<mode, group, gate, epoch, touched, lease, used>>

(* The containing operation publishes what ties the command to it, or cannot. *)
Correlate(p) ==
    /\ At(p, "correlate")
    /\ GoTo(p, "start")
    /\ UNCHANGED <<world, lease, used>>

RefuseCorrelation(p) ==
    /\ At(p, "correlate") /\ Spend("refuse")
    /\ GoTo(p, "finalize")
    /\ UNCHANGED <<world, lease>>

(* StartAndRelease: the helper is started in a group of its own. *)
Start(p) ==
    /\ At(p, "start")
    /\ group' = [group EXCEPT ![proc[p].inv] = "waiting"]
    /\ GoTo(p, "ready")
    /\ UNCHANGED <<row, mode, gate, epoch, touched, lease, used>>

RefuseStart(p) ==
    /\ At(p, "start") /\ Spend("refuse")
    /\ proc' = [proc EXCEPT ![p].step = "finalize", ![p].done = "ended"]
    /\ UNCHANGED <<world, lease>>

closeGate(p) == gate' = [gate EXCEPT ![proc[p].inv] = "closed"]

(* The helper says that it is ready; or the context ends first. *)
Ready(p) ==
    /\ At(p, "ready")
    /\ proc' = [proc EXCEPT ![p].step = "bind", ![p].done = "bound"]
    /\ UNCHANGED <<world, lease, used>>

RefuseReady(p) ==
    /\ At(p, "ready") /\ Spend("refuse")
    /\ closeGate(p)
    /\ proc' = [proc EXCEPT ![p].step = "await", ![p].done = "ended"]
    /\ UNCHANGED <<row, mode, group, epoch, touched, lease>>

(* The documents are looked at once more, and the row gets the group. *)
Bind(p) ==
    /\ At(p, "bind")
    /\ LET i == proc[p].inv
       IN  IF \A d \in Covers[i] : mode[d] = "exact"
           THEN /\ row' = [row EXCEPT ![i] = Bound(epoch)]
                /\ GoTo(p, "release") /\ UNCHANGED gate
           ELSE closeGate(p) /\ GoTo(p, "await") /\ UNCHANGED row
    /\ UNCHANGED <<mode, group, epoch, touched, lease, used>>

Release(p) ==
    /\ At(p, "release")
    /\ gate' = [gate EXCEPT ![proc[p].inv] = "released"]
    /\ proc' = [proc EXCEPT ![p].step = "await", ![p].done = "released"]
    /\ UNCHANGED <<row, mode, group, epoch, touched, lease, used>>

CancelRelease(p) ==
    /\ At(p, "release") /\ Spend("refuse")
    /\ closeGate(p) /\ GoTo(p, "await")
    /\ UNCHANGED <<row, mode, group, epoch, touched, lease>>

(* The command has ended, or was terminated, or was left behind. *)
Await(p) ==
    /\ At(p, "await")
    /\ LET i == proc[p].inv
       IN  \/ group' = [group EXCEPT ![i] = IF @ = "none" THEN @ ELSE "gone"]
           \/ UNCHANGED group
    /\ GoTo(p, "finalize")
    /\ UNCHANGED <<row, mode, gate, epoch, touched, lease, used>>

Report(p, result) == proc' = [proc EXCEPT ![p].step = "report", ![p].result = result]

BeginSettle(p, r) ==
    proc' = [proc EXCEPT ![p].step = "quiesce", ![p].expected = r, ![p].pass = 1]

(* finalizeInvocation *)
Finalize(p) ==
    /\ At(p, "finalize")
    /\ LET c == proc[p]
           r == row[c.inv]
       IN  IF r = NoRow /\ ~c.acked /\ c.done = "unknown" THEN Report(p, "nothing")
           ELSE IF \/ r = NoRow
                   \/ r = Armed /\ c.done = "released"
                   \/ r.phase = "bound" /\ c.done \notin {"bound", "released"}
           THEN Report(p, "unknown")
           ELSE BeginSettle(p, r)
    /\ UNCHANGED <<world, lease, used>>

-----------------------------------------------------------------------------
(* Recovery *)

Prepare(p) ==
    /\ At(p, "idle")
    /\ LET rows == {i \in Invocations : row[i] # NoRow}
       IN  /\ rows # {}
           /\ \E i \in rows :      \* the rows of one plan are settled one by one
                 proc' = [proc EXCEPT ![p] = [NewProc EXCEPT
                             !.step = "planned", !.recovering = TRUE, !.plan = row,
                             !.rows = rows, !.inv = i]]
    /\ UNCHANGED <<world, lease, used>>

Execute(p) ==
    /\ At(p, "planned") /\ lease = None
    /\ lease' = p
    /\ GoTo(p, "next row")
    /\ UNCHANGED <<world, used>>

(* The row must still be what the plan has shown. *)
NextRow(p) ==
    /\ At(p, "next row")
    /\ LET r == row[proc[p].inv]
       IN  IF r # NoRow /\ r = proc[p].plan[proc[p].inv] THEN BeginSettle(p, r) ELSE Report(p, "unknown")
    /\ UNCHANGED <<world, lease, used>>

-----------------------------------------------------------------------------
(* Settle *)

(* Each of the two passes starts with the group. *)
Quiesce(p) ==
    /\ At(p, "quiesce")
    /\ LET c == proc[p]
       IN  IF quiescent(c.expected, c.inv)
           THEN proc' = [proc EXCEPT ![p].step = "restrict", ![p].todo = Covers[c.inv],
                                     ![p].secure = TRUE]
           ELSE Report(p, "pending")
    /\ UNCHANGED <<world, lease, used>>

(* The group cannot be observed, or its number is another's now. *)
RefuseQuiesce(p) ==
    /\ At(p, "quiesce") /\ Spend("refuse")
    /\ Report(p, "pending")
    /\ UNCHANGED <<world, lease>>

(* Mutant: a document that cannot be restricted is passed over. *)
secureAnyway(m) == TRUE

(* What restrictTarget finds, or has made, secure. *)
secured(m) == m # "foreign"

restricted(m) == IF m = "wider" THEN "exact" ELSE m

(* restrictTarget: a document that is still there loses what it has too much. *)
RestrictTarget(p) ==
    /\ At(p, "restrict")
    /\ \E d \in proc[p].todo :
           /\ mode' = [mode EXCEPT ![d] = restricted(@)]
           /\ touched' = touched \ {d}
           /\ proc' = [proc EXCEPT ![p].todo = @ \ {d},
                                   ![p].secure = @ /\ secured(mode[d])]
    /\ UNCHANGED <<row, group, gate, epoch, lease, used>>

(* The restriction is not confirmed, whether it was made or not. *)
FailRestrict(p) ==
    /\ At(p, "restrict") /\ Spend("fault")
    /\ \E d \in proc[p].todo :
           /\ mode' \in {mode, [mode EXCEPT ![d] = restricted(@)]}
           /\ proc' = [proc EXCEPT ![p].todo = @ \ {d}, ![p].secure = FALSE]
    /\ UNCHANGED <<row, group, gate, epoch, touched, lease>>

(* Settlement needs a fresh complete proof after the restrictions. *)
EndPass(p) ==
    /\ At(p, "restrict") /\ proc[p].todo = {}
    /\ LET c == proc[p]
       IN  IF ~c.secure THEN Report(p, "pending")
           ELSE IF c.pass = 1 THEN proc' = [proc EXCEPT ![p].step = "quiesce", ![p].pass = 2]
           ELSE GoTo(p, "clear")
    /\ UNCHANGED <<world, lease, used>>

(* An invocation looks at the group once more before it clears the row; the row must
   be exactly the one that was settled. *)
Clear(p) ==
    /\ At(p, "clear")
    /\ LET c == proc[p]
           i == c.inv
       IN  IF ~c.recovering /\ ~quiescent(c.expected, i)
           THEN Report(p, "pending") /\ UNCHANGED row
           ELSE IF row[i] \notin {c.expected, NoRow}
           THEN GoTo(p, "read back") /\ UNCHANGED row
           ELSE row' = [row EXCEPT ![i] = NoRow] /\ Report(p, "cleared")
    /\ UNCHANGED <<mode, group, gate, epoch, touched, lease, used>>

(* Mutant: a clear that failed has not happened. *)
ReadBackAssumed(p) ==
    /\ At(p, "read back")
    /\ Report(p, "pending")
    /\ UNCHANGED <<world, lease, used>>

(* settleProtection: after a failed clear the registry is read again. *)
ReadBack(p) ==
    /\ At(p, "read back")
    /\ Report(p, IF row[proc[p].inv] = proc[p].expected THEN "pending" ELSE "unknown")
    /\ UNCHANGED <<world, lease, used>>

(* The lease goes back, or the next row of the plan is taken. *)
Finish(p) ==
    /\ At(p, "report")
    /\ LET c == proc[p]
           rest == c.rows \ {c.inv}
       IN  IF rest = {}
           THEN /\ proc' = [proc EXCEPT ![p] = [NewProc EXCEPT !.result = c.result]]
                /\ lease' = None
           ELSE /\ \E i \in rest :
                      proc' = [proc EXCEPT ![p].step = "next row", ![p].rows = rest,
                                           ![p].inv = i, ![p].result = "none"]
                /\ UNCHANGED lease
    /\ UNCHANGED <<world, used>>

-----------------------------------------------------------------------------
(* Other operations of daem write a document under the lease, if it is writable. *)

BeginWrite(p, d) ==
    /\ At(p, "idle") /\ lease = None /\ Spend("begin")
    /\ writable(d)
    /\ lease' = p
    /\ proc' = [proc EXCEPT ![p] = [NewProc EXCEPT !.step = "write", !.doc = d]]
    /\ UNCHANGED world

EndWrite(p) ==
    /\ At(p, "write")
    /\ proc' = [proc EXCEPT ![p] = NewProc]
    /\ lease' = None
    /\ UNCHANGED <<world, used>>

-----------------------------------------------------------------------------
(* The command *)

Exec(i) ==
    /\ group[i] = "waiting" /\ gate[i] = "released"
    /\ group' = [group EXCEPT ![i] = "running"]
    /\ UNCHANGED <<row, mode, gate, epoch, touched, lease, proc, used>>

(* The pipe is closed and the helper has been told nothing. *)
HelperQuits(i) ==
    /\ group[i] = "waiting" /\ gate[i] = "closed"
    /\ group' = [group EXCEPT ![i] = "gone"]
    /\ UNCHANGED <<row, mode, gate, epoch, touched, lease, proc, used>>

CommandWrites(i, d) ==
    /\ group[i] = "running" /\ d \in Covers[i] /\ Spend("write")
    /\ \E m \in LeftModes : mode' = [mode EXCEPT ![d] = m]
    /\ UNCHANGED <<row, group, gate, epoch, touched, lease, proc>>

CommandEnds(i) ==
    /\ group[i] = "running"
    /\ group' = [group EXCEPT ![i] = "gone"]
    /\ UNCHANGED <<row, mode, gate, epoch, touched, lease, proc, used>>

-----------------------------------------------------------------------------
(* Faults and other people *)

(* A transition of the registry is reported as failed, whether it happened or not. *)
FailTransition(p) ==
    /\ proc[p].step \in {"arm", "bind", "clear"} /\ Spend("fault")
    /\ LET c == proc[p]
           next == CASE c.step = "arm"  -> Armed
                     [] c.step = "bind" -> Bound(epoch)
                     [] OTHER           -> NoRow
       IN  /\ row' \in {row, [row EXCEPT ![c.inv] = next]}
           /\ CASE c.step = "arm"  -> GoTo(p, "finalize") /\ UNCHANGED gate
                [] c.step = "bind" -> GoTo(p, "await") /\ closeGate(p)
                [] OTHER           -> GoTo(p, "read back") /\ UNCHANGED gate
    /\ UNCHANGED <<mode, group, epoch, touched, lease>>

(* The lease goes, and with it the writing end of a pipe. *)
Crash(p) ==
    /\ ~At(p, "idle") /\ Spend("crash")
    /\ lease' = IF lease = p THEN None ELSE lease
    /\ gate' = [i \in Invocations |->
                   IF i = proc[p].inv /\ ~proc[p].recovering /\ gate[i] = "open"
                      /\ group[i] # "none"
                   THEN "closed" ELSE gate[i]]
    /\ proc' = [proc EXCEPT ![p] = NewProc]
    /\ UNCHANGED <<row, mode, group, epoch, touched>>

Reboot ==
    /\ Spend("reboot")
    /\ epoch' = epoch + 1
    /\ group' = [i \in Invocations |-> IF group[i] = "none" THEN "none" ELSE "gone"]
    /\ proc' = [p \in Procs |-> NewProc]
    /\ lease' = None
    /\ UNCHANGED <<row, mode, gate, touched>>

UserChanges(d) ==
    /\ Spend("user")
    /\ \E m \in LeftModes : mode' = [mode EXCEPT ![d] = m]
    /\ touched' = touched \cup {d}
    /\ UNCHANGED <<row, group, gate, epoch, lease, proc>>

Invoke(p) ==
    \/ Arm(p) \/ Correlate(p) \/ Start(p) \/ Ready(p) \/ Bind(p) \/ Release(p)
    \/ Await(p) \/ Finalize(p)

Refuse(p) ==
    RefuseCorrelation(p) \/ RefuseStart(p) \/ RefuseReady(p) \/ CancelRelease(p) \/ RefuseQuiesce(p)

Settle(p) ==
    NextRow(p) \/ Quiesce(p) \/ RestrictTarget(p) \/ EndPass(p) \/ Clear(p) \/ ReadBack(p) \/ Finish(p)

Command(i) == Exec(i) \/ HelperQuits(i) \/ CommandEnds(i)

Next ==
    \/ \E p \in Procs :
          \/ Invoke(p) \/ Settle(p) \/ Refuse(p) \/ FailRestrict(p) \/ FailTransition(p)
          \/ Prepare(p) \/ Execute(p) \/ EndWrite(p) \/ Crash(p)
          \/ \E i \in Invocations : BeginInvoke(p, i)
          \/ \E d \in Documents : BeginWrite(p, d)
    \/ \E i \in Invocations : Command(i) \/ \E d \in Documents : CommandWrites(i, d)
    \/ Reboot \/ \E d \in Documents : UserChanges(d)

Spec == Init /\ [][Next]_vars

(* A process that works goes on; commands end; and a user who is told that permissions
   are pending runs recover, which polls for the lease. *)
FairSpec ==
    /\ Spec
    /\ \A p \in Procs : WF_vars(Invoke(p) \/ Settle(p) \/ EndWrite(p)) /\ SF_vars(Execute(p))
    /\ \A i \in Invocations : WF_vars(Command(i))
    /\ SF_vars(\E p \in Procs : Prepare(p))

-----------------------------------------------------------------------------
(* Properties *)

(* A command that runs, or has been told to go on, is recorded with its group: so a
   process that knows nothing of the one that started it finds out that it is there. *)
WriterRecorded ==
    \A i \in Invocations :
        (group[i] = "running" \/ (group[i] = "waiting" /\ gate[i] = "released"))
            => row[i].phase = "bound"

(* A document has one writer at a time: a command, even one whose daem process is gone,
   or an operation of daem. *)
Alone ==
    \A d \in Documents :
        Cardinality({i \in Invocations : group[i] = "running" /\ d \in Covers[i]}
                    \cup {p \in Procs : At(p, "write") /\ proc[p].doc = d}) <= 1

(* A row is cleared only when its documents have no more permissions than were recorded
   for them, unless a user changed them since they were checked. *)
ClearedSafe ==
    [][\A i \in Invocations :
          (row[i].phase = "bound" /\ row'[i] = NoRow)
              => \A d \in Covers[i] : mode[d] \in {"exact", "tighter", "absent"} \/ d \in touched]_vars

(* What is reported of a row's settlement is so; and a row that is not there is only
   called unpublished by a process that never had an acknowledgement of it. *)
Truthful ==
    \A p \in Procs :
        At(p, "report") =>
            /\ proc[p].result \in {"cleared", "nothing"} => row[proc[p].inv] = NoRow
            /\ proc[p].result = "pending" => row[proc[p].inv] = proc[p].expected

(* Every row is settled in the end, whatever crashes and reboots came between. *)
EventuallySettled == \A i \in Invocations : row[i] # NoRow ~> row[i] = NoRow

(* The properties of states together: a document has one writer at a time, who is on
   record before it can write, and what a process reports of the settlement of its record
   is so (invocation/execute.go). *)
WritersKnown == TypeOK /\ WriterRecorded /\ Alone /\ Truthful

-----------------------------------------------------------------------------
(* What they rest on. *)

active(i) == group[i] \in {"waiting", "running"}

(* Who works has the lease, and knows on what. *)
held(p) ==
    /\ proc[p].step \notin {"idle", "planned"} => lease = p
    /\ proc[p].step \notin {"idle", "write"} => proc[p].inv \in Invocations

(* A pipe belongs to a helper, and a group to the boot that its row names. *)
backed(i) ==
    /\ group[i] = "none" => gate[i] = "open"
    /\ row[i].phase = "bound" /\ row[i].epoch # epoch => ~active(i)

(* Rows that are there at the same time have no document in common. *)
Apart ==
    \A i, j \in Invocations :
        i # j /\ row[i] # NoRow /\ row[j] # NoRow => Covers[i] \cap Covers[j] = {}

(* What a process knows before its command runs. *)
starting(p) ==
    LET i == proc[p].inv
    IN  /\ At(p, "arm") => /\ row[i] = NoRow /\ group[i] = "none"
                           /\ \A d \in Covers[i] : writable(d)
        /\ proc[p].step \in {"correlate", "start"} => row[i] = Armed /\ group[i] = "none"
        /\ proc[p].step \in {"ready", "bind", "release"} => group[i] # "none"
        /\ proc[p].step \in {"ready", "bind"} => row[i] = Armed
        /\ At(p, "release") => row[i].phase = "bound"
        /\ At(p, "write") => writable(proc[p].doc)

safe(d) == mode[d] \in {"exact", "tighter", "absent"} \/ d \in touched

(* What a process knows of the row that it settles. *)
settling(p) ==
    LET c == proc[p]
    IN  /\ c.step \in {"quiesce", "restrict", "clear"} => row[c.inv] = c.expected /\ c.expected # NoRow
        /\ c.step = "read back" => row[c.inv] \in {c.expected, NoRow}
        /\ c.step \in {"restrict", "clear"} => quiescent(c.expected, c.inv)
        /\ c.step = "restrict" /\ c.secure => \A d \in Covers[c.inv] \ c.todo : safe(d)
        /\ c.step = "clear" => \A d \in Covers[c.inv] : safe(d)

(* What a process reports of a row is so. *)
told(p) ==
    At(p, "report") =>
        /\ proc[p].result \in {"cleared", "nothing"} => row[proc[p].inv] = NoRow
        /\ proc[p].result = "pending" => row[proc[p].inv] = proc[p].expected

(* The inductive invariant. *)
Inv == /\ TypeOK /\ WriterRecorded /\ Apart
       /\ \A i \in Invocations : backed(i)
       /\ \A p \in Procs : held(p) /\ starting(p) /\ settling(p) /\ told(p)

=============================================================================
