------------------------------ MODULE ProcessGroup ------------------------------
(***************************************************************************)
(* One command that daem runs in a process group of its own                 *)
(* (internal/subprocess: process_tree, command_runner, output_capture).      *)
(*                                                                         *)
(* Three goroutines and the processes themselves run at once: the caller,     *)
(* which waits, drains the output and cleans up; the goroutine in             *)
(* command.Wait; and os/exec's watcher, which calls Cancel when the context   *)
(* ends.  Caller and watcher may both want the group terminated: it is done   *)
(* once, by whoever comes first, and the other gets its result.              *)
(***************************************************************************)
EXTENDS Naturals

CONSTANTS
    Leader,
    Members,     \* processes that the leader may leave in the group
    Natures,     \* how the processes of this instance may behave
    None

Processes == Members \cup {Leader}

(* A plain process dies of SIGTERM; a stubborn one does not; a stuck one does not die of
   SIGKILL either; a privileged one may not be signalled. *)
AllNatures == {"plain", "stubborn", "stuck", "privileged"}

ASSUME NaturesAssumption == Natures \subseteq AllNatures
ASSUME LeaderAssumption == Leader \notin Members

Codes == {"zero", "code", "signal"}
Ended == {"deadline", "canceled"}
Occupancies == {"absent", "present", "unsignalable"}

VARIABLES
    nature,    \* of each process
    life,      \* of each process: a zombie is a leader that nobody has waited for
    sent,      \* the strongest signal that each process has got from daem
    exit,      \* how the leader ended
    ctx,       \* the context of the attempt
    wait,      \* the goroutine in command.Wait, with its error and the context at its return
    watcher,   \* os/exec's watcher and what it will tell Wait
    once,      \* the one termination
    caller     \* runPreparedCommand

vars == <<nature, life, sent, exit, ctx, wait, watcher, once, caller>>

WaitErrors == Codes \cup Ended \cup {"cancel failed", "delay"}

ASSUME NoneAssumption == None \notin WaitErrors \cup {"watcher", "caller"}

Results ==
    [kind : {"exit", "timeout", "canceled", "signaled", "other"}, code : Codes \cup {None},
     failed : BOOLEAN]

WaitType ==
    [at : {"process", "watcher", "input", "done"}, err : WaitErrors \cup {None},
     ctx : Ended \cup {"live"}]

WatcherType ==
    [at : {"watching", "canceling", "delay", "killed", "gone"},
     err : Ended \cup {None, "cancel failed"}]

OnceType ==
    [by : {None, "watcher", "caller"},
     at : {"off", "quiesce", "observe", "term", "grace", "kill", "kill wait", "done"},
     leaderExited : BOOLEAN, found : BOOLEAN, residual : BOOLEAN, failed : BOOLEAN]

CallerType ==
    [at : {"await", "select", "terminate", "finish", "output", "reap", "returned"},
     ctxErr : Ended \cup {"live"}, early : BOOLEAN, waitErr : WaitErrors \cup {None},
     abandoned : BOOLEAN, incomplete : BOOLEAN, result : Results \cup {None}]

TypeOK ==
    /\ nature \in [Processes -> Natures]
    /\ life \in [Processes -> {"unborn", "running", "zombie", "gone"}]
    /\ sent \in [Processes -> {"nothing", "term", "kill"}]
    /\ exit \in Codes \cup {None}
    /\ ctx \in Ended \cup {"live"}
    /\ wait \in WaitType
    /\ watcher \in WatcherType
    /\ once \in OnceType
    /\ caller \in CallerType

(* The command has been started, and StartWait has been called. *)
Init ==
    /\ nature \in [Processes -> Natures]
    /\ life = [p \in Processes |-> IF p = Leader THEN "running" ELSE "unborn"]
    /\ sent = [p \in Processes |-> "nothing"]
    /\ exit = None
    /\ ctx = "live"
    /\ wait = [at |-> "process", err |-> None, ctx |-> "live"]
    /\ watcher = [at |-> "watching", err |-> None]
    /\ once = [by |-> None, at |-> "off", leaderExited |-> FALSE, found |-> FALSE,
               residual |-> FALSE, failed |-> FALSE]
    /\ caller = [at |-> "await", ctxErr |-> "live", early |-> FALSE, waitErr |-> None,
                 abandoned |-> FALSE, incomplete |-> FALSE, result |-> None]

processes == <<nature, life, sent, exit>>

-----------------------------------------------------------------------------
(* The processes *)

(* A process may end by itself, until it is killed; and of a signal that it dies of. *)
endings(p) ==
    (IF sent[p] # "kill" THEN {"zero", "code"} ELSE {})
    \cup (IF \/ sent[p] = "kill" /\ nature[p] # "stuck"
             \/ sent[p] = "term" /\ nature[p] = "plain" THEN {"signal"} ELSE {})

Die(p) ==
    /\ life[p] = "running"
    /\ \E code \in endings(p) :
           IF p = Leader THEN exit' = code /\ life' = [life EXCEPT ![p] = "zombie"]
                         ELSE UNCHANGED exit /\ life' = [life EXCEPT ![p] = "gone"]
    /\ UNCHANGED <<nature, sent, ctx, wait, watcher, once, caller>>

Fork(m) ==
    /\ life[Leader] = "running" /\ m \in Members /\ life[m] = "unborn"
    /\ life' = [life EXCEPT ![m] = "running"]
    /\ UNCHANGED <<nature, sent, exit, ctx, wait, watcher, once, caller>>

EndContext(cause) ==
    /\ ctx = "live" /\ cause \in Ended
    /\ ctx' = cause
    /\ UNCHANGED <<processes, wait, watcher, once, caller>>

running == {p \in Processes : life[p] = "running"}

signalable == {p \in running : nature[p] # "privileged"}

(* ObserveGroup: what kill(-pgid, 0) says.  Of a zombie, systems say different things. *)
occupancies ==
    IF signalable # {} THEN {"present"}
    ELSE IF life[Leader] = "zombie" THEN {"present", "unsignalable"}
    ELSE IF running # {} THEN {"unsignalable"} ELSE {"absent"}

-----------------------------------------------------------------------------
(* command.Wait *)

Reap ==
    /\ wait.at = "process" /\ life[Leader] = "zombie"
    /\ life' = [life EXCEPT ![Leader] = "gone"]
    /\ wait' = [wait EXCEPT !.at = "watcher", !.err = exit]
    /\ UNCHANGED <<nature, sent, exit, ctx, watcher, once, caller>>

(* The watcher's error counts if the process ended well. *)
HearWatcher ==
    /\ wait.at = "watcher" /\ watcher.at \in {"watching", "delay", "killed"}
    /\ watcher' = [watcher EXCEPT !.at = "gone"]
    /\ wait' = [wait EXCEPT !.at = "input",
                            !.err = IF @ = "zero" /\ watcher.err # None THEN watcher.err ELSE @]
    /\ UNCHANGED <<processes, ctx, once, caller>>

(* The copy of the input has ended, or a member that does not read it keeps it. *)
Return ==
    /\ wait.at = "input"
    /\ \E late \in BOOLEAN :
           /\ late => running # {} /\ wait.err = "zero"
           /\ wait' = [at |-> "done", err |-> IF late THEN "delay" ELSE wait.err, ctx |-> ctx]
    /\ UNCHANGED <<processes, ctx, watcher, once, caller>>

-----------------------------------------------------------------------------
(* os/exec's watcher *)

begun(who) ==
    [once EXCEPT !.by = who, !.at = IF who = "caller" /\ caller.at = "output" THEN "quiesce" ELSE "observe",
                 !.leaderExited = wait.at = "done"]

(* Terminate: the first to come does it. *)
Terminate(who) == once' = IF once.by = None THEN begun(who) ELSE once

Cancel ==
    /\ watcher.at = "watching" /\ ctx # "live"
    /\ watcher' = [watcher EXCEPT !.at = "canceling"]
    /\ Terminate("watcher")
    /\ UNCHANGED <<processes, ctx, wait, caller>>

(* Mutant: Wait is told that the process was done. *)
CanceledDone ==
    /\ watcher.at = "canceling" /\ once.at = "done"
    /\ watcher' = [at |-> "delay",
                   err |-> IF once.found THEN ctx ELSE "process done"]
    /\ UNCHANGED <<processes, ctx, wait, once, caller>>

(* cancel: a group in which nothing was found has ended by itself. *)
Canceled ==
    /\ watcher.at = "canceling" /\ once.at = "done"
    /\ watcher' = [at |-> "delay",
                   err |-> IF once.failed THEN "cancel failed" ELSE IF once.found THEN ctx ELSE None]
    /\ UNCHANGED <<processes, ctx, wait, once, caller>>

(* WaitDelay has passed. *)
KillLeader ==
    /\ watcher.at = "delay"
    /\ watcher' = [watcher EXCEPT !.at = "killed"]
    /\ sent' = [sent EXCEPT ![Leader] =
                   IF life[Leader] = "running" /\ Leader \in signalable THEN "kill" ELSE @]
    /\ UNCHANGED <<nature, life, exit, ctx, wait, once, caller>>

-----------------------------------------------------------------------------
(* terminateDedicatedProcessGroup *)

Done(failed) == once' = [once EXCEPT !.at = "done", !.failed = failed]

(* Go on if the group is there; otherwise this is the end of it. *)
Judge(occupancy, next) ==
    CASE occupancy = "absent"       -> Done(FALSE)
      [] occupancy = "unsignalable" -> Done(TRUE)
      [] OTHER                      -> next

StepTo(at) == once' = [once EXCEPT !.at = at]

(* A poll sees the group gone before the bound, *)
Poll ==
    /\ once.at \in {"quiesce", "grace", "kill wait"} /\ occupancies = {"absent"}
    /\ Done(FALSE)
    /\ UNCHANGED <<processes, ctx, wait, watcher, caller>>

(* Mutant: what is still there after the quiescence period is left alone. *)
QuiescedAnyway ==
    /\ once.at = "quiesce"
    /\ Done(FALSE)
    /\ UNCHANGED <<processes, ctx, wait, watcher, caller>>

(* or the bound has passed. *)
Quiesced ==
    /\ once.at = "quiesce"
    /\ \E o \in occupancies : Judge(o, StepTo("observe"))
    /\ UNCHANGED <<processes, ctx, wait, watcher, caller>>

Observe ==
    /\ once.at = "observe"
    /\ \E o \in occupancies :
           Judge(o, once' = [once EXCEPT !.at = "term", !.found = TRUE,
                                         !.residual = once.leaderExited])
    /\ UNCHANGED <<processes, ctx, wait, watcher, caller>>

Signal(signal) ==
    sent' = [p \in Processes |-> IF p \in signalable /\ sent[p] # "kill" THEN signal ELSE sent[p]]

Term ==
    /\ once.at = "term"
    /\ \E o \in occupancies : Judge(o, StepTo("grace"))
    /\ Signal("term")
    /\ UNCHANGED <<nature, life, exit, ctx, wait, watcher, caller>>

GraceOver ==
    /\ once.at = "grace"
    /\ \E o \in occupancies : Judge(o, StepTo("kill"))
    /\ UNCHANGED <<processes, ctx, wait, watcher, caller>>

Kill ==
    /\ once.at = "kill"
    /\ \E o \in occupancies : Judge(o, StepTo("kill wait"))
    /\ Signal("kill")
    /\ UNCHANGED <<nature, life, exit, ctx, wait, watcher, caller>>

(* Mutant: the termination ends when the leader has been waited for. *)
KillWaitForLeader ==
    /\ once.at = "kill wait" /\ wait.at = "done"
    /\ \E o \in occupancies : Judge(o, Done(TRUE))
    /\ UNCHANGED <<processes, ctx, wait, watcher, caller>>

(* Mutant: a group that survives is none of our business. *)
KillWaitForgiving ==
    /\ once.at = "kill wait"
    /\ \E o \in occupancies : Judge(o, Done(FALSE))
    /\ UNCHANGED <<processes, ctx, wait, watcher, caller>>

(* A group that survives is an error. *)
KillWaitOver ==
    /\ once.at = "kill wait"
    /\ \E o \in occupancies : Judge(o, Done(TRUE))
    /\ UNCHANGED <<processes, ctx, wait, watcher, caller>>

-----------------------------------------------------------------------------
(* The caller *)

processOwned(err) == err \in {"zero", "code", "delay"}

(* Mutant: a context that has ended explains everything. *)
contextFirst(err, ctxErr) == IF ctxErr = "live" THEN err ELSE ctxErr

(* Of a result that the process does not own, a context that ended is the reason. *)
completedWaitErr(err, ctxErr) ==
    IF processOwned(err) \/ ctxErr = "live" THEN err ELSE ctxErr

GotWait(ctxErr) ==
    caller' = [caller EXCEPT !.at = "output", !.waitErr = completedWaitErr(wait.err, ctxErr)]

(* Mutant: the output is drained before the leader is waited for. *)
AwaitOutputFirst ==
    /\ caller.at = "await"
    /\ caller' = [caller EXCEPT !.at = "output"]
    /\ UNCHANGED <<processes, ctx, wait, watcher, once>>

(* Await: a wait that is over already is preferred to anything else. *)
Await ==
    /\ caller.at = "await"
    /\ IF wait.at = "done" THEN GotWait(ctx) ELSE caller' = [caller EXCEPT !.at = "select"]
    /\ UNCHANGED <<processes, ctx, wait, watcher, once>>

SelectWait ==
    /\ caller.at = "select" /\ wait.at = "done"
    /\ GotWait(ctx)
    /\ UNCHANGED <<processes, ctx, wait, watcher, once>>

SelectContext ==
    /\ caller.at = "select" /\ ctx # "live"
    /\ caller' = [caller EXCEPT !.at = "terminate", !.ctxErr = ctx]
    /\ Terminate("caller")
    /\ UNCHANGED <<processes, ctx, wait, watcher>>

toFinish(ctxErr) ==
    caller' = [caller EXCEPT !.at = "finish", !.ctxErr = ctxErr, !.early = wait.at = "done"]

Terminated ==
    /\ caller.at = "terminate" /\ once.at = "done"
    /\ toFinish(caller.ctxErr)
    /\ UNCHANGED <<processes, ctx, wait, watcher, once>>

SelectTerminated ==
    /\ caller.at = "select" /\ once.at = "done"
    /\ toFinish(ctx)
    /\ UNCHANGED <<processes, ctx, wait, watcher, once>>

FinishAwait ==
    /\ caller.at = "finish" /\ wait.at = "done"
    /\ GotWait(caller.ctxErr)
    /\ UNCHANGED <<processes, ctx, wait, watcher, once>>

(* Mutant: the caller waits for a leader that cannot be killed. *)
AbandonNever ==
    /\ FALSE
    /\ UNCHANGED vars

(* The bound on the wait passes; not at once, if the wait was over when it began. *)
Abandon ==
    /\ caller.at = "finish" /\ ~caller.early
    /\ caller' = [caller EXCEPT !.at = "output", !.abandoned = TRUE,
                                !.waitErr = IF caller.ctxErr = "live" THEN None ELSE caller.ctxErr]
    /\ UNCHANGED <<processes, ctx, wait, watcher, once>>

(* Finish of both streams: at their end, or when the bound passes, for a process that has
   left the group may keep them open, and one that is in it may have closed them.  Then
   ReapAfterLeaderExit. *)
Drain ==
    /\ caller.at = "output"
    /\ \E forced \in BOOLEAN : caller' = [caller EXCEPT !.at = "reap", !.incomplete = forced]
    /\ Terminate("caller")
    /\ UNCHANGED <<processes, ctx, wait, watcher>>

(* finalizeDefaultCommandResult *)
result ==
    LET err      == caller.waitErr
        cleanup  == once.failed \/ once.residual
        ofKind(kind, code, failed) == [kind |-> kind, code |-> code, failed |-> failed]
    IN  CASE err = "deadline" -> ofKind("timeout", None, TRUE)
          [] err = "canceled" -> ofKind("canceled", None, TRUE)
          [] err \in {"zero", "delay"} ->
                ofKind("exit", "zero", err = "delay" \/ caller.incomplete \/ cleanup)
          [] err = "code"     -> ofKind("exit", "code", TRUE)
          [] err = "signal"   -> ofKind("signaled", None, TRUE)
          [] OTHER            -> ofKind("other", None, TRUE)

Finalize ==
    /\ caller.at = "reap" /\ once.at = "done"
    /\ caller' = [caller EXCEPT !.at = "returned", !.result = result]
    /\ UNCHANGED <<processes, ctx, wait, watcher, once>>

-----------------------------------------------------------------------------
WaitStep == Reap \/ HearWatcher \/ Return

WatcherStep == Cancel \/ Canceled \/ KillLeader

TerminateStep ==
    Poll \/ Quiesced \/ Observe \/ Term \/ GraceOver \/ Kill \/ KillWaitOver

CallerStep ==
    \/ Await \/ SelectWait \/ SelectContext \/ Terminated \/ SelectTerminated
    \/ FinishAwait \/ Abandon \/ Drain \/ Finalize

Next ==
    \/ \E p \in Processes : Die(p) \/ Fork(p)
    \/ \E cause \in Ended : EndContext(cause)
    \/ WaitStep \/ WatcherStep \/ TerminateStep \/ CallerStep

Spec == Init /\ [][Next]_vars

(* Goroutines run, timers expire, the attempt's deadline comes, and a process that was
   killed dies. *)
FairSpec ==
    /\ Spec
    /\ WF_vars(WaitStep) /\ WF_vars(WatcherStep) /\ WF_vars(TerminateStep) /\ WF_vars(CallerStep)
    /\ WF_vars(EndContext("deadline"))
    /\ \A p \in Processes : WF_vars(sent[p] = "kill" /\ Die(p))

-----------------------------------------------------------------------------
(* Properties *)

Returned == caller.at = "returned"

(* An exit that Wait has returned before the context ended is what is reported, however
   late the caller looks and whatever has happened to the context in the meantime. *)
OwnedExitKept ==
    (Returned /\ wait.at = "done" /\ wait.ctx = "live" /\ processOwned(wait.err))
        => /\ caller.result.kind = "exit"
           /\ caller.result.code = (IF wait.err = "code" THEN "code" ELSE "zero")

(* A leader that runs is signalled only when its context has ended: cleaning up after a
   command never hits the command. *)
NoStraySignal == (life[Leader] = "running" /\ sent[Leader] # "nothing") => ctx # "live"

(* A command of which no error is reported has left nothing in its group, and all of its
   output has been read. *)
SuccessLeavesNothing ==
    (Returned /\ ~caller.result.failed) => (running = {} /\ life[Leader] = "gone" /\ ~caller.incomplete)

(* What is reported as a timeout or as cancelled is the way the context really ended, and
   then the group is gone, or the termination has said that it is not. *)
EndedTruthful ==
    (Returned /\ caller.result.kind \in {"timeout", "canceled"})
        => /\ ctx = (IF caller.result.kind = "timeout" THEN "deadline" ELSE "canceled")
           /\ (running # {} => once.failed)

(* Every command returns to its caller, even one that cannot be killed. *)
AlwaysReturns == <>Returned

(* A leader that has ended is waited for, even after the caller has given up. *)
EventuallyReaped == [](life[Leader] = "zombie" => <>(life[Leader] = "gone" /\ wait.at = "done"))

(* The properties together: what the caller is told of a command is so, the exit that was
   there first, a success only when nothing is left, an end of the context only as it
   was (processtree.go). *)
ReportTrue == TypeOK /\ OwnedExitKept /\ SuccessLeavesNothing /\ EndedTruthful

(* The caller is always answered, and no zombie stays. *)
Ends == AlwaysReturns /\ EventuallyReaped

-----------------------------------------------------------------------------
(* What they rest on. *)

(* Nothing of the group is left, and nothing can come back. *)
empty == running = {} /\ life[Leader] = "gone"

(* The leader is waited for once, and the group is not given up while it is there. *)
groupKnown ==
    /\ life[Leader] # "unborn"
    /\ wait.at # "process" => life[Leader] = "gone"
    /\ once.by = None <=> once.at = "off"
    /\ once.at = "done" /\ ~once.failed => empty

(* Who says that the context has ended says it as it was. *)
contextKnown ==
    /\ wait.err \in Ended => ctx = wait.err
    /\ watcher.err \in Ended => ctx = watcher.err
    /\ caller.ctxErr \in Ended => ctx = caller.ctxErr
    /\ caller.waitErr \in Ended => ctx = caller.waitErr

(* While the context lives nobody terminates a command that has not been waited for. *)
terminationDue ==
    /\ watcher.at \in {"canceling", "delay", "killed"} => ctx # "live"
    /\ caller.at \in {"terminate", "finish"} => ctx # "live"
    /\ once.by # None /\ caller.at \in {"await", "select"} => ctx # "live"
    /\ once.by # None /\ ctx = "live" => wait.at = "done"

(* The caller goes on with what Wait has returned, or has given up a wait that the context
   outlived by no means. *)
exitKnown ==
    /\ caller.abandoned => /\ caller.at \in {"output", "reap", "returned"}
                           /\ ctx # "live"
                           /\ wait.at = "done" => wait.ctx # "live"
    /\ caller.at = "finish" /\ ~caller.early => (wait.at = "done" => wait.ctx # "live")
    /\ caller.at \in {"output", "reap", "returned"} /\ ~caller.abandoned =>
           /\ wait.at = "done"
           /\ processOwned(wait.err) => caller.waitErr = wait.err
    /\ Returned => once.at = "done" /\ caller.result = result

(* The inductive invariant. *)
Inv == TypeOK /\ groupKnown /\ contextKnown /\ terminationDue /\ exitKnown /\ NoStraySignal

=============================================================================
