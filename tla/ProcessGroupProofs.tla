--------------------------- MODULE ProcessGroupProofs ---------------------------
(***************************************************************************)
(* For any number of processes of any nature that a command leaves in its   *)
(* group: what ProcessGroup tells the caller of the command is so, and a      *)
(* command is signalled only after its context has ended.                    *)
(***************************************************************************)
EXTENDS ProcessGroup, TLAPS

-----------------------------------------------------------------------------
(* Types. *)

LEMMA WaitFields ==
  ASSUME wait \in WaitType
  PROVE  /\ wait.at \in {"process", "watcher", "input", "done"}
         /\ wait.err \in WaitErrors \cup {None}
         /\ wait.ctx \in Ended \cup {"live"}
  BY DEF WaitType

LEMMA OnceFields ==
  ASSUME once \in OnceType
  PROVE  /\ once.by \in {None, "watcher", "caller"}
         /\ once.at \in {"off", "quiesce", "observe", "term", "grace", "kill", "kill wait", "done"}
         /\ once.leaderExited \in BOOLEAN /\ once.found \in BOOLEAN
         /\ once.residual \in BOOLEAN /\ once.failed \in BOOLEAN
  BY DEF OnceType

LEMMA CallerFields ==
  ASSUME caller \in CallerType
  PROVE  /\ caller.at \in {"await", "select", "terminate", "finish", "output", "reap", "returned"}
         /\ caller.ctxErr \in Ended \cup {"live"} /\ caller.early \in BOOLEAN
         /\ caller.waitErr \in WaitErrors \cup {None}
         /\ caller.abandoned \in BOOLEAN /\ caller.incomplete \in BOOLEAN
         /\ caller.result \in Results \cup {None}
  BY DEF CallerType

LEMMA InitType == Init => TypeOK
  BY LeaderAssumption
     DEF Init, TypeOK, Processes, WaitType, WatcherType, OnceType, CallerType, Ended

LEMMA TerminateType ==
  ASSUME TypeOK, NEW who \in {"watcher", "caller"}, Terminate(who)
  PROVE  once' \in OnceType
  BY DEF TypeOK, Terminate, begun, OnceType

LEMMA TerminateStepType ==
  ASSUME TypeOK, TerminateStep
  PROVE  once' \in OnceType
  <1>1. \A failed \in BOOLEAN : Done(failed) => once' \in OnceType
    BY DEF TypeOK, OnceType, Done
  <1>2. \A at \in {"observe", "grace", "kill", "kill wait"} : StepTo(at) => once' \in OnceType
    BY DEF TypeOK, OnceType, StepTo
  <1>3. once' = [once EXCEPT !.at = "term", !.found = TRUE, !.residual = once.leaderExited]
        => once' \in OnceType
    BY DEF TypeOK, OnceType
  <1> QED BY <1>1, <1>2, <1>3 DEF TerminateStep, Poll, Quiesced, Observe, Term, GraceOver, Kill,
                                  KillWaitOver, Judge

LEMMA ResultType == result \in Results
  BY DEF result, Results, Codes

LEMMA CallerStepType ==
  ASSUME TypeOK, CallerStep
  PROVE  caller' \in CallerType
  <1>1. \A c \in Ended \cup {"live"} : GotWait(c) => caller' \in CallerType
    BY DEF TypeOK, CallerType, WaitType, GotWait, completedWaitErr, WaitErrors
  <1>2. \A c \in Ended \cup {"live"} : toFinish(c) => caller' \in CallerType
    BY DEF TypeOK, CallerType, toFinish
  <1>3. ctx \in Ended \cup {"live"} /\ caller.ctxErr \in Ended \cup {"live"}
    BY CallerFields DEF TypeOK
  <1>4. CASE Await
    BY <1>1, <1>3, <1>4 DEF Await, TypeOK, CallerType
  <1>5. CASE SelectContext
    BY <1>5 DEF SelectContext, TypeOK, CallerType
  <1>6. CASE Abandon
    BY <1>6 DEF Abandon, TypeOK, CallerType, WaitErrors
  <1>7. CASE Drain
    BY <1>7 DEF Drain, TypeOK, CallerType
  <1>8. CASE Finalize
    BY <1>8, ResultType DEF Finalize, TypeOK, CallerType
  <1>9. CASE SelectWait \/ Terminated \/ SelectTerminated \/ FinishAwait
    BY <1>1, <1>2, <1>3, <1>9 DEF SelectWait, Terminated, SelectTerminated, FinishAwait
  <1> QED BY <1>4, <1>5, <1>6, <1>7, <1>8, <1>9 DEF CallerStep

LEMMA TypeStep ==
  ASSUME TypeOK, terminationDue, [Next]_vars
  PROVE  TypeOK'
  <1>1. ASSUME NEW p \in Processes, Die(p) \/ Fork(p)  PROVE TypeOK'
    <2>1. life' \in [Processes -> {"unborn", "running", "zombie", "gone"}]
      BY <1>1 DEF TypeOK, Die, Fork
    <2>2. exit' \in Codes \cup {None}
      BY <1>1 DEF TypeOK, Die, Fork, endings, Codes
    <2> QED BY <1>1, <2>1, <2>2 DEF TypeOK, Die, Fork
  <1>2. ASSUME NEW cause \in Ended, EndContext(cause)  PROVE TypeOK'
    BY <1>2 DEF TypeOK, EndContext, processes
  <1>3. CASE WaitStep
    <2>1. wait' \in WaitType
      <3>1. CASE Reap
        BY <3>1 DEF TypeOK, Reap, WaitErrors, WaitType
      <3>2. CASE HearWatcher
        <4>1. watcher.err # None => watcher.err \in WaitErrors
          BY DEF TypeOK, WatcherType, WaitErrors
        <4> QED BY <3>2, <4>1 DEF TypeOK, HearWatcher, WaitType
      <3>3. CASE Return
        <4>1. PICK late \in BOOLEAN :
                 wait' = [at |-> "done", err |-> IF late THEN "delay" ELSE wait.err, ctx |-> ctx]
          BY <3>3 DEF Return
        <4>2. "delay" \in WaitErrors
          BY DEF WaitErrors
        <4> QED BY <4>1, <4>2, WaitFields DEF TypeOK, WaitType
      <3> QED BY <1>3, <3>1, <3>2, <3>3 DEF WaitStep
    <2>2. watcher' \in WatcherType
      BY <1>3 DEF TypeOK, WaitStep, Reap, HearWatcher, Return, WatcherType
    <2>3. life' \in [Processes -> {"unborn", "running", "zombie", "gone"}]
      BY <1>3 DEF TypeOK, WaitStep, Reap, HearWatcher, Return, processes
    <2> QED BY <1>3, <2>1, <2>2, <2>3 DEF TypeOK, WaitStep, Reap, HearWatcher, Return, processes
  <1>4. CASE WatcherStep
    <2>1. watcher' \in WatcherType
      <3>1. CASE Cancel \/ KillLeader
        BY <3>1 DEF TypeOK, Cancel, KillLeader, WatcherType
      <3>2. CASE Canceled
        <4>1. ctx \in Ended
          BY <3>2 DEF Canceled, terminationDue, TypeOK
        <4> QED BY <3>2, <4>1, OnceFields DEF Canceled, TypeOK, WatcherType
      <3> QED BY <1>4, <3>1, <3>2 DEF WatcherStep
    <2>2. once' \in OnceType
      BY <1>4, TerminateType DEF TypeOK, WatcherStep, Cancel, Canceled, KillLeader
    <2>3. sent' \in [Processes -> {"nothing", "term", "kill"}]
      BY <1>4 DEF TypeOK, WatcherStep, Cancel, Canceled, KillLeader, processes
    <2> QED BY <1>4, <2>1, <2>2, <2>3
            DEF TypeOK, WatcherStep, Cancel, Canceled, KillLeader, processes
  <1>5. CASE TerminateStep
    <2>1. sent' \in [Processes -> {"nothing", "term", "kill"}]
      <3>1. \A s \in {"term", "kill"} :
               Signal(s) => sent' \in [Processes -> {"nothing", "term", "kill"}]
        BY DEF TypeOK, Signal
      <3> QED BY <1>5, <3>1 DEF TypeOK, TerminateStep, Poll, Quiesced, Observe, Term, GraceOver,
               Kill, KillWaitOver, processes
    <2>2. UNCHANGED <<nature, life, exit, ctx, wait, watcher, caller>>
      BY <1>5 DEF TerminateStep, Poll, Quiesced, Observe, Term, GraceOver, Kill, KillWaitOver,
           processes
    <2> QED BY <1>5, <2>1, <2>2, TerminateStepType DEF TypeOK
  <1>6. CASE CallerStep
    <2>1. once' \in OnceType
      BY <1>6, TerminateType DEF CallerStep, Await, SelectWait, SelectContext, Terminated,
           SelectTerminated, FinishAwait, Abandon, Drain, Finalize, TypeOK
    <2>2. UNCHANGED <<processes, ctx, wait, watcher>>
      BY <1>6 DEF CallerStep, Await, SelectWait, SelectContext, Terminated,
           SelectTerminated, FinishAwait, Abandon, Drain, Finalize
    <2> QED BY <1>6, <2>1, <2>2, CallerStepType DEF TypeOK, processes
  <1>7. CASE UNCHANGED vars
    BY <1>7 DEF TypeOK, vars
  <1> QED BY <1>1, <1>2, <1>3, <1>4, <1>5, <1>6, <1>7 DEF Next

-----------------------------------------------------------------------------
(* The group. *)

(* What is absent is gone for good. *)
LEMMA Absence ==
  ASSUME TypeOK, groupKnown, "absent" \in occupancies
  PROVE  empty
  <1>1. running = {} /\ life[Leader] # "zombie"
    BY DEF occupancies
  <1>2. life[Leader] # "running"
    BY <1>1 DEF running, Processes
  <1> QED BY <1>1, <1>2 DEF TypeOK, groupKnown, empty, Processes

(* The termination ends well only over an empty group, and is begun once. *)
LEMMA OnceStep ==
  ASSUME TypeOK, groupKnown, [Next]_vars
  PROVE  /\ once.at = "done" => once' = once
         /\ once.by # None => once'.by = once.by
         /\ once'.by = None <=> once'.at = "off"
         /\ once'.at = "done" /\ ~once'.failed /\ once' # once => empty
  <1>0. once \in OnceType
    BY DEF TypeOK
  <1>1. CASE UNCHANGED once
    BY <1>1 DEF groupKnown
  <1>2. ASSUME NEW who \in {"watcher", "caller"}, Terminate(who)
        PROVE  /\ once.at = "done" => once' = once
               /\ once.by # None => once'.by = once.by
               /\ once'.by = None <=> once'.at = "off"
               /\ ~(once'.at = "done" /\ once' # once)
    BY <1>0, <1>2, NoneAssumption DEF Terminate, begun, OnceType, groupKnown
  <1>3. CASE TerminateStep
    <2>1. once.at \notin {"off", "done"} /\ once.by # None
      BY <1>3, <1>0 DEF groupKnown, TerminateStep, Poll, Quiesced, Observe, Term, GraceOver, Kill,
           KillWaitOver
    <2>2. once'.by = once.by /\ once'.at # "off"
      BY <1>0, <1>3, <2>1 DEF OnceType, TerminateStep, Poll, Quiesced, Observe, Term, GraceOver,
           Kill, KillWaitOver, Judge, StepTo, Done
    <2>3. once'.at = "done" /\ ~once'.failed => "absent" \in occupancies
      BY <1>0, <1>3, <2>1 DEF OnceType, TerminateStep, Poll, Quiesced, Observe, Term, GraceOver,
           Kill, KillWaitOver, Judge, StepTo, Done
    <2> QED BY <2>1, <2>2, <2>3, Absence
  <1>4. \/ UNCHANGED once
        \/ \E who \in {"watcher", "caller"} : Terminate(who)
        \/ TerminateStep
    BY DEF Next, vars, Die, Fork, EndContext, WaitStep, Reap, HearWatcher, Return, WatcherStep,
         Cancel, Canceled, KillLeader, CallerStep, Await, SelectWait, SelectContext, Terminated,
         SelectTerminated, FinishAwait, Abandon, Drain, Finalize
  <1> QED BY <1>1, <1>2, <1>3, <1>4

(* A leader is born once and waited for once; what is empty stays empty. *)
LEMMA LifeStep ==
  ASSUME TypeOK, groupKnown, [Next]_vars
  PROVE  /\ life'[Leader] # "unborn"
         /\ life[Leader] = "gone" => life'[Leader] = "gone"
         /\ life[Leader] # "running" => life'[Leader] # "running"
         /\ empty => empty'
  <1>1. CASE UNCHANGED life
    BY <1>1 DEF groupKnown, empty, running
  <1>2. ASSUME NEW p \in Processes, Die(p) \/ Fork(p)
        PROVE  /\ life'[Leader] # "unborn"
               /\ life[Leader] = "gone" => life'[Leader] = "gone"
               /\ life[Leader] # "running" => life'[Leader] # "running"
               /\ empty => empty'
    BY <1>2, LeaderAssumption DEF Die, Fork, TypeOK, groupKnown, empty, running, Processes
  <1>3. CASE Reap
    BY <1>3 DEF Reap, TypeOK, groupKnown, empty, running, Processes
  <1>4. UNCHANGED life \/ Reap \/ \E p \in Processes : Die(p) \/ Fork(p)
    BY DEF Next, vars, EndContext, WaitStep, HearWatcher, Return, WatcherStep, processes,
         Cancel, Canceled, KillLeader, CallerStep, Await, SelectWait, SelectContext, Terminated,
         SelectTerminated, FinishAwait, Abandon, Drain, Finalize, TerminateStep, Poll, Quiesced,
         Observe, Term, GraceOver, Kill, KillWaitOver
  <1> QED BY <1>1, <1>2, <1>3, <1>4

LEMMA GroupStep ==
  ASSUME TypeOK, TypeOK', groupKnown, [Next]_vars
  PROVE  groupKnown'
  <1>1. wait'.at # "process" => life'[Leader] = "gone"
    <2>1. CASE wait.at # "process"
      BY <2>1, LifeStep DEF groupKnown
    <2>2. CASE wait.at = "process" /\ wait'.at # "process"
      <3>1. Reap
        BY <2>2 DEF Next, vars, Die, Fork, EndContext, WaitStep, HearWatcher, Return, WatcherStep,
             Cancel, Canceled, KillLeader, CallerStep, Await, SelectWait, SelectContext, Terminated,
             SelectTerminated, FinishAwait, Abandon, Drain, Finalize, TerminateStep, Poll,
             Quiesced, Observe, Term, GraceOver, Kill, KillWaitOver
      <3> QED BY <3>1 DEF Reap, TypeOK, Processes
    <2> QED BY <2>1, <2>2
  <1> QED BY <1>1, OnceStep, LifeStep DEF groupKnown

-----------------------------------------------------------------------------
(* The context. *)

LEMMA ContextStep ==
  ASSUME TypeOK, contextKnown, [Next]_vars
  PROVE  /\ contextKnown'
         /\ ctx # "live" => ctx' = ctx
  <1>0. "live" \notin Ended /\ None \notin Ended
    BY NoneAssumption DEF Ended, WaitErrors
  <1>1. ctx # "live" => ctx' = ctx
    BY DEF Next, vars, Die, Fork, EndContext, WaitStep, Reap, HearWatcher, Return, WatcherStep,
       Cancel, Canceled, KillLeader, CallerStep, Await, SelectWait, SelectContext, Terminated,
       SelectTerminated, FinishAwait, Abandon, Drain, Finalize, TerminateStep, Poll,
       Quiesced, Observe, Term, GraceOver, Kill, KillWaitOver, processes
  <1>2. UNCHANGED <<wait, watcher, caller>> => contextKnown'
    BY <1>0, <1>1 DEF contextKnown
  <1>3. CASE WaitStep
    <2>1. CASE Reap
      <3>1. exit \notin Ended
        BY NoneAssumption DEF TypeOK, Codes, Ended, WaitErrors
      <3> QED BY <2>1, <3>1 DEF Reap, TypeOK, WaitType, contextKnown
    <2>2. CASE HearWatcher
      BY <2>2 DEF HearWatcher, TypeOK, WaitType, WatcherType, contextKnown
    <2>3. CASE Return
      BY <2>3 DEF Return, TypeOK, WaitType, contextKnown, Ended
    <2> QED BY <1>1, <1>3, <2>1, <2>2, <2>3 DEF WaitStep
  <1>4. CASE WatcherStep
    <2>1. UNCHANGED <<ctx, wait, caller>>
      BY <1>4 DEF WatcherStep, Cancel, Canceled, KillLeader
    <2>2. watcher'.err \in Ended => watcher'.err = ctx \/ watcher'.err = watcher.err
      <3>1. CASE Cancel \/ KillLeader
        BY <3>1 DEF Cancel, KillLeader, TypeOK, WatcherType
      <3>2. CASE Canceled
        <4>1. watcher'.err \in {"cancel failed", ctx, None}
          BY <3>2, OnceFields DEF Canceled, TypeOK
        <4> QED BY <1>0, <4>1 DEF Ended
      <3> QED BY <1>4, <3>1, <3>2 DEF WatcherStep
    <2> QED BY <1>1, <2>1, <2>2 DEF contextKnown
  <1>5. CASE CallerStep
    <2>1. UNCHANGED <<ctx, wait, watcher>>
      BY <1>5 DEF CallerStep, Await, SelectWait, SelectContext, Terminated, SelectTerminated,
           FinishAwait, Abandon, Drain, Finalize
    <2>2. /\ caller'.ctxErr \in {caller.ctxErr, ctx}
          /\ caller'.waitErr \in {caller.waitErr, wait.err, ctx, caller.ctxErr, None}
      BY <1>5 DEF CallerStep, Await, SelectWait, SelectContext, Terminated, SelectTerminated,
           FinishAwait, Abandon, Drain, Finalize, TypeOK, CallerType, GotWait, completedWaitErr,
           toFinish
    <2> QED BY <1>0, <1>1, <2>1, <2>2 DEF contextKnown
  <1>6. UNCHANGED <<wait, watcher, caller>> \/ WaitStep \/ WatcherStep \/ CallerStep
    BY DEF Next, vars, Die, Fork, EndContext, TerminateStep, Poll, Quiesced, Observe, Term,
       GraceOver, Kill, KillWaitOver
  <1> QED BY <1>1, <1>2, <1>3, <1>4, <1>5, <1>6

(* Nobody terminates the group of a command that runs within its context. *)
LEMMA TerminationStep ==
  ASSUME Inv, TypeOK', [Next]_vars
  PROVE  terminationDue'
  <1> USE DEF Inv
  <1>0. /\ ctx # "live" => ctx' = ctx
        /\ wait \in WaitType /\ watcher \in WatcherType /\ once \in OnceType /\ caller \in CallerType
    BY ContextStep DEF TypeOK
  <1>1. CASE UNCHANGED <<watcher, caller, once>> /\ (wait.at = "done" => wait' = wait)
    BY <1>0, <1>1 DEF terminationDue
  <1>2. CASE TerminateStep
    <2>1. UNCHANGED <<ctx, wait, watcher, caller>>
      BY <1>2 DEF TerminateStep, Poll, Quiesced, Observe, Term, GraceOver, Kill, KillWaitOver
    <2>2. once.by # None
      BY <1>2 DEF groupKnown, TerminateStep, Poll, Quiesced, Observe, Term, GraceOver, Kill,
           KillWaitOver
    <2> QED BY <2>1, <2>2 DEF terminationDue
  <1>3. CASE HearWatcher
    BY <1>0, <1>3 DEF HearWatcher, terminationDue, WaitType, WatcherType
  <1>4. CASE WatcherStep
    <2>1. UNCHANGED <<ctx, wait, caller>> /\ (watcher.at # "watching" => UNCHANGED once)
      BY <1>4 DEF WatcherStep, Cancel, Canceled, KillLeader
    <2>2. watcher.at = "watching" => ctx # "live"
      BY <1>4 DEF WatcherStep, Cancel, Canceled, KillLeader
    <2>3. watcher.at \in {"watching", "canceling", "delay"}
      BY <1>4 DEF WatcherStep, Cancel, Canceled, KillLeader
    <2> QED BY <2>1, <2>2, <2>3 DEF terminationDue
  <1>5. CASE CallerStep
    <2>1. UNCHANGED <<ctx, wait, watcher>>
      BY <1>5 DEF CallerStep, Await, SelectWait, SelectContext, Terminated, SelectTerminated,
           FinishAwait, Abandon, Drain, Finalize
    <2>2. CASE Await \/ SelectWait \/ FinishAwait \/ Abandon \/ Finalize \/ Terminated
               \/ SelectTerminated
      <3>1. UNCHANGED once
        BY <2>2 DEF Await, SelectWait, Terminated, SelectTerminated, FinishAwait, Abandon, Finalize
      <3>2. /\ caller'.at \in {"select", "output", "finish", "returned"}
            /\ caller'.at = "select" => caller.at = "await"
            /\ caller'.at = "finish" => \/ caller.at = "terminate"
                                        \/ caller.at = "select" /\ once.at = "done"
        BY <1>0, <2>2 DEF Await, SelectWait, Terminated, SelectTerminated, FinishAwait, Abandon,
             Finalize, GotWait, toFinish, CallerType
      <3> QED BY <2>1, <3>1, <3>2 DEF terminationDue, groupKnown
    <2>3. CASE SelectContext
      BY <1>0, <2>1, <2>3 DEF SelectContext, CallerType, terminationDue
    <2>4. CASE Drain
      <3>1. caller'.at = "reap" /\ caller.at = "output"
        BY <1>0, <2>4 DEF Drain, CallerType
      <3>2. ctx = "live" => wait.at = "done"
        BY <3>1 DEF exitKnown
      <3> QED BY <2>1, <3>1, <3>2 DEF terminationDue
    <2> QED BY <1>5, <2>2, <2>3, <2>4 DEF CallerStep
  <1>6. CASE Reap \/ Return
    BY <1>0, <1>6 DEF Reap, Return, terminationDue, WaitType
  <1>7. UNCHANGED <<watcher, caller, once, wait>> \/ TerminateStep \/ WaitStep \/ WatcherStep
        \/ CallerStep
    BY DEF Next, vars, Die, Fork, EndContext
  <1> QED BY <1>1, <1>2, <1>3, <1>4, <1>5, <1>6, <1>7 DEF WaitStep

(* The result of a wait that the context did not end is not lost. *)
LEMMA ExitStep ==
  ASSUME Inv, TypeOK', [Next]_vars
  PROVE  exitKnown'
  <1> USE DEF Inv
  <1>0. /\ ctx # "live" => ctx' = ctx
        /\ wait \in WaitType /\ watcher \in WatcherType /\ once \in OnceType /\ caller \in CallerType
        /\ once.at = "done" => once' = once
    BY ContextStep, OnceStep DEF TypeOK
  <1>1. wait.at = "done" => wait' = wait
    BY DEF Next, vars, Die, Fork, EndContext, WaitStep, Reap, HearWatcher, Return, WatcherStep,
       Cancel, Canceled, KillLeader, CallerStep, Await, SelectWait, SelectContext, Terminated,
       SelectTerminated, FinishAwait, Abandon, Drain, Finalize, TerminateStep, Poll,
       Quiesced, Observe, Term, GraceOver, Kill, KillWaitOver, processes
  <1>2. wait'.at = "done" => wait' = wait \/ wait'.ctx = ctx
    <2>1. UNCHANGED wait \/ Reap \/ HearWatcher \/ Return
      BY DEF Next, vars, Die, Fork, EndContext, WaitStep, WatcherStep, Cancel, Canceled, KillLeader,
         CallerStep, Await, SelectWait, SelectContext, Terminated, SelectTerminated, FinishAwait,
         Abandon, Drain, Finalize, TerminateStep, Poll, Quiesced, Observe, Term, GraceOver, Kill,
         KillWaitOver, processes
    <2>2. Reap \/ HearWatcher => wait'.at # "done"
      BY <1>0 DEF Reap, HearWatcher, WaitType
    <2>3. Return => wait'.ctx = ctx
      BY DEF Return
    <2> QED BY <2>1, <2>2, <2>3
  <1>3. CASE UNCHANGED caller
    <2>1. Returned => result' = result /\ once' = once
      BY <1>0, <1>3 DEF exitKnown, result
    <2> QED BY <1>0, <1>1, <1>2, <1>3, <2>1 DEF exitKnown, Returned, terminationDue
  <1>4. CASE CallerStep
    <2>1. UNCHANGED <<ctx, wait, watcher>>
      BY <1>4 DEF CallerStep, Await, SelectWait, SelectContext, Terminated, SelectTerminated,
           FinishAwait, Abandon, Drain, Finalize
    <2>2. ASSUME NEW ctxErr, GotWait(ctxErr), wait.at = "done", ~caller.abandoned
          PROVE  exitKnown'
      BY <1>0, <2>1, <2>2 DEF GotWait, CallerType, exitKnown, Returned, completedWaitErr, processOwned
    <2>3. ASSUME NEW ctxErr, toFinish(ctxErr), ~caller.abandoned  PROVE exitKnown'
      BY <1>0, <2>1, <2>3 DEF toFinish, CallerType, exitKnown, Returned
    <2>4. CASE Await \/ SelectWait \/ FinishAwait \/ Terminated \/ SelectTerminated
      <3>1. ~caller.abandoned
        BY <1>0, <2>4 DEF exitKnown, Await, SelectWait, FinishAwait, Terminated, SelectTerminated,
             CallerType
      <3>2. CASE caller' = [caller EXCEPT !.at = "select"]
        BY <1>0, <2>1, <3>1, <3>2 DEF exitKnown, CallerType, Returned
      <3> QED BY <2>2, <2>3, <2>4, <3>1, <3>2 DEF Await, SelectWait, FinishAwait, Terminated,
             SelectTerminated
    <2>5. CASE SelectContext
      BY <1>0, <2>1, <2>5 DEF SelectContext, exitKnown, CallerType, Returned
    <2>6. CASE Abandon
      BY <1>0, <2>1, <2>6 DEF Abandon, exitKnown, terminationDue, CallerType, Returned
    <2>7. CASE Drain
      BY <1>0, <2>1, <2>7 DEF Drain, exitKnown, CallerType, Returned
    <2>8. CASE Finalize
      <3>1. UNCHANGED once /\ once.at = "done" /\ caller.at = "reap"
            /\ caller'.at = "returned" /\ caller'.result = result
            /\ caller'.abandoned = caller.abandoned /\ caller'.waitErr = caller.waitErr
            /\ caller'.incomplete = caller.incomplete
        BY <1>0, <2>8 DEF Finalize, CallerType
      <3>2. result' = result
        BY <3>1 DEF result
      <3> QED BY <2>1, <3>1, <3>2 DEF exitKnown, Returned
    <2> QED BY <1>4, <2>4, <2>5, <2>6, <2>7, <2>8 DEF CallerStep
  <1>5. UNCHANGED caller \/ CallerStep
    BY DEF Next, vars, Die, Fork, EndContext, WaitStep, Reap, HearWatcher, Return, WatcherStep,
       Cancel, Canceled, KillLeader, TerminateStep, Poll, Quiesced, Observe, Term, GraceOver,
       Kill, KillWaitOver
  <1> QED BY <1>3, <1>4, <1>5

(* A leader that runs has been signalled by its watcher or its termination. *)
LEMMA SignalStep ==
  ASSUME Inv, [Next]_vars
  PROVE  NoStraySignal'
  <1> USE DEF Inv
  <1>1. ctx # "live" => ctx' = ctx
    BY ContextStep
  <1>2. life'[Leader] = "running" => life[Leader] = "running"
    BY LifeStep
  <1>3. CASE UNCHANGED sent
    BY <1>1, <1>2, <1>3 DEF NoStraySignal
  <1>4. CASE KillLeader
    BY <1>1, <1>4 DEF KillLeader, NoStraySignal, terminationDue
  <1>5. CASE Term \/ Kill
    <2>1. once.by # None /\ UNCHANGED ctx
      BY <1>5 DEF Term, Kill, groupKnown
    <2>2. ctx = "live" => life[Leader] = "gone"
      BY <2>1 DEF terminationDue, groupKnown
    <2> QED BY <1>2, <2>1, <2>2 DEF NoStraySignal
  <1>6. UNCHANGED sent \/ KillLeader \/ Term \/ Kill
    BY DEF Next, vars, Die, Fork, EndContext, WaitStep, Reap, HearWatcher, Return, WatcherStep,
       Cancel, Canceled, CallerStep, Await, SelectWait, SelectContext, Terminated,
       SelectTerminated, FinishAwait, Abandon, Drain, Finalize, TerminateStep, Poll,
       Quiesced, Observe, GraceOver, KillWaitOver, processes
  <1> QED BY <1>3, <1>4, <1>5, <1>6

-----------------------------------------------------------------------------
(* The invariant and what it says. *)

LEMMA InitInv == Init => Inv
  <1> SUFFICES ASSUME Init  PROVE Inv
    OBVIOUS
  <1>1. TypeOK
    BY InitType
  <1>2. groupKnown /\ NoStraySignal
    BY DEF Init, groupKnown, NoStraySignal, Processes
  <1>3. contextKnown
    BY NoneAssumption DEF Init, contextKnown, Ended, WaitErrors
  <1>4. terminationDue /\ exitKnown
    BY DEF Init, terminationDue, exitKnown, Returned
  <1> QED BY <1>1, <1>2, <1>3, <1>4 DEF Inv

LEMMA InvStep ==
  ASSUME Inv, [Next]_vars
  PROVE  Inv'
  <1>1. TypeOK'
    BY TypeStep DEF Inv
  <1> QED BY <1>1, GroupStep, ContextStep, TerminationStep, ExitStep, SignalStep DEF Inv

(* Wait, watcher, termination and caller agree on what became of the command. *)
THEOREM Invariance == Spec => []Inv
  BY InitInv, InvStep, PTL DEF Spec

LEMMA InvReport == Inv => ReportTrue
  <1> SUFFICES ASSUME Inv  PROVE ReportTrue
    OBVIOUS
  <1> USE DEF Inv
  <1>0. "live" \notin Ended /\ None \notin Ended
    BY NoneAssumption DEF Ended, WaitErrors
  <1>1. OwnedExitKept
    <2> SUFFICES ASSUME Returned, wait.at = "done", wait.ctx = "live", processOwned(wait.err)
                 PROVE  /\ caller.result.kind = "exit"
                        /\ caller.result.code = (IF wait.err = "code" THEN "code" ELSE "zero")
      BY DEF OwnedExitKept
    <2>1. caller.waitErr = wait.err /\ caller.result = result
      BY DEF exitKnown, Returned
    <2> QED BY <2>1 DEF result, processOwned
  <1>2. SuccessLeavesNothing
    <2> SUFFICES ASSUME Returned, ~caller.result.failed
                 PROVE  running = {} /\ life[Leader] = "gone" /\ ~caller.incomplete
      BY DEF SuccessLeavesNothing
    <2>1. once.at = "done" /\ caller.result = result
      BY DEF exitKnown
    <2>2. ~once.failed /\ ~caller.incomplete
      <3>1. caller.waitErr = "zero"
        <4>1. CASE caller.waitErr = "delay"
          <5>1. result.failed = (TRUE \/ caller.incomplete \/ once.failed \/ once.residual)
            BY <4>1 DEF result
          <5> QED BY <2>1, <5>1
        <4>2. CASE caller.waitErr \notin {"zero", "delay"}
          BY <2>1, <4>2 DEF result
        <4> QED BY <4>1, <4>2
      <3>2. caller.result.failed = (caller.incomplete \/ once.failed \/ once.residual)
        BY <2>1, <3>1 DEF result
      <3> QED BY <3>2
    <2> QED BY <2>1, <2>2 DEF groupKnown, empty
  <1>3. EndedTruthful
    <2> SUFFICES ASSUME Returned, caller.result.kind \in {"timeout", "canceled"}
                 PROVE  /\ ctx = (IF caller.result.kind = "timeout" THEN "deadline" ELSE "canceled")
                        /\ (running # {} => once.failed)
      BY DEF EndedTruthful
    <2>1. once.at = "done" /\ caller.result = result
      BY DEF exitKnown
    <2>2. caller.waitErr = IF caller.result.kind = "timeout" THEN "deadline" ELSE "canceled"
      BY <2>1 DEF result
    <2> QED BY <2>1, <2>2 DEF groupKnown, empty, contextKnown, Ended
  <1> QED BY <1>1, <1>2, <1>3 DEF ReportTrue

(* Every variable keeps its type. *)
THEOREM TypeCorrect == Spec => []TypeOK
  <1>1. Inv => TypeOK
    BY DEF Inv
  <1> QED BY <1>1, Invariance, PTL

(* The caller is told what became of the command: an exit that Wait returned within the
   context, success only over an empty group and read output, an end of the context as it
   was (runPreparedCommand, finalizeDefaultCommandResult). *)
THEOREM ReportsTrue == Spec => []ReportTrue
  BY InvReport, Invariance, PTL

(* Cleaning up after a command never hits a command that runs within its context
   (ReapAfterLeaderExit, Terminate). *)
THEOREM NeverStray == Spec => []NoStraySignal
  <1>1. Inv => NoStraySignal
    BY DEF Inv
  <1> QED BY <1>1, Invariance, PTL

=============================================================================
