------------------------ MODULE ProtectedInvocationProofs ------------------------
(***************************************************************************)
(* For any number of daem processes, commands and documents, and whatever     *)
(* crashes and reboots come between: a command that can write is on record,   *)
(* a document has one writer, a process reports what is so, and a record is    *)
(* cleared only when its documents have no more permissions than it says.     *)
(***************************************************************************)
EXTENDS ProtectedInvocation, FiniteSetTheorems, TLAPS

-----------------------------------------------------------------------------
(* Types. *)

LEMMA RowPhases ==
  ASSUME NEW r \in Rows
  PROVE  /\ r.phase \in {"none", "armed", "bound"}
         /\ r.phase = "none" <=> r = NoRow
         /\ r.phase = "armed" <=> r = Armed
         /\ r.phase = "bound" => r.epoch \in Nat
  BY DEF Rows, NoRow, Armed

LEMMA RowValues ==
  /\ NoRow \in Rows /\ NoRow.phase = "none"
  /\ Armed \in Rows /\ Armed.phase = "armed"
  /\ \A e \in Nat : Bound(e) \in Rows /\ Bound(e).phase = "bound" /\ Bound(e).epoch = e
  BY DEF Rows, NoRow, Armed, Bound

LEMMA ProcFields ==
  ASSUME NEW c \in ProcType
  PROVE  /\ c.step \in Steps /\ c.inv \in Invocations \cup {None}
         /\ c.expected \in Rows /\ c.plan \in [Invocations -> Rows]
         /\ c.rows \in SUBSET Invocations /\ c.acked \in BOOLEAN
         /\ c.done \in {"unknown", "ended", "bound", "released"} /\ c.recovering \in BOOLEAN
         /\ c.pass \in 1..2 /\ c.todo \in SUBSET Documents /\ c.secure \in BOOLEAN
         /\ c.doc \in Documents \cup {None}
         /\ c.result \in {"none", "nothing", "cleared", "pending", "unknown"}
  BY DEF ProcType

LEMMA NewProcType == NewProc \in ProcType
  BY RowValues DEF NewProc, ProcType, Steps

LEMMA InitType == Init => TypeOK
  BY RowValues, NewProcType DEF Init, TypeOK, Modes, Groups

LEMMA SpendType ==
  ASSUME used \in [Events -> Nat], NEW e \in Events, Spend(e)
  PROVE  used' \in [Events -> Nat]
  BY DEF Spend

(* What a process notes keeps its type: all that any action notes, and then the actions'
   own forms. *)
LEMMA Notes ==
  ASSUME NEW c \in ProcType, NEW s \in Steps
  PROVE  /\ [c EXCEPT !.step = s] \in ProcType
         /\ [c EXCEPT !.step = s, !.acked = TRUE] \in ProcType
         /\ \A d \in {"unknown", "ended", "bound", "released"} :
               [c EXCEPT !.step = s, !.done = d] \in ProcType
         /\ \A t \in {"none", "nothing", "cleared", "pending", "unknown"} :
               [c EXCEPT !.step = s, !.result = t] \in ProcType
         /\ \A r \in Rows : [c EXCEPT !.step = s, !.expected = r, !.pass = 1] \in ProcType
         /\ \A t \in SUBSET Documents : [c EXCEPT !.step = s, !.todo = t, !.secure = TRUE] \in ProcType
         /\ [c EXCEPT !.step = s, !.pass = 2] \in ProcType
  <1>1. [c EXCEPT !.step = s] \in ProcType
    BY DEF ProcType
  <1>2. [c EXCEPT !.step = s, !.acked = TRUE] \in ProcType
    BY DEF ProcType
  <1>3. \A d \in {"unknown", "ended", "bound", "released"} :
           [c EXCEPT !.step = s, !.done = d] \in ProcType
    BY DEF ProcType
  <1>4. \A t \in {"none", "nothing", "cleared", "pending", "unknown"} :
           [c EXCEPT !.step = s, !.result = t] \in ProcType
    BY DEF ProcType
  <1>5. \A r \in Rows : [c EXCEPT !.step = s, !.expected = r, !.pass = 1] \in ProcType
    <2>1. \A r \in Rows, n \in 1..2 : [c EXCEPT !.step = s, !.expected = r, !.pass = n] \in ProcType
      BY DEF ProcType
    <2>2. 1 \in 1..2
      OBVIOUS
    <2> QED BY <2>1, <2>2
  <1>6. \A t \in SUBSET Documents : [c EXCEPT !.step = s, !.todo = t, !.secure = TRUE] \in ProcType
    BY DEF ProcType
  <1>7. [c EXCEPT !.step = s, !.pass = 2] \in ProcType
    <2>1. \A n \in 1..2 : [c EXCEPT !.step = s, !.pass = n] \in ProcType
      BY DEF ProcType
    <2> QED BY <2>1
  <1> QED BY <1>1, <1>2, <1>3, <1>4, <1>5, <1>6, <1>7

LEMMA NotesOfWork ==
  ASSUME NEW c \in ProcType
  PROVE  /\ \A t \in SUBSET Documents, b \in BOOLEAN :
               [c EXCEPT !.todo = t, !.secure = b] \in ProcType
         /\ \A t \in {"none", "nothing", "cleared", "pending", "unknown"} :
               [c EXCEPT !.result = t] \in ProcType
         /\ \A i \in Invocations : [c EXCEPT !.step = "arm", !.inv = i] \in ProcType
         /\ \A d \in Documents : [c EXCEPT !.step = "write", !.doc = d] \in ProcType
         /\ \A f \in [Invocations -> Rows], r \in SUBSET Invocations, i \in Invocations :
               [c EXCEPT !.step = "planned", !.recovering = TRUE, !.plan = f, !.rows = r, !.inv = i]
                   \in ProcType
         /\ \A r \in SUBSET Invocations, i \in Invocations :
               [c EXCEPT !.step = "next row", !.rows = r, !.inv = i, !.result = "none"] \in ProcType
  <1>1. \A t \in SUBSET Documents, b \in BOOLEAN :
           [c EXCEPT !.todo = t, !.secure = b] \in ProcType
    BY DEF ProcType, Steps
  <1>2. \A t \in {"none", "nothing", "cleared", "pending", "unknown"} :
           [c EXCEPT !.result = t] \in ProcType
    BY DEF ProcType, Steps
  <1>3. \A i \in Invocations : [c EXCEPT !.step = "arm", !.inv = i] \in ProcType
    BY DEF ProcType, Steps
  <1>4. \A d \in Documents : [c EXCEPT !.step = "write", !.doc = d] \in ProcType
    BY DEF ProcType, Steps
  <1>5. \A f \in [Invocations -> Rows], r \in SUBSET Invocations, i \in Invocations :
           [c EXCEPT !.step = "planned", !.recovering = TRUE, !.plan = f, !.rows = r, !.inv = i]
           \in ProcType
    BY DEF ProcType, Steps
  <1>6. \A r \in SUBSET Invocations, i \in Invocations :
           [c EXCEPT !.step = "next row", !.rows = r, !.inv = i, !.result = "none"] \in ProcType
    BY DEF ProcType, Steps
  <1> QED BY <1>1, <1>2, <1>3, <1>4, <1>5, <1>6

LEMMA GoToType ==
  ASSUME proc \in [Procs -> ProcType], NEW p \in Procs, NEW s \in Steps, GoTo(p, s)
  PROVE  proc' \in [Procs -> ProcType]
  BY Notes DEF GoTo

LEMMA ReportType ==
  ASSUME proc \in [Procs -> ProcType], NEW p \in Procs,
         NEW s \in {"none", "nothing", "cleared", "pending", "unknown"}, Report(p, s)
  PROVE  proc' \in [Procs -> ProcType]
  BY Notes DEF Report, Steps

LEMMA SettleType ==
  ASSUME proc \in [Procs -> ProcType], NEW p \in Procs, NEW r \in Rows, BeginSettle(p, r)
  PROVE  proc' \in [Procs -> ProcType]
  BY Notes DEF BeginSettle, Steps

LEMMA InvokeType ==
  ASSUME TypeOK, NEW p \in Procs, held(p), Invoke(p)
  PROVE  TypeOK'
  <1> USE RowValues DEF TypeOK
  <1>0. proc[p] \in ProcType
    OBVIOUS
  <1>1. CASE Arm(p)
    BY <1>1, Notes DEF Arm, Steps
  <1>2. CASE Correlate(p)
    BY <1>2, GoToType DEF Correlate, world, Steps
  <1>3. CASE Start(p)
    BY <1>3, GoToType DEF Start, Steps, Groups
  <1>4. CASE Ready(p)
    BY <1>4, Notes DEF Ready, world, Steps
  <1>5. CASE Bind(p)
    BY <1>5, GoToType DEF Bind, closeGate, Steps
  <1>6. CASE Release(p)
    BY <1>6, Notes DEF Release, Steps
  <1>7. CASE Await(p)
    BY <1>7, GoToType DEF Await, Steps, Groups
  <1>8. CASE Finalize(p)
    <2>1. proc[p].inv \in Invocations
      BY <1>8 DEF Finalize, held, At
    <2>2. proc' \in [Procs -> ProcType]
      BY <1>8, <2>1, ReportType, SettleType DEF Finalize
    <2> QED BY <1>8, <2>2 DEF Finalize, world
  <1> QED BY <1>1, <1>2, <1>3, <1>4, <1>5, <1>6, <1>7, <1>8 DEF Invoke

LEMMA RefuseType ==
  ASSUME TypeOK, NEW p \in Procs, Refuse(p)
  PROVE  TypeOK'
  <1> USE SpendType DEF TypeOK, Events
  <1>1. CASE RefuseCorrelation(p)
    BY <1>1, GoToType DEF RefuseCorrelation, world, Steps
  <1>2. CASE RefuseStart(p)
    BY <1>2, Notes DEF RefuseStart, world, Steps
  <1>3. CASE RefuseReady(p)
    BY <1>3, Notes DEF RefuseReady, closeGate, Steps
  <1>4. CASE CancelRelease(p)
    BY <1>4, GoToType DEF CancelRelease, closeGate, Steps
  <1>5. CASE RefuseQuiesce(p)
    BY <1>5, ReportType DEF RefuseQuiesce, world
  <1> QED BY <1>1, <1>2, <1>3, <1>4, <1>5 DEF Refuse

LEMMA RestrictModes ==
  \A m \in Modes : restricted(m) \in Modes /\ secured(m) \in BOOLEAN
  BY DEF Modes, restricted, secured

LEMMA SettleStepType ==
  ASSUME TypeOK, CoversAssumption, NEW p \in Procs, held(p), Settle(p)
  PROVE  TypeOK'
  <1> USE RowValues DEF TypeOK
  <1>0. proc[p] \in ProcType
    OBVIOUS
  <1>1. CASE NextRow(p)
    <2>1. proc[p].inv \in Invocations
      BY <1>1 DEF NextRow, held, At
    <2>2. proc' \in [Procs -> ProcType]
      BY <1>1, <2>1, ReportType, SettleType DEF NextRow
    <2> QED BY <1>1, <2>2 DEF NextRow, world
  <1>2. CASE Quiesce(p)
    <2>1. proc[p].inv \in Invocations
      BY <1>2 DEF Quiesce, held, At
    <2>2. Covers[proc[p].inv] \in SUBSET Documents
      BY <2>1, CoversAssumption DEF CoversAssumption
    <2>3. [proc EXCEPT ![p].step = "restrict", ![p].todo = Covers[proc[p].inv], ![p].secure = TRUE]
             \in [Procs -> ProcType]
      BY <2>2, Notes DEF Steps
    <2>4. proc' \in [Procs -> ProcType]
      BY <1>2, <2>3, ReportType DEF Quiesce
    <2> QED BY <1>2, <2>4 DEF Quiesce, world
  <1>3. CASE RestrictTarget(p)
    <2>1. PICK d \in proc[p].todo :
             /\ mode' = [mode EXCEPT ![d] = restricted(@)]
             /\ touched' = touched \ {d}
             /\ proc' = [proc EXCEPT ![p].todo = @ \ {d}, ![p].secure = @ /\ secured(mode[d])]
      BY <1>3 DEF RestrictTarget
    <2>2. d \in Documents
      BY <1>0, ProcFields
    <2>3. mode' \in [Documents -> Modes]
      BY <2>1, <2>2, RestrictModes
    <2>4. (proc[p].secure /\ secured(mode[d])) \in BOOLEAN
      OBVIOUS
    <2>5. proc[p].todo \ {d} \in SUBSET Documents
      BY <1>0, ProcFields
    <2>6. proc' \in [Procs -> ProcType]
      BY <1>0, <2>1, <2>4, <2>5, NotesOfWork
    <2> QED BY <1>3, <2>1, <2>3, <2>6 DEF RestrictTarget
  <1>4. CASE EndPass(p)
    <2>1. proc' \in [Procs -> ProcType]
      <3>1. [proc EXCEPT ![p].step = "quiesce", ![p].pass = 2] \in [Procs -> ProcType]
        <4>1. "quiesce" \in Steps
          BY DEF Steps
        <4>2. [proc[p] EXCEPT !.step = "quiesce", !.pass = 2] \in ProcType
          BY <1>0, <4>1, Notes
        <4> QED BY <4>2
      <3> QED BY <1>4, <3>1, ReportType, GoToType DEF EndPass, Steps
    <2> QED BY <1>4, <2>1 DEF EndPass, world
  <1>5. CASE Clear(p)
    <2>1. proc' \in [Procs -> ProcType]
      BY <1>5, ReportType, GoToType DEF Clear, Steps
    <2>2. row' \in [Invocations -> Rows]
      BY <1>5 DEF Clear
    <2> QED BY <1>5, <2>1, <2>2 DEF Clear
  <1>6. CASE ReadBack(p)
    BY <1>6, ReportType DEF ReadBack, world
  <1>7. CASE Finish(p)
    <2>1. proc' \in [Procs -> ProcType]
      <3>1. ASSUME proc' = [proc EXCEPT ![p] = [NewProc EXCEPT !.result = proc[p].result]]
            PROVE  proc' \in [Procs -> ProcType]
        BY <1>0, <3>1, NewProcType, ProcFields, NotesOfWork
      <3>2. ASSUME NEW i \in proc[p].rows \ {proc[p].inv},
                   proc' = [proc EXCEPT ![p].step = "next row",
                                        ![p].rows = proc[p].rows \ {proc[p].inv},
                                        ![p].inv = i, ![p].result = "none"]
            PROVE  proc' \in [Procs -> ProcType]
        <4>1. i \in Invocations /\ proc[p].rows \ {proc[p].inv} \in SUBSET Invocations
          BY <1>0, ProcFields
        <4> QED BY <1>0, <3>2, <4>1, NotesOfWork
      <3> QED BY <1>7, <3>1, <3>2 DEF Finish
    <2> QED BY <1>7, <2>1 DEF Finish, world
  <1> QED BY <1>1, <1>2, <1>3, <1>4, <1>5, <1>6, <1>7 DEF Settle

LEMMA TypeStep ==
  ASSUME TypeOK, CoversAssumption, LeftModesAssumption, \A p \in Procs : held(p), [Next]_vars
  PROVE  TypeOK'
  <1> USE DEF TypeOK
  <1>1. ASSUME NEW p \in Procs, FailRestrict(p)  PROVE TypeOK'
    <2>1. PICK d \in proc[p].todo :
             /\ mode' \in {mode, [mode EXCEPT ![d] = restricted(@)]}
             /\ proc' = [proc EXCEPT ![p].todo = @ \ {d}, ![p].secure = FALSE]
      BY <1>1 DEF FailRestrict
    <2>2. proc[p] \in ProcType /\ d \in Documents /\ proc[p].todo \ {d} \in SUBSET Documents
      BY ProcFields
    <2>3. mode' \in [Documents -> Modes]
      BY <2>1, <2>2, RestrictModes
    <2>4. proc' \in [Procs -> ProcType]
      BY <2>1, <2>2, NotesOfWork
    <2> QED BY <1>1, <2>3, <2>4, SpendType DEF FailRestrict, Events
  <1>2. ASSUME NEW p \in Procs, FailTransition(p)  PROVE TypeOK'
    <2>1. proc' \in [Procs -> ProcType]
      BY <1>2, GoToType DEF FailTransition, Steps
    <2>2. row' \in [Invocations -> Rows]
      BY <1>2, RowValues DEF FailTransition
    <2>3. gate' \in [Invocations -> {"open", "released", "closed"}]
      BY <1>2 DEF FailTransition, closeGate
    <2> QED BY <1>2, <2>1, <2>2, <2>3, SpendType DEF FailTransition, Events
  <1>3. ASSUME NEW p \in Procs, Prepare(p)  PROVE TypeOK'
    <2>1. PICK i \in {i \in Invocations : row[i] # NoRow} :
             proc' = [proc EXCEPT ![p] = [NewProc EXCEPT !.step = "planned", !.recovering = TRUE,
                        !.plan = row, !.rows = {j \in Invocations : row[j] # NoRow}, !.inv = i]]
      BY <1>3 DEF Prepare
    <2>2. proc' \in [Procs -> ProcType]
      BY <2>1, NewProcType, NotesOfWork
    <2> QED BY <1>3, <2>2 DEF Prepare, world
  <1>4. ASSUME NEW p \in Procs, Execute(p)  PROVE TypeOK'
    BY <1>4, GoToType DEF Execute, world, Steps
  <1>5. ASSUME NEW p \in Procs, EndWrite(p)  PROVE TypeOK'
    BY <1>5, NewProcType DEF EndWrite, world
  <1>6. ASSUME NEW p \in Procs, Crash(p)  PROVE TypeOK'
    <2>1. gate' \in [Invocations -> {"open", "released", "closed"}]
      BY <1>6 DEF Crash
    <2> QED BY <1>6, <2>1, NewProcType, SpendType DEF Crash, Events
  <1>7. ASSUME NEW p \in Procs, NEW i \in Invocations, BeginInvoke(p, i)  PROVE TypeOK'
    BY <1>7, NewProcType, NotesOfWork, SpendType DEF BeginInvoke, world, Events
  <1>8. ASSUME NEW p \in Procs, NEW d \in Documents, BeginWrite(p, d)  PROVE TypeOK'
    BY <1>8, NewProcType, NotesOfWork, SpendType DEF BeginWrite, world, Events
  <1>9. ASSUME NEW i \in Invocations, Command(i)  PROVE TypeOK'
    BY <1>9 DEF Command, Exec, HelperQuits, CommandEnds, Groups
  <1>10. ASSUME NEW i \in Invocations, NEW d \in Documents, CommandWrites(i, d)  PROVE TypeOK'
    BY <1>10, LeftModesAssumption, SpendType DEF CommandWrites, LeftModesAssumption, Events
  <1>11. CASE Reboot
    <2>1. group' \in [Invocations -> Groups]
      BY <1>11 DEF Reboot, Groups
    <2> QED BY <1>11, <2>1, NewProcType, SpendType DEF Reboot, Events
  <1>12. ASSUME NEW d \in Documents, UserChanges(d)  PROVE TypeOK'
    BY <1>12, LeftModesAssumption, SpendType DEF UserChanges, LeftModesAssumption, Events
  <1>13. CASE UNCHANGED vars
    BY <1>13 DEF vars
  <1> QED BY <1>1, <1>2, <1>3, <1>4, <1>5, <1>6, <1>7, <1>8, <1>9, <1>10, <1>11, <1>12, <1>13,
             InvokeType, SettleStepType, RefuseType DEF Next

-----------------------------------------------------------------------------
(* What an action notes of its process. *)

LEMMA GoToNotes ==
  ASSUME TypeOK, NEW p \in Procs, NEW s \in Steps, GoTo(p, s)
  PROVE  /\ proc'[p].step = s /\ proc'[p].inv = proc[p].inv
         /\ proc'[p].expected = proc[p].expected /\ proc'[p].result = proc[p].result
         /\ proc'[p].todo = proc[p].todo /\ proc'[p].secure = proc[p].secure
         /\ \A q \in Procs \ {p} : proc'[q] = proc[q]
  <1>1. proc[p] \in ProcType
    BY DEF TypeOK
  <1> QED BY <1>1 DEF TypeOK, GoTo, ProcType

LEMMA ReportNotes ==
  ASSUME TypeOK, NEW p \in Procs, NEW t, Report(p, t)
  PROVE  /\ proc'[p].step = "report" /\ proc'[p].inv = proc[p].inv
         /\ proc'[p].expected = proc[p].expected /\ proc'[p].result = t
         /\ \A q \in Procs \ {p} : proc'[q] = proc[q]
  <1>1. proc[p] \in ProcType
    BY DEF TypeOK
  <1> QED BY <1>1 DEF TypeOK, Report, ProcType

LEMMA SettleNotes ==
  ASSUME TypeOK, NEW p \in Procs, NEW r, BeginSettle(p, r)
  PROVE  /\ proc'[p].step = "quiesce" /\ proc'[p].inv = proc[p].inv
         /\ proc'[p].expected = r
         /\ \A q \in Procs \ {p} : proc'[q] = proc[q]
  <1>1. proc[p] \in ProcType
    BY DEF TypeOK
  <1> QED BY <1>1 DEF TypeOK, BeginSettle, ProcType

LEMMA NewNotes == NewProc.step = "idle" /\ NewProc.inv = None /\ NewProc.result = "none"
  BY DEF NewProc

-----------------------------------------------------------------------------
(* Who has the lease, and what that spares the others. *)

known(p) == held(p) /\ starting(p) /\ settling(p) /\ told(p)

Records == WriterRecorded /\ Apart /\ \A i \in Invocations : backed(i)

LEMMA InvParts == Inv <=> TypeOK /\ Records /\ \A p \in Procs : known(p)
  BY DEF Inv, Records, known

(* Whoever does not have the lease relies on nothing that another can change. *)
LEMMA Elsewhere ==
  ASSUME NEW q \in Procs, held(q), lease # q, proc'[q] = proc[q]
  PROVE  known(q)'
  <1>1. proc[q].step \in {"idle", "planned"}
    BY DEF held
  <1>2. held(q)'
    BY <1>1 DEF held
  <1>3. starting(q)' /\ settling(q)' /\ told(q)'
    BY <1>1 DEF starting, settling, told, At
  <1> QED BY <1>2, <1>3 DEF known

LEMMA Unmoved ==
  ASSUME NEW q \in Procs, known(q), proc'[q] = proc[q], UNCHANGED <<world, lease>>
  PROVE  known(q)'
  <1> USE DEF world
  <1>1. held(q)' /\ told(q)'
    BY DEF known, held, told, At
  <1>2. starting(q)'
    BY DEF known, starting, At, writable
  <1>3. settling(q)'
    BY DEF known, settling, quiescent, safe
  <1> QED BY <1>1, <1>2, <1>3 DEF known

LEMMA Idle ==
  ASSUME NEW p \in Procs, proc'[p].step = "idle"
  PROVE  known(p)'
  BY DEF known, held, starting, settling, told, At

LEMMA RecordsKept ==
  ASSUME Records, UNCHANGED <<row, group, gate, epoch>>
  PROVE  Records'
  BY DEF Records, WriterRecorded, Apart, backed, active

(* What it takes for a process to know what it should at the steps that many actions
   lead to. *)
LEMMA OnTheWay ==
  ASSUME NEW p \in Procs, lease' = p, (proc[p].inv)' \in Invocations,
         (proc[p].step)' \in {"finalize", "await", "next row"}
  PROVE  known(p)'
  <1>1. held(p)' /\ starting(p)' /\ told(p)'
    BY DEF held, starting, told, At
  <1>2. settling(p)'
    BY DEF settling
  <1> QED BY <1>1, <1>2 DEF known

LEMMA Reported ==
  ASSUME TypeOK, NEW p \in Procs, lease' = p, proc[p].inv \in Invocations,
         NEW t, Report(p, t),
         t \in {"cleared", "nothing"} => row'[proc[p].inv] = NoRow,
         t = "pending" => row'[proc[p].inv] = proc[p].expected
  PROVE  known(p)' /\ \A q \in Procs \ {p} : proc'[q] = proc[q]
  <1>1. /\ proc'[p].step = "report" /\ proc'[p].inv = proc[p].inv
        /\ proc'[p].expected = proc[p].expected /\ proc'[p].result = t
        /\ \A q \in Procs \ {p} : proc'[q] = proc[q]
    BY ReportNotes
  <1>2. held(p)' /\ starting(p)'
    BY <1>1 DEF held, starting, At
  <1>3. settling(p)'
    BY <1>1 DEF settling
  <1>4. told(p)'
    BY <1>1 DEF told, At
  <1> QED BY <1>1, <1>2, <1>3, <1>4 DEF known

LEMMA Settling ==
  ASSUME NEW p \in Procs, lease' = p, (proc[p].inv)' \in Invocations,
         (proc[p].step)' = "quiesce",
         (row[proc[p].inv] = proc[p].expected /\ proc[p].expected # NoRow)'
  PROVE  known(p)'
  <1>1. held(p)' /\ starting(p)' /\ told(p)'
    BY DEF held, starting, told, At
  <1>2. settling(p)'
    BY DEF settling
  <1> QED BY <1>1, <1>2 DEF known

-----------------------------------------------------------------------------
(* The invocation's own steps. *)

LEMMA ArmedRecords ==
  ASSUME TypeOK, Records, NEW i \in Invocations, row[i] = NoRow, group[i] = "none",
         \A d \in Covers[i] : writable(d),
         row' = [row EXCEPT ![i] = Armed], UNCHANGED <<group, gate, epoch>>
  PROVE  Records'
  <1>1. WriterRecorded'
    BY DEF Records, WriterRecorded, TypeOK
  <1>2. \A j \in Invocations : backed(j)'
    BY RowValues DEF Records, backed, active, TypeOK
  <1>3. Apart'
    <2>1. \A j \in Invocations \ {i} : row[j] # NoRow => Covers[i] \cap Covers[j] = {}
      BY DEF writable
    <2> QED BY <2>1 DEF Records, Apart, TypeOK
  <1> QED BY <1>1, <1>2, <1>3 DEF Records

LEMMA ArmStep ==
  ASSUME TypeOK, Records, NEW p \in Procs, known(p), Arm(p)
  PROVE  Records' /\ known(p)' /\ lease = p /\ \A q \in Procs \ {p} : proc'[q] = proc[q]
  <1> DEFINE i == proc[p].inv
  <1>1. i \in Invocations /\ lease = p
    BY DEF Arm, At, known, held
  <1>2. row[i] = NoRow /\ group[i] = "none" /\ \A d \in Covers[i] : writable(d)
    BY DEF Arm, At, known, starting
  <1>3. /\ proc'[p].step = "correlate" /\ proc'[p].inv = i
        /\ \A q \in Procs \ {p} : proc'[q] = proc[q]
    <2>1. proc[p] \in ProcType
      BY DEF TypeOK
    <2> QED BY <2>1 DEF Arm, TypeOK, ProcType
  <1>4. row' = [row EXCEPT ![i] = Armed] /\ UNCHANGED <<group, gate, epoch, lease>>
    BY DEF Arm
  <1>5. Records'
    BY <1>1, <1>2, <1>4, ArmedRecords
  <1>6. known(p)'
    BY <1>1, <1>2, <1>3, <1>4 DEF known, held, starting, settling, told, At, TypeOK
  <1> QED BY <1>1, <1>3, <1>5, <1>6

LEMMA InvokeStep ==
  ASSUME TypeOK, Records, NEW p \in Procs, known(p), Invoke(p) \/ Refuse(p)
  PROVE  Records' /\ known(p)' /\ lease = p /\ \A q \in Procs \ {p} : proc'[q] = proc[q]
  <1> DEFINE i == proc[p].inv
  <1>0. proc[p] \in ProcType
    BY DEF TypeOK
  <1>1. CASE Arm(p)
    BY <1>1, ArmStep
  <1>2. CASE Correlate(p) \/ RefuseCorrelation(p)
    <2>1. /\ lease = p /\ i \in Invocations /\ row[i] = Armed /\ group[i] = "none"
      BY <1>2 DEF Correlate, RefuseCorrelation, At, known, held, starting
    <2>2. PICK s \in {"start", "finalize"} : GoTo(p, s)
      BY <1>2 DEF Correlate, RefuseCorrelation
    <2>3. UNCHANGED <<world, lease>>
      BY <1>2 DEF Correlate, RefuseCorrelation
    <2>4. known(p)'
      <3>1. /\ proc'[p].step = s /\ proc'[p].inv = i
            /\ lease' = p /\ row'[i] = Armed /\ group'[i] = "none"
        BY <2>1, <2>2, <2>3, GoToNotes DEF world, Steps
      <3>2. held(p)' /\ starting(p)' /\ told(p)'
        BY <2>1, <3>1 DEF held, starting, told, At
      <3>3. settling(p)'
        BY <3>1 DEF settling
      <3> QED BY <3>2, <3>3 DEF known
    <2> QED BY <2>1, <2>2, <2>3, <2>4, GoToNotes, RecordsKept DEF world, Steps
  <1>3. CASE Start(p)
    <2>1. lease = p /\ i \in Invocations /\ row[i] = Armed /\ group[i] = "none" /\ gate[i] = "open"
      BY <1>3 DEF Start, At, known, held, starting, Records, backed
    <2>2. known(p)'
      <3>1. /\ proc'[p].step = "ready" /\ proc'[p].inv = i
            /\ lease' = p /\ row'[i] = Armed /\ group'[i] # "none"
        BY <1>3, <2>1, GoToNotes DEF Start, Steps, TypeOK
      <3>2. held(p)' /\ starting(p)' /\ told(p)'
        BY <2>1, <3>1 DEF held, starting, told, At
      <3>3. settling(p)'
        BY <3>1 DEF settling
      <3> QED BY <3>2, <3>3 DEF known
    <2>3. WriterRecorded'
      BY <1>3, <2>1 DEF Start, Records, WriterRecorded, TypeOK
    <2>4. \A j \in Invocations : backed(j)'
      BY <1>3, <2>1, RowValues DEF Start, Records, backed, active, TypeOK
    <2>5. Apart'
      BY <1>3 DEF Start, Records, Apart
    <2> QED BY <1>3, <2>1, <2>2, <2>3, <2>4, <2>5, GoToNotes DEF Start, Records, Steps
  <1>4. CASE RefuseStart(p)
    <2>1. lease = p /\ i \in Invocations
      BY <1>4 DEF RefuseStart, At, known, held
    <2>2. /\ proc'[p].step = "finalize" /\ proc'[p].inv = i
          /\ \A q \in Procs \ {p} : proc'[q] = proc[q]
      BY <1>0, <1>4 DEF RefuseStart, TypeOK, ProcType
    <2>3. known(p)'
      BY <1>4, <2>1, <2>2, OnTheWay DEF RefuseStart
    <2> QED BY <1>4, <2>1, <2>2, <2>3, RecordsKept DEF RefuseStart, world
  <1>5. CASE Ready(p)
    <2>1. lease = p /\ i \in Invocations /\ row[i] = Armed /\ group[i] # "none"
      BY <1>5 DEF Ready, At, known, held, starting
    <2>2. /\ proc'[p].step = "bind" /\ proc'[p].inv = i
          /\ \A q \in Procs \ {p} : proc'[q] = proc[q]
      BY <1>0, <1>5 DEF Ready, TypeOK, ProcType
    <2>3. known(p)'
      BY <1>5, <2>1, <2>2 DEF Ready, known, held, starting, settling, told, At, world
    <2> QED BY <1>5, <2>1, <2>2, <2>3, RecordsKept DEF Ready, world
  <1>6. CASE RefuseReady(p)
    <2>1. lease = p /\ i \in Invocations /\ row[i] = Armed /\ group[i] # "none"
      BY <1>6 DEF RefuseReady, At, known, held, starting
    <2>2. /\ proc'[p].step = "await" /\ proc'[p].inv = i
          /\ \A q \in Procs \ {p} : proc'[q] = proc[q]
      BY <1>0, <1>6 DEF RefuseReady, TypeOK, ProcType
    <2>3. known(p)'
      BY <1>6, <2>1, <2>2, OnTheWay DEF RefuseReady
    <2>4. WriterRecorded' /\ Apart'
      BY <1>6, <2>1 DEF RefuseReady, closeGate, Records, WriterRecorded, Apart, TypeOK
    <2>5. \A j \in Invocations : backed(j)'
      BY <1>6, <2>1 DEF RefuseReady, closeGate, Records, backed, active, TypeOK
    <2> QED BY <2>1, <2>2, <2>3, <2>4, <2>5 DEF Records
  <1>7. CASE Bind(p)
    <2>1. lease = p /\ i \in Invocations /\ row[i] = Armed /\ group[i] # "none"
      BY <1>7 DEF Bind, At, known, held, starting
    <2>2. CASE row' = [row EXCEPT ![i] = Bound(epoch)] /\ GoTo(p, "release") /\ UNCHANGED gate
      <3>1. epoch \in Nat
        BY DEF TypeOK
      <3>2. row'[i] = Bound(epoch) /\ UNCHANGED <<group, epoch, lease>>
        BY <1>7, <2>1, <2>2 DEF Bind, TypeOK
      <3>3. known(p)'
        <4>1. /\ proc'[p].step = "release" /\ proc'[p].inv = i
              /\ lease' = p /\ row'[i].phase = "bound" /\ group'[i] # "none"
          BY <2>1, <2>2, <3>1, <3>2, GoToNotes, RowValues DEF Steps
        <4>2. held(p)' /\ starting(p)' /\ told(p)'
          BY <2>1, <4>1 DEF held, starting, told, At
        <4>3. settling(p)'
          BY <4>1 DEF settling
        <4> QED BY <4>2, <4>3 DEF known
      <3>4. WriterRecorded'
        BY <2>2, <3>1, <3>2, RowValues DEF Records, WriterRecorded, TypeOK
      <3>5. \A j \in Invocations : backed(j)'
        BY <2>2, <3>1, <3>2, RowValues DEF Records, backed, active, TypeOK
      <3>6. row[i] # NoRow
        BY <2>1, RowValues
      <3>7. Apart'
        BY <2>1, <2>2, <3>6 DEF Records, Apart, TypeOK
      <3> QED BY <2>1, <2>2, <3>3, <3>4, <3>5, <3>7, GoToNotes DEF Records, Steps
    <2>3. CASE closeGate(p) /\ GoTo(p, "await") /\ UNCHANGED row
      <3>1. UNCHANGED <<group, epoch, lease>>
        BY <1>7 DEF Bind
      <3>2. known(p)'
        BY <2>1, <2>3, <3>1, GoToNotes, OnTheWay DEF Steps
      <3>3. WriterRecorded' /\ Apart'
        BY <2>1, <2>3, <3>1 DEF closeGate, Records, WriterRecorded, Apart, TypeOK
      <3>4. \A j \in Invocations : backed(j)'
        BY <2>1, <2>3, <3>1 DEF closeGate, Records, backed, active, TypeOK
      <3> QED BY <2>1, <2>3, <3>2, <3>3, <3>4, GoToNotes DEF Records, Steps
    <2> QED BY <1>7, <2>2, <2>3 DEF Bind
  <1>8. CASE Release(p)
    <2>1. lease = p /\ i \in Invocations /\ row[i].phase = "bound" /\ group[i] # "none"
      BY <1>8 DEF Release, At, known, held, starting
    <2>2. /\ proc'[p].step = "await" /\ proc'[p].inv = i
          /\ \A q \in Procs \ {p} : proc'[q] = proc[q]
      BY <1>0, <1>8 DEF Release, TypeOK, ProcType
    <2>3. known(p)'
      BY <1>8, <2>1, <2>2, OnTheWay DEF Release
    <2>4. WriterRecorded' /\ Apart'
      BY <1>8, <2>1 DEF Release, Records, WriterRecorded, Apart, TypeOK
    <2>5. \A j \in Invocations : backed(j)'
      BY <1>8, <2>1 DEF Release, Records, backed, active, TypeOK
    <2> QED BY <2>1, <2>2, <2>3, <2>4, <2>5 DEF Records
  <1>9. CASE CancelRelease(p)
    <2>1. lease = p /\ i \in Invocations /\ group[i] # "none"
      BY <1>9 DEF CancelRelease, At, known, held, starting
    <2>2. known(p)'
      BY <1>9, <2>1, GoToNotes, OnTheWay DEF CancelRelease, Steps
    <2>3. WriterRecorded' /\ Apart'
      BY <1>9, <2>1 DEF CancelRelease, closeGate, Records, WriterRecorded, Apart, TypeOK
    <2>4. \A j \in Invocations : backed(j)'
      BY <1>9, <2>1 DEF CancelRelease, closeGate, Records, backed, active, TypeOK
    <2> QED BY <1>9, <2>1, <2>2, <2>3, <2>4, GoToNotes DEF CancelRelease, Records, Steps
  <1>10. CASE Await(p)
    <2>1. lease = p /\ i \in Invocations
      BY <1>10 DEF Await, At, known, held
    <2>2. known(p)'
      BY <1>10, <2>1, GoToNotes, OnTheWay DEF Await, Steps
    <2>3. group' = group \/ group' = [group EXCEPT ![i] = IF @ = "none" THEN @ ELSE "gone"]
      BY <1>10 DEF Await
    <2>4. WriterRecorded' /\ Apart' /\ \A j \in Invocations : backed(j)'
      <3>1. \A j \in Invocations : group'[j] = group[j] \/ (group[j] # "none" /\ group'[j] = "gone")
        BY <2>1, <2>3 DEF TypeOK
      <3> QED BY <1>10, <3>1 DEF Await, Records, WriterRecorded, Apart, backed, active
    <2> QED BY <1>10, <2>1, <2>2, <2>4, GoToNotes DEF Await, Records, Steps
  <1>11. CASE Finalize(p)
    <2>1. lease = p /\ i \in Invocations
      BY <1>11 DEF Finalize, At, known, held
    <2>2. UNCHANGED <<world, lease>>
      BY <1>11 DEF Finalize
    <2>3. CASE row[i] = NoRow /\ Report(p, "nothing")
      <3>1. known(p)' /\ \A q \in Procs \ {p} : proc'[q] = proc[q]
        BY <2>1, <2>2, <2>3, Reported DEF world
      <3> QED BY <2>1, <2>2, <2>3, <3>1, RecordsKept DEF world
    <2>4. CASE Report(p, "unknown")
      <3>1. known(p)' /\ \A q \in Procs \ {p} : proc'[q] = proc[q]
        BY <2>1, <2>2, <2>4, Reported DEF world
      <3> QED BY <2>1, <2>2, <2>4, <3>1, RecordsKept DEF world
    <2>5. CASE row[i] # NoRow /\ BeginSettle(p, row[i])
      <3>1. known(p)'
        BY <2>1, <2>2, <2>5, SettleNotes, Settling DEF world
      <3> QED BY <2>1, <2>2, <2>5, <3>1, SettleNotes, RecordsKept DEF world
    <2> QED BY <1>11, <2>3, <2>4, <2>5 DEF Finalize
  <1>12. CASE RefuseQuiesce(p)
    <2>1. lease = p /\ i \in Invocations /\ row[i] = proc[p].expected
      BY <1>12 DEF RefuseQuiesce, At, known, held, settling
    <2>2. known(p)' /\ \A q \in Procs \ {p} : proc'[q] = proc[q]
      BY <1>12, <2>1, Reported DEF RefuseQuiesce, world
    <2> QED BY <1>12, <2>1, <2>2, RecordsKept DEF RefuseQuiesce, world
  <1> QED BY <1>1, <1>2, <1>3, <1>4, <1>5, <1>6, <1>7, <1>8, <1>9, <1>10, <1>11, <1>12
          DEF Invoke, Refuse

-----------------------------------------------------------------------------
(* Settlement. *)

(* A restricted document has no more permissions than were recorded for it. *)
LEMMA RestrictedSafe ==
  ASSUME NEW m \in Modes, secured(m)
  PROVE  restricted(m) \in {"exact", "tighter", "absent"}
  BY DEF Modes, secured, restricted

(* A group that is gone for its row does not write: what the two observations of
   quiescence are for. *)
LEMMA QuiescentSilent ==
  ASSUME TypeOK, Records, NEW i \in Invocations, quiescent(row[i], i)
  PROVE  /\ group[i] # "running"
         /\ ~(group[i] = "waiting" /\ gate[i] = "released")
  BY DEF Records, WriterRecorded, backed, active, quiescent

LEMMA ClearStep ==
  ASSUME TypeOK, Records, NEW p \in Procs, known(p), NEW i \in Invocations, i = proc[p].inv,
         quiescent(row[i], i), row' = [row EXCEPT ![i] = NoRow], UNCHANGED <<group, gate, epoch>>
  PROVE  Records'
  <1>1. row'[i] = NoRow /\ \A j \in Invocations \ {i} : row'[j] = row[j]
    BY DEF TypeOK
  <1>2. WriterRecorded'
    BY <1>1, QuiescentSilent DEF Records, WriterRecorded
  <1>3. Apart'
    BY <1>1 DEF Records, Apart
  <1>4. \A j \in Invocations : backed(j)'
    BY <1>1, RowValues DEF Records, backed, active
  <1> QED BY <1>2, <1>3, <1>4 DEF Records

LEMMA SettleStep ==
  ASSUME TypeOK, Records, CoversAssumption, NEW p \in Procs, known(p), Settle(p), ~Finish(p)
  PROVE  Records' /\ known(p)' /\ lease = p /\ \A q \in Procs \ {p} : proc'[q] = proc[q]
  <1> DEFINE i == proc[p].inv
  <1>0. proc[p] \in ProcType
    BY DEF TypeOK
  <1>1. CASE NextRow(p)
    <2>1. lease = p /\ i \in Invocations
      BY <1>1 DEF NextRow, At, known, held
    <2>2. CASE row[i] # NoRow /\ BeginSettle(p, row[i])
      <3>1. known(p)'
        BY <1>1, <2>1, <2>2, SettleNotes, Settling DEF NextRow, world
      <3> QED BY <1>1, <2>1, <2>2, <3>1, SettleNotes, RecordsKept DEF NextRow, world
    <2>3. CASE Report(p, "unknown")
      <3>1. known(p)' /\ \A q \in Procs \ {p} : proc'[q] = proc[q]
        BY <1>1, <2>1, <2>3, Reported DEF NextRow, world
      <3> QED BY <1>1, <2>1, <2>3, <3>1, RecordsKept DEF NextRow, world
    <2> QED BY <1>1, <2>2, <2>3 DEF NextRow
  <1>2. CASE Quiesce(p)
    <2>1. /\ lease = p /\ i \in Invocations
          /\ row[i] = proc[p].expected /\ proc[p].expected # NoRow
      BY <1>2 DEF Quiesce, At, known, held, settling
    <2>2. CASE /\ quiescent(proc[p].expected, i)
               /\ proc' = [proc EXCEPT ![p].step = "restrict", ![p].todo = Covers[i], ![p].secure = TRUE]
      <3>1. /\ proc'[p].step = "restrict" /\ proc'[p].inv = i /\ proc'[p].todo = Covers[i]
            /\ proc'[p].expected = proc[p].expected
            /\ \A q \in Procs \ {p} : proc'[q] = proc[q]
        BY <1>0, <2>2 DEF TypeOK, ProcType
      <3>2. known(p)'
        <4>1. lease' = p /\ UNCHANGED world
          BY <1>2, <2>1 DEF Quiesce
        <4>2. held(p)' /\ starting(p)' /\ told(p)'
          BY <2>1, <3>1, <4>1 DEF held, starting, told, At
        <4>3. settling(p)'
          BY <2>1, <2>2, <3>1, <4>1 DEF settling, quiescent, world
        <4> QED BY <4>2, <4>3 DEF known
      <3> QED BY <1>2, <2>1, <3>1, <3>2, RecordsKept DEF Quiesce, world
    <2>3. CASE Report(p, "pending")
      <3>1. known(p)' /\ \A q \in Procs \ {p} : proc'[q] = proc[q]
        BY <1>2, <2>1, <2>3, Reported DEF Quiesce, world
      <3> QED BY <1>2, <2>1, <2>3, <3>1, RecordsKept DEF Quiesce, world
    <2> QED BY <1>2, <2>2, <2>3 DEF Quiesce
  <1>3. CASE RestrictTarget(p)
    <2>1. PICK d \in proc[p].todo :
             /\ mode' = [mode EXCEPT ![d] = restricted(@)]
             /\ touched' = touched \ {d}
             /\ proc' = [proc EXCEPT ![p].todo = @ \ {d}, ![p].secure = @ /\ secured(mode[d])]
      BY <1>3 DEF RestrictTarget
    <2>2. d \in Documents /\ mode[d] \in Modes
      BY <1>0, ProcFields DEF TypeOK
    <2>3. /\ lease = p /\ i \in Invocations
          /\ row[i] = proc[p].expected /\ proc[p].expected # NoRow
          /\ quiescent(proc[p].expected, i)
          /\ proc[p].secure => \A e \in Covers[i] \ proc[p].todo : safe(e)
      BY <1>3 DEF RestrictTarget, At, known, held, settling
    <2>4. /\ proc'[p].step = "restrict" /\ proc'[p].inv = i
          /\ proc'[p].todo = proc[p].todo \ {d}
          /\ proc'[p].secure = (proc[p].secure /\ secured(mode[d]))
          /\ proc'[p].expected = proc[p].expected
          /\ \A q \in Procs \ {p} : proc'[q] = proc[q]
      BY <1>0, <1>3, <2>1 DEF RestrictTarget, At, TypeOK, ProcType
    <2>5. secured(mode[d]) => safe(d)'
      BY <2>1, <2>2, RestrictedSafe DEF safe, TypeOK
    <2>6. \A e \in Documents \ {d} : safe(e) => safe(e)'
      BY <2>1, <2>2 DEF safe, TypeOK
    <2>7. Covers[i] \subseteq Documents
      BY <2>3, CoversAssumption DEF CoversAssumption
    <2>8. proc'[p].secure => \A e \in Covers[i] \ proc'[p].todo : safe(e)'
      BY <2>2, <2>3, <2>4, <2>5, <2>6, <2>7
    <2>9. settling(p)'
      BY <1>3, <2>3, <2>4, <2>8 DEF RestrictTarget, settling, quiescent
    <2>10. known(p)'
      BY <1>3, <2>3, <2>4, <2>9 DEF RestrictTarget, known, held, starting, told, At
    <2> QED BY <1>3, <2>3, <2>4, <2>10, RecordsKept DEF RestrictTarget
  <1>4. CASE EndPass(p)
    <2>1. /\ lease = p /\ i \in Invocations
          /\ row[i] = proc[p].expected /\ proc[p].expected # NoRow
          /\ quiescent(proc[p].expected, i)
          /\ proc[p].secure => \A e \in Covers[i] : safe(e)
      BY <1>4 DEF EndPass, At, known, held, settling
    <2>2. CASE Report(p, "pending")
      <3>1. known(p)' /\ \A q \in Procs \ {p} : proc'[q] = proc[q]
        BY <1>4, <2>1, <2>2, Reported DEF EndPass, world
      <3> QED BY <1>4, <2>1, <2>2, <3>1, RecordsKept DEF EndPass, world
    <2>3. CASE proc' = [proc EXCEPT ![p].step = "quiesce", ![p].pass = 2]
      <3>1. /\ proc'[p].step = "quiesce" /\ proc'[p].inv = i
            /\ proc'[p].expected = proc[p].expected
            /\ \A q \in Procs \ {p} : proc'[q] = proc[q]
        BY <1>0, <2>3 DEF TypeOK, ProcType
      <3>2. known(p)'
        BY <1>4, <2>1, <3>1, Settling DEF EndPass, world
      <3> QED BY <1>4, <2>1, <3>1, <3>2, RecordsKept DEF EndPass, world
    <2>4. CASE proc[p].secure /\ GoTo(p, "clear")
      <3>1. known(p)'
        <4>1. /\ proc'[p].step = "clear" /\ proc'[p].inv = i
              /\ proc'[p].expected = proc[p].expected
              /\ lease' = p /\ UNCHANGED world
          BY <1>4, <2>1, <2>4, GoToNotes DEF EndPass, Steps
        <4>2. held(p)' /\ starting(p)' /\ told(p)'
          BY <2>1, <4>1 DEF held, starting, told, At
        <4>3. settling(p)'
          BY <2>1, <2>4, <4>1 DEF settling, quiescent, safe, world
        <4> QED BY <4>2, <4>3 DEF known
      <3> QED BY <1>4, <2>1, <2>4, <3>1, GoToNotes, RecordsKept DEF EndPass, world, Steps
    <2>5. proc[p].secure \in BOOLEAN
      BY <1>0, ProcFields
    <2> QED BY <1>4, <2>2, <2>3, <2>4, <2>5 DEF EndPass
  <1>5. CASE Clear(p)
    <2>1. /\ lease = p /\ i \in Invocations
          /\ row[i] = proc[p].expected /\ quiescent(row[i], i)
      BY <1>5 DEF Clear, At, known, held, settling
    <2>2. CASE Report(p, "pending") /\ UNCHANGED row
      <3>1. known(p)' /\ \A q \in Procs \ {p} : proc'[q] = proc[q]
        BY <1>5, <2>1, <2>2, Reported DEF Clear
      <3> QED BY <1>5, <2>1, <2>2, <3>1, RecordsKept DEF Clear
    <2>3. CASE row' = [row EXCEPT ![i] = NoRow] /\ Report(p, "cleared")
      <3>1. row'[i] = NoRow
        BY <2>1, <2>3 DEF TypeOK
      <3>2. known(p)'
        BY <1>5, <2>1, <2>3, <3>1, ReportNotes DEF Clear, known, held, starting, settling, told, At
      <3> QED BY <1>5, <2>1, <2>3, <3>2, ReportNotes, ClearStep DEF Clear
    <2> QED BY <1>5, <2>1, <2>2, <2>3 DEF Clear
  <1>6. CASE ReadBack(p)
    <2>1. lease = p /\ i \in Invocations
      BY <1>6 DEF ReadBack, At, known, held
    <2>2. PICK t \in {"pending", "unknown"} :
             Report(p, t) /\ (t = "pending" => row[i] = proc[p].expected)
      BY <1>6 DEF ReadBack
    <2>3. known(p)' /\ \A q \in Procs \ {p} : proc'[q] = proc[q]
      BY <1>6, <2>1, <2>2, Reported DEF ReadBack, world
    <2> QED BY <1>6, <2>1, <2>2, <2>3, RecordsKept DEF ReadBack, world
  <1> QED BY <1>1, <1>2, <1>3, <1>4, <1>5, <1>6 DEF Settle

(* The lease goes back with the last row; until then the next row is taken. *)
LEMMA FinishStep ==
  ASSUME TypeOK, Records, NEW p \in Procs, known(p), Finish(p)
  PROVE  Records' /\ known(p)' /\ lease = p /\ \A q \in Procs \ {p} : proc'[q] = proc[q]
  <1>0. proc[p] \in ProcType /\ proc[p].rows \subseteq Invocations
    BY ProcFields DEF TypeOK
  <1>1. lease = p
    BY DEF Finish, At, known, held
  <1>2. Records'
    BY RecordsKept DEF Finish, world
  <1>3. CASE proc' = [proc EXCEPT ![p] = [NewProc EXCEPT !.result = proc[p].result]]
    <2>1. proc'[p].step = "idle" /\ \A q \in Procs \ {p} : proc'[q] = proc[q]
      BY <1>3 DEF TypeOK, NewProc
    <2> QED BY <1>1, <1>2, <2>1, Idle
  <1>4. ASSUME NEW i \in proc[p].rows \ {proc[p].inv}, lease' = lease,
               proc' = [proc EXCEPT ![p].step = "next row",
                                    ![p].rows = proc[p].rows \ {proc[p].inv},
                                    ![p].inv = i, ![p].result = "none"]
        PROVE  known(p)' /\ \A q \in Procs \ {p} : proc'[q] = proc[q]
    <2>1. proc'[p].step = "next row" /\ proc'[p].inv = i /\ \A q \in Procs \ {p} : proc'[q] = proc[q]
      BY <1>0, <1>4 DEF TypeOK, ProcType
    <2> QED BY <1>0, <1>1, <1>4, <2>1, OnTheWay
  <1> QED BY <1>1, <1>2, <1>3, <1>4 DEF Finish

LEMMA FailStep ==
  ASSUME TypeOK, Records, CoversAssumption, NEW p \in Procs, known(p),
         FailRestrict(p) \/ FailTransition(p)
  PROVE  Records' /\ known(p)' /\ lease = p /\ \A q \in Procs \ {p} : proc'[q] = proc[q]
  <1> DEFINE i == proc[p].inv
  <1>0. proc[p] \in ProcType /\ epoch \in Nat
    BY DEF TypeOK
  <1>1. CASE FailRestrict(p)
    <2>1. PICK d \in proc[p].todo :
             proc' = [proc EXCEPT ![p].todo = @ \ {d}, ![p].secure = FALSE]
      BY <1>1 DEF FailRestrict
    <2>2. /\ lease = p /\ i \in Invocations
          /\ row[i] = proc[p].expected /\ proc[p].expected # NoRow
          /\ quiescent(proc[p].expected, i)
      BY <1>1 DEF FailRestrict, At, known, held, settling
    <2>3. /\ proc'[p].step = "restrict" /\ proc'[p].inv = i
          /\ ~proc'[p].secure /\ proc'[p].expected = proc[p].expected
          /\ \A q \in Procs \ {p} : proc'[q] = proc[q]
      BY <1>0, <1>1, <2>1 DEF FailRestrict, At, TypeOK, ProcType
    <2>4. settling(p)'
      BY <1>1, <2>2, <2>3 DEF FailRestrict, settling, quiescent
    <2>5. held(p)' /\ starting(p)' /\ told(p)'
      BY <1>1, <2>2, <2>3 DEF FailRestrict, held, starting, told, At
    <2> QED BY <1>1, <2>2, <2>3, <2>4, <2>5, RecordsKept DEF FailRestrict, known
  <1>2. CASE FailTransition(p) /\ At(p, "arm")
    <2>1. /\ lease = p /\ i \in Invocations /\ row[i] = NoRow /\ group[i] = "none"
          /\ \A d \in Covers[i] : writable(d)
      BY <1>2 DEF At, known, held, starting
    <2>2. /\ row' \in {row, [row EXCEPT ![i] = Armed]} /\ GoTo(p, "finalize")
          /\ UNCHANGED <<gate, group, epoch, lease>>
      BY <1>2 DEF FailTransition, At
    <2>3. known(p)'
      BY <2>1, <2>2, GoToNotes, OnTheWay DEF Steps
    <2>4. Records'
      <3>1. CASE row' = row
        BY <2>2, <3>1, RecordsKept
      <3>2. CASE row' = [row EXCEPT ![i] = Armed]
        BY <2>1, <2>2, <3>2, ArmedRecords
      <3> QED BY <2>2, <3>1, <3>2
    <2> QED BY <2>1, <2>2, <2>3, <2>4, GoToNotes DEF Steps
  <1>3. CASE FailTransition(p) /\ At(p, "bind")
    <2>1. lease = p /\ i \in Invocations /\ row[i] = Armed /\ group[i] # "none"
      BY <1>3 DEF At, known, held, starting
    <2>2. /\ row' \in {row, [row EXCEPT ![i] = Bound(epoch)]} /\ GoTo(p, "await")
          /\ closeGate(p) /\ UNCHANGED <<group, epoch, lease>>
      BY <1>3 DEF FailTransition, At
    <2>3. known(p)'
      BY <2>1, <2>2, GoToNotes, OnTheWay DEF Steps
    <2>4. \A j \in Invocations \ {i} : row'[j] = row[j] /\ gate'[j] = gate[j]
      BY <2>1, <2>2 DEF closeGate, TypeOK
    <2>5. gate'[i] = "closed" /\ (row'[i] = row[i] \/ row'[i] = Bound(epoch)) /\ row[i] # NoRow
      BY <2>1, <2>2, RowValues DEF closeGate, TypeOK
    <2>6. WriterRecorded'
      BY <1>0, <2>1, <2>2, <2>4, <2>5, RowValues DEF Records, WriterRecorded
    <2>7. Apart'
      BY <2>4, <2>5 DEF Records, Apart
    <2>8. \A j \in Invocations : backed(j)'
      BY <1>0, <2>1, <2>2, <2>4, <2>5, RowValues DEF Records, backed, active
    <2> QED BY <2>1, <2>2, <2>3, <2>6, <2>7, <2>8, GoToNotes DEF Records, Steps
  <1>4. CASE FailTransition(p) /\ At(p, "clear")
    <2>1. /\ lease = p /\ i \in Invocations
          /\ row[i] = proc[p].expected /\ quiescent(row[i], i)
      BY <1>4 DEF At, known, held, settling
    <2>2. /\ row' \in {row, [row EXCEPT ![i] = NoRow]} /\ GoTo(p, "read back")
          /\ UNCHANGED <<gate, group, epoch, lease>>
      BY <1>4 DEF FailTransition, At
    <2>3. Records'
      <3>1. CASE row' = row
        BY <2>2, <3>1, RecordsKept
      <3>2. CASE row' = [row EXCEPT ![i] = NoRow]
        BY <2>1, <2>2, <3>2, ClearStep
      <3> QED BY <2>2, <3>1, <3>2
    <2>4. known(p)'
      <3>1. /\ proc'[p].step = "read back" /\ proc'[p].inv = i
            /\ proc'[p].expected = proc[p].expected /\ lease' = p
        BY <2>1, <2>2, GoToNotes DEF Steps
      <3>2. row'[i] \in {proc[p].expected, NoRow}
        BY <2>1, <2>2 DEF TypeOK
      <3>3. held(p)' /\ starting(p)' /\ told(p)'
        BY <2>1, <3>1 DEF held, starting, told, At
      <3>4. settling(p)'
        BY <3>1, <3>2 DEF settling
      <3> QED BY <3>3, <3>4 DEF known
    <2> QED BY <2>1, <2>2, <2>3, <2>4, GoToNotes DEF Steps
  <1> QED BY <1>1, <1>2, <1>3, <1>4 DEF FailTransition, At

-----------------------------------------------------------------------------
(* Beginnings and ends. *)

LEMMA BeginStep ==
  ASSUME TypeOK, Records, NEW p \in Procs,
         \/ \E i \in Invocations : BeginInvoke(p, i)
         \/ \E d \in Documents : BeginWrite(p, d)
         \/ known(p) /\ Execute(p)
  PROVE  Records' /\ known(p)' /\ lease = None /\ \A q \in Procs \ {p} : proc'[q] = proc[q]
  <1>1. ASSUME NEW i \in Invocations, BeginInvoke(p, i)
        PROVE  known(p)' /\ \A q \in Procs \ {p} : proc'[q] = proc[q]
    <2>1. /\ proc'[p].step = "arm" /\ proc'[p].inv = i /\ lease' = p
          /\ \A q \in Procs \ {p} : proc'[q] = proc[q]
      BY <1>1 DEF BeginInvoke, TypeOK, NewProc
    <2>2. row[i] = NoRow /\ group[i] = "none" /\ (\A d \in Covers[i] : writable(d)) /\ UNCHANGED world
      BY <1>1 DEF BeginInvoke
    <2>3. \A d \in Covers[i] : writable(d)'
      BY <2>2 DEF writable, world
    <2>4. held(p)' /\ starting(p)' /\ told(p)'
      BY <2>1, <2>2, <2>3 DEF held, starting, told, At, world
    <2>5. settling(p)'
      BY <2>1 DEF settling
    <2> QED BY <2>1, <2>4, <2>5 DEF known
  <1>2. ASSUME NEW d \in Documents, BeginWrite(p, d)
        PROVE  known(p)' /\ \A q \in Procs \ {p} : proc'[q] = proc[q]
    <2>1. /\ proc'[p].step = "write" /\ proc'[p].doc = d /\ lease' = p
          /\ \A q \in Procs \ {p} : proc'[q] = proc[q]
      BY <1>2 DEF BeginWrite, TypeOK, NewProc
    <2>2. writable(d)'
      BY <1>2 DEF BeginWrite, writable, world
    <2>3. held(p)' /\ starting(p)' /\ told(p)'
      BY <2>1, <2>2 DEF held, starting, told, At
    <2>4. settling(p)'
      BY <2>1 DEF settling
    <2> QED BY <2>1, <2>3, <2>4 DEF known
  <1>3. CASE known(p) /\ Execute(p)
    <2>1. proc[p].inv \in Invocations
      BY <1>3 DEF Execute, At, known, held
    <2>2. /\ proc'[p].step = "next row" /\ proc'[p].inv = proc[p].inv /\ lease' = p
          /\ \A q \in Procs \ {p} : proc'[q] = proc[q]
      BY <1>3, GoToNotes DEF Execute, Steps
    <2> QED BY <1>3, <2>1, <2>2, OnTheWay, RecordsKept DEF Execute, world
  <1> QED BY <1>1, <1>2, <1>3, RecordsKept DEF BeginInvoke, BeginWrite, world

LEMMA PrepareStep ==
  ASSUME TypeOK, Records, \A q \in Procs : known(q), NEW p \in Procs, Prepare(p)
  PROVE  Records' /\ \A q \in Procs : known(q)'
  <1>1. PICK i \in Invocations :
           proc' = [proc EXCEPT ![p] = [NewProc EXCEPT !.step = "planned", !.recovering = TRUE,
                      !.plan = row, !.rows = {j \in Invocations : row[j] # NoRow}, !.inv = i]]
    BY DEF Prepare
  <1>2. proc'[p].step = "planned" /\ proc'[p].inv = i /\ \A q \in Procs \ {p} : proc'[q] = proc[q]
    BY <1>1 DEF TypeOK, NewProc
  <1>3. UNCHANGED <<world, lease>>
    BY DEF Prepare
  <1>4. known(p)'
    BY <1>2 DEF known, held, starting, settling, told, At
  <1>5. \A q \in Procs \ {p} : known(q)'
    BY <1>2, <1>3, Unmoved
  <1> QED BY <1>3, <1>4, <1>5, RecordsKept DEF world

LEMMA CrashStep ==
  ASSUME TypeOK, Records, \A q \in Procs : known(q), NEW p \in Procs, Crash(p)
  PROVE  Records' /\ \A q \in Procs : known(q)'
  <1>1. proc'[p].step = "idle" /\ \A q \in Procs \ {p} : proc'[q] = proc[q]
    BY DEF Crash, TypeOK, NewProc
  <1>2. known(p)'
    BY <1>1, Idle
  <1>3. ASSUME NEW q \in Procs \ {p}  PROVE known(q)'
    <2>1. CASE lease # q
      BY <1>1, <1>3, <2>1, Elsewhere DEF known
    <2>2. CASE lease = q
      <3>1. lease' = lease /\ UNCHANGED <<row, mode, group, epoch, touched>>
        BY <1>3, <2>2 DEF Crash
      <3>2. held(q)' /\ told(q)'
        BY <1>1, <1>3, <3>1 DEF known, held, told, At
      <3>3. starting(q)'
        BY <1>1, <1>3, <3>1 DEF known, starting, At, writable
      <3>4. settling(q)'
        BY <1>1, <1>3, <3>1 DEF known, settling, quiescent, safe
      <3> QED BY <3>2, <3>3, <3>4 DEF known
    <2> QED BY <2>1, <2>2
  <1>4. \A i \in Invocations : gate'[i] = gate[i] \/ (group[i] # "none" /\ gate'[i] = "closed")
    BY DEF Crash
  <1>5. WriterRecorded' /\ Apart' /\ \A i \in Invocations : backed(i)'
    BY <1>4 DEF Crash, Records, WriterRecorded, Apart, backed, active
  <1> QED BY <1>2, <1>3, <1>5 DEF Records

LEMMA RebootStep ==
  ASSUME TypeOK, Records, Reboot
  PROVE  Records' /\ \A q \in Procs : known(q)'
  <1>1. \A q \in Procs : proc'[q].step = "idle"
    BY NewNotes DEF Reboot
  <1>2. \A q \in Procs : known(q)'
    BY <1>1, Idle
  <1>3. \A i \in Invocations : group'[i] \in {"none", "gone"} /\ (group'[i] = "none" => group[i] = "none")
    BY DEF Reboot
  <1>4. WriterRecorded' /\ Apart' /\ \A i \in Invocations : backed(i)'
    BY <1>3 DEF Reboot, Records, WriterRecorded, Apart, backed, active
  <1> QED BY <1>2, <1>4 DEF Records

-----------------------------------------------------------------------------
(* Commands and users. *)

LEMMA CommandStep ==
  ASSUME TypeOK, Records, \A q \in Procs : known(q), NEW i \in Invocations, Command(i)
  PROVE  Records' /\ \A q \in Procs : known(q)'
  <1>1. UNCHANGED <<row, mode, gate, epoch, lease, proc, touched>>
    BY DEF Command, Exec, HelperQuits, CommandEnds
  <1>2. /\ \A j \in Invocations \ {i} : group'[j] = group[j]
        /\ group[i] \in {"waiting", "running"}
        /\ \/ group'[i] = "gone"
           \/ group[i] = "waiting" /\ gate[i] = "released" /\ group'[i] = "running"
    BY DEF Command, Exec, HelperQuits, CommandEnds, TypeOK
  <1>3. WriterRecorded' /\ Apart' /\ \A j \in Invocations : backed(j)'
    BY <1>1, <1>2 DEF Records, WriterRecorded, Apart, backed, active
  <1>4. ASSUME NEW q \in Procs  PROVE known(q)'
    <2>1. held(q)' /\ told(q)'
      BY <1>1, <1>4 DEF known, held, told, At
    <2>2. \A j \in Invocations : (group[j] = "none") <=> (group'[j] = "none")
      BY <1>2
    <2>3. \A j \in Invocations :
             group[j] \notin {"waiting", "running"} => group'[j] \notin {"waiting", "running"}
      BY <1>2
    <2>4. proc[q].step \notin {"idle", "write"} => proc[q].inv \in Invocations
      BY DEF known, held
    <2>5. starting(q)'
      BY <1>1, <2>2, <2>4 DEF known, starting, At, writable
    <2>6. settling(q)'
      BY <1>1, <2>3, <2>4 DEF known, settling, quiescent, safe
    <2> QED BY <2>1, <2>5, <2>6 DEF known
  <1> QED BY <1>3, <1>4 DEF Records

(* What a process has found of the documents it settles stays so while documents change:
   a command that runs has others, and what a user changes is marked. *)
LEMMA DocumentStep ==
  ASSUME TypeOK, Records, \A q \in Procs : known(q),
         UNCHANGED <<row, group, gate, epoch, lease, proc>>,
         \A q \in Procs : proc[q].step \in {"restrict", "clear"} =>
             \A d \in Covers[proc[q].inv] : safe(d) => safe(d)'
  PROVE  Records' /\ \A q \in Procs : known(q)'
  <1>1. ASSUME NEW q \in Procs  PROVE known(q)'
    <2>1. held(q)' /\ told(q)'
      BY <1>1 DEF known, held, told, At
    <2>2. starting(q)'
      BY <1>1 DEF known, starting, At, writable
    <2>3. settling(q)'
      BY <1>1 DEF known, settling, quiescent
    <2> QED BY <2>1, <2>2, <2>3 DEF known
  <1> QED BY <1>1, RecordsKept

LEMMA CommandWritesStep ==
  ASSUME TypeOK, Records, CoversAssumption, \A q \in Procs : known(q),
         NEW i \in Invocations, NEW d \in Documents, CommandWrites(i, d)
  PROVE  Records' /\ \A q \in Procs : known(q)'
  <1>1. group[i] = "running" /\ d \in Covers[i] /\ row[i].phase = "bound"
    BY DEF CommandWrites, Records, WriterRecorded
  <1>2. row[i] # NoRow /\ row[i].epoch = epoch
    BY <1>1, RowValues DEF Records, backed, active
  <1>3. ASSUME NEW q \in Procs, proc[q].step \in {"restrict", "clear"}
        PROVE  d \notin Covers[proc[q].inv]
    <2>1. /\ proc[q].inv \in Invocations /\ row[proc[q].inv] = proc[q].expected
          /\ proc[q].expected # NoRow /\ quiescent(proc[q].expected, proc[q].inv)
      BY <1>3 DEF known, held, settling
    <2>2. proc[q].inv # i
      BY <1>1, <1>2, <2>1 DEF quiescent
    <2> QED BY <1>1, <1>2, <2>1, <2>2 DEF Records, Apart
  <1>4. \A e \in Documents \ {d} : mode'[e] = mode[e]
    BY DEF CommandWrites, TypeOK
  <1>5. \A q \in Procs : proc[q].step \in {"restrict", "clear"} => Covers[proc[q].inv] \subseteq Documents
    BY CoversAssumption DEF CoversAssumption, known, held
  <1>6. \A q \in Procs : proc[q].step \in {"restrict", "clear"} =>
           \A e \in Covers[proc[q].inv] : safe(e) => safe(e)'
    BY <1>3, <1>4, <1>5 DEF safe, CommandWrites
  <1> QED BY <1>6, DocumentStep DEF CommandWrites

LEMMA UserChangesStep ==
  ASSUME TypeOK, Records, CoversAssumption, \A q \in Procs : known(q),
         NEW d \in Documents, UserChanges(d)
  PROVE  Records' /\ \A q \in Procs : known(q)'
  <1>1. \A e \in Documents : safe(e) => safe(e)'
    BY DEF UserChanges, TypeOK, safe
  <1>2. \A q \in Procs : proc[q].step \in {"restrict", "clear"} => Covers[proc[q].inv] \subseteq Documents
    BY CoversAssumption DEF CoversAssumption, known, held
  <1> QED BY <1>1, <1>2, DocumentStep DEF UserChanges

-----------------------------------------------------------------------------
(* The invariant. *)

LEMMA InitInv == Init => Inv
  <1> SUFFICES ASSUME Init  PROVE Inv
    OBVIOUS
  <1>1. TypeOK
    BY InitType
  <1>2. Records
    BY RowValues DEF Init, Records, WriterRecorded, Apart, backed, active
  <1>3. \A p \in Procs : known(p)
    BY NewNotes DEF Init, known, held, starting, settling, told, At
  <1> QED BY <1>1, <1>2, <1>3, InvParts

(* A step of a process that has the lease, or of one that takes it when it is free, leaves
   what every other process knows alone. *)
LEMMA ProcessStep ==
  ASSUME TypeOK, \A q \in Procs : known(q), NEW p \in Procs, lease \in {p, None},
         known(p)', \A q \in Procs \ {p} : proc'[q] = proc[q]
  PROVE  \A q \in Procs : known(q)'
  <1>1. ASSUME NEW q \in Procs \ {p}  PROVE known(q)'
    <2>1. lease # q
      BY <1>1, NoneAssumption DEF NoneAssumption
    <2> QED BY <1>1, <2>1, Elsewhere DEF known
  <1> QED BY <1>1

LEMMA InvStep == Inv /\ [Next]_vars => Inv'
  <1> SUFFICES ASSUME Inv, [Next]_vars  PROVE Inv'
    OBVIOUS
  <1>0. TypeOK /\ Records /\ (\A p \in Procs : known(p)) /\ CoversAssumption
    BY InvParts, CoversAssumption
  <1>1. TypeOK'
    BY <1>0, TypeStep, LeftModesAssumption DEF known
  <1> SUFFICES Records' /\ \A p \in Procs : known(p)'
    BY <1>1, InvParts DEF Inv, Records, known
  <1>2. ASSUME NEW p \in Procs, Invoke(p) \/ Refuse(p)  PROVE Records' /\ \A q \in Procs : known(q)'
    BY <1>0, <1>2, InvokeStep, ProcessStep
  <1>3. ASSUME NEW p \in Procs, Settle(p)  PROVE Records' /\ \A q \in Procs : known(q)'
    BY <1>0, <1>3, SettleStep, FinishStep, ProcessStep
  <1>4. ASSUME NEW p \in Procs, FailRestrict(p) \/ FailTransition(p)
        PROVE  Records' /\ \A q \in Procs : known(q)'
    BY <1>0, <1>4, FailStep, ProcessStep
  <1>5. ASSUME NEW p \in Procs,
               \/ \E i \in Invocations : BeginInvoke(p, i)
               \/ \E d \in Documents : BeginWrite(p, d)
               \/ Execute(p)
        PROVE  Records' /\ \A q \in Procs : known(q)'
    BY <1>0, <1>5, BeginStep, ProcessStep
  <1>6. ASSUME NEW p \in Procs, EndWrite(p)  PROVE Records' /\ \A q \in Procs : known(q)'
    <2>1. lease = p
      BY <1>0, <1>6 DEF EndWrite, At, known, held
    <2>2. proc'[p].step = "idle" /\ \A q \in Procs \ {p} : proc'[q] = proc[q]
      BY <1>0, <1>6, NewNotes DEF EndWrite, TypeOK
    <2>3. Records'
      BY <1>0, <1>6, RecordsKept DEF EndWrite, world
    <2> QED BY <1>0, <2>1, <2>2, <2>3, Idle, ProcessStep
  <1>7. ASSUME UNCHANGED vars  PROVE Records' /\ \A q \in Procs : known(q)'
    BY <1>0, <1>7, Unmoved, RecordsKept DEF vars, world
  <1> QED BY <1>0, <1>2, <1>3, <1>4, <1>5, <1>6, <1>7, PrepareStep, CrashStep, RebootStep,
             CommandStep, CommandWritesStep, UserChangesStep DEF Next

(* The invariant holds in every state: a process at work has the lease, so that what it has
   seen of its row, its group and its documents cannot be changed under it by another
   process; and a command on record cannot touch what another record covers. *)
THEOREM Invariance == Spec => []Inv
  BY InitInv, InvStep, PTL DEF Spec

(* Every variable keeps its type. *)
THEOREM TypeCorrect == Spec => []TypeOK
  <1>1. Inv => TypeOK
    BY DEF Inv
  <1> QED BY <1>1, Invariance, PTL

LEMMA WritersAlone == Inv => Alone
  <1> SUFFICES ASSUME Inv, NEW d \in Documents
      PROVE  Cardinality({i \in Invocations : group[i] = "running" /\ d \in Covers[i]}
                         \cup {p \in Procs : At(p, "write") /\ proc[p].doc = d}) <= 1
    BY DEF Alone
  <1> DEFINE commands == {i \in Invocations : group[i] = "running" /\ d \in Covers[i]}
             processes == {p \in Procs : At(p, "write") /\ proc[p].doc = d}
  <1>1. \A i \in commands : row[i] # NoRow
    BY RowValues DEF Inv, WriterRecorded
  <1>2. \A i, j \in commands : i = j
    BY <1>1 DEF Inv, Apart
  <1>3. \A p, q \in processes : p = q
    BY DEF Inv, held, At
  <1>4. processes # {} => commands = {}
    BY <1>1 DEF Inv, starting, writable, At
  <1>5. \A x, y \in commands \cup processes : x = y
    BY <1>2, <1>3, <1>4
  <1>6. commands \cup processes = {} \/ \E x : commands \cup processes = {x}
    BY <1>5
  <1>7. Cardinality({}) <= 1 /\ \A x : Cardinality({x}) <= 1
    <2>1. Cardinality({}) = 0
      BY FS_EmptySet
    <2>2. ASSUME NEW x  PROVE Cardinality({x}) = 1
      BY FS_Singleton
    <2> QED BY <2>1, <2>2
  <1> QED BY <1>6, <1>7

(* A document has one writer at a time, who is on record before it can write, even when
   the daem process that started it is gone; and what a process reports of the settlement
   of a record is so (invocation/execute.go). *)
THEOREM WritersAlwaysKnown == Spec => []WritersKnown
  <1>1. Inv => WritersKnown
    BY WritersAlone DEF Inv, WritersKnown, Truthful, told
  <1> QED BY <1>1, Invariance, PTL

LEMMA ClearedSafeStep ==
  ASSUME Inv, [Next]_vars, NEW i \in Invocations, row[i].phase = "bound", row'[i] = NoRow
  PROVE  \A d \in Covers[i] : mode[d] \in {"exact", "tighter", "absent"} \/ d \in touched
  <1>0. TypeOK /\ row[i] # NoRow /\ \A e \in Nat : Bound(e) # NoRow
    BY RowValues DEF Inv
  <1>1. PICK p \in Procs : Arm(p) \/ Bind(p) \/ Clear(p) \/ FailTransition(p)
    <2>1. row' # row
      BY <1>0
    <2> QED BY <2>1 DEF Next, Invoke, Correlate, Start, Ready, Release, Await, Finalize, Settle,
                        NextRow, Quiesce, RestrictTarget, EndPass, ReadBack, Finish, Refuse,
                        RefuseCorrelation, RefuseStart, RefuseReady, CancelRelease, RefuseQuiesce,
                        FailRestrict, Prepare, Execute, EndWrite, Crash, BeginInvoke, BeginWrite,
                        Command, Exec, HelperQuits, CommandEnds, CommandWrites, Reboot,
                        UserChanges, vars, world
  <1>2. At(p, "clear") /\ i = proc[p].inv
    <2>1. \A e \in Nat : Bound(e) # NoRow /\ Armed # NoRow
      BY RowValues
    <2>2. epoch \in Nat /\ row \in [Invocations -> Rows]
      BY <1>0 DEF TypeOK
    <2>3. CASE Arm(p)
      BY <1>0, <2>1, <2>2, <2>3 DEF Arm
    <2>4. CASE Bind(p)
      BY <1>0, <2>1, <2>2, <2>4 DEF Bind
    <2>5. CASE Clear(p)
      BY <1>0, <2>2, <2>5 DEF Clear
    <2>6. CASE FailTransition(p)
      BY <1>0, <2>1, <2>2, <2>6 DEF FailTransition, At
    <2> QED BY <1>1, <2>3, <2>4, <2>5, <2>6
  <1> QED BY <1>2 DEF Inv, settling, safe, At

(* A record is cleared only when its documents have no more permissions than it says, unless
   a user changed them since they were checked. *)
THEOREM ClearedAlwaysSafe == Spec => ClearedSafe
  <1>1. Inv /\ [Next]_vars =>
           [\A i \in Invocations :
              (row[i].phase = "bound" /\ row'[i] = NoRow)
                  => \A d \in Covers[i] :
                        mode[d] \in {"exact", "tighter", "absent"} \/ d \in touched]_vars
    BY ClearedSafeStep
  <1> QED BY <1>1, Invariance, PTL DEF Spec, ClearedSafe

=============================================================================
