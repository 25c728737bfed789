----------------------------- MODULE StorageProofs -----------------------------
(***************************************************************************)
(* The parts of daem on which everything else rests when something goes wrong.  *)
(* For any number of commands and journals, and faults, crashes and tampering   *)
(* at any step: a retirement never leaves the recovery root in a layout that    *)
(* nobody can clear, a confirmed recovery does what the user was shown, what is *)
(* reported is so, no content is destroyed that was not vouched for, and seen   *)
(* from outside a journal has the life of JournalLife.  For any number of       *)
(* commits, failures, power failures and other programs: what a commit reports  *)
(* is so and stays so, no power failure leaves half an entry, and nothing is    *)
(* destroyed that another program has put in its way.  For any number of        *)
(* processes that share the cache of sources: what a resolution returns was     *)
(* served and is still there, and one lock record protects one at a time.  For  *)
(* any number of removals, faults and strangers: their cleanup changes nothing  *)
(* before all are ready, says that it is done when nothing is left, and touches *)
(* nothing that another program has put there.                                  *)
(***************************************************************************)
EXTENDS MCStorage, TLAPS

-----------------------------------------------------------------------------
(* Types. *)

LEMMA IdsOfJournals ==
  ASSUME NEW j \in Journals
  PROVE  /\ j.op \in Ops /\ j.record \in Records
         /\ j.tree \in {"whole", "changed", "partial"} /\ j.object \in {"own", "foreign"}
         /\ identity(j) \in Ids /\ identity(j).op = j.op /\ identity(j).record = j.record
  BY DEF Journals, Ids, identity

LEMMA IdFields ==
  ASSUME NEW id \in Ids
  PROVE  /\ id.op \in Ops /\ id.record \in Records
         /\ id = [op |-> id.op, record |-> id.record]
         /\ \A n \in Records : [id EXCEPT !.record = n] \in Ids
         /\ [id EXCEPT !.record = id.record] = id
  BY DEF Ids

LEMMA Numbers ==
  /\ Limit["publish"] \in Nat /\ Limit["promote"] \in Nat
  /\ \A n : n \in Ops <=> n \in Nat /\ 1 <= n /\ n <= Limit["publish"]
  /\ \A n : n \in Records <=> n \in Nat /\ n <= Limit["promote"] + 1
  /\ 0 \in Records /\ Foreign \in Records
  BY LimitAssumption DEF LimitAssumption, Events, Ops, Records, Foreign

LEMMA RootFields ==
  ASSUME NEW r \in Roots
  PROVE  /\ r.active \in SUBSET Journals /\ r.controls \in SUBSET Controls
         /\ r.residues \in SUBSET Residues /\ r.garbage \in SUBSET Ids
  BY DEF Roots

LEMMA ResidueFields ==
  ASSUME NEW s \in Residues
  PROVE  /\ s.name \in Ids /\ s.journal \in Journals
         /\ \A j \in Journals : [s EXCEPT !.journal = j] \in Residues
                                /\ [s EXCEPT !.journal = j].name = s.name
                                /\ [s EXCEPT !.journal = j].journal = j
         /\ [s EXCEPT !.journal.tree = "partial"] \in Residues
         /\ [s EXCEPT !.journal.tree = "partial"].name = s.name
  <1>1. s.name \in Ids /\ s.journal \in Journals
    BY DEF Residues
  <1>2. \A j \in Journals : /\ [s EXCEPT !.journal = j] \in Residues
                            /\ [s EXCEPT !.journal = j].name = s.name
                            /\ [s EXCEPT !.journal = j].journal = j
    BY DEF Residues
  <1>3. [s.journal EXCEPT !.tree = "partial"] \in Journals
    BY <1>1 DEF Journals
  <1>4. [s EXCEPT !.journal.tree = "partial"] = [s EXCEPT !.journal = [s.journal EXCEPT !.tree = "partial"]]
    BY DEF Residues
  <1> QED BY <1>1, <1>2, <1>3, <1>4

LEMMA ControlFields ==
  /\ \A k \in Controls : k.id \in Ids /\ k.phase \in {"prepared", "finalizing"} /\ k = control(k.id, k.phase)
  /\ \A id \in Ids, phase \in {"prepared", "finalizing"} :
        /\ control(id, phase) \in Controls
        /\ control(id, phase).id = id /\ control(id, phase).phase = phase
  BY DEF Controls, control

(* What is written to the root, part by part. *)
LEMMA RootParts ==
  ASSUME NEW r \in Roots, NEW a \in SUBSET Journals, NEW k \in SUBSET Controls,
         NEW s \in SUBSET Residues, NEW g \in SUBSET Ids
  PROVE  /\ [r EXCEPT !.active = a] \in Roots
         /\ [r EXCEPT !.controls = k] \in Roots
         /\ [r EXCEPT !.residues = s] \in Roots
         /\ [r EXCEPT !.garbage = g] \in Roots
         /\ [r EXCEPT !.active = a, !.residues = s] \in Roots
         /\ [r EXCEPT !.controls = k, !.garbage = g] \in Roots
  BY DEF Roots

LEMMA CommandFields ==
  ASSUME NEW k \in CommandType
  PROVE  /\ k.step \in Steps /\ k.kind \in {"apply", "recover"} /\ k.start \in Starts
         /\ k.id \in Ids \cup {NoId} /\ k.basis \in Records
         /\ k.expected \in Journals \cup {NoJournal} /\ k.controlled \in BOOLEAN
         /\ k.seen \in Roots /\ k.changed \in BOOLEAN /\ k.touched \in BOOLEAN
         /\ k.outcome \in Reports /\ k.said \in Reports
  BY DEF CommandType

LEMMA EmptyType == EmptyRoot \in Roots
  BY DEF EmptyRoot, Roots

LEMMA NewCommandType == NewCommand \in CommandType
  BY EmptyType, Numbers DEF NewCommand, CommandType, Steps, Starts, Reports

LEMMA InitType == Init => TypeOK
  BY EmptyType, NewCommandType, LimitAssumption DEF Init, TypeOK, LimitAssumption

LEMMA SpendType ==
  ASSUME used \in [Events -> Nat], \A e \in Events : used[e] <= Limit[e], NEW f \in Events, Spend(f)
  PROVE  /\ used' \in [Events -> Nat] /\ \A e \in Events : used'[e] <= Limit[e]
         /\ used'[f] = used[f] + 1 /\ \A e \in Events \ {f} : used'[e] = used[e]
  <1>1. used' = [used EXCEPT ![f] = used[f] + 1] /\ used[f] < Limit[f] /\ Limit[f] \in Nat
    BY LimitAssumption DEF Spend, LimitAssumption
  <1> QED BY <1>1

(* What a command notes keeps its type. *)
LEMMA Notes ==
  ASSUME NEW k \in CommandType, NEW s \in Steps, NEW t \in Reports
  PROVE  /\ [k EXCEPT !.step = s] \in CommandType
         /\ [k EXCEPT !.said = t] \in CommandType
         /\ [k EXCEPT !.step = s, !.outcome = t] \in CommandType
         /\ [k EXCEPT !.step = s, !.changed = TRUE, !.outcome = t] \in CommandType
         /\ [k EXCEPT !.step = s, !.outcome = t, !.changed = TRUE] \in CommandType
         /\ [k EXCEPT !.step = s, !.kind = "apply", !.said = t] \in CommandType
         /\ \A r \in Roots : [k EXCEPT !.step = s, !.seen = r, !.said = t] \in CommandType
         /\ \A id \in Ids : [k EXCEPT !.step = s, !.id = id, !.changed = TRUE] \in CommandType
  <1>1. [k EXCEPT !.step = s] \in CommandType
    BY DEF CommandType
  <1>2. [k EXCEPT !.said = t] \in CommandType
    BY DEF CommandType
  <1>3. [k EXCEPT !.step = s, !.outcome = t] \in CommandType
    BY DEF CommandType
  <1>4. [k EXCEPT !.step = s, !.changed = TRUE, !.outcome = t] \in CommandType
    BY DEF CommandType
  <1>5. [k EXCEPT !.step = s, !.outcome = t, !.changed = TRUE] \in CommandType
    BY DEF CommandType
  <1>6. [k EXCEPT !.step = s, !.kind = "apply", !.said = t] \in CommandType
    BY DEF CommandType
  <1>7. \A r \in Roots : [k EXCEPT !.step = s, !.seen = r, !.said = t] \in CommandType
    BY DEF CommandType
  <1>8. \A id \in Ids : [k EXCEPT !.step = s, !.id = id, !.changed = TRUE] \in CommandType
    BY DEF CommandType
  <1> QED BY <1>1, <1>2, <1>3, <1>4, <1>5, <1>6, <1>7, <1>8

LEMMA NotesOfRetirement ==
  ASSUME NEW k \in CommandType, NEW s \in Steps
  PROVE  /\ \A t \in Starts, id \in Ids, n \in Records :
               [k EXCEPT !.step = s, !.start = t, !.id = id, !.basis = n] \in CommandType
         /\ \A b \in BOOLEAN, j \in Journals \cup {NoJournal} :
               [k EXCEPT !.step = s, !.controlled = b, !.expected = j] \in CommandType
         /\ \A n \in Records : [k EXCEPT !.basis = n] \in CommandType
         /\ \A id \in Ids, j \in Journals \cup {NoJournal} :
               [k EXCEPT !.step = s, !.id = id, !.expected = j] \in CommandType
         /\ \A b \in BOOLEAN : [k EXCEPT !.touched = b] \in CommandType
  <1>1. \A t \in Starts, id \in Ids, n \in Records :
           [k EXCEPT !.step = s, !.start = t, !.id = id, !.basis = n] \in CommandType
    BY DEF CommandType
  <1>2. \A b \in BOOLEAN, j \in Journals \cup {NoJournal} :
           [k EXCEPT !.step = s, !.controlled = b, !.expected = j] \in CommandType
    BY DEF CommandType
  <1>3. \A n \in Records : [k EXCEPT !.basis = n] \in CommandType
    BY DEF CommandType
  <1>4. \A id \in Ids, j \in Journals \cup {NoJournal} :
           [k EXCEPT !.step = s, !.id = id, !.expected = j] \in CommandType
    BY DEF CommandType
  <1>5. \A b \in BOOLEAN : [k EXCEPT !.touched = b] \in CommandType
    BY DEF CommandType
  <1> QED BY <1>1, <1>2, <1>3, <1>4, <1>5

-----------------------------------------------------------------------------
(* How Classify sees the layouts. *)

LEMMA Only ==
  /\ \A x : only({x}) = x
  /\ \A S : S # {} => only(S) \in S
  BY DEF only

LEMMA ActiveSeen ==
  ASSUME NEW r \in Roots, NEW id \in Ids, activeLayout(r, id)
  PROVE  /\ Classify(r) = IF r.controls = {} THEN "active" ELSE "prepared"
         /\ subject(r) = id
  <1>1. PICK j \in r.active : r.active = {j} /\ readable(j) /\ identity(j) = id
    BY DEF activeLayout
  <1>2. only(r.active) = j /\ r.residues = {} /\ id \notin r.garbage
    BY <1>1, Only DEF activeLayout
  <1>3. r.controls = {} \/ r.controls = {control(id, "prepared")}
    BY DEF activeLayout
  <1>4. ~several(r.active) /\ ~several(r.controls) /\ ~several(r.residues)
    BY <1>1, <1>2, <1>3 DEF several
  <1>5. ~matchingGC(r)
    BY <1>1, <1>2, <1>3, ControlFields DEF matchingGC
  <1>6. activeWithControl(r)
    BY <1>1, <1>2, <1>3, Only DEF activeWithControl, control
  <1>7. subject(r) = id
    BY <1>1, <1>2 DEF subject
  <1>8. \A k \in r.active : readable(k)
    BY <1>1
  <1>9. r.active # {}
    BY <1>1
  <1> QED BY <1>2, <1>4, <1>5, <1>6, <1>7, <1>8, <1>9 DEF Classify

LEMMA RetainedSeen ==
  ASSUME NEW r \in Roots, NEW id \in Ids, retainedLayout(r, id)
  PROVE  Classify(r) = "retained" /\ subject(r) = id
  <1>1. PICK s \in r.residues : r.residues = {s} /\ independentlyMatches(s, id)
    BY DEF retainedLayout
  <1>2. r.active = {} /\ r.controls = {control(id, "prepared")} /\ id \notin r.garbage
    BY DEF retainedLayout
  <1>3. /\ only(r.controls) = control(id, "prepared")
        /\ only(r.controls).id = id /\ only(r.controls).phase = "prepared"
    BY <1>2, Only, ControlFields
  <1>4. ~several(r.active) /\ ~several(r.controls) /\ ~several(r.residues)
    BY <1>1, <1>2 DEF several
  <1>5. ~matchingGC(r)
    BY <1>1, <1>2, ControlFields DEF matchingGC, independentlyMatches
  <1>6. subject(r) = id
    BY <1>2, <1>3 DEF subject
  <1>7. r.controls # {} /\ \E t \in r.residues : independentlyMatches(t, id)
    BY <1>1, <1>2
  <1> QED BY <1>2, <1>3, <1>4, <1>5, <1>6, <1>7 DEF Classify

LEMMA FinalSeen ==
  ASSUME NEW r \in Roots, NEW id \in Ids, finalLayout(r, id)
  PROVE  Classify(r) = "finalizing" /\ subject(r) = id
  <1>1. r.active = {} /\ r.controls = {control(id, "finalizing")} /\ id \notin r.garbage
    BY DEF finalLayout
  <1>2. /\ only(r.controls) = control(id, "finalizing")
        /\ only(r.controls).id = id /\ only(r.controls).phase = "finalizing"
    BY <1>1, Only, ControlFields
  <1>3. \A s \in r.residues : s.name = id
    BY DEF finalLayout
  <1>4. ~several(r.active) /\ ~several(r.controls) /\ ~several(r.residues)
    BY <1>1 DEF several, finalLayout
  <1>5. ~matchingGC(r)
    BY <1>1, <1>3, ControlFields DEF matchingGC
  <1>6. subject(r) = id
    BY <1>1, <1>2 DEF subject
  <1>7. r.controls # {}
    BY <1>1
  <1> QED BY <1>1, <1>2, <1>3, <1>4, <1>5, <1>6, <1>7 DEF Classify

LEMMA ClearSeen ==
  ASSUME NEW r \in Roots
  PROVE  Clear(r) <=> clearLayout(r)
  <1>1. ASSUME clearLayout(r)  PROVE Clear(r)
    <2>1. ~several(r.active) /\ ~several(r.controls) /\ ~several(r.residues) /\ ~matchingGC(r)
      BY <1>1 DEF clearLayout, several, matchingGC
    <2> QED BY <1>1, <2>1 DEF clearLayout, Clear, Classify
  <1>2. ASSUME Clear(r)  PROVE clearLayout(r)
    BY <1>2 DEF Clear, Classify, clearLayout
  <1> QED BY <1>1, <1>2

LEMMA StartSeen ==
  ASSUME NEW r \in Roots, NEW k, Recoverable(r), k.start = startOf(r), k.id = subject(r)
  PROVE  subject(r) \in Ids /\ startOf(r) \in Starts /\ started(k, r)
  <1>1. ~several(r.active) /\ ~several(r.controls) /\ ~several(r.residues) /\ ~matchingGC(r)
    BY DEF Recoverable, Classify
  <1>2. \A S : ~several(S) => S = {} \/ \E x \in S : S = {x}
    BY DEF several
  <1>3. CASE r.active # {}
    <2>1. PICK j \in r.active : r.active = {j}
      BY <1>1, <1>2, <1>3
    <2>2. only(r.active) = j /\ readable(j) /\ j \in Journals
      BY <2>1, Only, RootFields DEF Recoverable, Classify
    <2>3. Classify(r) \in {"active", "prepared"} /\ r.residues = {} /\ activeWithControl(r)
      BY <1>3, <2>1 DEF Recoverable, Classify
    <2>4. identity(j) \in Ids
      BY <2>2, IdsOfJournals
    <2>5. r.controls \subseteq {control(identity(j), "prepared")}
      <3>1. CASE r.controls = {}
        BY <3>1
      <3>2. CASE r.controls # {}
        <4>1. PICK d \in r.controls : r.controls = {d}
          BY <1>1, <1>2, <3>2
        <4>2. d = control(identity(j), "prepared")
          BY <2>2, <2>3, <3>2, <4>1, Only DEF activeWithControl, control
        <4> QED BY <4>1, <4>2
      <3> QED BY <3>1, <3>2
    <2>6. identity(j) \notin r.garbage
      BY <1>1, <2>1 DEF matchingGC
    <2>7. subject(r) = identity(j) /\ startOf(r) = "active"
      BY <1>3, <2>2, <2>3 DEF subject, startOf
    <2>8. activeLayout(r, identity(j))
      BY <2>1, <2>2, <2>3, <2>5, <2>6 DEF activeLayout
    <2> QED BY <2>4, <2>7, <2>8 DEF started, Starts
  <1>4. CASE r.active = {}
    <2>1. r.controls # {}
      BY <1>4 DEF Recoverable, Classify
    <2>2. PICK d \in r.controls : r.controls = {d}
      BY <1>1, <1>2, <2>1
    <2>3. only(r.controls) = d /\ subject(r) = d.id
      BY <1>4, <2>2, Only DEF subject
    <2>4. d \in Controls /\ d.id \in Ids /\ d.phase \in {"prepared", "finalizing"} /\ d = control(d.id, d.phase)
      BY RootFields, ControlFields
    <2>5. d.id \notin r.garbage
      BY <1>1 DEF matchingGC
    <2>6. CASE d.phase = "prepared"
      <3>1. Classify(r) = "retained" /\ \E s \in r.residues : independentlyMatches(s, d.id)
        BY <1>4, <2>1, <2>3, <2>6 DEF Recoverable, Classify
      <3>2. PICK s \in r.residues : independentlyMatches(s, d.id)
        BY <3>1
      <3>3. r.residues = {s}
        BY <1>1, <1>2, <3>2
      <3>4. retainedLayout(r, d.id)
        BY <1>4, <2>2, <2>4, <2>5, <2>6, <3>2, <3>3 DEF retainedLayout
      <3>5. startOf(r) = "prepared"
        BY <3>1 DEF startOf
      <3> QED BY <2>3, <2>4, <3>4, <3>5 DEF started, Starts
    <2>7. CASE d.phase = "finalizing"
      <3>1. Classify(r) = "finalizing" /\ \A s \in r.residues : s.name = d.id
        BY <1>4, <2>1, <2>3, <2>7 DEF Recoverable, Classify
      <3>2. r.residues = {} \/ \E s \in r.residues : r.residues = {s} /\ s.name = d.id
        BY <1>1, <1>2, <3>1
      <3>3. finalLayout(r, d.id)
        BY <1>4, <2>2, <2>4, <2>5, <2>7, <3>2 DEF finalLayout
      <3>4. startOf(r) = IF r.residues = {} THEN "finalizing" ELSE "finalizingResidue"
        BY <3>1 DEF startOf
      <3> QED BY <2>3, <2>4, <3>3, <3>4 DEF started, Starts
    <2> QED BY <2>4, <2>6, <2>7
  <1> QED BY <1>3, <1>4

-----------------------------------------------------------------------------
(* What a step writes is a root again. *)

LEMMA OfName ==
  ASSUME root \in Roots, NEW id \in Ids
  PROVE  /\ controlsOf(id) \in SUBSET root.controls /\ residuesOf(id) \in SUBSET root.residues
         /\ \A n : journalsOf(n) \in SUBSET root.active /\ \A j \in journalsOf(n) : j.op = n
  BY DEF controlsOf, residuesOf, journalsOf

LEMMA PartType ==
  ASSUME root \in Roots, NEW c \in Commands, numbered(root, used["publish"])
  PROVE  PartResidue(c) \in Roots /\ numbered(PartResidue(c), used["publish"])
  <1> DEFINE S == {IF s.name = cmd[c].id THEN [s EXCEPT !.journal.tree = "partial"] ELSE s : s \in root.residues}
  <1>1. S \in SUBSET Residues /\ \A s \in S : s.name.op <= used["publish"]
    <2>1. ASSUME NEW s \in root.residues
          PROVE  LET t == IF s.name = cmd[c].id THEN [s EXCEPT !.journal.tree = "partial"] ELSE s
                 IN  t \in Residues /\ t.name.op <= used["publish"]
      <3>1. s \in Residues /\ s.name.op <= used["publish"]
        BY RootFields DEF numbered
      <3>2. [s EXCEPT !.journal.tree = "partial"] \in Residues /\ [s EXCEPT !.journal.tree = "partial"].name = s.name
        BY <3>1, ResidueFields
      <3> HIDE DEF S
      <3> QED BY <3>1, <3>2
    <2> QED BY <2>1
  <1>2. PartResidue(c) = [root EXCEPT !.residues = S]
    BY DEF PartResidue
  <1>3. /\ PartResidue(c).active = root.active /\ PartResidue(c).controls = root.controls
        /\ PartResidue(c).residues = S /\ PartResidue(c).garbage = root.garbage
    BY <1>2 DEF Roots
  <1> QED BY <1>1, <1>2, <1>3, RootFields, RootParts DEF numbered

LEMMA WrittenParts ==
  ASSUME root \in Roots, NEW c \in Commands, Writing(c)
  PROVE  LET id == cmd[c].id
             new == IF At(c, "advance") THEN control(id, "finalizing") ELSE control(id, "prepared")
         IN  /\ written(c).active =
                   IF At(c, "retire") THEN root.active \ journalsOf(id.op) ELSE root.active
             /\ written(c).controls =
                   IF (At(c, "control") /\ ~cmd[c].controlled) \/ At(c, "advance")
                   THEN (root.controls \ controlsOf(id)) \cup {new}
                   ELSE IF At(c, "gc") THEN root.controls \ controlsOf(id) ELSE root.controls
             /\ written(c).residues =
                   IF At(c, "retire")
                   THEN root.residues \cup {[name |-> id, journal |-> j] : j \in journalsOf(id.op)}
                   ELSE IF At(c, "residue") THEN root.residues \ residuesOf(id) ELSE root.residues
             /\ written(c).garbage =
                   IF At(c, "gc") THEN root.garbage \cup {id}
                   ELSE IF At(c, "garbage") THEN root.garbage \ {id} ELSE root.garbage
             /\ written(c) = [active |-> written(c).active, controls |-> written(c).controls,
                              residues |-> written(c).residues, garbage |-> written(c).garbage]
  <1> USE DEF Roots, At, written
  <1>1. CASE At(c, "control")
    BY <1>1 DEF PublishControl, withControl, control
  <1>2. CASE At(c, "retire")
    BY <1>2 DEF RetireActiveJournal
  <1>3. CASE At(c, "advance")
    BY <1>3 DEF AdvanceRecord, withControl, control
  <1>4. CASE At(c, "residue")
    BY <1>4 DEF CleanupResidue
  <1>5. CASE At(c, "gc")
    BY <1>5 DEF RetireControl
  <1>6. CASE At(c, "garbage")
    BY <1>6 DEF CleanupGarbage
  <1> QED BY <1>1, <1>2, <1>3, <1>4, <1>5, <1>6 DEF Writing

LEMMA WrittenType ==
  ASSUME root \in Roots, NEW c \in Commands, Writing(c), cmd[c].id \in Ids,
         cmd[c].id.op <= used["publish"], numbered(root, used["publish"])
  PROVE  written(c) \in Roots /\ numbered(written(c), used["publish"])
  <1> DEFINE id == cmd[c].id
  <1>1. {[name |-> id, journal |-> j] : j \in journalsOf(id.op)} \in SUBSET Residues
    BY RootFields, OfName DEF Residues
  <1>2. \A phase \in {"prepared", "finalizing"} : control(id, phase) \in Controls /\ control(id, phase).id = id
    BY ControlFields
  <1>3. \A s \in {[name |-> id, journal |-> j] : j \in journalsOf(id.op)} : s.name = id
    OBVIOUS
  <1>4. /\ written(c).active \in SUBSET root.active
        /\ written(c).controls \in SUBSET (root.controls \cup {control(id, "prepared"), control(id, "finalizing")})
        /\ written(c).residues \in
              SUBSET (root.residues \cup {[name |-> id, journal |-> j] : j \in journalsOf(id.op)})
        /\ written(c).garbage \in SUBSET (root.garbage \cup {id})
    BY WrittenParts
  <1>5. numbered(written(c), used["publish"])
    BY <1>2, <1>3, <1>4 DEF numbered
  <1>6. /\ written(c).active \in SUBSET Journals /\ written(c).controls \in SUBSET Controls
        /\ written(c).residues \in SUBSET Residues /\ written(c).garbage \in SUBSET Ids
    BY <1>1, <1>2, <1>4, RootFields
  <1>7. written(c) = [active |-> written(c).active, controls |-> written(c).controls,
                      residues |-> written(c).residues, garbage |-> written(c).garbage]
    BY WrittenParts
  <1>8. \A a \in SUBSET Journals, k \in SUBSET Controls, s \in SUBSET Residues, g \in SUBSET Ids :
           [active |-> a, controls |-> k, residues |-> s, garbage |-> g] \in Roots
    BY DEF Roots
  <1>9. written(c) \in Roots
    BY <1>6, <1>7, <1>8
  <1> QED BY <1>5, <1>9

LEMMA NextStep ==
  ASSUME NEW c \in Commands, Writing(c)
  PROVE  /\ nextStep(c) \in Steps \ {"idle", "planned", "replan", "publish"}
         /\ At(c, "control") => nextStep(c) = "record"
         /\ At(c, "retire") => nextStep(c) = "phase"
         /\ At(c, "advance") => nextStep(c) = "final"
         /\ At(c, "residue") => nextStep(c) = "gc"
         /\ At(c, "gc") => nextStep(c) = "garbage"
         /\ At(c, "garbage") => nextStep(c) = "report"
  BY DEF Writing, nextStep, At, Steps

-----------------------------------------------------------------------------
(* What each writing step makes of the layout that it is ready for. *)

LEMMA ControlWritten ==
  ASSUME root \in Roots, NEW c \in Commands, At(c, "control"), cmd[c].id \in Ids,
         cmd[c] \in CommandType, informed(cmd[c], root), ready(c)
  PROVE  activeLayout(written(c), cmd[c].id) /\ written(c).controls = {control(cmd[c].id, "prepared")}
  <1> DEFINE id == cmd[c].id
  <1>0. Writing(c) /\ ~At(c, "retire") /\ ~At(c, "advance") /\ ~At(c, "gc")
        /\ ~At(c, "residue") /\ ~At(c, "garbage")
    BY DEF Writing, At
  <1>1. activeLayout(root, id) /\ (cmd[c].controlled => root.controls = {control(id, "prepared")})
    BY DEF informed, At
  <1>2. cmd[c].controlled \/ controlsOf(id) = {}
    BY DEF ready, At
  <1>3. /\ written(c).active = root.active /\ written(c).residues = root.residues
        /\ written(c).garbage = root.garbage
    BY <1>0, WrittenParts
  <1>4. CASE cmd[c].controlled
    <2>1. written(c).controls = root.controls
      BY <1>0, <1>4, WrittenParts
    <2> QED BY <1>1, <1>3, <1>4, <2>1 DEF activeLayout
  <1>5. CASE ~cmd[c].controlled
    <2>1. written(c).controls = (root.controls \ controlsOf(id)) \cup {control(id, "prepared")}
      BY <1>0, <1>5, WrittenParts
    <2>2. root.controls = {}
      BY <1>1, <1>2, <1>5, ControlFields DEF activeLayout, controlsOf
    <2> QED BY <1>1, <1>3, <2>1, <2>2 DEF activeLayout
  <1> QED BY <1>4, <1>5

LEMMA RetireWritten ==
  ASSUME root \in Roots, NEW c \in Commands, At(c, "retire"), cmd[c].id \in Ids,
         informed(cmd[c], root)
  PROVE  retainedLayout(written(c), cmd[c].id)
  <1> DEFINE id == cmd[c].id
  <1>0. Writing(c) /\ ~At(c, "control") /\ ~At(c, "advance") /\ ~At(c, "gc")
        /\ ~At(c, "residue") /\ ~At(c, "garbage")
    BY DEF Writing, At
  <1>1. activeLayout(root, id) /\ root.controls = {control(id, "prepared")}
    BY DEF informed, At
  <1>2. PICK j \in root.active : root.active = {j} /\ readable(j) /\ identity(j) = id
    BY <1>1 DEF activeLayout
  <1>3. journalsOf(id.op) = {j}
    BY <1>2, RootFields, IdsOfJournals DEF journalsOf
  <1>4. /\ written(c).active = {} /\ written(c).controls = {control(id, "prepared")}
        /\ written(c).residues = {[name |-> id, journal |-> j]}
        /\ written(c).garbage = root.garbage
    BY <1>0, <1>1, <1>2, <1>3, WrittenParts DEF activeLayout
  <1> QED BY <1>1, <1>2, <1>4 DEF retainedLayout, activeLayout, independentlyMatches

LEMMA AdvanceWritten ==
  ASSUME root \in Roots, NEW c \in Commands, At(c, "advance"), cmd[c].id \in Ids,
         informed(cmd[c], root)
  PROVE  /\ finalLayout(written(c), cmd[c].id) /\ written(c).residues # {}
         /\ \A s \in written(c).residues : identity(s.journal) = cmd[c].id
  <1> DEFINE id == cmd[c].id
  <1>0. Writing(c) /\ ~At(c, "control") /\ ~At(c, "retire") /\ ~At(c, "gc")
        /\ ~At(c, "residue") /\ ~At(c, "garbage")
    BY DEF Writing, At
  <1>1. retainedLayout(root, id)
    BY DEF informed, At
  <1>2. controlsOf(id) = root.controls
    BY <1>1, ControlFields DEF retainedLayout, controlsOf
  <1>3. /\ written(c).active = root.active /\ written(c).controls = {control(id, "finalizing")}
        /\ written(c).residues = root.residues /\ written(c).garbage = root.garbage
    BY <1>0, <1>2, WrittenParts
  <1> QED BY <1>1, <1>3 DEF retainedLayout, finalLayout, independentlyMatches

LEMMA ResidueWritten ==
  ASSUME root \in Roots, NEW c \in Commands, At(c, "residue"), cmd[c].id \in Ids,
         informed(cmd[c], root)
  PROVE  /\ finalLayout(written(c), cmd[c].id) /\ written(c).residues = {}
         /\ finalLayout(PartResidue(c), cmd[c].id)
  <1> DEFINE id == cmd[c].id
  <1>0. Writing(c) /\ ~At(c, "control") /\ ~At(c, "retire") /\ ~At(c, "gc")
        /\ ~At(c, "advance") /\ ~At(c, "garbage")
    BY DEF Writing, At
  <1>1. finalLayout(root, id)
    BY DEF informed, At
  <1>2. residuesOf(id) = root.residues
    BY <1>1 DEF finalLayout, residuesOf
  <1>3. /\ written(c).active = root.active /\ written(c).controls = root.controls
        /\ written(c).residues = {} /\ written(c).garbage = root.garbage
    BY <1>0, <1>2, WrittenParts
  <1>4. finalLayout(written(c), id)
    BY <1>1, <1>3 DEF finalLayout
  <1> DEFINE S == {IF s.name = id THEN [s EXCEPT !.journal.tree = "partial"] ELSE s : s \in root.residues}
  <1>5. /\ PartResidue(c).active = root.active /\ PartResidue(c).controls = root.controls
        /\ PartResidue(c).residues = S /\ PartResidue(c).garbage = root.garbage
    BY DEF PartResidue, Roots
  <1>6. S = {} \/ \E s \in S : S = {s} /\ s.name = id
    <2>1. CASE root.residues = {}
      BY <2>1
    <2>2. ASSUME NEW s \in root.residues, root.residues = {s}, s.name = id
          PROVE  S = {} \/ \E t \in S : S = {t} /\ t.name = id
      <3>1. S = {[s EXCEPT !.journal.tree = "partial"]}
        BY <2>2
      <3>2. [s EXCEPT !.journal.tree = "partial"].name = id
        BY <2>2, RootFields, ResidueFields
      <3> QED BY <3>1, <3>2
    <2> QED BY <1>1, <2>1, <2>2 DEF finalLayout
  <1>7. finalLayout(PartResidue(c), id)
    BY <1>1, <1>5, <1>6 DEF finalLayout
  <1> QED BY <1>3, <1>4, <1>7

LEMMA GarbageWritten ==
  ASSUME root \in Roots, NEW c \in Commands, At(c, "gc") \/ At(c, "garbage"), cmd[c].id \in Ids,
         informed(cmd[c], root)
  PROVE  clearLayout(written(c))
  <1> DEFINE id == cmd[c].id
  <1>0. Writing(c) /\ ~At(c, "control") /\ ~At(c, "retire") /\ ~At(c, "residue") /\ ~At(c, "advance")
    BY DEF Writing, At
  <1>1. CASE At(c, "gc")
    <2>1. finalLayout(root, id) /\ root.residues = {} /\ ~At(c, "garbage")
      BY <1>1 DEF informed, At
    <2>2. controlsOf(id) = root.controls
      BY <2>1, ControlFields DEF finalLayout, controlsOf
    <2>3. /\ written(c).active = root.active /\ written(c).controls = {}
          /\ written(c).residues = root.residues
      BY <1>0, <1>1, <2>1, <2>2, WrittenParts
    <2> QED BY <2>1, <2>3 DEF finalLayout, clearLayout
  <1>2. CASE At(c, "garbage")
    <2>1. clearLayout(root) /\ ~At(c, "gc")
      BY <1>2 DEF informed, At
    <2>2. /\ written(c).active = root.active /\ written(c).controls = root.controls
          /\ written(c).residues = root.residues
      BY <1>0, <1>2, <2>1, WrittenParts
    <2> QED BY <2>1, <2>2 DEF clearLayout
  <1> QED BY <1>1, <1>2

-----------------------------------------------------------------------------
(* The invariant, for a step of one command. *)

LEMMA Unblocked ==
  ASSUME NEW r \in Roots, NEW id \in Ids,
         activeLayout(r, id) \/ retainedLayout(r, id) \/ finalLayout(r, id) \/ clearLayout(r)
  PROVE  Classify(r) # "blocked"
  <1>1. CASE activeLayout(r, id)
    BY <1>1, ActiveSeen
  <1>2. CASE retainedLayout(r, id)
    BY <1>2, RetainedSeen
  <1>3. CASE finalLayout(r, id)
    BY <1>3, FinalSeen
  <1>4. CASE clearLayout(r)
    BY <1>4, ClearSeen DEF Clear
  <1> QED BY <1>1, <1>2, <1>3, <1>4

LEMMA InvTypes ==
  ASSUME Inv
  PROVE  /\ root \in Roots /\ lease \in Commands \cup {NoCommand}
         /\ cmd \in [Commands -> CommandType]
         /\ used \in [Events -> Nat] /\ \A e \in Events : used[e] <= Limit[e]
         /\ numbered(root, used["publish"])
         /\ used["publish"] \in Nat /\ used["promote"] \in Nat /\ used["tamper"] \in Nat
         /\ used["tamper"] = 0 => Classify(root) # "blocked"
         /\ \A c \in Commands : cmd[c] \in CommandType /\ held(c) /\ sound(cmd[c], root, used)
  BY DEF Inv, TypeOK, NeverBlocked, Events

(* The same facts hold when there have been more events. *)
LEMMA MoreEvents ==
  ASSUME NEW k, NEW r, NEW u, NEW v,
         u["publish"] \in Nat, u["promote"] \in Nat, u["tamper"] \in Nat,
         v["publish"] \in Nat, v["promote"] \in Nat, v["tamper"] \in Nat,
         u["publish"] <= v["publish"], u["promote"] <= v["promote"], u["tamper"] <= v["tamper"],
         k \in CommandType, sound(k, r, u)
  PROVE  sound(k, r, v)
  <1>1. k.basis \in Nat /\ (k.id \in Ids => k.id.op \in Nat)
    BY CommandFields, Numbers, IdFields
  <1> QED BY <1>1 DEF sound, known

LEMMA IdleSound ==
  ASSUME NEW k, NEW r, NEW s, NEW u, NEW v, k.step \in {"idle", "planned"}, sound(k, r, u),
         u["publish"] \in Nat, u["promote"] \in Nat, u["tamper"] \in Nat,
         v["publish"] \in Nat, v["promote"] \in Nat, v["tamper"] \in Nat,
         u["publish"] <= v["publish"], u["promote"] <= v["promote"], u["tamper"] <= v["tamper"],
         k \in CommandType
  PROVE  sound(k, s, v)
  <1>1. k.basis \in Nat
    BY CommandFields, Numbers
  <1> QED BY <1>1 DEF sound, known, shown, working

(* A step of c that leaves it with k and the root as r. *)
LEMMA Stepped ==
  ASSUME Inv, NEW c \in Commands, NEW k \in CommandType, root' \in Roots,
         cmd' = [cmd EXCEPT ![c] = k], lease' \in Commands \cup {NoCommand},
         used' \in [Events -> Nat], \A e \in Events : used[e] <= used'[e] /\ used'[e] <= Limit[e],
         numbered(root', used'["publish"]),
         used'["tamper"] = 0 => Classify(root') # "blocked",
         k.step \notin {"idle", "planned"} => lease' = c,
         sound(k, root', used'),
         \/ lease = c
         \/ root' = root /\ \A q \in Commands \ {c} : lease = q => lease' = q
  PROVE  Inv'
  <1>1. TypeOK' /\ NeverBlocked' /\ numbered(root, used["publish"])'
    BY InvTypes DEF TypeOK, NeverBlocked
  <1>2. ASSUME NEW q \in Commands  PROVE held(q)' /\ sound(cmd[q], root, used)'
    <2>1. CASE q = c
      <3>1. cmd'[q] = k
        BY <2>1, InvTypes
      <3> QED BY <2>1, <3>1 DEF held
    <2>2. CASE q # c
      <3>1. cmd'[q] = cmd[q] /\ cmd[q] \in CommandType /\ held(q) /\ sound(cmd[q], root, used)
        BY <2>2, InvTypes
      <3>2. /\ used["publish"] \in Nat /\ used["promote"] \in Nat /\ used["tamper"] \in Nat
            /\ used'["publish"] \in Nat /\ used'["promote"] \in Nat /\ used'["tamper"] \in Nat
            /\ used["publish"] <= used'["publish"] /\ used["promote"] <= used'["promote"]
            /\ used["tamper"] <= used'["tamper"]
        BY InvTypes DEF Events
      <3>3. CASE lease = c
        <4>1. cmd[q].step \in {"idle", "planned"}
          BY <2>2, <3>1, <3>3 DEF held
        <4>2. sound(cmd[q], root', used')
          BY <3>1, <3>2, <4>1, IdleSound
        <4> QED BY <3>1, <4>1, <4>2 DEF held
      <3>4. CASE root' = root /\ \A p \in Commands \ {c} : lease = p => lease' = p
        <4>1. sound(cmd[q], root, used')
          BY <3>1, <3>2, MoreEvents
        <4>2. held(q)'
          BY <2>2, <3>1, <3>4 DEF held
        <4> QED BY <3>1, <3>4, <4>1, <4>2
      <3> QED BY <3>3, <3>4
    <2> QED BY <2>1, <2>2
  <1> QED BY <1>1, <1>2 DEF Inv

(* A step that changes only what the command knows. *)
LEMMA Noted ==
  ASSUME Inv, NEW c \in Commands, NEW k \in CommandType, cmd' = [cmd EXCEPT ![c] = k],
         UNCHANGED <<root, used>>, lease' \in Commands \cup {NoCommand},
         k.step \notin {"idle", "planned"} => lease' = c,
         sound(k, root, used),
         \A q \in Commands \ {c} : lease = q => lease' = q
  PROVE  Inv'
  <1>1. \A e \in Events : used[e] <= used'[e] /\ used'[e] <= Limit[e]
    BY InvTypes, LimitAssumption DEF LimitAssumption
  <1> QED BY <1>1, InvTypes, Stepped

LEMMA NewSound ==
  ASSUME NEW t \in Reports, NEW r, NEW u, u["promote"] \in Nat
  PROVE  LET k == [NewCommand EXCEPT !.said = t]
         IN  k \in CommandType /\ k.step = "idle" /\ sound(k, r, u)
  <1> DEFINE k == [NewCommand EXCEPT !.said = t]
  <1>1. k \in CommandType
    BY NewCommandType, Notes, CommandFields
  <1>2. k.step = "idle" /\ k.kind = "recover" /\ k.touched = FALSE
    BY DEF NewCommand
  <1> QED BY <1>1, <1>2 DEF sound, known, shown, working

LEMMA EndStep ==
  ASSUME Inv, NEW c \in Commands, NEW t \in Reports, End(c, t), UNCHANGED <<root, used>>
  PROVE  Inv'
  <1> DEFINE k == [NewCommand EXCEPT !.said = t]
  <1>1. k \in CommandType /\ k.step = "idle" /\ sound(k, root, used)
    BY NewSound, InvTypes
  <1>2. cmd' = [cmd EXCEPT ![c] = k] /\ lease' \in Commands \cup {NoCommand}
        /\ \A q \in Commands \ {c} : lease = q => lease' = q
    BY InvTypes DEF End
  <1> QED BY <1>1, <1>2, Noted

(* A command at work that goes on, or on to its report. *)
LEMMA WentSound ==
  ASSUME NEW k \in CommandType, NEW s \in Steps, NEW r, NEW u, sound(k, r, u),
         k.step \notin {"idle", "planned", "replan", "publish", "report"},
         s \notin {"idle", "planned", "replan"},
         ~k.touched => informed([k EXCEPT !.step = s], r)
  PROVE  sound([k EXCEPT !.step = s], r, u)
  <1> DEFINE l == [k EXCEPT !.step = s]
  <1>1. /\ l.step = s /\ l.kind = k.kind /\ l.id = k.id /\ l.basis = k.basis /\ l.seen = k.seen
        /\ l.changed = k.changed /\ l.touched = k.touched
    BY DEF CommandType
  <1> HIDE DEF l
  <1>2. ~l.touched => informed(l, r)
    BY <1>1 DEF l
  <1>3. sound(l, r, u)
    BY <1>1, <1>2 DEF sound, known, shown, working
  <1> QED BY <1>3 DEF l

LEMMA RefuseStep ==
  ASSUME Inv, NEW c \in Commands, Refuse(c), UNCHANGED <<root, used>>,
         working(cmd[c])
  PROVE  Inv'
  <1>1. CASE cmd[c].kind = "apply"
    BY <1>1, EndStep DEF Refuse, Reports
  <1>2. CASE cmd[c].kind # "apply"
    <2> DEFINE k == [cmd[c] EXCEPT !.step = "report", !.outcome = "failed"]
    <2>1. cmd[c] \in CommandType /\ sound(cmd[c], root, used) /\ lease = c
      BY InvTypes DEF held, working
    <2>2. cmd' = [cmd EXCEPT ![c] = k] /\ lease' = lease
      BY <1>2 DEF Refuse
    <2>3. k \in CommandType
      BY <2>1, Notes DEF Steps, Reports
    <2>4. /\ k.step = "report" /\ k.outcome = "failed" /\ k.kind = cmd[c].kind /\ k.id = cmd[c].id
          /\ k.basis = cmd[c].basis /\ k.seen = cmd[c].seen
          /\ k.changed = cmd[c].changed /\ k.touched = cmd[c].touched
      BY <2>1 DEF CommandType
    <2> HIDE DEF k
    <2>5. sound(k, root, used)
      BY <2>1, <2>4 DEF sound, known, shown, working, informed
    <2> QED BY <2>1, <2>2, <2>3, <2>5, Noted
  <1> QED BY <1>1, <1>2

LEMMA WentStep ==
  ASSUME Inv, NEW c \in Commands, NEW s \in Steps, GoTo(c, s), UNCHANGED <<root, lease, used>>,
         cmd[c].step \notin {"idle", "planned", "replan", "publish", "report"},
         s \notin {"idle", "planned", "replan"},
         ~cmd[c].touched => informed([cmd[c] EXCEPT !.step = s], root)
  PROVE  Inv'
  <1>1. cmd[c] \in CommandType /\ sound(cmd[c], root, used) /\ lease = c
    BY InvTypes DEF held
  <1>2. cmd' = [cmd EXCEPT ![c] = [cmd[c] EXCEPT !.step = s]]
    BY DEF GoTo
  <1>3. [cmd[c] EXCEPT !.step = s] \in CommandType /\ sound([cmd[c] EXCEPT !.step = s], root, used)
    BY <1>1, Notes, WentSound, CommandFields
  <1> QED BY <1>1, <1>2, <1>3, Noted

-----------------------------------------------------------------------------
(* One step of a command at a time: the beginnings. *)

LEMMA BeginApplyStep ==
  ASSUME Inv, NEW c \in Commands, BeginApply(c)
  PROVE  Inv'
  <1> DEFINE k == [NewCommand EXCEPT !.step = "publish", !.kind = "apply", !.said = cmd[c].said]
  <1>1. /\ cmd' = [cmd EXCEPT ![c] = k] /\ lease' = c /\ lease = NoCommand /\ Clear(root)
        /\ UNCHANGED <<root, used>>
    BY DEF BeginApply
  <1>2. k \in CommandType
    BY InvTypes, CommandFields, NewCommandType, Notes DEF Steps
  <1>3. /\ k.step = "publish" /\ k.kind = "apply" /\ k.start = "active" /\ k.basis = 0
        /\ k.controlled = FALSE /\ k.touched = FALSE
    BY DEF NewCommand
  <1> HIDE DEF k
  <1>4. clearLayout(root)
    BY <1>1, InvTypes, ClearSeen
  <1>5. sound(k, root, used)
    BY <1>3, <1>4, InvTypes DEF sound, known, shown, informed
  <1>6. \A q \in Commands : lease # q
    BY <1>1, CommandAssumption DEF CommandAssumption
  <1> QED BY <1>1, <1>2, <1>5, <1>6, Noted

LEMMA PlanStep ==
  ASSUME Inv, NEW c \in Commands, Plan(c)
  PROVE  Inv'
  <1> DEFINE k == [NewCommand EXCEPT !.step = "planned", !.seen = root, !.said = cmd[c].said]
  <1>1. cmd' = [cmd EXCEPT ![c] = k] /\ UNCHANGED <<root, lease, used>>
    BY DEF Plan
  <1>2. k \in CommandType
    BY InvTypes, CommandFields, NewCommandType, Notes DEF Steps
  <1>3. k.step = "planned" /\ k.kind = "recover" /\ k.touched = FALSE
    BY DEF NewCommand
  <1> HIDE DEF k
  <1>4. sound(k, root, used)
    BY <1>3 DEF sound, known, shown, working
  <1> QED BY <1>1, <1>2, <1>3, <1>4, InvTypes, Noted

LEMMA ConfirmStep ==
  ASSUME Inv, NEW c \in Commands, Confirm(c)
  PROVE  Inv'
  <1> DEFINE k == [cmd[c] EXCEPT !.step = "replan"]
  <1>1. /\ cmd' = [cmd EXCEPT ![c] = k] /\ lease' = c /\ lease = NoCommand /\ UNCHANGED <<root, used>>
        /\ cmd[c].step = "planned"
    BY DEF Confirm, GoTo, At
  <1>2. cmd[c] \in CommandType /\ sound(cmd[c], root, used)
    BY InvTypes
  <1>3. k \in CommandType
    BY <1>2, CommandFields, Notes DEF Steps
  <1>4. k.step = "replan" /\ k.kind = cmd[c].kind /\ k.touched = cmd[c].touched
    BY <1>2 DEF CommandType
  <1> HIDE DEF k
  <1>5. sound(k, root, used)
    BY <1>1, <1>2, <1>4 DEF sound, known, shown, working
  <1>6. \A q \in Commands : lease # q
    BY <1>1, CommandAssumption DEF CommandAssumption
  <1> QED BY <1>1, <1>3, <1>5, <1>6, Noted

LEMMA StartNumbered ==
  ASSUME NEW r, NEW k, NEW n, started(k, r), numbered(r, n)
  PROVE  k.id.op <= n
  <1>1. CASE activeLayout(r, k.id)
    BY <1>1 DEF activeLayout, numbered, identity
  <1>2. CASE \E phase : r.controls = {control(k.id, phase)}
    <2>1. PICK phase : r.controls = {control(k.id, phase)}
      BY <1>2
    <2>2. control(k.id, phase).id = k.id
      BY DEF control
    <2> QED BY <2>1, <2>2 DEF numbered
  <1> QED BY <1>1, <1>2 DEF started, retainedLayout, finalLayout

LEMMA ReplanStep ==
  ASSUME Inv, NEW c \in Commands, Replan(c)
  PROVE  Inv'
  <1>0. cmd[c] \in CommandType /\ sound(cmd[c], root, used) /\ lease = c /\ cmd[c].step = "replan"
        /\ UNCHANGED <<root, used>>
    BY InvTypes DEF Replan, At, held
  <1>1. CASE ~(Recoverable(root) /\ view(root) = view(cmd[c].seen))
    <2>1. End(c, "stale")
      BY <1>1 DEF Replan
    <2> QED BY <1>0, <2>1, EndStep DEF Reports
  <1>2. CASE Recoverable(root) /\ view(root) = view(cmd[c].seen)
    <2> DEFINE k == [cmd[c] EXCEPT !.step = "prepare", !.start = startOf(root), !.id = subject(root),
                                   !.basis = subject(root).record]
    <2>1. cmd' = [cmd EXCEPT ![c] = k] /\ lease' = lease
      BY <1>2 DEF Replan, StartFrom
    <2>2. /\ k.step = "prepare" /\ k.start = startOf(root) /\ k.id = subject(root)
          /\ k.basis = subject(root).record /\ k.kind = cmd[c].kind /\ k.seen = cmd[c].seen
          /\ k.changed = cmd[c].changed /\ k.touched = cmd[c].touched
      BY <1>0 DEF CommandType
    <2>3. subject(root) \in Ids /\ startOf(root) \in Starts /\ started(k, root)
      BY <1>2, <2>2, InvTypes, StartSeen
    <2>4. k \in CommandType
      BY <1>0, <2>3, IdFields, NotesOfRetirement DEF Steps
    <2> HIDE DEF k
    <2>5. k.kind = "recover" /\ (cmd[c].touched => used["tamper"] > 0)
      BY <1>0, <2>2 DEF sound, known
    <2>6. k.id.op <= used["publish"]
      BY <2>3, StartNumbered, InvTypes
    <2>7. sound(k, root, used)
      BY <1>2, <2>2, <2>3, <2>5, <2>6 DEF sound, known, shown, working, informed
    <2> QED BY <1>0, <2>1, <2>4, <2>7, InvTypes, Noted
  <1> QED BY <1>1, <1>2

-----------------------------------------------------------------------------
(* The checks. *)

LEMMA CheckStep ==
  ASSUME Inv, NEW c \in Commands, NEW s, NEW next \in Steps, NEW P \in BOOLEAN,
         cmd[c].step = s, s \in {"layout", "identity", "control", "record", "retire", "phase", "final"},
         next \notin {"idle", "planned", "replan"},
         IF P THEN GoTo(c, next) /\ UNCHANGED lease ELSE Refuse(c),
         UNCHANGED <<root, used>>,
         P /\ ~cmd[c].touched => informed([cmd[c] EXCEPT !.step = next], root)
  PROVE  Inv'
  <1>1. CASE P
    BY <1>1, WentStep
  <1>2. CASE ~P
    BY <1>2, RefuseStep DEF working
  <1> QED BY <1>1, <1>2

LEMMA StepFields ==
  ASSUME NEW k \in CommandType, NEW s
  PROVE  LET l == [k EXCEPT !.step = s]
         IN  /\ l.step = s /\ l.kind = k.kind /\ l.start = k.start /\ l.id = k.id
             /\ l.basis = k.basis /\ l.controlled = k.controlled /\ l.outcome = k.outcome
             /\ \A r : started(l, r) = started(k, r) /\ vouched(l, r) = vouched(k, r)
  <1> DEFINE l == [k EXCEPT !.step = s]
  <1>1. /\ l.step = s /\ l.kind = k.kind /\ l.start = k.start /\ l.id = k.id
        /\ l.basis = k.basis /\ l.controlled = k.controlled /\ l.outcome = k.outcome
    BY DEF CommandType
  <1> HIDE DEF l
  <1>2. \A r : started(l, r) = started(k, r) /\ vouched(l, r) = vouched(k, r)
    BY <1>1 DEF started, vouched
  <1> QED BY <1>1, <1>2 DEF l

LEMMA ValidateLayoutStep ==
  ASSUME Inv, NEW c \in Commands, ValidateLayout(c)
  PROVE  Inv'
  <1> DEFINE next == CASE cmd[c].start = "active"   -> "identity"
                       [] cmd[c].start = "prepared" -> "phase"
                       [] OTHER                     -> "final"
             k == [cmd[c] EXCEPT !.step = next]
  <1>1. cmd[c] \in CommandType /\ sound(cmd[c], root, used) /\ cmd[c].step = "layout"
    BY InvTypes DEF ValidateLayout, Check, At
  <1>2. next \in {"identity", "phase", "final"}
    OBVIOUS
  <1>3. ASSUME ~cmd[c].touched  PROVE informed(k, root)
    <2>1. informed(cmd[c], root)
      BY <1>1, <1>3 DEF sound, working
    <2>2. /\ k.step = next /\ k.kind = cmd[c].kind /\ k.start = cmd[c].start /\ k.id = cmd[c].id
          /\ k.basis = cmd[c].basis /\ k.controlled = cmd[c].controlled
          /\ started(k, root) = started(cmd[c], root) /\ vouched(k, root) = vouched(cmd[c], root)
      BY <1>1, StepFields
    <2>3. started(k, root)
      BY <1>1, <2>1, <2>2 DEF informed
    <2>4. cmd[c].start \in Starts
      BY <1>1, CommandFields
    <2> HIDE DEF k
    <2>5. CASE cmd[c].start = "active"
      <3>1. next = "identity" /\ activeLayout(root, k.id)
        BY <2>2, <2>3, <2>5 DEF started
      <3> HIDE DEF next
      <3> QED BY <1>1, <2>1, <2>2, <2>5, <3>1 DEF informed
    <2>6. CASE cmd[c].start = "prepared"
      <3>1. next = "phase" /\ retainedLayout(root, k.id)
        BY <2>2, <2>3, <2>6 DEF started
      <3> HIDE DEF next
      <3> QED BY <2>2, <2>6, <3>1 DEF informed
    <2>7. CASE cmd[c].start \notin {"active", "prepared"}
      <3>1. next = "final" /\ finalLayout(root, k.id) /\ (k.start = "finalizing" <=> root.residues = {})
        BY <2>2, <2>3, <2>7 DEF started
      <3> HIDE DEF next
      <3> QED BY <2>2, <2>7, <3>1 DEF informed, vouched
    <2> QED BY <2>5, <2>6, <2>7
  <1> HIDE DEF k
  <1>4. next \in Steps /\ next \notin {"idle", "planned", "replan"}
    BY <1>2 DEF Steps
  <1>5. PICK P \in BOOLEAN : IF P THEN GoTo(c, next) /\ UNCHANGED lease ELSE Refuse(c)
    BY DEF ValidateLayout, Check
  <1>6. UNCHANGED <<root, used>>
    BY DEF ValidateLayout, Check
  <1> HIDE DEF next
  <1> QED BY <1>1, <1>3, <1>4, <1>5, <1>6, CheckStep DEF k

LEMMA ValidateActiveIdentityStep ==
  ASSUME Inv, NEW c \in Commands, ValidateActiveIdentity(c)
  PROVE  Inv'
  <1> DEFINE k == [cmd[c] EXCEPT !.step = "control"]
  <1>1. cmd[c] \in CommandType /\ sound(cmd[c], root, used) /\ cmd[c].step = "identity"
        /\ UNCHANGED <<root, used>>
    BY InvTypes DEF ValidateActiveIdentity, Check, At
  <1>2. ASSUME ~cmd[c].touched  PROVE informed(k, root)
    <2>1. informed(cmd[c], root)
      BY <1>1, <1>2 DEF sound, working
    <2>2. /\ k.step = "control" /\ k.kind = cmd[c].kind /\ k.start = cmd[c].start /\ k.id = cmd[c].id
          /\ k.controlled = cmd[c].controlled
      BY <1>1, StepFields
    <2> HIDE DEF k
    <2> QED BY <1>1, <2>1, <2>2 DEF informed
  <1>3. PICK P \in BOOLEAN : IF P THEN GoTo(c, "control") /\ UNCHANGED lease ELSE Refuse(c)
    BY DEF ValidateActiveIdentity, Check
  <1> QED BY <1>1, <1>2, <1>3, CheckStep DEF Steps

LEMMA ValidateActiveRecordStep ==
  ASSUME Inv, NEW c \in Commands, ValidateActiveRecord(c)
  PROVE  Inv'
  <1> DEFINE k == [cmd[c] EXCEPT !.step = "retire"]
  <1>1. cmd[c] \in CommandType /\ sound(cmd[c], root, used) /\ cmd[c].step = "record"
        /\ UNCHANGED <<root, used>>
    BY InvTypes DEF ValidateActiveRecord, Check, At
  <1>2. ASSUME ~cmd[c].touched  PROVE informed(k, root)
    <2>1. informed(cmd[c], root)
      BY <1>1, <1>2 DEF sound, working
    <2>2. k.step = "retire" /\ k.start = cmd[c].start /\ k.id = cmd[c].id
      BY <1>1, StepFields
    <2> HIDE DEF k
    <2> QED BY <1>1, <2>1, <2>2 DEF informed
  <1>3. PICK P \in BOOLEAN : IF P THEN GoTo(c, "retire") /\ UNCHANGED lease ELSE Refuse(c)
    BY DEF ValidateActiveRecord, Check
  <1> QED BY <1>1, <1>2, <1>3, CheckStep DEF Steps

LEMMA ValidatePhaseLayoutStep ==
  ASSUME Inv, NEW c \in Commands, ValidatePhaseLayout(c)
  PROVE  Inv'
  <1> DEFINE k == [cmd[c] EXCEPT !.step = "advance"]
  <1>1. cmd[c] \in CommandType /\ sound(cmd[c], root, used) /\ cmd[c].step = "phase"
        /\ UNCHANGED <<root, used>>
    BY InvTypes DEF ValidatePhaseLayout, Check, At
  <1>2. ASSUME ~cmd[c].touched  PROVE informed(k, root)
    <2>1. informed(cmd[c], root)
      BY <1>1, <1>2 DEF sound, working
    <2>2. k.step = "advance" /\ k.start = cmd[c].start /\ k.id = cmd[c].id
      BY <1>1, StepFields
    <2> HIDE DEF k
    <2> QED BY <1>1, <2>1, <2>2 DEF informed
  <1>3. PICK P \in BOOLEAN : IF P THEN GoTo(c, "advance") /\ UNCHANGED lease ELSE Refuse(c)
    BY DEF ValidatePhaseLayout, Check
  <1> QED BY <1>1, <1>2, <1>3, CheckStep DEF Steps

LEMMA ValidateFinalLayoutStep ==
  ASSUME Inv, NEW c \in Commands, ValidateFinalLayout(c)
  PROVE  Inv'
  <1> DEFINE next == IF holdsResidue(c) THEN "residue" ELSE "gc"
             k == [cmd[c] EXCEPT !.step = next]
  <1>1. cmd[c] \in CommandType /\ sound(cmd[c], root, used) /\ cmd[c].step = "final"
        /\ UNCHANGED <<root, used>>
    BY InvTypes DEF ValidateFinalLayout, Check, At
  <1>2. ASSUME ~cmd[c].touched  PROVE informed(k, root)
    <2>1. informed(cmd[c], root)
      BY <1>1, <1>2 DEF sound, working
    <2>2. /\ k.step = next /\ k.kind = cmd[c].kind /\ k.start = cmd[c].start /\ k.id = cmd[c].id
          /\ vouched(k, root) = vouched(cmd[c], root)
      BY <1>1, StepFields
    <2> HIDE DEF k
    <2> QED BY <1>1, <2>1, <2>2 DEF informed, holdsResidue
  <1>3. PICK P \in BOOLEAN : IF P THEN GoTo(c, next) /\ UNCHANGED lease ELSE Refuse(c)
    BY DEF ValidateFinalLayout, Check
  <1> QED BY <1>1, <1>2, <1>3, CheckStep DEF Steps

-----------------------------------------------------------------------------
(* The steps of an apply's journal. *)

LEMMA Layouts ==
  ASSUME NEW r \in Roots, NEW id, activeLayout(r, id)
  PROVE  \E j \in Journals : r.active = {j} /\ j \in r.active /\ readable(j) /\ identity(j) = id
  BY RootFields DEF activeLayout

LEMMA PublishStep ==
  ASSUME Inv, NEW c \in Commands, Publish(c)
  PROVE  Inv'
  <1> DEFINE n == used["publish"] + 1
             j == [op |-> n, record |-> 0, tree |-> "whole", object |-> "own"]
             k == [cmd[c] EXCEPT !.step = "prepare", !.id = identity(j), !.changed = TRUE]
             r == [root EXCEPT !.active = root.active \cup {j}]
  <1>1. /\ cmd[c] \in CommandType /\ sound(cmd[c], root, used) /\ cmd[c].step = "publish"
        /\ lease = c /\ lease' = lease
    BY InvTypes DEF Publish, At, held
  <1>2. cmd' = [cmd EXCEPT ![c] = k] /\ root' = r /\ Spend("publish")
    BY DEF Publish
  <1>3. /\ used' \in [Events -> Nat] /\ \A e \in Events : used[e] <= used'[e] /\ used'[e] <= Limit[e]
        /\ used'["publish"] = n /\ used'["promote"] = used["promote"] /\ used'["tamper"] = used["tamper"]
        /\ n \in Ops
    <2>1. "publish" \in Events /\ "promote" \in Events /\ "tamper" \in Events
      BY DEF Events
    <2>2. /\ used' \in [Events -> Nat] /\ \A e \in Events : used'[e] <= Limit[e]
          /\ used'["publish"] = used["publish"] + 1
          /\ \A e \in Events \ {"publish"} : used'[e] = used[e]
      BY <1>2, <2>1, InvTypes, SpendType
    <2>3. used'["publish"] <= Limit["publish"]
      BY <2>1, <2>2
    <2> QED BY <2>1, <2>2, <2>3, InvTypes, Numbers
  <1>4. j \in Journals /\ identity(j) = [op |-> n, record |-> 0] /\ identity(j) \in Ids /\ readable(j)
    BY <1>3, Numbers DEF Journals, identity, Ids, readable
  <1>5. j.op = n /\ identity(j).op = n /\ identity(j).record = 0
    BY <1>4
  <1>6. k \in CommandType
    BY <1>1, <1>4, CommandFields, Notes DEF Steps
  <1>7. /\ k.step = "prepare" /\ k.id = identity(j) /\ k.changed = TRUE /\ k.start = cmd[c].start
        /\ k.kind = cmd[c].kind /\ k.basis = cmd[c].basis /\ k.controlled = cmd[c].controlled
        /\ k.touched = cmd[c].touched
    BY <1>1 DEF CommandType
  <1>8. /\ r.active = root.active \cup {j} /\ r.controls = root.controls
        /\ r.residues = root.residues /\ r.garbage = root.garbage
    BY InvTypes DEF Roots
  <1>9. r \in Roots
    BY <1>4, InvTypes, RootFields, RootParts
  <1> HIDE DEF k, r, j
  <1>10. \A g \in root.garbage : g.op \in Nat /\ g.op <= used["publish"]
    BY InvTypes, RootFields, IdFields, Numbers DEF numbered
  <1>11. numbered(r, n)
    <2>1. /\ \A x \in root.active : x.op \in Nat
          /\ \A x \in root.controls : x.id.op \in Nat
          /\ \A x \in root.residues : x.name.op \in Nat
      BY InvTypes, RootFields, IdsOfJournals, ControlFields, ResidueFields, IdFields, Numbers
    <2> QED BY <1>5, <1>8, <1>10, <2>1, InvTypes DEF numbered
  <1>12. ASSUME ~cmd[c].touched
         PROVE  activeLayout(r, k.id) /\ informed(k, r)
    <2>1. clearLayout(root) /\ cmd[c].start = "active" /\ cmd[c].basis = 0 /\ ~cmd[c].controlled
      BY <1>1, <1>12 DEF sound, working, informed
    <2>2. r.active = {j} /\ r.controls = {} /\ r.residues = {}
      BY <1>8, <2>1 DEF clearLayout
    <2>3. \A g \in r.garbage : g.op # k.id.op
      BY <1>5, <1>7, <1>8, <1>10, InvTypes
    <2>4. activeLayout(r, k.id)
      BY <1>4, <1>7, <2>2, <2>3 DEF activeLayout
    <2>5. [k.id EXCEPT !.record = k.basis] = k.id
      BY <1>4, <1>5, <1>7, <2>1, IdFields
    <2>6. started(k, r) /\ promoted(k, r)
      BY <1>7, <2>1, <2>2, <2>3, <2>4, <2>5 DEF started, promoted
    <2> QED BY <1>5, <1>7, <2>1, <2>4, <2>6 DEF informed
  <1>13. sound(k, r, used')
    <2>1. n \in Nat
      BY InvTypes
    <2>2. known(k, used')
      <3> HIDE DEF n
      <3> QED BY <1>1, <1>3, <1>4, <1>5, <1>7, <2>1 DEF sound, known
    <2>3. shown(k, r) /\ (k.touched => used'["tamper"] > 0)
      BY <1>1, <1>3, <1>7 DEF sound, shown
    <2> QED BY <1>7, <1>12, <2>2, <2>3 DEF sound
  <1>14. used'["tamper"] = 0 => Classify(r) # "blocked"
    <2>1. used'["tamper"] = 0 => ~cmd[c].touched
      BY <1>1, <1>3 DEF sound
    <2> QED BY <1>4, <1>7, <1>9, <1>12, <2>1, Unblocked
  <1> QED BY <1>1, <1>2, <1>3, <1>6, <1>9, <1>11, <1>13, <1>14, InvTypes, Stepped

LEMMA PrepareStep ==
  ASSUME Inv, NEW c \in Commands, Prepare(c)
  PROVE  Inv'
  <1>1. /\ cmd[c] \in CommandType /\ sound(cmd[c], root, used) /\ cmd[c].step = "prepare"
        /\ lease = c /\ UNCHANGED <<root, used>>
    BY InvTypes DEF Prepare, At, held
  <1>2. CASE ~preparable(c)
    <2>1. Refuse(c)
      BY <1>2 DEF Prepare
    <2> QED BY <1>1, <2>1, RefuseStep DEF working
  <1>3. CASE preparable(c)
    <2> DEFINE id == cmd[c].id
               s == IF cmd[c].start = "active" THEN "effects" ELSE "layout"
               d == controlsOf(id) # {}
               x == IF cmd[c].start = "active" THEN only(journalsOf(id.op))
                    ELSE IF residuesOf(id) # {} THEN only(residuesOf(id)).journal ELSE NoJournal
               k == [cmd[c] EXCEPT !.step = s, !.controlled = d, !.expected = x]
    <2>1. cmd' = [cmd EXCEPT ![c] = k] /\ lease' = lease
      BY <1>3 DEF Prepare
    <2>2. s \in {"effects", "layout"} /\ d \in BOOLEAN
      OBVIOUS
    <2>3. x \in Journals \cup {NoJournal}
      <3>1. CASE cmd[c].start = "active"
        <4>1. journalsOf(id.op) # {}
          BY <1>3, <3>1 DEF preparable
        <4>2. only(journalsOf(id.op)) \in Journals
          BY <4>1, Only, OfName, RootFields, InvTypes DEF journalsOf
        <4> QED BY <3>1, <4>2
      <3>2. CASE cmd[c].start # "active"
        <4>1. CASE residuesOf(id) # {}
          <5>1. only(residuesOf(id)) \in Residues
            BY <4>1, Only, RootFields, InvTypes DEF residuesOf
          <5> QED BY <3>2, <4>1, <5>1, ResidueFields
        <4> QED BY <3>2, <4>1
      <3> QED BY <3>1, <3>2
    <2>4. k \in CommandType
      <3> HIDE DEF s, d, x
      <3> QED BY <1>1, <2>2, <2>3, NotesOfRetirement DEF Steps
    <2>5. /\ k.step = s /\ k.controlled = d /\ k.kind = cmd[c].kind /\ k.start = cmd[c].start
          /\ k.id = id /\ k.basis = cmd[c].basis /\ k.seen = cmd[c].seen
          /\ k.changed = cmd[c].changed /\ k.touched = cmd[c].touched
      <3> HIDE DEF s, d, x
      <3> QED BY <1>1 DEF CommandType
    <2> HIDE DEF k, x
    <2>6. ASSUME ~cmd[c].touched  PROVE informed(k, root)
      <3>1. informed(cmd[c], root)
        BY <1>1, <2>6 DEF sound, working
      <3>2. started(cmd[c], root) /\ cmd[c].basis = id.record
            /\ (cmd[c].kind = "apply" => promoted(cmd[c], root))
        BY <1>1, <3>1 DEF informed
      <3>3. started(k, root)
        BY <2>5, <3>2 DEF started
      <3>4. CASE cmd[c].start = "active"
        <4>1. activeLayout(root, id) /\ s = "effects"
          BY <3>2, <3>4 DEF started
        <4>2. d => root.controls = {control(id, "prepared")}
          BY <4>1 DEF activeLayout, controlsOf
        <4>3. k.kind = "apply" => promoted(k, root)
          <5>1. k.kind = "apply" => root.controls = {}
            BY <2>5, <3>2 DEF promoted
          <5>2. k.kind = "apply" => ~d
            BY <5>1 DEF controlsOf
          <5> QED BY <2>5, <3>2, <5>2 DEF promoted
        <4> HIDE DEF s, d
        <4> QED BY <2>5, <3>2, <3>4, <4>1, <4>2, <4>3 DEF informed
      <3>5. CASE cmd[c].start # "active"
        <4>1. s = "layout"
          BY <3>5
        <4> HIDE DEF s, d
        <4> QED BY <2>5, <3>3, <3>5, <4>1 DEF informed
      <3> QED BY <3>4, <3>5
    <2>7. sound(k, root, used)
      <3> HIDE DEF s, d
      <3> QED BY <1>1, <2>2, <2>5, <2>6 DEF sound, known, shown, working
    <2>8. \A q \in Commands \ {c} : lease = q => lease' = q
      BY <2>1
    <2> QED BY <1>1, <2>1, <2>4, <2>7, <2>8, InvTypes, Noted
  <1> QED BY <1>2, <1>3

LEMMA AdvanceBasisStep ==
  ASSUME Inv, NEW c \in Commands, AdvanceBasis(c)
  PROVE  Inv'
  <1>1. /\ cmd[c] \in CommandType /\ sound(cmd[c], root, used) /\ cmd[c].step = "effects"
        /\ lease = c /\ UNCHANGED <<root, used>>
    BY InvTypes DEF AdvanceBasis, At, held
  <1> DEFINE id == cmd[c].id
             new == [id EXCEPT !.record = cmd[c].basis]
             current == {j \in journalsOf(id.op) :
                            /\ j.record = cmd[c].basis /\ j.object = "own"
                            /\ j.tree = cmd[c].expected.tree}
             x == only(current)
             k == [cmd[c] EXCEPT !.step = "layout", !.id = new, !.expected = x]
  <1>2. \/ Refuse(c)
        \/ cmd' = [cmd EXCEPT ![c] = k] /\ lease' = lease /\ current # {}
    BY DEF AdvanceBasis
  <1>3. CASE Refuse(c)
    BY <1>1, <1>3, RefuseStep DEF working
  <1>4. CASE cmd' = [cmd EXCEPT ![c] = k] /\ lease' = lease /\ current # {}
    <2>1. id \in Ids /\ id.op <= used["publish"] /\ cmd[c].basis \in Records
      BY <1>1, CommandFields DEF sound, known
    <2>2. new \in Ids /\ new.op = id.op
      BY <2>1, IdFields DEF Ids
    <2>3. x \in Journals
      BY <1>4, Only, RootFields, InvTypes DEF journalsOf
    <2>4. k \in CommandType
      <3> HIDE DEF x, new
      <3> QED BY <1>1, <2>2, <2>3, NotesOfRetirement DEF Steps
    <2>5. /\ k.step = "layout" /\ k.id = new /\ k.kind = cmd[c].kind /\ k.start = cmd[c].start
          /\ k.controlled = cmd[c].controlled /\ k.basis = cmd[c].basis /\ k.seen = cmd[c].seen
          /\ k.changed = cmd[c].changed /\ k.touched = cmd[c].touched
      <3> HIDE DEF x, new
      <3> QED BY <1>1 DEF CommandType
    <2> HIDE DEF k, x
    <2>6. ASSUME ~cmd[c].touched  PROVE informed(k, root)
      <3>1. informed(cmd[c], root)
        BY <1>1, <2>6 DEF sound, working
      <3>2. k.start = "active" /\ k.kind \in {"apply", "recover"}
        BY <1>1, <2>5, <3>1, CommandFields DEF informed
      <3>3. CASE k.kind = "apply"
        <4>1. promoted(cmd[c], root)
          BY <1>1, <2>5, <3>1, <3>3 DEF informed
        <4>2. activeLayout(root, new) /\ ~k.controlled
          BY <2>5, <4>1 DEF promoted
        <4> HIDE DEF new
        <4> QED BY <2>5, <3>2, <4>2 DEF informed, started
      <3>4. CASE k.kind = "recover"
        <4>1. activeLayout(root, id) /\ cmd[c].basis = id.record
          BY <1>1, <2>5, <3>1, <3>4 DEF informed
        <4>2. new = id
          BY <2>1, <4>1, IdFields
        <4> HIDE DEF new
        <4> QED BY <1>1, <2>5, <3>1, <3>2, <4>1, <4>2 DEF informed, started
      <3> QED BY <3>2, <3>3, <3>4
    <2>7. sound(k, root, used)
      <3> HIDE DEF new
      <3> QED BY <1>1, <2>1, <2>2, <2>5, <2>6 DEF sound, known, shown, working
    <2>8. \A q \in Commands \ {c} : lease = q => lease' = q
      BY <1>4
    <2> QED BY <1>1, <1>4, <2>4, <2>7, <2>8, InvTypes, Noted
  <1> QED BY <1>2, <1>3, <1>4

LEMMA PromoteStep ==
  ASSUME Inv, NEW c \in Commands, Promote(c)
  PROVE  Inv'
  <1>1. /\ cmd[c] \in CommandType /\ sound(cmd[c], root, used) /\ cmd[c].step = "effects"
        /\ cmd[c].kind = "apply" /\ lease = c /\ lease' = lease
    BY InvTypes DEF Promote, At, held
  <1> DEFINE id == cmd[c].id
             n == cmd[c].basis + 1
             k == [cmd[c] EXCEPT !.basis = n]
  <1>2. PICK j \in journalsOf(id.op) :
           /\ j.record = cmd[c].basis
           /\ root' = [root EXCEPT !.active = (@ \ {j}) \cup {[j EXCEPT !.record = @ + 1]}]
    BY DEF Promote
  <1> DEFINE h == [j EXCEPT !.record = n]
             r == [root EXCEPT !.active = (root.active \ {j}) \cup {h}]
  <1>3. j \in root.active /\ j.op = id.op /\ j \in Journals
    BY InvTypes, RootFields DEF journalsOf
  <1>4. root' = r /\ cmd' = [cmd EXCEPT ![c] = k]
    BY <1>2, <1>3 DEF Promote, Journals
  <1>5. /\ used' \in [Events -> Nat] /\ \A e \in Events : used[e] <= used'[e] /\ used'[e] <= Limit[e]
        /\ used'["promote"] = used["promote"] + 1 /\ used'["publish"] = used["publish"]
        /\ used'["tamper"] = used["tamper"]
    <2>1. "publish" \in Events /\ "promote" \in Events /\ "tamper" \in Events
      BY DEF Events
    <2>2. /\ used' \in [Events -> Nat] /\ \A e \in Events : used'[e] <= Limit[e]
          /\ used'["promote"] = used["promote"] + 1
          /\ \A e \in Events \ {"promote"} : used'[e] = used[e]
      BY <2>1, InvTypes, SpendType DEF Promote
    <2> QED BY <2>1, <2>2, InvTypes
  <1>6. cmd[c].basis \in Nat /\ cmd[c].basis <= used["promote"] /\ n \in Records
        /\ id \in Ids /\ id.op <= used["publish"]
    <2>1. "promote" \in Events
      BY DEF Events
    <2>2. cmd[c].basis \in Nat /\ cmd[c].basis <= used["promote"] /\ id \in Ids /\ id.op <= used["publish"]
      BY <1>1, CommandFields, Numbers DEF sound, known
    <2> QED BY <1>5, <2>1, <2>2, InvTypes, Numbers
  <1> HIDE DEF n
  <1>7. h \in Journals /\ h.op = id.op /\ h.record = n /\ (readable(j) => readable(h))
    BY <1>3, <1>6 DEF Journals, readable
  <1>8. /\ r.active = (root.active \ {j}) \cup {h} /\ r.controls = root.controls
        /\ r.residues = root.residues /\ r.garbage = root.garbage
    BY InvTypes DEF Roots
  <1> HIDE DEF h
  <1>9. r \in Roots
    BY <1>7, InvTypes, RootFields, RootParts
  <1>10. k \in CommandType
    BY <1>1, <1>6, NotesOfRetirement DEF Steps
  <1>11. /\ k.step = "effects" /\ k.basis = n /\ k.kind = "apply" /\ k.start = cmd[c].start
         /\ k.id = id /\ k.controlled = cmd[c].controlled /\ k.touched = cmd[c].touched
    BY <1>1 DEF CommandType
  <1> HIDE DEF k, r
  <1>12. numbered(r, used'["publish"])
    BY <1>5, <1>6, <1>7, <1>8, InvTypes DEF numbered
  <1> DEFINE new == [id EXCEPT !.record = n]
  <1>13. new \in Ids /\ new.op = id.op
    BY <1>6, IdFields DEF Ids
  <1>14. ASSUME ~cmd[c].touched
         PROVE  activeLayout(r, new) /\ informed(k, r)
    <2>1. promoted(cmd[c], root)
      BY <1>1, <1>14 DEF sound, working, informed
    <2>2. PICK x \in root.active : root.active = {x} /\ readable(x)
      BY <2>1 DEF promoted, activeLayout
    <2>3. r.active = {h} /\ readable(h)
      BY <1>3, <1>7, <1>8, <2>2
    <2>4. identity(h) = new
      BY <1>6, <1>7, <1>13, IdFields DEF identity, Ids
    <2>5. r.controls = {} /\ r.residues = {} /\ \A g \in r.garbage : g.op # id.op
      BY <1>8, <2>1 DEF promoted, activeLayout
    <2>6. activeLayout(r, new)
      BY <1>13, <2>3, <2>4, <2>5 DEF activeLayout
    <2>7. promoted(k, r)
      BY <1>11, <2>1, <2>5, <2>6 DEF promoted
    <2> QED BY <1>11, <2>1, <2>6, <2>7 DEF informed, promoted
  <1>15. sound(k, r, used')
    <2>1. n <= used'["promote"] /\ used["promote"] \in Nat
      BY <1>5, <1>6, InvTypes DEF n
    <2> QED BY <1>1, <1>5, <1>6, <1>11, <1>14, <2>1 DEF sound, known, shown, working
  <1>16. used'["tamper"] = 0 => Classify(r) # "blocked"
    <2>1. used'["tamper"] = 0 => ~cmd[c].touched
      BY <1>1, <1>5 DEF sound
    <2> QED BY <1>9, <1>13, <1>14, <2>1, Unblocked
  <1> QED BY <1>1, <1>4, <1>5, <1>9, <1>10, <1>12, <1>15, <1>16, InvTypes, Stepped

-----------------------------------------------------------------------------
(* The steps that write, whether they succeed or not, and the ends. *)

LEMMA Writer ==
  ASSUME Inv, NEW c \in Commands, Writing(c)
  PROVE  /\ cmd[c] \in CommandType /\ sound(cmd[c], root, used) /\ lease = c /\ working(cmd[c])
         /\ cmd[c].id \in Ids /\ cmd[c].id.op <= used["publish"]
         /\ ~cmd[c].touched => informed(cmd[c], root)
         /\ used["tamper"] = 0 => ~cmd[c].touched
         /\ written(c) \in Roots /\ numbered(written(c), used["publish"])
         /\ PartResidue(c) \in Roots /\ numbered(PartResidue(c), used["publish"])
  <1>1. /\ cmd[c] \in CommandType /\ sound(cmd[c], root, used) /\ lease = c /\ working(cmd[c])
        /\ cmd[c].id \in Ids /\ cmd[c].id.op <= used["publish"]
    BY InvTypes DEF Writing, working, held, sound, known
  <1>2. (~cmd[c].touched => informed(cmd[c], root)) /\ (used["tamper"] = 0 => ~cmd[c].touched)
    BY <1>1, InvTypes DEF sound
  <1> QED BY <1>1, <1>2, InvTypes, WrittenType, PartType

(* What the root is like after a write. *)
LEMMA Outcome ==
  ASSUME Inv, NEW c \in Commands, Writing(c), ready(c), ~cmd[c].touched
  PROVE  LET id == cmd[c].id
         IN  /\ At(c, "control") => /\ activeLayout(written(c), id)
                                    /\ written(c).controls = {control(id, "prepared")}
             /\ At(c, "retire")  => retainedLayout(written(c), id)
             /\ At(c, "advance") => /\ finalLayout(written(c), id) /\ written(c).residues # {}
                                    /\ \A s \in written(c).residues : identity(s.journal) = id
             /\ At(c, "residue") => /\ finalLayout(written(c), id) /\ written(c).residues = {}
                                    /\ finalLayout(PartResidue(c), id)
             /\ At(c, "gc") \/ At(c, "garbage") => clearLayout(written(c))
             /\ Classify(written(c)) # "blocked"
             /\ At(c, "residue") => Classify(PartResidue(c)) # "blocked"
  <1>1. /\ cmd[c] \in CommandType /\ cmd[c].id \in Ids /\ root \in Roots /\ informed(cmd[c], root)
        /\ written(c) \in Roots /\ PartResidue(c) \in Roots
    BY Writer, InvTypes
  <1>2. At(c, "control") => /\ activeLayout(written(c), cmd[c].id)
                            /\ written(c).controls = {control(cmd[c].id, "prepared")}
    BY <1>1, ControlWritten
  <1>3. At(c, "retire") => retainedLayout(written(c), cmd[c].id)
    BY <1>1, RetireWritten
  <1>4. At(c, "advance") => /\ finalLayout(written(c), cmd[c].id) /\ written(c).residues # {}
                            /\ \A s \in written(c).residues : identity(s.journal) = cmd[c].id
    BY <1>1, AdvanceWritten
  <1>5. At(c, "residue") => /\ finalLayout(written(c), cmd[c].id) /\ written(c).residues = {}
                            /\ finalLayout(PartResidue(c), cmd[c].id)
    BY <1>1, ResidueWritten
  <1>6. At(c, "gc") \/ At(c, "garbage") => clearLayout(written(c))
    BY <1>1, GarbageWritten
  <1>7. \/ At(c, "control") \/ At(c, "retire") \/ At(c, "advance") \/ At(c, "residue")
        \/ At(c, "gc") \/ At(c, "garbage")
    BY DEF Writing, At
  <1>8. Classify(written(c)) # "blocked"
    BY <1>1, <1>2, <1>3, <1>4, <1>5, <1>6, <1>7, Unblocked
  <1>9. At(c, "residue") => Classify(PartResidue(c)) # "blocked"
    BY <1>1, <1>5, Unblocked
  <1> QED BY <1>2, <1>3, <1>4, <1>5, <1>6, <1>8, <1>9

LEMMA WriteStep ==
  ASSUME Inv, NEW c \in Commands, Write(c)
  PROVE  Inv'
  <1>1. Writing(c) /\ used' = used
    BY DEF Write
  <1>2. CASE ~ready(c)
    <2>1. Refuse(c) /\ root' = root
      BY <1>2 DEF Write
    <2> QED BY <1>1, <2>1, Writer, RefuseStep
  <1>3. CASE ready(c)
    <2> DEFINE s == nextStep(c)
               t == IF At(c, "garbage") THEN "retired" ELSE cmd[c].outcome
               k == [cmd[c] EXCEPT !.step = s, !.changed = TRUE, !.outcome = t]
               r == written(c)
    <2>1. cmd' = [cmd EXCEPT ![c] = k] /\ lease' = lease /\ root' = r
      BY <1>3 DEF Write
    <2>2. /\ cmd[c] \in CommandType /\ sound(cmd[c], root, used) /\ lease = c
          /\ cmd[c].id \in Ids /\ cmd[c].id.op <= used["publish"] /\ r \in Roots
          /\ numbered(r, used["publish"]) /\ (used["tamper"] = 0 => ~cmd[c].touched)
      BY <1>1, Writer
    <2>3. s \in Steps \ {"idle", "planned", "replan", "publish"} /\ t \in Reports
      BY <1>1, <2>2, NextStep, CommandFields DEF Reports
    <2>4. k \in CommandType
      <3> HIDE DEF s, t
      <3> QED BY <2>2, <2>3, Notes
    <2>5. /\ k.step = s /\ k.changed = TRUE /\ k.outcome = t /\ k.kind = cmd[c].kind
          /\ k.start = cmd[c].start /\ k.id = cmd[c].id /\ k.basis = cmd[c].basis
          /\ k.controlled = cmd[c].controlled /\ k.touched = cmd[c].touched
      <3> HIDE DEF s, t
      <3> QED BY <2>2 DEF CommandType
    <2> HIDE DEF k, r
    <2>6. ASSUME ~cmd[c].touched  PROVE informed(k, r)
      <3> DEFINE id == cmd[c].id
      <3>1. informed(cmd[c], root)
        BY <1>1, <2>6, Writer
      <3>2. CASE At(c, "control")
        <4>1. s = "record" /\ activeLayout(r, id) /\ r.controls = {control(id, "prepared")}
              /\ cmd[c].start = "active"
          BY <1>1, <1>3, <2>6, <3>1, <3>2, NextStep, Outcome DEF r, informed, At
        <4> HIDE DEF s, t
        <4> QED BY <2>5, <4>1 DEF informed
      <3>3. CASE At(c, "retire")
        <4>1. s = "phase" /\ retainedLayout(r, id) /\ cmd[c].start = "active"
          BY <1>1, <1>3, <2>6, <3>1, <3>3, NextStep, Outcome DEF r, informed, At
        <4> HIDE DEF s, t
        <4> QED BY <2>5, <4>1 DEF informed
      <3>4. CASE At(c, "advance")
        <4>1. /\ s = "final" /\ finalLayout(r, id) /\ r.residues # {}
              /\ \A x \in r.residues : identity(x.journal) = id
              /\ cmd[c].start \in {"active", "prepared"}
          BY <1>1, <1>3, <2>6, <3>1, <3>4, NextStep, Outcome DEF r, informed, At
        <4> HIDE DEF s, t
        <4> QED BY <2>5, <4>1 DEF informed, vouched
      <3>5. CASE At(c, "residue")
        <4>1. s = "gc" /\ finalLayout(r, id) /\ r.residues = {}
          BY <1>1, <1>3, <2>6, <3>5, NextStep, Outcome DEF r
        <4> HIDE DEF s, t
        <4> QED BY <2>5, <4>1 DEF informed
      <3>6. CASE At(c, "gc")
        <4>1. s = "garbage" /\ clearLayout(r)
          BY <1>1, <1>3, <2>6, <3>6, NextStep, Outcome DEF r
        <4> HIDE DEF s, t
        <4> QED BY <2>5, <4>1 DEF informed
      <3>7. CASE At(c, "garbage")
        <4>1. s = "report" /\ clearLayout(r) /\ t = "retired"
          BY <1>1, <1>3, <2>6, <3>7, NextStep, Outcome DEF r
        <4> HIDE DEF s, t
        <4> QED BY <2>5, <4>1 DEF informed
      <3> QED BY <1>1, <3>2, <3>3, <3>4, <3>5, <3>6, <3>7 DEF Writing, At
    <2>7. sound(k, r, used)
      <3> HIDE DEF s, t
      <3> QED BY <2>2, <2>3, <2>5, <2>6 DEF sound, known, shown, working
    <2>8. used["tamper"] = 0 => Classify(r) # "blocked"
      BY <1>1, <1>3, <2>2, Outcome DEF r
    <2>9. \A e \in Events : used[e] <= used'[e] /\ used'[e] <= Limit[e]
      BY <1>1, InvTypes, LimitAssumption DEF LimitAssumption
    <2> QED BY <1>1, <2>1, <2>2, <2>4, <2>7, <2>8, <2>9, InvTypes, Stepped
  <1> QED BY <1>2, <1>3

LEMMA SpendAny ==
  ASSUME Inv, NEW e \in {"crash", "fault", "tamper"}, Spend(e)
  PROVE  /\ used' \in [Events -> Nat] /\ \A f \in Events : used[f] <= used'[f] /\ used'[f] <= Limit[f]
         /\ used'["publish"] = used["publish"] /\ used'["promote"] = used["promote"]
         /\ used'["tamper"] \in Nat /\ used["tamper"] <= used'["tamper"]
         /\ e = "tamper" => used'["tamper"] > 0
         /\ e # "tamper" => used'["tamper"] = used["tamper"]
  <1>1. e \in Events /\ "publish" \in Events /\ "promote" \in Events /\ "tamper" \in Events
    BY DEF Events
  <1>2. /\ used' \in [Events -> Nat] /\ \A f \in Events : used'[f] <= Limit[f]
        /\ used'[e] = used[e] + 1 /\ \A f \in Events \ {e} : used'[f] = used[f]
    BY <1>1, InvTypes, SpendType
  <1> QED BY <1>1, <1>2, InvTypes

LEMMA FailStep ==
  ASSUME Inv, NEW c \in Commands, Fail(c)
  PROVE  Inv'
  <1>1. Writing(c) /\ ready(c) /\ lease' = lease /\ Spend("fault")
    BY DEF Fail
  <1>2. PICK r \in {root, written(c)} \cup (IF At(c, "residue") THEN {PartResidue(c)} ELSE {}) :
           \E t \in lateFailure(c, r) :
              /\ root' = r
              /\ cmd' = [cmd EXCEPT ![c].step = "report", ![c].outcome = t, ![c].changed = TRUE]
    BY DEF Fail
  <1>3. PICK t \in lateFailure(c, r) :
           /\ root' = r
           /\ cmd' = [cmd EXCEPT ![c].step = "report", ![c].outcome = t, ![c].changed = TRUE]
    BY <1>2
  <1> DEFINE k == [cmd[c] EXCEPT !.step = "report", !.outcome = t, !.changed = TRUE]
  <1>4. cmd' = [cmd EXCEPT ![c] = k]
    BY <1>3
  <1>5. /\ cmd[c] \in CommandType /\ sound(cmd[c], root, used) /\ lease = c
        /\ (used["tamper"] = 0 => ~cmd[c].touched)
        /\ r \in Roots /\ numbered(r, used["publish"])
    BY <1>1, <1>2, Writer, InvTypes
  <1>6. t \in {"failed", "gcResidue"}
        /\ (t = "gcResidue" => At(c, "garbage") \/ (At(c, "gc") /\ r # root))
    BY <1>3 DEF lateFailure, At
  <1>7. k \in CommandType
    BY <1>5, <1>6, Notes DEF Steps, Reports
  <1>8. /\ k.step = "report" /\ k.outcome = t /\ k.changed = TRUE /\ k.kind = cmd[c].kind
        /\ k.basis = cmd[c].basis /\ k.touched = cmd[c].touched
    BY <1>5 DEF CommandType
  <1> HIDE DEF k
  <1>9. ASSUME ~cmd[c].touched
        PROVE  (t = "gcResidue" => clearLayout(r))
               /\ (used["tamper"] = 0 => Classify(r) # "blocked")
    <2>1. informed(cmd[c], root)
      BY <1>1, <1>9, Writer
    <2>2. t = "gcResidue" => clearLayout(r)
      <3>1. At(c, "garbage") => clearLayout(root) /\ clearLayout(written(c))
        BY <1>1, <1>9, <2>1, Outcome DEF informed, At
      <3>2. At(c, "gc") => clearLayout(written(c)) /\ ~At(c, "residue")
        BY <1>1, <1>9, Outcome DEF At
      <3>3. At(c, "garbage") => ~At(c, "residue")
        BY DEF At
      <3> QED BY <1>2, <1>6, <3>1, <3>2, <3>3
    <2>3. used["tamper"] = 0 => Classify(r) # "blocked"
      BY <1>1, <1>2, <1>9, InvTypes, Outcome
    <2> QED BY <2>2, <2>3
  <1>10. /\ used' \in [Events -> Nat] /\ \A f \in Events : used[f] <= used'[f] /\ used'[f] <= Limit[f]
         /\ used'["publish"] = used["publish"] /\ used'["promote"] = used["promote"]
         /\ used'["tamper"] = used["tamper"]
    BY <1>1, SpendAny
  <1>11. sound(k, r, used')
    <2>1. ~k.touched => informed(k, r)
      BY <1>6, <1>8, <1>9 DEF informed
    <2> QED BY <1>5, <1>8, <1>10, <2>1 DEF sound, known, shown
  <1>12. used'["tamper"] = 0 => Classify(r) # "blocked"
    BY <1>5, <1>9, <1>10
  <1>13. numbered(r, used'["publish"])
    BY <1>5, <1>10
  <1>14. root' = r /\ lease' \in Commands \cup {NoCommand}
    BY <1>1, <1>3, InvTypes
  <1> QED BY <1>1, <1>4, <1>5, <1>7, <1>10, <1>11, <1>12, <1>13, <1>14, Stepped

LEMMA ReportStep ==
  ASSUME Inv, NEW c \in Commands, Report(c)
  PROVE  Inv'
  <1>1. UNCHANGED <<root, used>> /\ cmd[c] \in CommandType
    BY InvTypes DEF Report
  <1>2. PICK t : End(c, t) /\ (t = cmd[c].outcome \/ t \in {"retained", "retired", "gcResidue", "failed"})
    BY DEF Report
  <1>3. t \in Reports
    BY <1>1, <1>2, CommandFields DEF Reports
  <1> QED BY <1>1, <1>2, <1>3, EndStep

LEMMA CrashStep ==
  ASSUME Inv, NEW c \in Commands, Crash(c)
  PROVE  Inv'
  <1> DEFINE k == [NewCommand EXCEPT !.said = "nothing"]
  <1>1. Spend("crash") /\ cmd' = [cmd EXCEPT ![c] = k]
    BY DEF Crash, End
  <1>2. /\ used' \in [Events -> Nat] /\ \A f \in Events : used[f] <= used'[f] /\ used'[f] <= Limit[f]
        /\ used'["publish"] = used["publish"] /\ used'["promote"] = used["promote"]
        /\ used'["tamper"] = used["tamper"]
    BY <1>1, SpendAny
  <1>3. k \in CommandType /\ k.step = "idle" /\ sound(k, root', used')
    BY <1>2, NewSound, InvTypes DEF Reports
  <1>4. lease' \in Commands \cup {NoCommand} /\ \A q \in Commands \ {c} : lease = q => lease' = q
    BY InvTypes DEF Crash, End
  <1> HIDE DEF k
  <1>5. CASE root' = root
    <2>1. numbered(root', used'["publish"]) /\ (used'["tamper"] = 0 => Classify(root') # "blocked")
          /\ root' \in Roots
      BY <1>2, <1>5, InvTypes
    <2> QED BY <1>1, <1>2, <1>3, <1>4, <1>5, <2>1, Stepped
  <1>6. CASE At(c, "residue") /\ ready(c) /\ root' = PartResidue(c)
    <2>1. Writing(c)
      BY <1>6 DEF Writing, At
    <2>2. /\ lease = c /\ root' \in Roots /\ numbered(root', used'["publish"])
          /\ (used["tamper"] = 0 => ~cmd[c].touched)
      BY <1>2, <1>6, <2>1, Writer
    <2>3. used'["tamper"] = 0 => Classify(root') # "blocked"
      BY <1>2, <1>6, <2>1, <2>2, Outcome
    <2> QED BY <1>1, <1>2, <1>3, <1>4, <2>2, <2>3, Stepped
  <1> QED BY <1>5, <1>6 DEF Crash

LEMMA Tampered ==
  ASSUME NEW j \in Journals, NEW x \in tampered(j)
  PROVE  x \in Journals /\ x.op = j.op
  <1>1. Foreign \in Records
    BY Numbers
  <1> QED BY <1>1 DEF tampered, Journals

LEMMA TamperStep ==
  ASSUME Inv, Tamper
  PROVE  Inv'
  <1>1. /\ Spend("tamper") /\ lease' = lease
        /\ cmd' = [c \in Commands |-> [cmd[c] EXCEPT !.touched = @ \/ lease = c]]
    BY DEF Tamper
  <1>2. /\ used' \in [Events -> Nat] /\ \A f \in Events : used[f] <= used'[f] /\ used'[f] <= Limit[f]
        /\ used'["publish"] = used["publish"] /\ used'["promote"] = used["promote"]
        /\ used'["tamper"] > 0
    BY <1>1, SpendAny
  <1>3. root' \in Roots /\ numbered(root', used'["publish"])
    <2>1. CASE \E j \in root.active : \E new \in tampered(j) :
                  root' = [root EXCEPT !.active = (@ \ {j}) \cup {new}]
      <3>0. PICK j \in root.active : \E new \in tampered(j) :
                  root' = [root EXCEPT !.active = (root.active \ {j}) \cup {new}]
        BY <2>1
      <3>1. PICK new \in tampered(j) : root' = [root EXCEPT !.active = (root.active \ {j}) \cup {new}]
        BY <3>0
      <3>2. new \in Journals /\ new.op = j.op
        BY <3>1, Tampered, InvTypes, RootFields
      <3>3. root' \in Roots
        BY <3>1, <3>2, InvTypes, RootFields, RootParts
      <3>4. /\ root'.active = (root.active \ {j}) \cup {new} /\ root'.controls = root.controls
            /\ root'.residues = root.residues /\ root'.garbage = root.garbage
        BY <3>1, InvTypes DEF Roots
      <3> QED BY <1>2, <3>2, <3>3, <3>4, InvTypes DEF numbered
    <2>2. CASE \E s \in root.residues : \E new \in tampered(s.journal) :
                  root' = [root EXCEPT !.residues = (@ \ {s}) \cup {[s EXCEPT !.journal = new]}]
      <3>0. PICK s \in root.residues : \E new \in tampered(s.journal) :
                  root' = [root EXCEPT !.residues = (root.residues \ {s}) \cup {[s EXCEPT !.journal = new]}]
        BY <2>2
      <3>1. PICK new \in tampered(s.journal) :
               root' = [root EXCEPT !.residues = (root.residues \ {s}) \cup {[s EXCEPT !.journal = new]}]
        BY <3>0
      <3> DEFINE x == [s EXCEPT !.journal = new]
      <3>2. s \in Residues /\ s.journal \in Journals
        BY InvTypes, RootFields, ResidueFields
      <3>3. new \in Journals
        BY <3>1, <3>2, Tampered
      <3>4. x \in Residues /\ x.name = s.name
        BY <3>2, <3>3, ResidueFields
      <3> HIDE DEF x
      <3>5. root' = [root EXCEPT !.residues = (root.residues \ {s}) \cup {x}]
        BY <3>1 DEF x
      <3>6. root' \in Roots
        BY <3>4, <3>5, InvTypes, RootFields, RootParts
      <3>7. /\ root'.active = root.active /\ root'.controls = root.controls
            /\ root'.residues = (root.residues \ {s}) \cup {x} /\ root'.garbage = root.garbage
        BY <3>5, InvTypes DEF Roots
      <3> QED BY <1>2, <3>4, <3>6, <3>7, InvTypes DEF numbered
    <2> QED BY <2>1, <2>2 DEF Tamper
  <1>4. ASSUME NEW c \in Commands
        PROVE  cmd'[c] \in CommandType /\ held(c)' /\ sound(cmd[c], root, used)'
    <2> DEFINE b == cmd[c].touched \/ lease = c
               k == [cmd[c] EXCEPT !.touched = b]
    <2>1. cmd[c] \in CommandType /\ held(c) /\ sound(cmd[c], root, used) /\ cmd'[c] = k
      BY <1>1, InvTypes
    <2>2. k \in CommandType
      BY <2>1, CommandFields, NotesOfRetirement DEF Steps
    <2>3. /\ k.step = cmd[c].step /\ k.kind = cmd[c].kind /\ k.id = cmd[c].id
          /\ k.basis = cmd[c].basis /\ k.touched = b
      BY <2>1 DEF CommandType
    <2> HIDE DEF k
    <2>4. held(c)'
      BY <1>1, <2>1, <2>3 DEF held
    <2>5. working(k) => k.touched
      BY <2>1, <2>3 DEF held, working
    <2>6. sound(k, root', used')
      BY <1>2, <2>1, <2>3, <2>5 DEF sound, known, shown
    <2> QED BY <2>1, <2>2, <2>4, <2>6
  <1>5. cmd' \in [Commands -> CommandType]
    BY <1>1, <1>4
  <1> QED BY <1>1, <1>2, <1>3, <1>4, <1>5, InvTypes DEF Inv, TypeOK, NeverBlocked

-----------------------------------------------------------------------------
(* The theorems. *)

LEMMA InvInit == Init => Inv
  <1> SUFFICES ASSUME Init  PROVE Inv
    OBVIOUS
  <1>1. TypeOK /\ used["publish"] = 0 /\ used["promote"] = 0
    BY InitType DEF Init, Events
  <1>2. numbered(root, used["publish"])
    BY DEF Init, EmptyRoot, numbered
  <1>3. NeverBlocked
    BY EmptyType, ClearSeen DEF Init, NeverBlocked, EmptyRoot, clearLayout, Clear
  <1>4. ASSUME NEW c \in Commands  PROVE held(c) /\ sound(cmd[c], root, used)
    <2>1. cmd[c].step = "idle" /\ cmd[c].kind = "recover" /\ cmd[c].touched = FALSE
      BY DEF Init, NewCommand
    <2> QED BY <2>1 DEF held, sound, known, shown, working
  <1> QED BY <1>1, <1>2, <1>3, <1>4 DEF Inv

LEMMA InvStep == Inv /\ [Next]_vars => Inv'
  <1> SUFFICES ASSUME Inv, [Next]_vars  PROVE Inv'
    OBVIOUS
  <1>1. ASSUME UNCHANGED vars  PROVE Inv'
    BY <1>1 DEF vars, Inv, TypeOK, NeverBlocked, held
  <1>2. ASSUME NEW c \in Commands, Begin(c)  PROVE Inv'
    BY <1>2, BeginApplyStep, PlanStep, ConfirmStep, ReplanStep DEF Begin
  <1>3. ASSUME NEW c \in Commands, Work(c)  PROVE Inv'
    BY <1>3, PublishStep, PrepareStep, AdvanceBasisStep, ValidateLayoutStep, ValidateActiveIdentityStep,
       ValidateActiveRecordStep, ValidatePhaseLayoutStep, ValidateFinalLayoutStep, WriteStep, ReportStep
       DEF Work, Validate
  <1>4. ASSUME NEW c \in Commands, Promote(c) \/ Fail(c) \/ Crash(c)  PROVE Inv'
    BY <1>4, PromoteStep, FailStep, CrashStep
  <1>5. ASSUME Tamper  PROVE Inv'
    BY <1>5, TamperStep
  <1> QED BY <1>1, <1>2, <1>3, <1>4, <1>5 DEF Next

(* The recovery root is in one of the layouts of a retirement unless somebody tampered with
   it, and whoever works on it has the lease and knows in which. *)
THEOREM Invariance == Spec => []Inv
  BY InvInit, InvStep, PTL DEF Spec

THEOREM TypeCorrect == Spec => []TypeOK
  <1>1. Inv => TypeOK
    BY DEF Inv
  <1> QED BY <1>1, Invariance, PTL

LEMMA InvConfirms == Inv => RetirementConfirmed
  <1> SUFFICES ASSUME Inv, NEW c \in Commands,
                      cmd[c].kind = "recover", cmd[c].step \in Steps \ {"idle", "planned", "replan"},
                      ~cmd[c].changed, ~cmd[c].touched
               PROVE  view(root) = view(cmd[c].seen)
    BY DEF RetirementConfirmed, Confirmed, Inv
  <1> QED BY InvTypes DEF sound, shown, working

THEOREM AlwaysConfirmed == Spec => []RetirementConfirmed
  BY InvConfirms, Invariance, PTL

-----------------------------------------------------------------------------
(* What is said of a retirement. *)

LEMMA Classes ==
  ASSUME NEW r
  PROVE  ~(Recoverable(r) /\ Clear(r))
  BY DEF Recoverable, Clear

LEMMA SaidByEnd ==
  ASSUME Inv, NEW c \in Commands, NEW t, End(c, t), NEW q \in Commands, cmd'[q].said # cmd[q].said
  PROVE  q = c /\ cmd'[q].said = t
  <1>1. cmd' = [cmd EXCEPT ![c] = [NewCommand EXCEPT !.said = t]]
    BY DEF End
  <1>2. q = c
    BY <1>1, InvTypes
  <1>3. [NewCommand EXCEPT !.said = t].said = t
    BY DEF NewCommand
  <1> QED BY <1>1, <1>2, <1>3, InvTypes

LEMMA SaidKept ==
  ASSUME Inv, NEW c \in Commands, NEW k, cmd' = [cmd EXCEPT ![c] = k], k.said = cmd[c].said,
         NEW q \in Commands
  PROVE  cmd'[q].said = cmd[q].said
  BY InvTypes

LEMMA SaidByRefuse ==
  ASSUME Inv, NEW c \in Commands, Refuse(c), NEW q \in Commands, cmd'[q].said # cmd[q].said
  PROVE  cmd'[q].said = "failed"
  <1>1. CASE cmd[c].kind = "apply"
    BY <1>1, SaidByEnd DEF Refuse
  <1>2. CASE cmd[c].kind # "apply"
    <2> DEFINE k == [cmd[c] EXCEPT !.step = "report", !.outcome = "failed"]
    <2>1. cmd' = [cmd EXCEPT ![c] = k]
      BY <1>2 DEF Refuse
    <2>2. k.said = cmd[c].said
      BY InvTypes DEF CommandType
    <2> QED BY <2>1, <2>2, SaidKept
  <1> QED BY <1>1, <1>2

LEMMA SaidByCheck ==
  ASSUME Inv, NEW c \in Commands, NEW P \in BOOLEAN, NEW s,
         IF P THEN GoTo(c, s) /\ UNCHANGED lease ELSE Refuse(c),
         NEW q \in Commands, cmd'[q].said # cmd[q].said
  PROVE  cmd'[q].said = "failed"
  <1>1. CASE P
    <2> DEFINE k == [cmd[c] EXCEPT !.step = s]
    <2>1. cmd' = [cmd EXCEPT ![c] = k]
      BY <1>1 DEF GoTo
    <2>2. k.said = cmd[c].said
      BY InvTypes DEF CommandType
    <2> QED BY <2>1, <2>2, SaidKept
  <1> QED BY <1>1, SaidByRefuse

LEMMA TruthfulReport ==
  ASSUME Inv, NEW c \in Commands, Report(c), NEW q \in Commands, cmd'[q].said # cmd[q].said,
         ~cmd[q].touched
  PROVE  /\ cmd'[q].said \in {"retired", "gcResidue"} => Clear(root')
         /\ cmd'[q].said = "retained" => ~Clear(root')
  <1> DEFINE t == IF cmd[c].kind = "apply" THEN cmd[c].outcome
                  ELSE CASE Recoverable(root) -> "retained"
                         [] Clear(root)       -> IF cmd[c].outcome = "retired" THEN "retired"
                                                 ELSE "gcResidue"
                         [] OTHER             -> "failed"
  <1>1. End(c, t) /\ root' = root
    BY DEF Report
  <1>2. q = c /\ cmd'[q].said = t
    <2> HIDE DEF t
    <2> QED BY <1>1, SaidByEnd
  <1>3. CASE cmd[c].kind = "apply"
    <2>1. informed(cmd[c], root) /\ cmd[c].step = "report"
      BY <1>2, InvTypes DEF Report, At, sound, working
    <2>2. cmd[c].outcome # "retained" /\ (cmd[c].outcome \in {"retired", "gcResidue"} => Clear(root))
      BY <2>1, ClearSeen, InvTypes DEF informed
    <2> QED BY <1>1, <1>2, <1>3, <2>2
  <1>4. CASE cmd[c].kind # "apply"
    BY <1>1, <1>2, <1>4, Classes
  <1> QED BY <1>3, <1>4

LEMMA TruthfulStep ==
  ASSUME Inv, [Next]_vars, NEW q \in Commands, cmd'[q].said # cmd[q].said, ~cmd[q].touched
  PROVE  /\ cmd'[q].said \in {"retired", "gcResidue"} => Clear(root')
         /\ cmd'[q].said = "retained" => ~Clear(root')
  <1> DEFINE Harmless == cmd'[q].said \in {"stale", "failed", "nothing"}
  <1>1. ASSUME UNCHANGED vars  PROVE FALSE
    BY <1>1 DEF vars
  <1>2. ASSUME NEW c \in Commands, BeginApply(c)  PROVE FALSE
    <2> DEFINE k == [NewCommand EXCEPT !.step = "publish", !.kind = "apply", !.said = cmd[c].said]
    <2>1. cmd' = [cmd EXCEPT ![c] = k]
      BY <1>2 DEF BeginApply
    <2>2. k.said = cmd[c].said
      BY DEF NewCommand
    <2> QED BY <2>1, <2>2, SaidKept
  <1>3. ASSUME NEW c \in Commands, Plan(c)  PROVE FALSE
    <2> DEFINE k == [NewCommand EXCEPT !.step = "planned", !.seen = root, !.said = cmd[c].said]
    <2>1. cmd' = [cmd EXCEPT ![c] = k]
      BY <1>3 DEF Plan
    <2>2. k.said = cmd[c].said
      BY DEF NewCommand
    <2> QED BY <2>1, <2>2, SaidKept
  <1>4. ASSUME NEW c \in Commands, Confirm(c)  PROVE FALSE
    <2> DEFINE k == [cmd[c] EXCEPT !.step = "replan"]
    <2>1. cmd' = [cmd EXCEPT ![c] = k]
      BY <1>4 DEF Confirm, GoTo
    <2>2. k.said = cmd[c].said
      BY InvTypes DEF CommandType
    <2> QED BY <2>1, <2>2, SaidKept
  <1>5. ASSUME NEW c \in Commands, Replan(c)  PROVE Harmless
    <2>1. CASE End(c, "stale")
      BY <2>1, SaidByEnd
    <2>2. CASE StartFrom(c, root)
      <3> DEFINE k == [cmd[c] EXCEPT !.step = "prepare", !.start = startOf(root), !.id = subject(root),
                                     !.basis = subject(root).record]
      <3>1. cmd' = [cmd EXCEPT ![c] = k]
        BY <2>2 DEF StartFrom
      <3>2. k.said = cmd[c].said
        BY InvTypes DEF CommandType
      <3> QED BY <3>1, <3>2, SaidKept
    <2> QED BY <1>5, <2>1, <2>2 DEF Replan
  <1>6. ASSUME NEW c \in Commands, Publish(c)  PROVE FALSE
    <2> DEFINE j == [op |-> used["publish"] + 1, record |-> 0, tree |-> "whole", object |-> "own"]
               k == [cmd[c] EXCEPT !.step = "prepare", !.id = identity(j), !.changed = TRUE]
    <2>1. cmd' = [cmd EXCEPT ![c] = k]
      BY <1>6 DEF Publish
    <2>2. k.said = cmd[c].said
      <3> HIDE DEF j
      <3> QED BY InvTypes DEF CommandType
    <2> QED BY <2>1, <2>2, SaidKept
  <1>7. ASSUME NEW c \in Commands, Prepare(c)  PROVE Harmless
    <2>1. CASE Refuse(c)
      BY <2>1, SaidByRefuse
    <2>2. CASE ~Refuse(c)
      <3> DEFINE id == cmd[c].id
                 s == IF cmd[c].start = "active" THEN "effects" ELSE "layout"
                 d == controlsOf(id) # {}
                 x == IF cmd[c].start = "active" THEN only(journalsOf(id.op))
                      ELSE IF residuesOf(id) # {} THEN only(residuesOf(id)).journal ELSE NoJournal
                 k == [cmd[c] EXCEPT !.step = s, !.controlled = d, !.expected = x]
      <3>1. cmd' = [cmd EXCEPT ![c] = k]
        BY <1>7, <2>2 DEF Prepare
      <3>2. k.said = cmd[c].said
        <4> HIDE DEF s, d, x
        <4> QED BY InvTypes DEF CommandType
      <3> QED BY <3>1, <3>2, SaidKept
    <2> QED BY <2>1, <2>2
  <1>8. ASSUME NEW c \in Commands, AdvanceBasis(c)  PROVE Harmless
    <2>1. CASE Refuse(c)
      BY <2>1, SaidByRefuse
    <2>2. ASSUME NEW new, NEW x,
                 cmd' = [cmd EXCEPT ![c].step = "layout", ![c].id = new, ![c].expected = x]
          PROVE  Harmless
      <3> DEFINE k == [cmd[c] EXCEPT !.step = "layout", !.id = new, !.expected = x]
      <3>1. cmd' = [cmd EXCEPT ![c] = k]
        BY <2>2
      <3>2. k.said = cmd[c].said
        BY InvTypes DEF CommandType
      <3> QED BY <3>1, <3>2, SaidKept
    <2> QED BY <1>8, <2>1, <2>2 DEF AdvanceBasis
  <1>9. ASSUME NEW c \in Commands, Validate(c)  PROVE Harmless
    <2>1. PICK s : \E P \in BOOLEAN : IF P THEN GoTo(c, s) /\ UNCHANGED lease ELSE Refuse(c)
      BY <1>9 DEF Validate, ValidateLayout, ValidateActiveIdentity, ValidateActiveRecord,
                  ValidatePhaseLayout, ValidateFinalLayout, Check
    <2> QED BY <2>1, SaidByCheck
  <1>10. ASSUME NEW c \in Commands, Write(c)  PROVE Harmless
    <2>1. CASE Refuse(c)
      BY <2>1, SaidByRefuse
    <2>2. CASE ~Refuse(c)
      <3> DEFINE s == nextStep(c)
                 t == IF At(c, "garbage") THEN "retired" ELSE cmd[c].outcome
                 k == [cmd[c] EXCEPT !.step = s, !.changed = TRUE, !.outcome = t]
      <3>1. cmd' = [cmd EXCEPT ![c] = k]
        BY <1>10, <2>2 DEF Write
      <3>2. k.said = cmd[c].said
        <4> HIDE DEF s, t
        <4> QED BY InvTypes DEF CommandType
      <3> QED BY <3>1, <3>2, SaidKept
    <2> QED BY <2>1, <2>2
  <1>11. ASSUME NEW c \in Commands, Promote(c)  PROVE FALSE
    <2> DEFINE n == cmd[c].basis + 1
               k == [cmd[c] EXCEPT !.basis = n]
    <2>1. cmd' = [cmd EXCEPT ![c] = k]
      BY <1>11 DEF Promote
    <2>2. k.said = cmd[c].said
      <3> HIDE DEF n
      <3> QED BY InvTypes DEF CommandType
    <2> QED BY <2>1, <2>2, SaidKept
  <1>12. ASSUME NEW c \in Commands, Fail(c)  PROVE FALSE
    <2>1. PICK t : cmd' = [cmd EXCEPT ![c].step = "report", ![c].outcome = t, ![c].changed = TRUE]
      BY <1>12 DEF Fail
    <2> DEFINE k == [cmd[c] EXCEPT !.step = "report", !.outcome = t, !.changed = TRUE]
    <2>2. cmd' = [cmd EXCEPT ![c] = k]
      BY <2>1
    <2>3. k.said = cmd[c].said
      BY InvTypes DEF CommandType
    <2> QED BY <2>2, <2>3, SaidKept
  <1>13. ASSUME NEW c \in Commands, Crash(c)  PROVE Harmless
    BY <1>13, SaidByEnd DEF Crash
  <1>14. ASSUME Tamper  PROVE FALSE
    <2>1. cmd'[q] = [cmd[q] EXCEPT !.touched = @ \/ lease = q]
      BY <1>14 DEF Tamper
    <2> QED BY <2>1, InvTypes DEF CommandType
  <1>15. ASSUME Harmless
         PROVE  /\ cmd'[q].said \in {"retired", "gcResidue"} => Clear(root')
                /\ cmd'[q].said = "retained" => ~Clear(root')
    BY <1>15
  <1> HIDE DEF Harmless
  <1> QED BY <1>1, <1>2, <1>3, <1>4, <1>5, <1>6, <1>7, <1>8, <1>9, <1>10, <1>11, <1>12, <1>13, <1>14, <1>15,
             TruthfulReport DEF Next, Begin, Work

-----------------------------------------------------------------------------
(* What is destroyed. *)

LEMMA Destroyed ==
  ASSUME Inv, NEW c \in Commands, At(c, "residue"),
         ~cmd[c].touched, cmd[c].start # "finalizingResidue", NEW s \in root.residues
  PROVE  identity(s.journal) = s.name
  <1>1. informed(cmd[c], root) /\ cmd[c].start \in Starts
    BY InvTypes, CommandFields DEF At, sound, working
  <1>2. finalLayout(root, cmd[c].id) /\ vouched(cmd[c], root) /\ cmd[c].start # "finalizing"
    BY <1>1 DEF informed, At
  <1>3. s.name = cmd[c].id
    BY <1>2 DEF finalLayout
  <1>4. identity(s.journal) = cmd[c].id
    BY <1>1, <1>2 DEF vouched, Starts
  <1> QED BY <1>3, <1>4

LEMMA ResiduesKept ==
  ASSUME Inv, [Next]_vars, NEW s \in root.residues, s \notin root'.residues
  PROVE  \/ used'["tamper"] # used["tamper"]
         \/ \E c \in Commands : At(c, "residue") /\ lease = c
  <1>1. ASSUME root' = root  PROVE FALSE
    BY <1>1
  <1>2. ASSUME NEW c \in Commands, Publish(c)  PROVE FALSE
    <2>1. root'.residues = root.residues
      BY <1>2, InvTypes DEF Publish, Roots
    <2> QED BY <2>1
  <1>3. ASSUME NEW c \in Commands, Promote(c)  PROVE FALSE
    <2>1. root'.residues = root.residues
      BY <1>3, InvTypes DEF Promote, Roots
    <2> QED BY <2>1
  <1>4. ASSUME NEW c \in Commands, Writing(c),
               root' \in {root, written(c)}  PROVE At(c, "residue") /\ lease = c
    <2>1. ~At(c, "residue") => \A t \in root.residues : t \in written(c).residues
      BY <1>4, InvTypes, WrittenParts
    <2> QED BY <1>4, <2>1, Writer
  <1>5. ASSUME NEW c \in Commands, At(c, "residue")  PROVE lease = c
    BY <1>5, Writer DEF Writing, At
  <1>6. ASSUME NEW c \in Commands, Write(c)  PROVE At(c, "residue") /\ lease = c
    BY <1>4, <1>6 DEF Write
  <1>7. ASSUME NEW c \in Commands, Fail(c)  PROVE At(c, "residue") /\ lease = c
    <2>1. Writing(c) /\ (At(c, "residue") \/ root' \in {root, written(c)})
      BY <1>7 DEF Fail
    <2> QED BY <1>4, <1>5, <2>1
  <1>8. ASSUME NEW c \in Commands, Crash(c)  PROVE At(c, "residue") /\ lease = c
    BY <1>1, <1>5, <1>8 DEF Crash
  <1>9. ASSUME Tamper  PROVE used'["tamper"] # used["tamper"]
    <2>1. used["tamper"] \in Nat /\ "tamper" \in Events
      BY InvTypes DEF Events
    <2> QED BY <1>9, <2>1, InvTypes, SpendType DEF Tamper
  <1>10. ASSUME NEW c \in Commands, Begin(c)  PROVE FALSE
    BY <1>1, <1>10 DEF Begin, BeginApply, Plan, Confirm, Replan
  <1>11. ASSUME NEW c \in Commands,
                Prepare(c) \/ AdvanceBasis(c) \/ Validate(c) \/ Report(c)  PROVE FALSE
    BY <1>1, <1>11 DEF Prepare, AdvanceBasis, Validate, ValidateLayout, ValidateActiveIdentity,
       ValidateActiveRecord, ValidatePhaseLayout, ValidateFinalLayout, Check, Report
  <1>12. ASSUME UNCHANGED vars  PROVE FALSE
    BY <1>1, <1>12 DEF vars
  <1> QED BY <1>2, <1>3, <1>6, <1>7, <1>8, <1>9, <1>10, <1>11, <1>12 DEF Next, Work

LEMMA KnownDestroyedStep ==
  Inv /\ [Next]_vars =>
      \A s \in root.residues :
          (\A t \in root'.residues : t # s) =>
              \/ identity(s.journal) = s.name
              \/ \E c \in Commands : lease = c /\ (cmd[c].touched \/ cmd[c].start = "finalizingResidue")
              \/ used'["tamper"] # used["tamper"]
  <1> SUFFICES ASSUME Inv, [Next]_vars, NEW s \in root.residues, \A t \in root'.residues : t # s,
                      identity(s.journal) # s.name, used'["tamper"] = used["tamper"]
               PROVE  \E c \in Commands : lease = c /\ (cmd[c].touched \/ cmd[c].start = "finalizingResidue")
    OBVIOUS
  <1>1. PICK c \in Commands : At(c, "residue") /\ lease = c
    BY ResiduesKept
  <1> QED BY <1>1, Destroyed

THEOREM AlwaysTruthful == Spec => RetirementTruthful
  <1>1. Inv /\ [Next]_vars =>
           [\A c \in Commands :
              (cmd'[c].said # cmd[c].said /\ ~cmd[c].touched) =>
                  /\ cmd'[c].said \in {"retired", "gcResidue"} => Clear(root')
                  /\ cmd'[c].said = "retained" => ~Clear(root')]_vars
    BY TruthfulStep
  <1>2. Inv /\ [Next]_vars =>
           [\A s \in root.residues :
              (\A t \in root'.residues : t # s) =>
                  \/ identity(s.journal) = s.name
                  \/ \E c \in Commands : lease = c /\ (cmd[c].touched
                                                       \/ cmd[c].start = "finalizingResidue")
                  \/ used'["tamper"] # used["tamper"]]_vars
    BY KnownDestroyedStep
  <1> QED BY <1>1, <1>2, Invariance, PTL DEF Spec, RetirementTruthful, Truthful, OnlyKnownDestroyed

-----------------------------------------------------------------------------
(* The life of a journal. *)

LEMMA LivesSeen ==
  ASSUME NEW r \in Roots, NEW id \in Ids
  PROVE  /\ clearLayout(r) => life(r) = "none"
         /\ activeLayout(r, id) => life(r) = "recoverable"
         /\ retainedLayout(r, id) \/ finalLayout(r, id) => life(r) = "cleanup"
  <1>1. clearLayout(r) => life(r) = "none"
    BY ClearSeen DEF life, Clear
  <1>2. activeLayout(r, id) => life(r) = "recoverable"
    BY ActiveSeen DEF life, Clear
  <1>3. retainedLayout(r, id) \/ finalLayout(r, id) => life(r) = "cleanup"
    BY RetainedSeen, FinalSeen DEF life, Clear
  <1> QED BY <1>1, <1>2, <1>3

(* What a writing step does to that life, as long as nobody has tampered with it. *)
LEMMA WriterLife ==
  ASSUME Inv, NEW c \in Commands, Writing(c), ready(c), ~cmd[c].touched,
         NEW r \in {root, written(c)} \cup (IF At(c, "residue") THEN {PartResidue(c)} ELSE {})
  PROVE  \/ life(r) = life(root)
         \/ life(root) = "recoverable" /\ life(r) = "cleanup"
         \/ life(root) = "cleanup" /\ life(r) = "none"
  <1> DEFINE id == cmd[c].id
  <1>1. /\ id \in Ids /\ root \in Roots /\ informed(cmd[c], root)
        /\ written(c) \in Roots /\ PartResidue(c) \in Roots
    BY Writer, InvTypes
  <1>2. CASE At(c, "control")
    <2>1. life(root) = "recoverable" /\ life(written(c)) = "recoverable" /\ ~At(c, "residue")
      BY <1>1, <1>2, Outcome, LivesSeen DEF informed, At
    <2> QED BY <2>1
  <1>3. CASE At(c, "retire")
    <2>1. life(root) = "recoverable" /\ life(written(c)) = "cleanup" /\ ~At(c, "residue")
      BY <1>1, <1>3, Outcome, LivesSeen DEF informed, At
    <2> QED BY <2>1
  <1>4. CASE At(c, "advance")
    <2>1. life(root) = "cleanup" /\ life(written(c)) = "cleanup" /\ ~At(c, "residue")
      BY <1>1, <1>4, Outcome, LivesSeen DEF informed, At
    <2> QED BY <2>1
  <1>5. CASE At(c, "residue")
    <2>1. life(root) = "cleanup" /\ life(written(c)) = "cleanup" /\ life(PartResidue(c)) = "cleanup"
      BY <1>1, <1>5, Outcome, LivesSeen DEF informed, At
    <2> QED BY <1>5, <2>1
  <1>6. CASE At(c, "gc")
    <2>1. life(root) = "cleanup" /\ life(written(c)) = "none" /\ ~At(c, "residue")
      BY <1>1, <1>6, Outcome, LivesSeen DEF informed, At
    <2> QED BY <2>1
  <1>7. CASE At(c, "garbage")
    <2>1. life(root) = "none" /\ life(written(c)) = "none" /\ ~At(c, "residue")
      BY <1>1, <1>7, Outcome, LivesSeen DEF informed, At
    <2> QED BY <2>1
  <1> QED BY <1>2, <1>3, <1>4, <1>5, <1>6, <1>7 DEF Writing, At

(* The promise, in terms of the recovery root. *)
lived ==
    \/ lifePhase' = lifePhase /\ used'["publish"] = used["publish"]
    \/ lifePhase = "none" /\ lifePhase' = "recoverable" /\ used'["publish"] = used["publish"] + 1
    \/ lifePhase = "recoverable" /\ lifePhase' = "cleanup" /\ used'["publish"] = used["publish"]
    \/ lifePhase = "cleanup" /\ lifePhase' = "none" /\ used'["publish"] = used["publish"]
    \/ lifePhase # "tampered" /\ lifePhase' = "tampered" /\ used'["publish"] = used["publish"]
    \/ lifePhase = "tampered" /\ lifePhase' = lifePhase /\ used'["publish"] = used["publish"] + 1

LEMMA LifeKept ==
  ASSUME Inv, used'["tamper"] = used["tamper"] /\ used'["publish"] = used["publish"],
         \/ root' = root
         \/ used["tamper"] = 0 => \/ life(root') = life(root)
                                  \/ life(root) = "recoverable" /\ life(root') = "cleanup"
                                  \/ life(root) = "cleanup" /\ life(root') = "none"
  PROVE  lived
  BY InvTypes DEF lived, lifePhase

LEMMA PublishLife ==
  ASSUME Inv, NEW c \in Commands, Publish(c)
  PROVE  lived
  <1>1. /\ used'["publish"] = used["publish"] + 1 /\ used'["tamper"] = used["tamper"]
    <2>1. "publish" \in Events /\ "tamper" \in Events
      BY DEF Events
    <2> QED BY <2>1, InvTypes, SpendType DEF Publish
  <1>2. CASE used["tamper"] > 0
    BY <1>1, <1>2 DEF lived, lifePhase
  <1>3. CASE used["tamper"] = 0
    <2>1. clearLayout(root) /\ lease = c
      BY <1>3, InvTypes DEF Publish, At, sound, working, informed, held
    <2>2. life(root) = "none"
      BY <2>1, InvTypes, ClearSeen DEF life, Clear
    <2>3. Inv'
      BY PublishStep
    <2>4. /\ cmd[c] \in CommandType /\ cmd[c].touched \in BOOLEAN
      BY InvTypes, CommandFields
    <2> DEFINE j == [op |-> used["publish"] + 1, record |-> 0, tree |-> "whole", object |-> "own"]
               k == [cmd[c] EXCEPT !.step = "prepare", !.id = identity(j), !.changed = TRUE]
    <2>5. cmd' = [cmd EXCEPT ![c] = k]
      BY DEF Publish
    <2>6. k.step = "prepare" /\ k.touched = cmd[c].touched /\ k.start = cmd[c].start
      <3> HIDE DEF j
      <3> QED BY <2>4 DEF CommandType
    <2>7. ~cmd[c].touched /\ cmd[c].start = "active" /\ cmd'[c] = k
      <3> HIDE DEF k
      <3>1. cmd[c].step = "publish" /\ sound(cmd[c], root, used)
        BY InvTypes DEF Publish, At
      <3>2. ~cmd[c].touched /\ cmd[c].start = "active"
        BY <1>3, <3>1 DEF sound, working, informed
      <3>3. cmd'[c] = k
        BY <2>5, InvTypes
      <3> QED BY <3>2, <3>3
    <2> HIDE DEF k
    <2>8. sound(cmd'[c], root', used') /\ root' \in Roots
      BY <2>3 DEF Inv, TypeOK
    <2>9. activeLayout(root', k.id) /\ k.id \in Ids
      BY <2>6, <2>7, <2>8 DEF sound, known, working, informed, started
    <2>10. life(root') = "recoverable"
      BY <2>8, <2>9, LivesSeen
    <2> QED BY <1>1, <1>3, <2>2, <2>10 DEF lived, lifePhase
  <1> QED BY <1>2, <1>3, InvTypes

LEMMA PromoteLife ==
  ASSUME Inv, NEW c \in Commands, Promote(c)
  PROVE  lived
  <1>1. /\ used'["publish"] = used["publish"] /\ used'["tamper"] = used["tamper"]
    <2>1. "publish" \in Events /\ "tamper" \in Events /\ "promote" \in Events
      BY DEF Events
    <2> QED BY <2>1, InvTypes, SpendType DEF Promote
  <1>2. ASSUME used["tamper"] = 0
        PROVE  life(root') = life(root)
    <2>1. /\ cmd[c] \in CommandType /\ sound(cmd[c], root, used) /\ cmd[c].step = "effects"
          /\ cmd[c].kind = "apply" /\ ~cmd[c].touched
      BY <1>2, InvTypes DEF Promote, At, sound
    <2>2. promoted(cmd[c], root) /\ cmd[c].id \in Ids /\ cmd[c].basis \in Records
      BY <2>1, CommandFields DEF sound, known, working, informed
    <2>3. [cmd[c].id EXCEPT !.record = cmd[c].basis] \in Ids
      BY <2>2, IdFields
    <2>4. life(root) = "recoverable"
      BY <2>2, <2>3, InvTypes, LivesSeen DEF promoted
    <2> DEFINE n == cmd[c].basis + 1
               k == [cmd[c] EXCEPT !.basis = n]
    <2>5. cmd' = [cmd EXCEPT ![c] = k]
      BY DEF Promote
    <2>6. k.step = "effects" /\ k.touched = cmd[c].touched /\ k.kind = "apply"
      <3> HIDE DEF n
      <3> QED BY <2>1 DEF CommandType
    <2>7. cmd'[c] = k
      BY <2>5, InvTypes
    <2> HIDE DEF k
    <2>8. Inv'
      BY PromoteStep
    <2>9. sound(k, root', used') /\ root' \in Roots /\ k \in CommandType
      BY <2>7, <2>8 DEF Inv, TypeOK
    <2>10. promoted(k, root') /\ k.id \in Ids /\ k.basis \in Records
      BY <2>1, <2>6, <2>9, CommandFields DEF sound, known, working, informed
    <2>11. [k.id EXCEPT !.record = k.basis] \in Ids
      BY <2>10, IdFields
    <2>12. life(root') = "recoverable"
      BY <2>9, <2>10, <2>11, LivesSeen DEF promoted
    <2> QED BY <2>4, <2>12
  <1> QED BY <1>1, <1>2, LifeKept

LEMMA LifeStep ==
  ASSUME Inv, [Next]_vars
  PROVE  lived
  <1>1. ASSUME root' = root, used' = used  PROVE lived
    BY <1>1, LifeKept
  <1>2. ASSUME NEW c \in Commands, Write(c)  PROVE lived
    <2>1. CASE ~ready(c)
      BY <1>1, <1>2, <2>1 DEF Write
    <2>2. CASE ready(c)
      <3>1. Writing(c) /\ root' = written(c) /\ used' = used
        BY <1>2, <2>2 DEF Write
      <3>2. used["tamper"] = 0 => ~cmd[c].touched
        BY <3>1, Writer
      <3> QED BY <2>2, <3>1, <3>2, WriterLife, LifeKept
    <2> QED BY <2>1, <2>2
  <1>3. ASSUME NEW c \in Commands, Fail(c)  PROVE lived
    <2>1. /\ Writing(c) /\ ready(c) /\ Spend("fault")
          /\ root' \in {root, written(c)} \cup (IF At(c, "residue") THEN {PartResidue(c)} ELSE {})
      BY <1>3 DEF Fail
    <2>2. used["tamper"] = 0 => ~cmd[c].touched
      BY <2>1, Writer
    <2>3. used'["tamper"] = used["tamper"] /\ used'["publish"] = used["publish"]
      BY <2>1, SpendAny
    <2> QED BY <2>1, <2>2, <2>3, WriterLife, LifeKept
  <1>4. ASSUME NEW c \in Commands, Crash(c)  PROVE lived
    <2>1. used'["tamper"] = used["tamper"] /\ used'["publish"] = used["publish"]
      BY <1>4, SpendAny DEF Crash
    <2>2. CASE root' = root
      BY <2>1, <2>2, LifeKept
    <2>3. CASE At(c, "residue") /\ ready(c) /\ root' = PartResidue(c)
      <3>1. Writing(c)
        BY <2>3 DEF Writing, At
      <3>2. used["tamper"] = 0 => ~cmd[c].touched
        BY <3>1, Writer
      <3> QED BY <2>1, <2>3, <3>1, <3>2, WriterLife, LifeKept
    <2> QED BY <1>4, <2>2, <2>3 DEF Crash
  <1>5. ASSUME Tamper  PROVE lived
    <2>1. used'["tamper"] > 0 /\ used'["publish"] = used["publish"]
      BY <1>5, SpendAny DEF Tamper
    <2> QED BY <2>1, InvTypes DEF lived, lifePhase
  <1>6. ASSUME NEW c \in Commands, Begin(c)  PROVE lived
    BY <1>1, <1>6 DEF Begin, BeginApply, Plan, Confirm, Replan
  <1>7. ASSUME NEW c \in Commands,
               Prepare(c) \/ AdvanceBasis(c) \/ Validate(c) \/ Report(c)  PROVE lived
    BY <1>1, <1>7 DEF Prepare, AdvanceBasis, Validate, ValidateLayout, ValidateActiveIdentity,
       ValidateActiveRecord, ValidatePhaseLayout, ValidateFinalLayout, Check, Report
  <1>8. ASSUME UNCHANGED vars  PROVE lived
    BY <1>1, <1>8 DEF vars
  <1> QED BY <1>2, <1>3, <1>4, <1>5, <1>6, <1>7, <1>8, PublishLife, PromoteLife DEF Next, Work

LEMMA LifeInit == Init => lifePhase = "none" /\ used["publish"] = 0
  <1> SUFFICES ASSUME Init  PROVE lifePhase = "none" /\ used["publish"] = 0
    OBVIOUS
  <1>1. root \in Roots /\ clearLayout(root)
    BY EmptyType DEF Init, EmptyRoot, clearLayout
  <1>2. life(root) = "none"
    BY <1>1, ClearSeen DEF life, Clear
  <1> QED BY <1>2 DEF Init, lifePhase, Events

THEOREM JournalLives == Spec => ImplementsLife
  <1>1. Inv /\ [Next]_vars =>
           [Life!Publish \/ Life!Retire \/ Life!Finish \/ Life!Tamper \/ Life!Unpromised]_<<lifePhase, used["publish"]>>
    BY LifeStep DEF lived, Life!Publish, Life!Retire, Life!Finish, Life!Tamper, Life!Unpromised
  <1> QED BY <1>1, LifeInit, Invariance, PTL DEF Spec, ImplementsLife, Life!Spec

-----------------------------------------------------------------------------
(* Stable commits: what a step changes of the operation. *)

Directories == [Commit!Names -> Commit!Objects \cup {None}]

SameOp ==
  /\ op' \in Commit!OpType /\ op'.kind = op.kind /\ op'.named = op.named
  /\ op'.before = op.before /\ op'.base = op.base /\ op'.expected = op.expected

SameGoals ==
  /\ Commit!goal' = Commit!goal /\ Commit!staged' = Commit!staged /\ Commit!aside' = Commit!aside
  /\ Commit!promoted' = Commit!promoted
  /\ Commit!ofFile' = Commit!ofFile /\ Commit!deletedFrom' = Commit!deletedFrom

LEMMA GoalsStay == ASSUME SameOp PROVE SameGoals
  BY DEF SameOp, SameGoals, Commit!goal, Commit!staged, Commit!aside, Commit!promoted,
     Commit!ofFile, Commit!deletedFrom

LEMMA WentOp ==
  ASSUME Commit!TypeOK, NEW x \in Commit!Steps, Commit!GoTo(x)
  PROVE  SameOp /\ op'.step = x
  BY DEF Commit!TypeOK, Commit!OpType, Commit!GoTo, SameOp

LEMMA ReportedOp ==
  ASSUME Commit!TypeOK, NEW out \in Commit!Outcomes, NEW names \in SUBSET Commit!Names,
         Commit!Report(out, names)
  PROVE  /\ SameOp /\ op'.step = "reported" /\ op'.retained = names
         /\ op'.outcome = IF out = "uncommitted" /\ names # {} THEN "retained" ELSE out
  BY DEF Commit!TypeOK, Commit!OpType, Commit!Report, SameOp, Commit!Outcomes, Commit!Steps

LEMMA CommitSpent ==
  ASSUME Commit!TypeOK, NEW e \in Commit!Events, Commit!Spend(e)
  PROVE  commitUsed' \in [Commit!Events -> Nat] /\ commitUsed'[e] # commitUsed[e]
  BY DEF Commit!TypeOK, Commit!Spend

(* The fields of what there is. *)
LEMMA CommitTypes ==
  ASSUME Commit!TypeOK
  PROVE  /\ dir \in Directories /\ dir \in disks /\ disks \subseteq Directories
         /\ op.before \in Directories /\ op.base \subseteq Directories
         /\ op.expected \in Commit!Objects \cup {None} /\ op.kind \in Commit!Kinds \cup {None}
         /\ op.step \in Commit!Steps /\ op.named \in BOOLEAN
  BY DEF Commit!TypeOK, Commit!OpType, Directories

LEMMA FormTypes ==
  ASSUME Commit!TypeOK
  PROVE  /\ Commit!staged \in Directories /\ Commit!staged["active"] = op.before["active"]
         /\ Commit!staged["temporary"] = New /\ Commit!staged["residue"] = op.before["residue"]
         /\ Commit!staged["cleanup"] = op.before["cleanup"]
         /\ Commit!aside \in Directories /\ Commit!aside["active"] = None
         /\ Commit!aside["residue"] = op.expected
         /\ Commit!aside["temporary"] = op.before["temporary"]
         /\ Commit!aside["cleanup"] = op.before["cleanup"]
         /\ Commit!promoted \in Directories /\ Commit!promoted["active"] = None
         /\ Commit!promoted["cleanup"] = op.expected
         /\ Commit!promoted["temporary"] = op.before["temporary"]
         /\ Commit!promoted["residue"] = op.before["residue"]
  BY CommitTypes DEF Commit!staged, Commit!aside, Commit!promoted, Directories, Commit!Names,
     Commit!Objects

LEMMA GoalForms ==
  ASSUME Commit!TypeOK
  PROVE  /\ Commit!goal \in Directories
         /\ op.kind \in {"create", "replace"} => Commit!goal = [op.before EXCEPT !["active"] = New]
         /\ op.kind = "remove" => Commit!goal = [op.before EXCEPT !["active"] = None]
         /\ op.kind = "rename" => Commit!goal = Commit!aside
         /\ op.kind = "clean" => Commit!goal = [op.before EXCEPT !["cleanup"] = None]
  BY CommitTypes DEF Commit!goal, Commit!aside, Directories, Commit!Names, Commit!Objects

-----------------------------------------------------------------------------
(* How a commit ends. *)

(* What may be reported of a directory that nobody has disturbed. *)
Told(out, names) ==
  /\ \A s \in disks' : \E b \in op.base \cup {Commit!goal} : s["active"] = b["active"]
  /\ CASE out = "complete" -> disks' = {Commit!goal}
       [] out = "uncommitted" -> dir' = op.before /\ disks' \subseteq op.base
       [] out = "retained" ->
             \A s \in disks' : \E b \in op.base \cup {Commit!goal} : Commit!apart(s, names) = Commit!apart(b, names)
       [] OTHER -> \A n \in Commit!Private : dir'[n] \in {None, op.before[n], Commit!goal[n]} \/ n \in names

Kept ==
  /\ dir' \in disks' /\ disks' \subseteq Directories
  /\ payload' \in {"incomplete", "written", "synced"} /\ kids' \subseteq Children \cup {intruder}
  /\ touched' \in BOOLEAN /\ raced' \in BOOLEAN /\ disturbed' \in BOOLEAN
  /\ commitUsed' \in [Commit!Events -> Nat]
  /\ \A s \in disks' : s["temporary"] \in {None, New} /\ (s["active"] = New => payload' = "synced")

LEMMA ReportKept ==
  ASSUME Commit!Inv, NEW out \in Commit!Outcomes, NEW names \in SUBSET Commit!Names,
         Commit!Report(out, names), Kept,
         op.step # "idle", disturbed' = disturbed,
         ~disturbed => Told(IF out = "uncommitted" /\ names # {} THEN "retained" ELSE out, names)
  PROVE  Commit!Inv'
  <1> DEFINE told == IF out = "uncommitted" /\ names # {} THEN "retained" ELSE out
  <1>1. Commit!TypeOK
    BY DEF Commit!Inv
  <1>2. /\ SameOp /\ op'.step = "reported" /\ op'.retained = names
        /\ op'.outcome = told
    BY <1>1, ReportedOp
  <1>3. SameGoals
    BY <1>2, GoalsStay
  <1>4. Commit!TypeOK'
    BY <1>1, <1>2 DEF Kept, Commit!TypeOK, Directories, SameOp
  <1>5. Commit!Staged'
    BY <1>2, <1>3 DEF Commit!Inv, Commit!Staged, SameOp, SameGoals
  <1>6. Commit!Unpublished'
    BY <1>2 DEF Kept, Commit!Unpublished
  <1>7. ~disturbed => op.kind # None /\ Commit!Following
    BY DEF Commit!Inv, Commit!Staged
  <1>8. \A n \in Commit!Names : op'.before[n] = op.before[n] /\ Commit!goal'[n] = Commit!goal[n]
    BY <1>2, <1>3 DEF SameOp, SameGoals
  <1>9. Commit!OutcomeTruthful'
    <2> SUFFICES ASSUME ~disturbed
                 PROVE  CASE told = "complete"    -> disks' = {Commit!goal}
                          [] told = "uncommitted" -> dir' = op.before /\ disks' \subseteq op.base
                          [] told = "retained"    ->
                                \A s \in disks' : \E b \in op.base \cup {Commit!goal} : Commit!apart(s, names) = Commit!apart(b, names)
                          [] OTHER ->
                                \A n \in Commit!Private : dir'[n] \in {None, op.before[n], Commit!goal[n]} \/ n \in names
      BY <1>2, <1>3 DEF Commit!OutcomeTruthful, SameOp, SameGoals, Commit!apart, Commit!At
    <2> QED BY DEF Told
  <1>10. ~disturbed => Commit!Following'
    <2> SUFFICES ASSUME ~disturbed PROVE Commit!Following'
      OBVIOUS
    <2>1. \A s \in disks' : \E b \in op.base \cup {Commit!goal} : s["active"] = b["active"]
      BY DEF Told
    <2>2. /\ ~Commit!unstarted' /\ ~Commit!written' /\ ~Commit!moving' /\ ~Commit!waiting'
          /\ ~Commit!doomedPromoted'
      BY <1>2 DEF Commit!unstarted, Commit!written, Commit!moving, Commit!waiting,
         Commit!doomedPromoted
    <2> QED BY <1>2, <1>3, <1>7, <2>1, <2>2 DEF Commit!Following, Commit!Grounded,
               Commit!Arrived, Commit!Freed, SameOp, SameGoals, Commit!source
  <1> QED BY <1>4, <1>5, <1>6, <1>9, <1>10 DEF Commit!Inv

(* How it goes on. *)
LEMMA WentKept ==
  ASSUME Commit!Inv, NEW x \in Commit!Steps, SameOp, op'.step = x,
         op'.outcome \in Commit!Outcomes \cup {None},
         x \notin {"idle", "reported"}, op.step # "idle", Kept,
         Commit!Staged', disturbed' = disturbed, ~disturbed => Commit!Following',
         (Commit!ofFile /\ x \in {"validate", "temporary"}) => \A s \in disks', n \in Commit!Names : s[n] # New,
         (Commit!ofFile /\ x \in {"write", "sync payload", "revalidate", "commit", "undo"}) =>
             \A s \in disks', n \in Commit!Names : s[n] = New => n = "temporary",
         (Commit!ofFile /\ x \in {"revalidate", "commit"}) => payload' = "synced"
  PROVE  Commit!Inv'
  <1>1. Commit!TypeOK'
    BY DEF Commit!Inv, Kept, Commit!TypeOK, Directories, SameOp
  <1>2. Commit!Unpublished'
    <2>1. Commit!ofFile' = Commit!ofFile
      BY GoalsStay DEF SameGoals
    <2>2. op'.step = x
      OBVIOUS
    <2>3. \A s \in disks' : s["temporary"] \in {None, New} /\ (s["active"] = New => payload' = "synced")
      BY DEF Kept
    <2> QED BY <2>1, <2>2, <2>3 DEF Commit!Unpublished
  <1>3. Commit!OutcomeTruthful'
    BY DEF Commit!OutcomeTruthful, Commit!At
  <1> QED BY <1>1, <1>2, <1>3 DEF Commit!Inv

(* Nothing is written. *)
LEMMA KeptStill ==
  ASSUME Commit!Inv, dir' = dir, dir \in disks', disks' \subseteq disks,
         payload' = payload, kids' \subseteq Children \cup {intruder},
         touched' \in BOOLEAN, raced' \in BOOLEAN, disturbed' = disturbed, commitUsed' \in [Commit!Events -> Nat]
  PROVE  Kept
  BY CommitTypes DEF Kept, Commit!Inv, Commit!Unpublished, Commit!TypeOK

(* Every content that a commit goes through has an entry that was there or is meant to be. *)
Forms ==
  op.base \cup {Commit!goal, Commit!staged} \cup (IF op.kind \in {"remove", "rename"} THEN {Commit!aside, Commit!promoted} ELSE {})

Whole(s) == \E b \in op.base \cup {Commit!goal} : s["active"] = b["active"]

LEMMA FormsWhole ==
  ASSUME Commit!TypeOK, op.before \in op.base, NEW s \in Forms
  PROVE  Whole(s)
  <1>1. CASE s \in op.base \cup {Commit!goal}
    BY <1>1 DEF Whole
  <1>2. CASE s = Commit!staged
    BY <1>2, FormTypes DEF Whole
  <1>3. CASE op.kind \in {"remove", "rename"} /\ s \in {Commit!aside, Commit!promoted}
    BY <1>3, FormTypes, GoalForms, CommitTypes DEF Whole, Directories, Commit!Names
  <1> QED BY <1>1, <1>2, <1>3 DEF Forms

LEMMA FollowingForms ==
  ASSUME Commit!Inv, ~disturbed, op.step \notin {"idle", "reported"}
  PROVE  /\ Commit!Following /\ op.before \in op.base /\ disks \subseteq Forms
         /\ \A s \in disks : Whole(s)
  <1>1. Commit!Following
    BY DEF Commit!Inv, Commit!Staged
  <1>2. op.step \in Commit!Steps /\ Commit!Staged /\ Commit!TypeOK
    BY CommitTypes DEF Commit!Inv
  <1>3. op.before \in op.base
    BY <1>1 DEF Commit!Following, Commit!Grounded
  <1>4. Commit!unstarted => disks \subseteq Forms
    BY <1>1 DEF Commit!Following, Commit!Arrived, Commit!Between, Forms
  <1>5. Commit!written => disks \subseteq Forms
    BY <1>1 DEF Commit!Following, Commit!Arrived, Commit!Between, Forms
  <1>6. Commit!moving => disks \subseteq Forms
    <2>1. Commit!moving => op.kind \in {"remove", "rename"}
      BY <1>2 DEF Commit!moving, Commit!Staged, Commit!ofFile, Commit!Kinds, Commit!TypeOK,
         Commit!OpType
    <2> QED BY <1>1, <2>1 DEF Commit!Following, Commit!Arrived, Commit!Between, Forms
  <1>7. Commit!waiting => disks \subseteq Forms
    <2>1. Commit!waiting => op.kind = "remove"
      BY <1>2 DEF Commit!waiting, Commit!Staged
    <2> QED BY <1>1, <2>1 DEF Commit!Following, Commit!Arrived, Commit!Between, Forms
  <1>8. Commit!doomedPromoted => disks \subseteq Forms
    <2>1. Commit!doomedPromoted => op.kind = "remove"
      BY <1>2 DEF Commit!doomedPromoted, Commit!Staged
    <2> QED BY <1>1, <2>1 DEF Commit!Following, Commit!Arrived, Commit!Between, Forms
  <1>9. op.step = "sync" /\ Commit!ofFile => disks \subseteq Forms
    BY <1>1 DEF Commit!Following, Commit!Arrived, Commit!Between, Forms
  <1>10. op.step \in {"verify again", "verify absent"} => disks \subseteq Forms
    BY <1>1 DEF Commit!Following, Commit!Arrived, Commit!Between, Forms
  <1>11. op.step \in {"verify promoted", "sync promoted"} => disks \subseteq Forms
    <2>1. op.step \in {"verify promoted", "sync promoted"} => op.kind = "remove"
      BY <1>2 DEF Commit!Staged
    <2> QED BY <1>1, <2>1 DEF Commit!Following, Commit!Arrived, Commit!Between, Forms
  <1>12. op.step = "sync cleanup" => disks \subseteq Forms
    <2>1. op.step = "sync cleanup" => op.kind \in {"remove", "clean"}
      BY <1>2 DEF Commit!Staged
    <2> QED BY <1>1, <2>1 DEF Commit!Following, Commit!Arrived, Commit!Between, Forms,
               Commit!deletedFrom
  <1>13. \/ Commit!unstarted \/ Commit!written \/ Commit!moving \/ Commit!waiting \/ Commit!doomedPromoted
         \/ op.step \in {"sync cleanup", "verify promoted", "sync promoted",
                        "verify again", "verify absent"}
         \/ op.step = "sync" /\ Commit!ofFile
    BY <1>2 DEF Commit!Steps, Commit!unstarted, Commit!written, Commit!moving, Commit!waiting,
       Commit!doomedPromoted, Commit!Staged
  <1>14. disks \subseteq Forms
    BY <1>4, <1>5, <1>6, <1>7, <1>8, <1>9, <1>10, <1>11, <1>12, <1>13
  <1> QED BY <1>1, <1>2, <1>3, <1>14, FormsWhole

(* What each failure is called. *)
LEMMA FailForms ==
  ASSUME Commit!FailStep, op.step \in Commit!Steps \ {"idle", "undo", "reported"}
  PROVE  /\ op.step \in {"validate", "temporary"} => Commit!Report("uncommitted", {})
         /\ op.step \in {"write", "sync payload"} => Commit!GoTo("undo")
         /\ op.step \in {"revalidate", "commit"} /\ Commit!ofFile => Commit!GoTo("undo")
         /\ op.step \in {"revalidate", "commit"} /\ ~Commit!ofFile => Commit!Report("uncommitted", {})
         /\ op.step \in {"verify", "sync", "verify again"} /\ op.kind \in {"remove", "rename"} =>
               Commit!Report("indeterminate", {"residue"})
         /\ op.step \in {"verify", "sync", "verify again"} /\ op.kind \notin {"remove", "rename"} =>
               Commit!Report("indeterminate", {})
         /\ op.step = "promote" => Commit!Report("retained", {"residue"})
         /\ op.step = "verify promoted" => Commit!Report("indeterminate", {"residue", "cleanup"})
         /\ op.step \in {"sync promoted", "verify absent"} => Commit!Report("indeterminate", {"cleanup"})
         /\ op.step \in {"capture", "delete"} /\ op.kind = "clean" =>
               \/ Commit!Report("uncommitted", {})
               \/ \E out \in {"retained", "indeterminate"} : Commit!Report(out, {"cleanup"})
         /\ op.step \in {"capture", "delete", "sync cleanup"} /\ op.kind # "clean" /\ op.named =>
               Commit!Report("retained", {"cleanup"})
         /\ op.step \in {"capture", "delete", "sync cleanup"} /\ op.kind # "clean" /\ ~op.named =>
               Commit!Report("retained", {"residue"})
         /\ op.step = "sync cleanup" /\ op.kind = "clean" => Commit!Report("indeterminate", {"cleanup"})
  <1>1. op.step \in {"validate", "temporary"} => Commit!Report("uncommitted", {})
    BY DEF Commit!FailStep, Commit!ofFile
  <1>2. op.step \in {"write", "sync payload"} => Commit!GoTo("undo")
    BY DEF Commit!FailStep, Commit!ofFile
  <1>3. op.step \in {"revalidate", "commit"} /\ Commit!ofFile => Commit!GoTo("undo")
    BY DEF Commit!FailStep, Commit!ofFile
  <1>4. op.step \in {"revalidate", "commit"} /\ ~Commit!ofFile => Commit!Report("uncommitted", {})
    BY DEF Commit!FailStep, Commit!ofFile
  <1>5. op.step \in {"verify", "sync", "verify again"} /\ op.kind \in {"remove", "rename"} =>
          Commit!Report("indeterminate", {"residue"})
    BY DEF Commit!FailStep, Commit!ofFile
  <1>6. op.step \in {"verify", "sync", "verify again"} /\ op.kind \notin {"remove", "rename"} =>
          Commit!Report("indeterminate", {})
    BY DEF Commit!FailStep, Commit!ofFile
  <1>7. op.step = "promote" => Commit!Report("retained", {"residue"})
    BY DEF Commit!FailStep, Commit!ofFile
  <1>8. op.step = "verify promoted" => Commit!Report("indeterminate", {"residue", "cleanup"})
    BY DEF Commit!FailStep, Commit!ofFile
  <1>9. op.step \in {"sync promoted", "verify absent"} => Commit!Report("indeterminate", {"cleanup"})
    BY DEF Commit!FailStep, Commit!ofFile
  <1>10. op.step \in {"capture", "delete"} /\ op.kind = "clean" =>
          \/ Commit!Report("uncommitted", {})
          \/ \E out \in {"retained", "indeterminate"} : Commit!Report(out, {"cleanup"})
    BY DEF Commit!FailStep, Commit!ofFile
  <1>11. op.step \in {"capture", "delete", "sync cleanup"} /\ op.kind # "clean" /\ op.named =>
          Commit!Report("retained", {"cleanup"})
    BY DEF Commit!FailStep, Commit!ofFile
  <1>12. op.step \in {"capture", "delete", "sync cleanup"} /\ op.kind # "clean" /\ ~op.named =>
          Commit!Report("retained", {"residue"})
    BY DEF Commit!FailStep, Commit!ofFile
  <1>13. op.step = "sync cleanup" /\ op.kind = "clean" => Commit!Report("indeterminate", {"cleanup"})
    BY DEF Commit!FailStep, Commit!ofFile
  <1> QED BY <1>1, <1>2, <1>3, <1>4, <1>5, <1>6, <1>7, <1>8, <1>9, <1>10, <1>11, <1>12, <1>13

LEMMA ToldUncommitted ==
  ASSUME \A s \in disks' : Whole(s), dir' = op.before, disks' \subseteq op.base
  PROVE  Told("uncommitted", {})
  BY DEF Told, Whole

LEMMA ToldComplete ==
  ASSUME disks' = {Commit!goal}
  PROVE  Told("complete", {})
  BY DEF Told

LEMMA ToldRetained ==
  ASSUME NEW names \in SUBSET Commit!Names, \A s \in disks' : Whole(s),
         \A s \in disks' : \E b \in op.base \cup {Commit!goal} : Commit!apart(s, names) = Commit!apart(b, names)
  PROVE  Told("retained", names)
  BY DEF Told, Whole

LEMMA ToldIndeterminate ==
  ASSUME NEW names \in SUBSET Commit!Names, \A s \in disks' : Whole(s),
         \A n \in Commit!Private : dir'[n] \in {None, op.before[n], Commit!goal[n]} \/ n \in names
  PROVE  Told("indeterminate", names)
  BY DEF Told, Whole

(* All but the names under which something is left is as it was or as it was meant to be. *)
LEMMA FormsApart ==
  ASSUME Commit!TypeOK
  PROVE  /\ op.kind = "remove" => /\ Commit!apart(Commit!aside, {"residue"}) = Commit!apart(Commit!goal, {"residue"})
                                  /\ Commit!apart(Commit!promoted, {"cleanup"}) = Commit!apart(Commit!goal, {"cleanup"})
         /\ Commit!apart(Commit!staged, {"temporary"}) = Commit!apart(op.before, {"temporary"})
         /\ \A n \in Commit!Private \ {"residue"} : Commit!aside[n] = op.before[n]
         /\ \A n \in Commit!Private \ {"cleanup"} : Commit!promoted[n] = op.before[n]
  <1>1. op.kind = "remove" => Commit!apart(Commit!aside, {"residue"}) = Commit!apart(Commit!goal, {"residue"})
    BY FormTypes, GoalForms, CommitTypes DEF Commit!apart, Directories, Commit!Names
  <1>2. op.kind = "remove" => Commit!apart(Commit!promoted, {"cleanup"}) = Commit!apart(Commit!goal, {"cleanup"})
    BY FormTypes, GoalForms, CommitTypes DEF Commit!apart, Directories, Commit!Names
  <1>3. Commit!apart(Commit!staged, {"temporary"}) = Commit!apart(op.before, {"temporary"})
    BY FormTypes, CommitTypes DEF Commit!apart, Directories, Commit!Names
  <1> QED BY <1>1, <1>2, <1>3, FormTypes DEF Commit!Private, Commit!Names

(* A step that fails and has written nothing, or of which a part is on the disk. *)
LEMMA FailKept ==
  ASSUME Commit!Inv, Commit!FailStep, op.step \notin {"idle", "undo", "reported"},
         Kept, dir' = dir, disks' \subseteq disks, disturbed' = disturbed
  PROVE  Commit!Inv'
  <1>1. /\ Commit!TypeOK /\ Commit!Staged /\ Commit!Unpublished
        /\ op.step \in Commit!Steps \ {"idle", "undo", "reported"}
        /\ op.kind \in Commit!Kinds
    BY CommitTypes DEF Commit!Inv, Commit!Staged
  <1>2. CASE op.step \in {"write", "sync payload"} \/ (op.step \in {"revalidate", "commit"} /\ Commit!ofFile)
    <2>1. Commit!GoTo("undo") /\ SameOp /\ op'.step = "undo" /\ SameGoals
      BY <1>1, <1>2, FailForms, WentOp, GoalsStay DEF Commit!Steps
    <2>2. op'.outcome \in Commit!Outcomes \cup {None} /\ Commit!ofFile
      BY <1>1, <1>2, <2>1 DEF SameOp, Commit!OpType, Commit!Staged
    <2>3. Commit!Staged'
      BY <1>1, <2>1, <2>2 DEF Commit!Staged, SameOp, SameGoals
    <2>4. ~disturbed => Commit!Following'
      <3> SUFFICES ASSUME ~disturbed PROVE Commit!Following'
        OBVIOUS
      <3>1. Commit!Following
        BY FollowingForms
      <3>2. /\ Commit!written /\ Commit!written' /\ ~Commit!unstarted' /\ ~Commit!moving'
            /\ ~Commit!waiting' /\ ~Commit!doomedPromoted'
        BY <1>2, <2>1 DEF Commit!written, Commit!unstarted, Commit!moving, Commit!waiting,
           Commit!doomedPromoted
      <3>3. Commit!Between(Commit!staged, op.base \cup {Commit!staged})'
        BY <3>1, <3>2, <2>1 DEF Commit!Following, Commit!Arrived, Commit!Between, SameGoals,
           SameOp
      <3> QED BY <2>1, <2>2, <3>1, <3>2, <3>3 DEF Commit!Following, Commit!Grounded,
                 Commit!Arrived, Commit!Freed, SameOp, SameGoals, Commit!source
    <2>5. \A s \in disks', n \in Commit!Names : s[n] = New => n = "temporary"
      BY <1>1, <1>2, <2>2 DEF Commit!Unpublished
    <2> QED BY <2>1, <2>2, <2>3, <2>4, <2>5, WentKept DEF Commit!Steps
  <1>3. CASE ~(op.step \in {"write", "sync payload"} \/ (op.step \in {"revalidate", "commit"} /\ Commit!ofFile))
    <2>1. ~disturbed => /\ Commit!Following /\ op.before \in op.base
                        /\ \A s \in disks' : Whole(s)
      BY <1>1, FollowingForms
    <2>2. CASE Commit!unstarted /\ Commit!Report("uncommitted", {})
      <3>1. ~disturbed => Told("uncommitted", {})
        BY <2>1, <2>2, ToldUncommitted DEF Commit!Following, Commit!Arrived, Commit!Between
      <3> QED BY <2>2, <3>1, ReportKept DEF Commit!Outcomes
    <2>3. CASE op.kind = "remove" /\ op.step \in {"promote", "capture", "delete", "sync cleanup"}
      <3>1. PICK n \in {"residue", "cleanup"} :
               /\ Commit!Report("retained", {n})
               /\ n = "cleanup" => op.named /\ op.step # "promote"
               /\ n = "residue" => ~op.named \/ op.step = "promote"
        BY <1>1, <2>3, FailForms
      <3>2. ~disturbed => disks \subseteq {Commit!goal, IF n = "residue" THEN Commit!aside ELSE Commit!promoted}
        BY <2>1, <2>3, <3>1 DEF Commit!Following, Commit!Arrived, Commit!Between, Commit!waiting,
           Commit!doomedPromoted, Commit!deletedFrom
      <3>3. ~disturbed => \A s \in disks' : \E b \in op.base \cup {Commit!goal} : Commit!apart(s, {n}) = Commit!apart(b, {n})
        BY <1>1, <2>3, <3>1, <3>2, FormsApart
      <3>4. ~disturbed => Told("retained", {n})
        BY <2>1, <3>3, ToldRetained DEF Commit!Names
      <3> QED BY <3>1, <3>4, ReportKept DEF Commit!Outcomes, Commit!Names
    <2>4. CASE op.kind = "clean" /\ op.step \in {"capture", "delete"} /\ ~Commit!Report("uncommitted", {})
      <3>1. PICK out \in {"retained", "indeterminate"} : Commit!Report(out, {"cleanup"})
        BY <1>1, <2>4, FailForms
      <3>2. ~disturbed => dir' = op.before /\ disks' \subseteq op.base
        BY <2>1, <2>4 DEF Commit!Following, Commit!Arrived, Commit!Between, Commit!unstarted
      <3>3. ~disturbed => Told(out, {"cleanup"})
        BY <2>1, <3>2, ToldRetained, ToldIndeterminate DEF Commit!Names
      <3> QED BY <3>1, <3>3, ReportKept DEF Commit!Outcomes, Commit!Names
    <2>5. CASE op.step \in {"verify", "sync", "verify again"} /\ op.kind \in {"remove", "rename"}
      <3>1. Commit!Report("indeterminate", {"residue"})
        BY <1>1, <2>5, FailForms
      <3>2. ~disturbed => dir' \in {Commit!aside, Commit!goal}
        BY <2>1, <2>5 DEF Commit!Following, Commit!Arrived, Commit!Between, Commit!moving,
           Commit!ofFile
      <3>3. ~disturbed => Told("indeterminate", {"residue"})
        BY <1>1, <2>1, <3>2, FormsApart, ToldIndeterminate DEF Commit!Names
      <3> QED BY <3>1, <3>3, ReportKept DEF Commit!Outcomes, Commit!Names
    <2>6. CASE op.step \in {"verify", "sync", "verify again"} /\ Commit!ofFile
      <3>1. Commit!Report("indeterminate", {})
        BY <1>1, <2>6, FailForms DEF Commit!ofFile
      <3>2. ~disturbed => dir' = Commit!goal
        BY <1>1, <2>1, <2>6 DEF Commit!Following, Commit!Arrived, Commit!Between, Commit!Staged,
           Commit!ofFile
      <3>3. ~disturbed => Told("indeterminate", {})
        BY <1>1, <2>1, <3>2, ToldIndeterminate DEF Commit!Names
      <3> QED BY <3>1, <3>3, ReportKept DEF Commit!Outcomes, Commit!Names
    <2>7. CASE op.step \in {"verify promoted", "sync promoted"}
      <3>1. PICK names \in SUBSET Commit!Names : Commit!Report("indeterminate", names) /\ "cleanup" \in names
        BY <1>1, <2>7, FailForms DEF Commit!Names
      <3>2. ~disturbed => dir' = Commit!promoted
        BY <1>1, <2>1, <2>7 DEF Commit!Following, Commit!Arrived, Commit!Between
      <3>3. ~disturbed => Told("indeterminate", names)
        BY <1>1, <2>1, <3>1, <3>2, FormsApart, ToldIndeterminate
      <3> QED BY <3>1, <3>3, ReportKept DEF Commit!Outcomes
    <2>8. CASE op.step = "verify absent" \/ (op.step = "sync cleanup" /\ op.kind = "clean")
      <3>1. Commit!Report("indeterminate", {"cleanup"})
        BY <1>1, <2>8, FailForms
      <3>2. ~disturbed => dir' = Commit!goal
        BY <1>1, <2>1, <2>8 DEF Commit!Following, Commit!Arrived, Commit!Between
      <3>3. ~disturbed => Told("indeterminate", {"cleanup"})
        BY <1>1, <2>1, <3>2, ToldIndeterminate DEF Commit!Names
      <3> QED BY <3>1, <3>3, ReportKept DEF Commit!Outcomes, Commit!Names
    <2>9. op.step \in {"validate", "temporary"} \/ (op.step \in {"revalidate", "commit"} /\ ~Commit!ofFile)
             => Commit!unstarted /\ Commit!Report("uncommitted", {})
      BY <1>1, FailForms DEF Commit!unstarted
    <2>10. op.kind = "clean" /\ op.step \in {"capture", "delete"} => Commit!unstarted
      BY DEF Commit!unstarted
    <2>11. \/ op.step \in {"validate", "temporary"} \/ (op.step \in {"revalidate", "commit"} /\ ~Commit!ofFile)
           \/ op.kind = "remove" /\ op.step \in {"promote", "capture", "delete", "sync cleanup"}
           \/ op.kind = "clean" /\ op.step \in {"capture", "delete"}
           \/ op.step \in {"verify", "sync", "verify again"} /\ op.kind \in {"remove", "rename"}
           \/ op.step \in {"verify", "sync", "verify again"} /\ Commit!ofFile
           \/ op.step \in {"verify promoted", "sync promoted"}
           \/ op.step = "verify absent" \/ (op.step = "sync cleanup" /\ op.kind = "clean")
      BY <1>1, <1>3 DEF Commit!Staged, Commit!Steps, Commit!ofFile, Commit!Kinds
    <2> QED BY <2>2, <2>3, <2>4, <2>5, <2>6, <2>7, <2>8, <2>9, <2>10, <2>11
  <1> QED BY <1>2, <1>3

-----------------------------------------------------------------------------
(* Each step. *)

LEMMA BeginKept ==
  ASSUME Commit!Inv, NEW kind \in Commit!Kinds, NEW named \in BOOLEAN, Commit!Begin(kind, named)
  PROVE  Commit!Inv'
  <1>1. Commit!TypeOK /\ Commit!Unpublished
    BY DEF Commit!Inv
  <1>2. /\ op'.kind = kind /\ op'.step = "validate" /\ op'.named = named /\ op'.before = dir
        /\ op'.base = disks
        /\ op'.expected = (IF kind = "create" THEN None ELSE dir[Commit!source(kind)])
        /\ op' \in Commit!OpType
    <2>1. dir[Commit!source(kind)] \in Commit!Objects \cup {None}
      BY <1>1, CommitTypes DEF Directories, Commit!Names, Commit!source
    <2>2. (IF kind = "create" THEN None ELSE dir[Commit!source(kind)]) \in Commit!Objects \cup {None}
      BY <2>1
    <2>3. Commit!Empty \in Directories
      BY DEF Commit!Empty, Directories
    <2>4. Commit!NoOp \in Commit!OpType
      BY <2>3 DEF Commit!NoOp, Commit!OpType, Commit!Steps, Directories
    <2>5. op' = [Commit!NoOp EXCEPT !.kind = kind, !.step = "validate", !.named = named, !.before = dir,
                    !.base = disks, !.expected = IF kind = "create" THEN None ELSE dir[Commit!source(kind)]]
      BY DEF Commit!Begin
    <2> DEFINE reached == IF kind = "create" THEN None ELSE dir[Commit!source(kind)]
    <2>6. dir \in Directories /\ disks \in SUBSET Directories
      BY <1>1, CommitTypes
    <2>7. reached \in Commit!Objects \cup {None}
      BY <2>2
    <2>8. op' = [Commit!NoOp EXCEPT !.kind = kind, !.step = "validate", !.named = named, !.before = dir,
                    !.base = disks, !.expected = reached]
      BY <2>5
    <2> HIDE DEF reached
    <2>9. /\ op'.kind = kind /\ op'.step = "validate" /\ op'.named = named /\ op'.before = dir
          /\ op'.base = disks /\ op'.expected = reached /\ op' \in Commit!OpType
      BY <2>4, <2>6, <2>7, <2>8 DEF Commit!OpType, Commit!Steps, Directories
    <2> QED BY <2>9 DEF reached
  <1>3. /\ dir' = dir /\ disks' = disks /\ kids' = kids /\ disturbed' = FALSE
        /\ raced' = FALSE /\ touched' = FALSE /\ commitUsed' \in [Commit!Events -> Nat]
        /\ payload' = (IF kind \in {"create", "replace"} THEN "incomplete" ELSE payload)
    BY <1>1, CommitSpent DEF Commit!Begin, Commit!directory, Commit!Events
  <1>4. Commit!ofFile' <=> kind \in {"create", "replace"}
    BY <1>2 DEF Commit!ofFile
  <1>5. kind \in {"create", "replace"} => \A s \in disks, n \in Commit!Names : s[n] # New
    BY DEF Commit!Begin
  <1>6. Commit!TypeOK'
    BY <1>1, <1>2, <1>3 DEF Commit!TypeOK
  <1>7. Commit!Unpublished'
    BY <1>1, <1>2, <1>3, <1>4, <1>5 DEF Commit!Unpublished, Commit!Names
  <1>8. Commit!Staged'
    <2>1. op'.expected # theirs
      BY <1>2, StorageCommitAssumption DEF Commit!Begin, Commit!ObjectsAssumption, Commit!source
    <2>2. named => kind = "remove"
      BY DEF Commit!Begin
    <2>3. kind # None
      BY StorageCommitAssumption DEF Commit!ObjectsAssumption
    <2> QED BY <1>2, <2>1, <2>2, <2>3 DEF Commit!Staged
  <1>9. Commit!OutcomeTruthful'
    BY <1>2 DEF Commit!OutcomeTruthful, Commit!At
  <1>10. Commit!Following'
    <2>1. /\ Commit!unstarted' /\ ~Commit!written' /\ ~Commit!moving' /\ ~Commit!waiting'
          /\ ~Commit!doomedPromoted'
      BY <1>2 DEF Commit!unstarted, Commit!written, Commit!moving, Commit!waiting,
         Commit!doomedPromoted
    <2>2. \A s \in disks : s["temporary"] \in {None, New}
      BY <1>1 DEF Commit!Unpublished
    <2>3. kind \in {"create", "replace"} => \A s \in disks : s["temporary"] = None
      BY <1>5, <2>2 DEF Commit!Names
    <2>4. dir \in disks
      BY <1>1, CommitTypes
    <2> QED BY <1>2, <1>3, <1>4, <2>1, <2>3, <2>4 DEF Commit!Following, Commit!Grounded,
               Commit!Arrived, Commit!Freed, Commit!Between, Commit!source
  <1> QED BY <1>6, <1>7, <1>8, <1>9, <1>10 DEF Commit!Inv

(* What is so of every operation under way. *)
LEMMA UnderWay ==
  ASSUME Commit!Inv
  PROVE  /\ Commit!TypeOK /\ Commit!Staged /\ Commit!Unpublished /\ op.step \in Commit!Steps
         /\ op.step # "idle" => op.kind \in Commit!Kinds
         /\ \A x \in Commit!Steps : Commit!GoTo(x) =>
               /\ SameOp /\ SameGoals /\ op'.step = x
               /\ op'.outcome \in Commit!Outcomes \cup {None}
  <1>1. /\ Commit!TypeOK /\ Commit!Staged /\ Commit!Unpublished /\ op.step \in Commit!Steps
        /\ (op.step # "idle" => op.kind \in Commit!Kinds)
    BY CommitTypes DEF Commit!Inv, Commit!Staged
  <1>2. ASSUME NEW x \in Commit!Steps, Commit!GoTo(x)
        PROVE  SameOp /\ SameGoals /\ op'.step = x /\ op'.outcome \in Commit!Outcomes \cup {None}
    BY <1>1, <1>2, WentOp, GoalsStay DEF SameOp, Commit!OpType
  <1> QED BY <1>1, <1>2

(* A step that goes on knows of the beginning what it knew. *)
LEMMA GoesOn ==
  ASSUME SameOp, SameGoals, Commit!Following, op.step # "reported", op'.step # "reported",
         Commit!Arrived', Commit!Freed'
  PROVE  Commit!Following'
  <1>1. Commit!Grounded'
    BY DEF Commit!Following, Commit!Grounded, SameOp, SameGoals, Commit!source
  <1> QED BY <1>1 DEF Commit!Following

LEMMA ValidateKept ==
  ASSUME Commit!Inv, Commit!Validate
  PROVE  Commit!Inv'
  <1>1. /\ Commit!TypeOK /\ Commit!Staged /\ Commit!Unpublished /\ op.step = "validate"
        /\ op.kind \in Commit!Kinds
    BY UnderWay DEF Commit!Validate, Commit!At
  <1>2. /\ dir' = dir /\ disks' = disks /\ payload' = payload /\ kids' = kids
        /\ touched' = touched
        /\ raced' = FALSE /\ disturbed' = disturbed /\ commitUsed' = commitUsed
    BY DEF Commit!Validate, Commit!directory, Commit!files
  <1>3. Kept
    BY <1>1, <1>2, CommitTypes, KeptStill DEF Commit!TypeOK
  <1>4. CASE \E x \in {"temporary", "capture", "revalidate"} : Commit!GoTo(x)
    <2>1. PICK x \in {"temporary", "capture", "revalidate"} :
             /\ Commit!GoTo(x)
             /\ x = "temporary" => Commit!ofFile
             /\ x = "capture" => op.kind = "clean"
             /\ x = "revalidate" => op.kind \in {"remove", "rename"}
      <3>1. CASE Commit!GoTo("temporary") /\ Commit!ofFile
        BY <3>1
      <3>2. CASE Commit!GoTo("capture") /\ op.kind = "clean"
        BY <3>2
      <3>3. CASE Commit!GoTo("revalidate") /\ op.kind \in {"remove", "rename"}
        BY <3>3
      <3>4. CASE Commit!Report("uncommitted", {})
        BY <1>1, <1>4, <3>4, UnderWay, ReportedOp DEF Commit!Steps, Commit!Outcomes
      <3> QED BY <1>1, <3>1, <3>2, <3>3, <3>4 DEF Commit!Validate, Commit!ofFile, Commit!Kinds
    <2>2. SameOp /\ SameGoals /\ op'.step = x /\ op'.outcome \in Commit!Outcomes \cup {None}
      BY <2>1, UnderWay DEF Commit!Steps
    <2>3. Commit!Staged'
      BY <1>1, <2>1, <2>2 DEF Commit!Staged, SameOp, SameGoals, Commit!ofFile
    <2>4. ~disturbed => Commit!Following'
      <3> SUFFICES ASSUME ~disturbed PROVE Commit!Following'
        OBVIOUS
      <3>1. Commit!Following /\ Commit!unstarted /\ Commit!unstarted'
        BY <1>1, <2>1, <2>2, FollowingForms DEF Commit!unstarted, Commit!ofFile, SameOp, SameGoals
      <3>2. ~Commit!written' /\ ~Commit!moving' /\ ~Commit!waiting' /\ ~Commit!doomedPromoted'
        BY <1>1, <2>1, <2>2 DEF Commit!written, Commit!moving, Commit!waiting,
           Commit!doomedPromoted, SameOp, SameGoals, Commit!ofFile, Commit!Staged
      <3>3. Commit!Between(op.before, op.base)'
        BY <1>2, <2>2, <3>1 DEF Commit!Following, Commit!Arrived, Commit!Between, SameOp
      <3>4. op.named => x # "capture"
        BY <1>1, <2>1 DEF Commit!Staged
      <3>5. Commit!Arrived'
        BY <2>1, <2>2, <3>2, <3>3 DEF Commit!Arrived
      <3>6. Commit!Freed'
        BY <2>1, <2>2, <3>4 DEF Commit!Freed, SameOp
      <3> QED BY <1>1, <2>1, <2>2, <3>1, <3>5, <3>6, GoesOn
    <2>5. Commit!ofFile /\ x = "temporary" => \A s \in disks', n \in Commit!Names : s[n] # New
      BY <1>1, <1>2 DEF Commit!Unpublished
    <2> QED BY <1>1, <1>2, <1>3, <2>1, <2>2, <2>3, <2>4, <2>5, WentKept DEF Commit!Steps,
               Commit!ofFile
  <1>5. CASE Commit!Report("uncommitted", {})
    <2>1. Commit!FailStep
      BY <1>1, <1>5 DEF Commit!FailStep
    <2> QED BY <1>1, <1>2, <1>3, <2>1, FailKept
  <1> QED BY <1>4, <1>5 DEF Commit!Validate

(* The temporary file stays where it is while its payload is written. *)
LEMMA WrittenOn ==
  ASSUME Commit!Inv, ~disturbed, SameOp, SameGoals, Commit!written',
         op.step \notin {"idle", "reported"},
         Commit!Between(Commit!staged, op.base \cup {Commit!staged})',
         op'.step \in {"write", "sync payload", "revalidate", "commit", "undo"}
  PROVE  Commit!Following'
  <1>1. Commit!Following
    BY FollowingForms
  <1>2. ~Commit!unstarted' /\ ~Commit!moving' /\ ~Commit!waiting' /\ ~Commit!doomedPromoted'
    BY DEF Commit!written, Commit!unstarted, Commit!moving, Commit!waiting, Commit!doomedPromoted
  <1>3. Commit!Arrived'
    BY <1>2 DEF Commit!Arrived
  <1>4. Commit!Freed'
    BY DEF Commit!Freed
  <1> QED BY <1>1, <1>3, <1>4, GoesOn

LEMMA CreateTemporaryKept ==
  ASSUME Commit!Inv, Commit!CreateTemporary
  PROVE  Commit!Inv'
  <1>1. /\ Commit!TypeOK /\ Commit!Staged /\ Commit!Unpublished /\ op.step = "temporary"
        /\ op.kind \in Commit!Kinds /\ Commit!ofFile
        /\ SameOp /\ SameGoals /\ op'.step = "write"
        /\ op'.outcome \in Commit!Outcomes \cup {None}
    BY UnderWay DEF Commit!CreateTemporary, Commit!At, Commit!Staged, Commit!Steps
  <1>2. /\ dir' = [dir EXCEPT !["temporary"] = New] /\ disks' = disks \cup {dir'}
        /\ payload' = payload /\ kids' = kids /\ touched' = touched
        /\ raced' = raced /\ disturbed' = disturbed /\ commitUsed' = commitUsed
    BY DEF Commit!CreateTemporary, Commit!Write, Commit!files, Commit!history
  <1>3. /\ dir' \in Directories /\ dir'["active"] = dir["active"] /\ dir'["temporary"] = New
        /\ \A n \in Commit!Names \ {"temporary"} : dir'[n] = dir[n]
    BY <1>1, <1>2, CommitTypes DEF Directories, Commit!Names, Commit!Objects
  <1>4. \A s \in disks, n \in Commit!Names : s[n] # New
    BY <1>1 DEF Commit!Unpublished
  <1>5. dir \in disks /\ disks \subseteq Directories
    BY <1>1, CommitTypes
  <1>6. Kept
    BY <1>1, <1>2, <1>3, <1>4, <1>5 DEF Kept, Commit!TypeOK, Commit!Unpublished, Commit!Names
  <1>7. Commit!Staged'
    BY <1>1 DEF Commit!Staged, SameOp, SameGoals
  <1>8. ~disturbed => Commit!Following'
    <2> SUFFICES ASSUME ~disturbed PROVE Commit!Following'
      OBVIOUS
    <2>1. Commit!Between(op.before, op.base)
      BY <1>1, FollowingForms DEF Commit!Following, Commit!Arrived, Commit!unstarted
    <2>2. dir' = Commit!staged /\ disks' \subseteq op.base \cup {Commit!staged}
      BY <1>2, <2>1 DEF Commit!staged, Commit!Between
    <2>3. Commit!written' /\ Commit!Between(Commit!staged, op.base \cup {Commit!staged})'
      BY <1>1, <2>2 DEF Commit!written, Commit!Between, SameOp, SameGoals
    <2> QED BY <1>1, <2>3, WrittenOn
  <1>9. \A s \in disks', n \in Commit!Names : s[n] = New => n = "temporary"
    BY <1>2, <1>3, <1>4, <1>5
  <1> QED BY <1>1, <1>2, <1>6, <1>7, <1>8, <1>9, WentKept DEF Commit!Steps

LEMMA WritePayloadKept ==
  ASSUME Commit!Inv, Commit!WritePayload
  PROVE  Commit!Inv'
  <1>1. /\ Commit!TypeOK /\ Commit!Staged /\ Commit!Unpublished /\ op.step = "write"
        /\ op.kind \in Commit!Kinds /\ Commit!ofFile
        /\ SameOp /\ SameGoals /\ op'.step = "sync payload"
        /\ op'.outcome \in Commit!Outcomes \cup {None}
    BY UnderWay DEF Commit!WritePayload, Commit!At, Commit!Staged, Commit!Steps
  <1>2. /\ dir' = dir /\ disks' = disks /\ payload' = "written" /\ kids' = kids
        /\ touched' = touched
        /\ raced' = raced /\ disturbed' = disturbed /\ commitUsed' = commitUsed
    BY DEF Commit!WritePayload, Commit!directory, Commit!history
  <1>3. \A s \in disks', n \in Commit!Names : s[n] = New => n = "temporary"
    BY <1>1, <1>2 DEF Commit!Unpublished
  <1>4. Kept
    BY <1>1, <1>2, <1>3, CommitTypes DEF Kept, Commit!TypeOK, Commit!Unpublished, Commit!Names
  <1>5. Commit!Staged'
    BY <1>1 DEF Commit!Staged, SameOp, SameGoals
  <1>6. ~disturbed => Commit!Following'
    <2>1. ~disturbed => Commit!Between(Commit!staged, op.base \cup {Commit!staged})
      BY <1>1, FollowingForms DEF Commit!Following, Commit!Arrived, Commit!written
    <2>2. ~disturbed => Commit!written' /\ Commit!Between(Commit!staged, op.base \cup {Commit!staged})'
      BY <1>1, <1>2, <2>1 DEF Commit!written, Commit!Between, SameOp, SameGoals
    <2> QED BY <1>1, <2>2, WrittenOn
  <1> QED BY <1>1, <1>2, <1>3, <1>4, <1>5, <1>6, WentKept DEF Commit!Steps

LEMMA SyncPayloadKept ==
  ASSUME Commit!Inv, Commit!SyncPayload
  PROVE  Commit!Inv'
  <1>1. /\ Commit!TypeOK /\ Commit!Staged /\ Commit!Unpublished /\ op.step = "sync payload"
        /\ op.kind \in Commit!Kinds /\ Commit!ofFile
    BY UnderWay DEF Commit!SyncPayload, Commit!At, Commit!Staged
  <1>2. PICK x \in {"revalidate", "commit"} : Commit!GoTo(x) /\ (x = "revalidate" <=> op.kind = "replace")
    BY DEF Commit!SyncPayload
  <1>3. SameOp /\ SameGoals /\ op'.step = x /\ op'.outcome \in Commit!Outcomes \cup {None}
    BY <1>2, UnderWay DEF Commit!Steps
  <1>4. /\ dir' = dir /\ disks' = disks /\ payload' = "synced" /\ kids' = kids
        /\ touched' = touched
        /\ raced' = raced /\ disturbed' = disturbed /\ commitUsed' = commitUsed
    BY DEF Commit!SyncPayload, Commit!directory, Commit!history
  <1>5. \A s \in disks', n \in Commit!Names : s[n] = New => n = "temporary"
    BY <1>1, <1>4 DEF Commit!Unpublished
  <1>6. Kept
    BY <1>1, <1>4, CommitTypes DEF Kept, Commit!TypeOK, Commit!Unpublished, Commit!Names
  <1>7. Commit!Staged'
    BY <1>1, <1>2, <1>3 DEF Commit!Staged, SameOp, SameGoals, Commit!ofFile
  <1>8. ~disturbed => Commit!Following'
    <2>1. ~disturbed => Commit!Between(Commit!staged, op.base \cup {Commit!staged})
      BY <1>1, FollowingForms DEF Commit!Following, Commit!Arrived, Commit!written
    <2>2. ~disturbed => Commit!written' /\ Commit!Between(Commit!staged, op.base \cup {Commit!staged})'
      BY <1>1, <1>3, <1>4, <2>1 DEF Commit!written, Commit!Between, SameOp, SameGoals
    <2> QED BY <1>1, <1>3, <2>2, WrittenOn
  <1> QED BY <1>1, <1>3, <1>4, <1>5, <1>6, <1>7, <1>8, WentKept DEF Commit!Steps

LEMMA RevalidateKept ==
  ASSUME Commit!Inv, Commit!Revalidate
  PROVE  Commit!Inv'
  <1>1. /\ Commit!TypeOK /\ Commit!Staged /\ Commit!Unpublished /\ op.step = "revalidate"
        /\ op.kind \in Commit!Kinds
    BY UnderWay DEF Commit!Revalidate, Commit!At, Commit!Staged
  <1>2. /\ dir' = dir /\ disks' = disks /\ payload' = payload /\ kids' = kids
        /\ touched' = touched
        /\ raced' = FALSE /\ disturbed' = disturbed /\ commitUsed' = commitUsed
    BY DEF Commit!Revalidate, Commit!directory, Commit!files
  <1>3. Kept
    BY <1>1, <1>2, CommitTypes, KeptStill DEF Commit!TypeOK
  <1>4. CASE Commit!FailStep
    BY <1>1, <1>2, <1>3, <1>4, FailKept
  <1>5. CASE Commit!asExpected /\ Commit!GoTo("commit")
    <2>1. /\ SameOp /\ SameGoals /\ op'.step = "commit"
          /\ op'.outcome \in Commit!Outcomes \cup {None}
      BY <1>5, UnderWay DEF Commit!Steps
    <2>2. op.kind = "replace" => dir["active"] # theirs
      BY <1>1, <1>5 DEF Commit!asExpected, Commit!sameEntry, Commit!source, Commit!Staged
    <2>3. Commit!Staged'
      BY <1>1, <1>2, <2>1, <2>2 DEF Commit!Staged, SameOp, SameGoals, Commit!ofFile
    <2>4. Commit!ofFile => (\A s \in disks', n \in Commit!Names : s[n] = New => n = "temporary") /\ payload' = "synced"
      BY <1>1, <1>2 DEF Commit!Unpublished
    <2>5. ~disturbed => Commit!Following'
      <3> SUFFICES ASSUME ~disturbed PROVE Commit!Following'
        OBVIOUS
      <3>1. Commit!Following
        BY <1>1, FollowingForms
      <3>2. CASE Commit!ofFile
        <4>1. Commit!Between(Commit!staged, op.base \cup {Commit!staged})
          BY <1>1, <3>1, <3>2 DEF Commit!Following, Commit!Arrived, Commit!written
        <4>2. Commit!written' /\ Commit!Between(Commit!staged, op.base \cup {Commit!staged})'
          BY <1>2, <2>1, <3>2, <4>1 DEF Commit!written, Commit!Between, SameOp, SameGoals
        <4> QED BY <1>1, <2>1, <4>2, WrittenOn
      <3>3. CASE ~Commit!ofFile
        <4>1. Commit!Between(op.before, op.base)
          BY <1>1, <3>1, <3>3 DEF Commit!Following, Commit!Arrived, Commit!unstarted
        <4>2. ~Commit!written' /\ ~Commit!moving' /\ ~Commit!waiting' /\ ~Commit!doomedPromoted'
          BY <2>1, <3>3 DEF Commit!written, Commit!moving, Commit!waiting, Commit!doomedPromoted,
             SameGoals
        <4>3. Commit!Arrived'
          BY <1>2, <2>1, <4>1, <4>2 DEF Commit!Arrived, Commit!Between, SameOp
        <4>4. Commit!Freed'
          BY <2>1 DEF Commit!Freed
        <4> QED BY <1>1, <2>1, <3>1, <4>3, <4>4, GoesOn
      <3> QED BY <3>2, <3>3
    <2> QED BY <1>1, <1>2, <1>3, <2>1, <2>3, <2>4, <2>5, WentKept DEF Commit!Steps
  <1> QED BY <1>4, <1>5 DEF Commit!Revalidate

(* What a rename makes of the directory. *)
LEMMA MovedFile ==
  ASSUME Commit!Inv, op.step = "commit", Commit!ofFile, Commit!canRename
  PROVE  LET d == Commit!moved(Commit!from(op.kind), Commit!to(op.kind))
         IN  /\ d \in Directories /\ d["temporary"] = None /\ payload = "synced"
             /\ ~disturbed => Commit!Between(Commit!staged, op.base \cup {Commit!staged}) /\ d = Commit!goal
  <1> DEFINE d == Commit!moved(Commit!from(op.kind), Commit!to(op.kind))
  <1>1. /\ Commit!TypeOK /\ Commit!Staged /\ Commit!Unpublished
        /\ op.kind \in {"create", "replace"}
    BY UnderWay DEF Commit!ofFile
  <1>2. d = [dir EXCEPT !["active"] = dir["temporary"], !["temporary"] = None]
    BY <1>1 DEF Commit!moved, Commit!from, Commit!to
  <1>3. d \in Directories /\ d["temporary"] = None
    BY <1>1, <1>2, CommitTypes DEF Directories, Commit!Names
  <1>4. payload = "synced"
    BY <1>1 DEF Commit!Unpublished
  <1>5. ASSUME ~disturbed PROVE Commit!Between(Commit!staged, op.base \cup {Commit!staged}) /\ d = Commit!goal
    <2>1. /\ Commit!Following /\ Commit!Between(Commit!staged, op.base \cup {Commit!staged})
          /\ op.before["temporary"] = None
      BY <1>5, FollowingForms DEF Commit!Following, Commit!Grounded, Commit!Arrived,
         Commit!written
    <2>2. /\ Commit!staged["active"] = op.before["active"] /\ Commit!staged["temporary"] = New
          /\ Commit!staged["residue"] = op.before["residue"]
          /\ Commit!staged["cleanup"] = op.before["cleanup"]
      BY <1>1, FormTypes
    <2>3. Commit!goal = [op.before EXCEPT !["active"] = New]
      BY <1>1, GoalForms
    <2>4. dir = Commit!staged
      BY <2>1 DEF Commit!Between
    <2>5. Commit!staged \in Directories /\ op.before \in Directories
      BY <1>1, FormTypes, CommitTypes
    <2>6. \A n \in Commit!Names : d[n] = Commit!goal[n]
      BY <1>2, <2>1, <2>2, <2>3, <2>4, <2>5 DEF Directories, Commit!Names
    <2>7. d = Commit!goal
      BY <1>1, <1>3, <2>6, GoalForms DEF Directories
    <2> QED BY <2>1, <2>7
  <1> QED BY <1>3, <1>4, <1>5

LEMMA MovedEntry ==
  ASSUME Commit!Inv, op.step = "commit", ~Commit!ofFile, Commit!canRename
  PROVE  LET d == Commit!moved(Commit!from(op.kind), Commit!to(op.kind))
         IN  /\ d \in Directories /\ d["temporary"] = dir["temporary"] /\ d["active"] = None
             /\ op.kind \in {"remove", "rename"} /\ dir["residue"] = None
             /\ ~disturbed => /\ Commit!Between(op.before, op.base) /\ d = Commit!aside
                              /\ op.before["residue"] = None
  <1> DEFINE d == Commit!moved(Commit!from(op.kind), Commit!to(op.kind))
  <1>1. /\ Commit!TypeOK /\ Commit!Staged /\ Commit!Unpublished
        /\ op.kind \in {"remove", "rename"}
    BY UnderWay DEF Commit!ofFile, Commit!Staged, Commit!Kinds
  <1>2. d = [dir EXCEPT !["residue"] = dir["active"], !["active"] = None] /\ dir["residue"] = None
    BY <1>1 DEF Commit!moved, Commit!from, Commit!to, Commit!canRename
  <1>3. d \in Directories /\ d["temporary"] = dir["temporary"] /\ d["active"] = None
    BY <1>1, <1>2, CommitTypes DEF Directories, Commit!Names
  <1>4. ASSUME ~disturbed
        PROVE  Commit!Between(op.before, op.base) /\ d = Commit!aside /\ op.before["residue"] = None
    <2>1. /\ Commit!Following /\ Commit!Between(op.before, op.base)
          /\ op.expected = op.before["active"]
      BY <1>1, <1>4, FollowingForms DEF Commit!Following, Commit!Grounded, Commit!Arrived,
         Commit!unstarted, Commit!source
    <2>2. dir = op.before
      BY <2>1 DEF Commit!Between
    <2>3. \A n \in Commit!Names : d[n] = Commit!aside[n]
      BY <1>1, <1>2, <2>1, <2>2, FormTypes, CommitTypes DEF Directories, Commit!Names
    <2>4. d = Commit!aside
      BY <1>1, <1>3, <2>3, FormTypes DEF Directories
    <2> QED BY <1>2, <2>1, <2>2, <2>4
  <1> QED BY <1>1, <1>2, <1>3, <1>4

(* A rename of daem's own keeps what nobody but daem relies on. *)
LEMMA MovedKept ==
  ASSUME Commit!Inv, op.step = "commit", Commit!canRename,
         NEW d, d = Commit!moved(Commit!from(op.kind), Commit!to(op.kind)),
         dir' = d, disks' = disks \cup {d}, UNCHANGED <<Commit!files, Commit!history>>, commitUsed' \in [Commit!Events -> Nat]
  PROVE  Kept
  <1>1. /\ Commit!TypeOK /\ Commit!Staged /\ Commit!Unpublished
    BY UnderWay
  <1>2. /\ d \in Directories /\ d["temporary"] \in {None, New}
        /\ (d["active"] = New => payload = "synced")
    <2>1. CASE Commit!ofFile
      BY <2>1, MovedFile
    <2>2. CASE ~Commit!ofFile
      BY <1>1, <2>2, MovedEntry, CommitTypes, StorageCommitAssumption DEF Commit!Unpublished,
         Commit!ObjectsAssumption
    <2> QED BY <2>1, <2>2
  <1> QED BY <1>1, <1>2, CommitTypes DEF Kept, Commit!TypeOK, Commit!Unpublished, Commit!files,
             Commit!history

LEMMA CommitKept ==
  ASSUME Commit!Inv, Commit!Commit
  PROVE  Commit!Inv'
  <1>1. /\ Commit!TypeOK /\ Commit!Staged /\ Commit!Unpublished /\ op.step = "commit"
        /\ op.kind \in Commit!Kinds
    BY UnderWay DEF Commit!Commit, Commit!At, Commit!Staged
  <1>2. CASE ~Commit!canRename
    <2>1. /\ Commit!FailStep /\ dir' = dir /\ disks' = disks
          /\ UNCHANGED <<Commit!files, Commit!history, commitUsed>>
      BY <1>2 DEF Commit!Commit, Commit!directory
    <2>2. Kept
      BY <1>1, <2>1, CommitTypes, KeptStill DEF Commit!TypeOK, Commit!files, Commit!history
    <2> QED BY <1>1, <2>1, <2>2, FailKept DEF Commit!history
  <1>3. CASE Commit!canRename
    <2> DEFINE d == Commit!moved(Commit!from(op.kind), Commit!to(op.kind))
               x == IF op.kind \in {"create", "replace"} THEN "sync" ELSE "verify"
    <2>1. /\ dir' = d /\ disks' = disks \cup {d} /\ UNCHANGED <<Commit!files, Commit!history>>
          /\ commitUsed' = commitUsed /\ Commit!GoTo(x)
      BY <1>3 DEF Commit!Commit, Commit!Write
    <2>2. Kept
      BY <1>1, <1>3, <2>1, MovedKept DEF Commit!TypeOK
    <2>3. SameOp /\ SameGoals /\ op'.step = x /\ op'.outcome \in Commit!Outcomes \cup {None}
      BY <2>1, UnderWay DEF Commit!Steps
    <2>4. x \in {"sync", "verify"} /\ (x = "sync" <=> Commit!ofFile)
      BY DEF Commit!ofFile
    <2>5. Commit!Staged'
      BY <1>1, <2>3, <2>4 DEF Commit!Staged, SameOp, SameGoals, Commit!ofFile, Commit!Kinds
    <2>6. ~disturbed => Commit!Following'
      <3> SUFFICES ASSUME ~disturbed PROVE Commit!Following'
        OBVIOUS
      <3>1. Commit!Following
        BY <1>1, FollowingForms
      <3>2. /\ ~Commit!unstarted' /\ ~Commit!written' /\ ~Commit!waiting'
            /\ ~Commit!doomedPromoted' /\ (Commit!moving' <=> ~Commit!ofFile)
        BY <2>3, <2>4 DEF Commit!unstarted, Commit!written, Commit!moving, Commit!waiting,
           Commit!doomedPromoted, SameGoals
      <3>3. CASE Commit!ofFile
        <4>1. Commit!Between(Commit!goal, op.base \cup {Commit!staged, Commit!goal})'
          BY <1>1, <1>3, <2>1, <2>3, <3>3, MovedFile DEF Commit!Between, SameOp, SameGoals
        <4>2. Commit!Arrived'
          BY <2>3, <2>4, <3>2, <3>3, <4>1 DEF Commit!Arrived, SameGoals
        <4>3. Commit!Freed'
          BY <1>1, <2>3, <2>4, <3>3 DEF Commit!Freed, SameOp, Commit!ofFile, Commit!Staged
        <4> QED BY <1>1, <2>3, <2>4, <3>1, <4>2, <4>3, GoesOn
      <3>4. CASE ~Commit!ofFile
        <4>1. /\ Commit!Between(Commit!aside, op.base \cup {Commit!aside})'
              /\ op.before["residue"] = None
          BY <1>1, <1>3, <2>1, <2>3, <3>4, MovedEntry DEF Commit!Between, SameOp, SameGoals
        <4>2. Commit!Arrived'
          BY <2>3, <2>4, <3>2, <3>4, <4>1 DEF Commit!Arrived, SameGoals
        <4>3. Commit!Freed'
          BY <2>3, <2>4, <3>4, <4>1 DEF Commit!Freed, SameOp
        <4> QED BY <1>1, <2>3, <2>4, <3>1, <4>2, <4>3, GoesOn
      <3> QED BY <3>3, <3>4
    <2>7. disturbed' = disturbed
      BY <2>1 DEF Commit!history
    <2> QED BY <1>1, <2>2, <2>3, <2>4, <2>5, <2>6, <2>7, WentKept DEF Commit!Steps
  <1> QED BY <1>2, <1>3

LEMMA CommitUnknownKept ==
  ASSUME Commit!Inv, Commit!CommitUnknown
  PROVE  Commit!Inv'
  <1> DEFINE d == Commit!moved(Commit!from(op.kind), Commit!to(op.kind))
             n == IF op.kind \in {"create", "replace"} THEN "temporary" ELSE "residue"
  <1>1. /\ Commit!TypeOK /\ Commit!Staged /\ Commit!Unpublished /\ op.step = "commit"
        /\ op.kind \in Commit!Kinds /\ Commit!canRename
    BY UnderWay DEF Commit!CommitUnknown, Commit!At, Commit!Staged
  <1>2. /\ (dir' = d /\ disks' = disks \cup {d}) \/ (dir' = dir /\ disks' = disks)
        /\ UNCHANGED <<Commit!files, Commit!history>> /\ Commit!Report("indeterminate", {n})
        /\ commitUsed' \in [Commit!Events -> Nat]
    BY <1>1, CommitSpent DEF Commit!CommitUnknown, Commit!Write, Commit!directory, Commit!Events
  <1>3. Kept
    <2>1. CASE dir' = d /\ disks' = disks \cup {d}
      BY <1>1, <1>2, <2>1, MovedKept
    <2>2. CASE dir' = dir /\ disks' = disks
      BY <1>1, <1>2, <2>2, CommitTypes, KeptStill DEF Commit!TypeOK, Commit!files, Commit!history
    <2> QED BY <1>2, <2>1, <2>2
  <1>4. ~disturbed => Told("indeterminate", {n})
    <2> SUFFICES ASSUME ~disturbed PROVE Told("indeterminate", {n})
      OBVIOUS
    <2>1. /\ op.before \in op.base /\ \A s \in disks : Whole(s)
      BY <1>1, FollowingForms
    <2>2. CASE Commit!ofFile
      <3>1. d = Commit!goal /\ dir = Commit!staged /\ n = "temporary"
        BY <1>1, <2>2, MovedFile DEF Commit!Between, Commit!ofFile
      <3>2. \A m \in Commit!Private : dir'[m] \in {None, op.before[m], Commit!goal[m]} \/ m \in {n}
        BY <1>1, <1>2, <3>1, FormTypes DEF Commit!Private, Commit!Names
      <3>3. \A s \in disks' : Whole(s)
        BY <1>1, <1>2, <2>1, <3>1, FormsWhole DEF Forms
      <3> QED BY <3>1, <3>2, <3>3, ToldIndeterminate DEF Commit!Names
    <2>3. CASE ~Commit!ofFile
      <3>1. /\ d = Commit!aside /\ dir = op.before /\ n = "residue"
            /\ op.kind \in {"remove", "rename"}
        BY <1>1, <2>3, MovedEntry DEF Commit!Between, Commit!ofFile
      <3>2. \A m \in Commit!Private : dir'[m] \in {None, op.before[m], Commit!goal[m]} \/ m \in {n}
        BY <1>1, <1>2, <3>1, FormTypes DEF Commit!Private, Commit!Names
      <3>3. \A s \in disks' : Whole(s)
        BY <1>1, <1>2, <2>1, <3>1, FormsWhole DEF Forms
      <3> QED BY <3>1, <3>2, <3>3, ToldIndeterminate DEF Commit!Names
    <2> QED BY <2>2, <2>3
  <1>5. {n} \in SUBSET Commit!Names /\ disturbed' = disturbed
    BY <1>2 DEF Commit!Names, Commit!history
  <1> QED BY <1>1, <1>2, <1>3, <1>4, <1>5, ReportKept DEF Commit!Outcomes

(* The directory without the temporary file. *)
LEMMA Undone ==
  ASSUME Commit!Inv, op.step = "undo"
  PROVE  LET d == [dir EXCEPT !["temporary"] = None]
         IN  /\ d \in Directories /\ d["temporary"] = None
             /\ d["active"] = New => payload = "synced"
             /\ ~disturbed => Commit!Between(Commit!staged, op.base \cup {Commit!staged}) /\ d = op.before
  <1> DEFINE d == [dir EXCEPT !["temporary"] = None]
  <1>1. Commit!TypeOK /\ Commit!Staged /\ Commit!Unpublished /\ Commit!ofFile
    BY UnderWay DEF Commit!Staged
  <1>2. d \in Directories /\ d["temporary"] = None /\ d["active"] = dir["active"]
        /\ d["residue"] = dir["residue"] /\ d["cleanup"] = dir["cleanup"]
    BY <1>1, CommitTypes DEF Directories, Commit!Names
  <1>3. d["active"] = New => payload = "synced"
    BY <1>1, <1>2, CommitTypes DEF Commit!Unpublished
  <1>4. ASSUME ~disturbed PROVE Commit!Between(Commit!staged, op.base \cup {Commit!staged}) /\ d = op.before
    <2>1. /\ Commit!Following /\ Commit!Between(Commit!staged, op.base \cup {Commit!staged})
          /\ op.before["temporary"] = None
      BY <1>1, <1>4, FollowingForms DEF Commit!Following, Commit!Grounded, Commit!Arrived,
         Commit!written
    <2>2. \A n \in Commit!Names : d[n] = op.before[n]
      BY <1>1, <1>2, <2>1, FormTypes DEF Commit!Names, Commit!Between
    <2>3. d = op.before
      BY <1>1, <1>2, <2>2, CommitTypes DEF Directories
    <2> QED BY <2>1, <2>3
  <1> QED BY <1>2, <1>3, <1>4

LEMMA UndoKept ==
  ASSUME Commit!Inv, Commit!Undo
  PROVE  Commit!Inv'
  <1> DEFINE d == [dir EXCEPT !["temporary"] = None]
  <1>1. Commit!TypeOK /\ op.step = "undo"
    BY UnderWay DEF Commit!Undo, Commit!At
  <1>2. /\ dir' = d /\ disks' = {d} /\ Commit!Report("uncommitted", {})
        /\ payload' = payload /\ kids' = kids /\ touched' = touched
        /\ raced' = raced /\ disturbed' = disturbed /\ commitUsed' = commitUsed
    BY DEF Commit!Undo, Commit!files, Commit!history
  <1>3. Kept
    BY <1>1, <1>2, Undone DEF Kept, Commit!TypeOK
  <1>4. ~disturbed => Told("uncommitted", {})
    <2> SUFFICES ASSUME ~disturbed PROVE Told("uncommitted", {})
      OBVIOUS
    <2>1. d = op.before /\ op.before \in op.base
      BY <1>1, Undone, FollowingForms
    <2>2. \A s \in disks' : Whole(s)
      BY <1>2, <2>1 DEF Whole
    <2> QED BY <1>2, <2>1, <2>2, ToldUncommitted
  <1> QED BY <1>1, <1>2, <1>3, <1>4, ReportKept DEF Commit!Outcomes

LEMMA UndoFailsKept ==
  ASSUME Commit!Inv, Commit!UndoFails
  PROVE  Commit!Inv'
  <1> DEFINE d == [dir EXCEPT !["temporary"] = None]
  <1>1. Commit!TypeOK /\ op.step = "undo" /\ Commit!Unpublished
    BY UnderWay DEF Commit!UndoFails, Commit!At
  <1>2. /\ (dir' = d /\ disks' = disks \cup {d}) \/ (dir' = dir /\ disks' = disks)
        /\ Commit!Report("uncommitted", {"temporary"}) /\ commitUsed' \in [Commit!Events -> Nat]
        /\ payload' = payload /\ kids' = kids /\ touched' = touched
        /\ raced' = raced /\ disturbed' = disturbed
    BY <1>1, CommitSpent DEF Commit!UndoFails, Commit!Write, Commit!directory, Commit!files,
       Commit!history, Commit!Events
  <1>3. Kept
    BY <1>1, <1>2, Undone, CommitTypes DEF Kept, Commit!TypeOK, Commit!Unpublished
  <1>4. ~disturbed => Told("retained", {"temporary"})
    <2> SUFFICES ASSUME ~disturbed PROVE Told("retained", {"temporary"})
      OBVIOUS
    <2>1. /\ d = op.before /\ op.before \in op.base
          /\ disks \subseteq op.base \cup {Commit!staged}
          /\ \A s \in disks : Whole(s)
      BY <1>1, Undone, FollowingForms DEF Commit!Between
    <2>2. \A s \in disks' : Whole(s)
      BY <1>2, <2>1 DEF Whole
    <2>3. disks' \subseteq op.base \cup {Commit!staged}
      BY <1>2, <2>1
    <2>4. \A s \in disks' : \E b \in op.base \cup {Commit!goal} :
             Commit!apart(s, {"temporary"}) = Commit!apart(b, {"temporary"})
      BY <1>1, <2>1, <2>3, FormsApart
    <2> QED BY <2>2, <2>4, ToldRetained DEF Commit!Names
  <1>5. {"temporary"} # {} /\ {"temporary"} \in SUBSET Commit!Names
    BY DEF Commit!Names
  <1> QED BY <1>1, <1>2, <1>3, <1>4, <1>5, ReportKept DEF Commit!Outcomes

LEMMA VerifyMovedKept ==
  ASSUME Commit!Inv, Commit!VerifyMoved
  PROVE  Commit!Inv'
  <1>1. /\ Commit!TypeOK /\ Commit!Staged /\ Commit!Unpublished /\ op.step = "verify"
        /\ op.kind \in {"remove", "rename"}
    BY UnderWay DEF Commit!VerifyMoved, Commit!At, Commit!Staged
  <1>2. /\ dir' = dir /\ disks' = disks /\ payload' = payload /\ kids' = kids /\ touched' = FALSE
        /\ raced' = raced /\ disturbed' = disturbed /\ commitUsed' = commitUsed
    BY DEF Commit!VerifyMoved, Commit!directory, Commit!history
  <1>3. Kept
    BY <1>1, <1>2, CommitTypes, KeptStill DEF Commit!TypeOK
  <1>4. CASE Commit!FailStep
    BY <1>1, <1>2, <1>3, <1>4, FailKept
  <1>5. CASE Commit!GoTo("sync")
    <2>1. SameOp /\ SameGoals /\ op'.step = "sync" /\ op'.outcome \in Commit!Outcomes \cup {None}
      BY <1>5, UnderWay DEF Commit!Steps
    <2>2. Commit!Staged'
      BY <1>1, <2>1 DEF Commit!Staged, SameOp, SameGoals
    <2>3. ~disturbed => Commit!Following'
      <3> SUFFICES ASSUME ~disturbed PROVE Commit!Following'
        OBVIOUS
      <3>1. /\ Commit!Following /\ Commit!Between(Commit!aside, op.base \cup {Commit!aside})
            /\ op.before["residue"] = None /\ ~Commit!ofFile
        BY <1>1, FollowingForms DEF Commit!Following, Commit!Arrived, Commit!Freed,
           Commit!moving, Commit!ofFile
      <3>2. ~Commit!unstarted' /\ ~Commit!written' /\ ~Commit!waiting' /\ ~Commit!doomedPromoted'
        BY <2>1, <3>1 DEF Commit!unstarted, Commit!written, Commit!waiting,
           Commit!doomedPromoted, SameGoals
      <3>3. Commit!Between(Commit!aside, op.base \cup {Commit!aside})'
        BY <1>2, <2>1, <3>1 DEF Commit!Between, SameOp, SameGoals
      <3>4. Commit!Arrived'
        BY <2>1, <3>1, <3>2, <3>3 DEF Commit!Arrived, SameGoals
      <3>5. Commit!Freed'
        BY <2>1, <3>1 DEF Commit!Freed, SameOp
      <3> QED BY <1>1, <2>1, <3>1, <3>4, <3>5, GoesOn
    <2> QED BY <1>1, <1>2, <1>3, <2>1, <2>2, <2>3, WentKept DEF Commit!Steps
  <1> QED BY <1>4, <1>5 DEF Commit!VerifyMoved

(* A sync leaves what a process sees. *)
LEMMA SyncedKept ==
  ASSUME Commit!Inv, Commit!Sync, payload' = payload, kids' = kids, touched' = touched,
         raced' = raced, disturbed' = disturbed, commitUsed' \in [Commit!Events -> Nat]
  PROVE  Kept /\ dir' = dir /\ disks' = {dir} /\ disks' \subseteq disks
  <1>1. Commit!TypeOK /\ dir' = dir /\ disks' = {dir}
    BY UnderWay DEF Commit!Sync
  <1> QED BY <1>1, CommitTypes, KeptStill DEF Commit!TypeOK

LEMMA SyncParentKept ==
  ASSUME Commit!Inv, Commit!SyncParent
  PROVE  Commit!Inv'
  <1>1. /\ Commit!TypeOK /\ Commit!Staged /\ op.step = "sync"
        /\ op.kind \in Commit!Kinds \ {"clean"}
    BY UnderWay DEF Commit!SyncParent, Commit!At, Commit!Staged
  <1>2. PICK x \in {"promote", "capture", "verify again"} :
           /\ Commit!GoTo(x)
           /\ x = "promote" <=> op.kind = "remove" /\ op.named
           /\ x = "capture" <=> op.kind = "remove" /\ ~op.named
    BY DEF Commit!SyncParent
  <1>3. SameOp /\ SameGoals /\ op'.step = x /\ op'.outcome \in Commit!Outcomes \cup {None}
    BY <1>2, UnderWay DEF Commit!Steps
  <1>4. Kept /\ dir' = dir /\ disks' = {dir} /\ disturbed' = disturbed
    BY <1>1, SyncedKept DEF Commit!SyncParent, Commit!files, Commit!history, Commit!TypeOK
  <1>5. Commit!Staged'
    BY <1>1, <1>2, <1>3 DEF Commit!Staged, SameOp, SameGoals, Commit!ofFile, Commit!Kinds
  <1>6. ~disturbed => Commit!Following'
    <2> SUFFICES ASSUME ~disturbed PROVE Commit!Following'
      OBVIOUS
    <2>1. Commit!Following
      BY <1>1, FollowingForms
    <2>2. ~Commit!unstarted' /\ ~Commit!written' /\ ~Commit!moving' /\ ~Commit!doomedPromoted'
      BY <1>2, <1>3 DEF Commit!unstarted, Commit!written, Commit!moving, Commit!doomedPromoted,
         SameOp
    <2>3. CASE Commit!ofFile
      <3>1. Commit!Between(Commit!goal, {Commit!goal})'
        BY <1>1, <1>3, <1>4, <2>1, <2>3 DEF Commit!Following, Commit!Arrived, Commit!Between,
           SameGoals
      <3>2. Commit!Arrived'
        BY <1>2, <1>3, <2>2, <2>3, <3>1 DEF Commit!Arrived, Commit!waiting, SameOp, Commit!ofFile
      <3>3. Commit!Freed'
        BY <1>1, <1>3, <2>3 DEF Commit!Freed, SameOp, Commit!ofFile, Commit!Staged
      <3> QED BY <1>1, <1>2, <1>3, <2>1, <3>2, <3>3, GoesOn
    <2>4. CASE ~Commit!ofFile
      <3>1. Commit!Between(Commit!aside, {Commit!aside})' /\ op.before["residue"] = None
        BY <1>1, <1>3, <1>4, <2>1, <2>4
           DEF Commit!Following, Commit!Arrived, Commit!Freed, Commit!Between, SameGoals,
               Commit!moving, Commit!ofFile, Commit!Kinds
      <3>2. x = "verify again" => Commit!goal = Commit!aside
        BY <1>1, <1>2, <2>4, GoalForms DEF Commit!ofFile, Commit!Kinds
      <3>3. Commit!Arrived'
        BY <1>2, <1>3, <2>2, <2>4, <3>1, <3>2 DEF Commit!Arrived, Commit!Between, SameGoals
      <3>4. Commit!Freed'
        BY <1>1, <1>2, <1>3, <3>1 DEF Commit!Freed, SameOp
      <3> QED BY <1>1, <1>2, <1>3, <2>1, <3>3, <3>4, GoesOn
    <2> QED BY <2>3, <2>4
  <1> QED BY <1>1, <1>2, <1>3, <1>4, <1>5, <1>6, WentKept DEF Commit!Steps

(* What is verified last is complete. *)
LEMMA CompletedKept ==
  ASSUME Commit!Inv, op.step # "idle", Commit!Report("complete", {}), Kept, disturbed' = disturbed,
         ~disturbed => disks' = {Commit!goal}
  PROVE  Commit!Inv'
  <1>1. ~disturbed => Told("complete", {})
    BY ToldComplete
  <1> QED BY <1>1, ReportKept DEF Commit!Outcomes

LEMMA VerifyAgainKept ==
  ASSUME Commit!Inv, Commit!VerifyAgain
  PROVE  Commit!Inv'
  <1>1. Commit!TypeOK /\ op.step = "verify again"
    BY UnderWay DEF Commit!VerifyAgain, Commit!At
  <1>2. /\ dir' = dir /\ disks' = disks /\ payload' = payload /\ kids' = kids
        /\ touched' = touched
        /\ raced' = raced /\ disturbed' = disturbed /\ commitUsed' = commitUsed
    BY DEF Commit!VerifyAgain, Commit!directory, Commit!files, Commit!history
  <1>3. Kept
    BY <1>1, <1>2, CommitTypes, KeptStill DEF Commit!TypeOK
  <1>4. CASE Commit!FailStep
    BY <1>1, <1>2, <1>3, <1>4, FailKept
  <1>5. CASE Commit!Report("complete", {})
    <2>1. ~disturbed => dir \in disks /\ Commit!Between(Commit!goal, {Commit!goal})
      BY <1>1, FollowingForms, CommitTypes DEF Commit!Following, Commit!Arrived
    <2> QED BY <1>1, <1>2, <1>3, <1>5, <2>1, CompletedKept DEF Commit!Between
  <1> QED BY <1>4, <1>5 DEF Commit!VerifyAgain

(* The second rename of a removal by name. *)
LEMMA PromotedEntry ==
  ASSUME Commit!Inv, op.step = "promote", dir["cleanup"] = None
  PROVE  LET d == Commit!moved("residue", "cleanup")
         IN  /\ d \in Directories /\ d["temporary"] = dir["temporary"] /\ d["active"] = dir["active"]
             /\ ~disturbed => /\ Commit!Between(Commit!aside, {Commit!aside}) /\ d = Commit!promoted
                              /\ op.before["residue"] = None /\ op.before["cleanup"] = None
  <1> DEFINE d == Commit!moved("residue", "cleanup")
  <1>1. Commit!TypeOK /\ Commit!Staged /\ op.named /\ op.kind = "remove"
    BY UnderWay DEF Commit!Staged
  <1>2. d = [dir EXCEPT !["cleanup"] = dir["residue"], !["residue"] = None]
    BY DEF Commit!moved
  <1>3. d \in Directories /\ d["temporary"] = dir["temporary"] /\ d["active"] = dir["active"]
    BY <1>1, <1>2, CommitTypes DEF Directories, Commit!Names
  <1>4. ASSUME ~disturbed
        PROVE  /\ Commit!Between(Commit!aside, {Commit!aside}) /\ d = Commit!promoted
               /\ op.before["residue"] = None /\ op.before["cleanup"] = None
    <2>1. /\ Commit!Following /\ Commit!Between(Commit!aside, {Commit!aside})
          /\ op.before["residue"] = None
      BY <1>1, <1>4, FollowingForms DEF Commit!Following, Commit!Arrived, Commit!Freed,
         Commit!waiting
    <2>2. dir = Commit!aside /\ op.before["cleanup"] = None
      BY <1>1, <2>1, FormTypes DEF Commit!Between
    <2>3. \A n \in Commit!Names : d[n] = Commit!promoted[n]
      BY <1>1, <1>2, <2>1, <2>2, FormTypes, CommitTypes DEF Directories, Commit!Names
    <2>4. d = Commit!promoted
      BY <1>1, <1>3, <2>3, FormTypes DEF Directories
    <2> QED BY <2>1, <2>2, <2>4
  <1> QED BY <1>3, <1>4

LEMMA PromotedKept ==
  ASSUME Commit!Inv, op.step = "promote", dir["cleanup"] = None,
         NEW d, d = Commit!moved("residue", "cleanup"),
         dir' = d, disks' = disks \cup {d}, UNCHANGED <<Commit!files, Commit!history>>, commitUsed' \in [Commit!Events -> Nat]
  PROVE  Kept
  <1>1. Commit!TypeOK /\ Commit!Unpublished
    BY UnderWay
  <1> QED BY <1>1, PromotedEntry, CommitTypes DEF Kept, Commit!TypeOK, Commit!Unpublished,
             Commit!files, Commit!history

LEMMA PromoteKept ==
  ASSUME Commit!Inv, Commit!Promote
  PROVE  Commit!Inv'
  <1>1. Commit!TypeOK /\ Commit!Staged /\ op.step = "promote" /\ op.named /\ op.kind = "remove"
    BY UnderWay DEF Commit!Promote, Commit!At, Commit!Staged
  <1>2. CASE dir["cleanup"] # None
    <2>1. /\ Commit!FailStep /\ dir' = dir /\ disks' = disks
          /\ UNCHANGED <<Commit!files, Commit!history, commitUsed>>
      BY <1>2 DEF Commit!Promote, Commit!directory
    <2>2. Kept
      BY <1>1, <2>1, CommitTypes, KeptStill DEF Commit!TypeOK, Commit!files, Commit!history
    <2> QED BY <1>1, <2>1, <2>2, FailKept DEF Commit!history
  <1>3. CASE dir["cleanup"] = None
    <2> DEFINE d == Commit!moved("residue", "cleanup")
    <2>1. /\ dir' = d /\ disks' = disks \cup {d} /\ UNCHANGED <<Commit!files, Commit!history>>
          /\ commitUsed' = commitUsed
          /\ Commit!GoTo("verify promoted")
      BY <1>3 DEF Commit!Promote, Commit!Write
    <2>2. Kept
      BY <1>1, <1>3, <2>1, PromotedKept DEF Commit!TypeOK
    <2>3. /\ SameOp /\ SameGoals /\ op'.step = "verify promoted"
          /\ op'.outcome \in Commit!Outcomes \cup {None}
      BY <2>1, UnderWay DEF Commit!Steps
    <2>4. Commit!Staged'
      BY <1>1, <2>3 DEF Commit!Staged, SameOp, SameGoals
    <2>5. ~disturbed => Commit!Following'
      <3> SUFFICES ASSUME ~disturbed PROVE Commit!Following'
        OBVIOUS
      <3>1. /\ Commit!Following /\ Commit!Between(Commit!aside, {Commit!aside})
            /\ d = Commit!promoted
            /\ op.before["residue"] = None /\ op.before["cleanup"] = None
        BY <1>1, <1>3, FollowingForms, PromotedEntry
      <3>2. /\ ~Commit!unstarted' /\ ~Commit!written' /\ ~Commit!moving' /\ ~Commit!waiting'
            /\ ~Commit!doomedPromoted'
        BY <2>3 DEF Commit!unstarted, Commit!written, Commit!moving, Commit!waiting,
           Commit!doomedPromoted
      <3>3. Commit!Between(Commit!promoted, {Commit!aside, Commit!promoted})'
        BY <2>1, <2>3, <3>1 DEF Commit!Between, SameGoals
      <3>4. Commit!Arrived'
        BY <2>3, <3>2, <3>3 DEF Commit!Arrived
      <3>5. Commit!Freed'
        BY <2>3, <3>1 DEF Commit!Freed, SameOp
      <3> QED BY <1>1, <2>3, <3>1, <3>4, <3>5, GoesOn
    <2>6. disturbed' = disturbed /\ ~Commit!ofFile
      BY <1>1, <2>1 DEF Commit!history, Commit!ofFile
    <2> QED BY <1>1, <2>2, <2>3, <2>4, <2>5, <2>6, WentKept DEF Commit!Steps
  <1> QED BY <1>2, <1>3

LEMMA PromoteUnknownKept ==
  ASSUME Commit!Inv, Commit!PromoteUnknown
  PROVE  Commit!Inv'
  <1> DEFINE d == Commit!moved("residue", "cleanup")
  <1>1. /\ Commit!TypeOK /\ Commit!Staged /\ op.step = "promote" /\ op.named /\ op.kind = "remove"
        /\ dir["cleanup"] = None
    BY UnderWay DEF Commit!PromoteUnknown, Commit!At, Commit!Staged
  <1>2. /\ (dir' = d /\ disks' = disks \cup {d}) \/ (dir' = dir /\ disks' = disks)
        /\ UNCHANGED <<Commit!files, Commit!history>>
        /\ Commit!Report("indeterminate", {"residue", "cleanup"})
        /\ commitUsed' \in [Commit!Events -> Nat]
    BY <1>1, CommitSpent DEF Commit!PromoteUnknown, Commit!Write, Commit!directory, Commit!Events
  <1>3. Kept
    <2>1. CASE dir' = d /\ disks' = disks \cup {d}
      BY <1>1, <1>2, <2>1, PromotedKept
    <2>2. CASE dir' = dir /\ disks' = disks
      BY <1>1, <1>2, <2>2, CommitTypes, KeptStill DEF Commit!TypeOK, Commit!files, Commit!history
    <2> QED BY <1>2, <2>1, <2>2
  <1>4. ~disturbed => Told("indeterminate", {"residue", "cleanup"})
    <2> SUFFICES ASSUME ~disturbed PROVE Told("indeterminate", {"residue", "cleanup"})
      OBVIOUS
    <2>1. /\ op.before \in op.base /\ \A s \in disks : Whole(s)
          /\ d = Commit!promoted /\ dir = Commit!aside
      BY <1>1, FollowingForms, PromotedEntry DEF Commit!Between
    <2>2. \A m \in Commit!Private : dir'[m] \in {None, op.before[m], Commit!goal[m]} \/ m \in {"residue", "cleanup"}
      BY <1>1, <1>2, <2>1, FormTypes DEF Commit!Private, Commit!Names
    <2>3. \A s \in disks' : Whole(s)
      BY <1>1, <1>2, <2>1, FormsWhole DEF Forms
    <2> QED BY <2>2, <2>3, ToldIndeterminate DEF Commit!Names
  <1>5. {"residue", "cleanup"} \in SUBSET Commit!Names /\ disturbed' = disturbed
    BY <1>2 DEF Commit!Names, Commit!history
  <1> QED BY <1>1, <1>2, <1>3, <1>4, <1>5, ReportKept DEF Commit!Outcomes

LEMMA VerifyPromotedKept ==
  ASSUME Commit!Inv, Commit!VerifyPromoted
  PROVE  Commit!Inv'
  <1>1. /\ Commit!TypeOK /\ Commit!Staged /\ op.step = "verify promoted" /\ op.named
        /\ op.kind = "remove"
    BY UnderWay DEF Commit!VerifyPromoted, Commit!At, Commit!Staged
  <1>2. /\ dir' = dir /\ disks' = disks /\ payload' = payload /\ kids' = kids /\ touched' = FALSE
        /\ raced' = raced /\ disturbed' = disturbed /\ commitUsed' = commitUsed
    BY DEF Commit!VerifyPromoted, Commit!directory, Commit!history
  <1>3. Kept
    BY <1>1, <1>2, CommitTypes, KeptStill DEF Commit!TypeOK
  <1>4. CASE Commit!FailStep
    BY <1>1, <1>2, <1>3, <1>4, FailKept
  <1>5. CASE Commit!GoTo("sync promoted")
    <2>1. /\ SameOp /\ SameGoals /\ op'.step = "sync promoted"
          /\ op'.outcome \in Commit!Outcomes \cup {None}
      BY <1>5, UnderWay DEF Commit!Steps
    <2>2. Commit!Staged'
      BY <1>1, <2>1 DEF Commit!Staged, SameOp, SameGoals
    <2>3. ~disturbed => Commit!Following'
      <3> SUFFICES ASSUME ~disturbed PROVE Commit!Following'
        OBVIOUS
      <3>1. /\ Commit!Following
            /\ Commit!Between(Commit!promoted, {Commit!aside, Commit!promoted})
            /\ op.before["residue"] = None /\ op.before["cleanup"] = None
        BY <1>1, FollowingForms DEF Commit!Following, Commit!Arrived, Commit!Freed
      <3>2. /\ ~Commit!unstarted' /\ ~Commit!written' /\ ~Commit!moving' /\ ~Commit!waiting'
            /\ ~Commit!doomedPromoted'
        BY <2>1 DEF Commit!unstarted, Commit!written, Commit!moving, Commit!waiting,
           Commit!doomedPromoted
      <3>3. Commit!Between(Commit!promoted, {Commit!aside, Commit!promoted})'
        BY <1>2, <2>1, <3>1 DEF Commit!Between, SameGoals
      <3>4. Commit!Arrived'
        BY <2>1, <3>2, <3>3 DEF Commit!Arrived
      <3>5. Commit!Freed'
        BY <2>1, <3>1 DEF Commit!Freed, SameOp
      <3> QED BY <1>1, <2>1, <3>1, <3>4, <3>5, GoesOn
    <2>4. ~Commit!ofFile
      BY <1>1 DEF Commit!ofFile
    <2> QED BY <1>1, <1>2, <1>3, <2>1, <2>2, <2>3, <2>4, WentKept DEF Commit!Steps
  <1> QED BY <1>4, <1>5 DEF Commit!VerifyPromoted

LEMMA SyncPromotedKept ==
  ASSUME Commit!Inv, Commit!SyncPromoted
  PROVE  Commit!Inv'
  <1>1. /\ Commit!TypeOK /\ Commit!Staged /\ op.step = "sync promoted" /\ op.named
        /\ op.kind = "remove"
    BY UnderWay DEF Commit!SyncPromoted, Commit!At, Commit!Staged
  <1>2. SameOp /\ SameGoals /\ op'.step = "capture" /\ op'.outcome \in Commit!Outcomes \cup {None}
    BY UnderWay DEF Commit!Steps, Commit!SyncPromoted
  <1>3. Kept /\ dir' = dir /\ disks' = {dir} /\ disturbed' = disturbed
    BY <1>1, SyncedKept DEF Commit!SyncPromoted, Commit!files, Commit!history, Commit!TypeOK
  <1>4. Commit!Staged'
    BY <1>1, <1>2 DEF Commit!Staged, SameOp, SameGoals
  <1>5. ~disturbed => Commit!Following'
    <2> SUFFICES ASSUME ~disturbed PROVE Commit!Following'
      OBVIOUS
    <2>1. /\ Commit!Following /\ Commit!Between(Commit!promoted, {Commit!aside, Commit!promoted})
          /\ op.before["residue"] = None /\ op.before["cleanup"] = None
      BY <1>1, FollowingForms DEF Commit!Following, Commit!Arrived, Commit!Freed
    <2>2. ~Commit!unstarted' /\ ~Commit!written' /\ ~Commit!moving' /\ ~Commit!waiting'
      BY <1>1, <1>2 DEF Commit!unstarted, Commit!written, Commit!moving, Commit!waiting, SameOp
    <2>3. Commit!Between(Commit!promoted, {Commit!promoted})'
      BY <1>2, <1>3, <2>1 DEF Commit!Between, SameGoals
    <2>4. Commit!Arrived'
      BY <1>2, <2>2, <2>3 DEF Commit!Arrived
    <2>5. Commit!Freed'
      BY <1>2, <2>1 DEF Commit!Freed, SameOp
    <2> QED BY <1>1, <1>2, <2>1, <2>4, <2>5, GoesOn
  <1>6. ~Commit!ofFile
    BY <1>1 DEF Commit!ofFile
  <1> QED BY <1>1, <1>2, <1>3, <1>4, <1>5, <1>6, WentKept DEF Commit!Steps

(* Deleting: the operation stays, with what it has found and whether it has begun. *)
LEMMA DeletingOn ==
  ASSUME Commit!Inv, op.step \in {"capture", "delete"}, SameOp, SameGoals, op'.step = "delete",
         op'.outcome \in Commit!Outcomes \cup {None}, Kept, dir' = dir, disks' = disks,
         disturbed' = disturbed
  PROVE  Commit!Inv'
  <1>1. Commit!TypeOK /\ Commit!Staged /\ op.kind \in {"remove", "clean"} /\ ~Commit!ofFile
    BY UnderWay DEF Commit!Staged, Commit!ofFile
  <1>2. Commit!Staged'
    BY <1>1 DEF Commit!Staged, SameOp, SameGoals
  <1>3. ~disturbed => Commit!Following'
    <2> SUFFICES ASSUME ~disturbed PROVE Commit!Following'
      OBVIOUS
    <2>1. Commit!Following
      BY FollowingForms
    <2>2. /\ ~Commit!written' /\ ~Commit!moving'
          /\ Commit!unstarted' => Commit!unstarted
          /\ Commit!waiting' => Commit!waiting
          /\ Commit!doomedPromoted' => Commit!doomedPromoted
      BY DEF Commit!unstarted, Commit!written, Commit!moving, Commit!waiting,
         Commit!doomedPromoted, SameOp, SameGoals
    <2>3. Commit!Arrived'
      BY <2>1, <2>2 DEF Commit!Following, Commit!Arrived, Commit!Between, SameOp, SameGoals
    <2>4. Commit!Freed'
      BY <2>1 DEF Commit!Following, Commit!Freed, SameOp
    <2> QED BY <2>1, <2>3, <2>4, GoesOn
  <1> QED BY <1>1, <1>2, <1>3, WentKept DEF Commit!Steps

LEMMA SnapshotOp ==
  ASSUME Commit!TypeOK, NEW c \in BOOLEAN, NEW s \in SUBSET (Children \cup {intruder}),
         NEW x \in Commit!Steps,
         op' = [op EXCEPT !.step = x, !.snapshot = s, !.changed = c]
  PROVE  SameOp /\ SameGoals /\ op'.step = x /\ op'.outcome \in Commit!Outcomes \cup {None}
  <1>1. SameOp /\ op'.step = x /\ op'.outcome \in Commit!Outcomes \cup {None}
    BY DEF Commit!TypeOK, Commit!OpType, SameOp
  <1> QED BY <1>1, GoalsStay

LEMMA CaptureKept ==
  ASSUME Commit!Inv, Commit!Capture
  PROVE  Commit!Inv'
  <1>1. Commit!TypeOK /\ op.step = "capture"
    BY UnderWay DEF Commit!Capture, Commit!At
  <1>2. /\ dir' = dir /\ disks' = disks /\ payload' = payload /\ kids' = kids
        /\ touched' = touched
        /\ raced' = raced /\ disturbed' = disturbed /\ commitUsed' = commitUsed
    BY DEF Commit!Capture, Commit!directory, Commit!files, Commit!history
  <1>3. Kept
    BY <1>1, <1>2, CommitTypes, KeptStill DEF Commit!TypeOK
  <1>4. CASE Commit!FailStep
    BY <1>1, <1>2, <1>3, <1>4, FailKept
  <1>5. CASE op' = [op EXCEPT !.step = "delete", !.snapshot = Commit!contents]
    <2>1. Commit!contents \in SUBSET (Children \cup {intruder}) /\ op.changed \in BOOLEAN
      BY <1>1 DEF Commit!contents, Commit!TypeOK, Commit!OpType
    <2>2. op' = [op EXCEPT !.step = "delete", !.snapshot = Commit!contents, !.changed = op.changed]
      BY <1>1, <1>5 DEF Commit!TypeOK, Commit!OpType
    <2>3. /\ SameOp /\ SameGoals /\ op'.step = "delete"
          /\ op'.outcome \in Commit!Outcomes \cup {None}
      BY <1>1, <2>1, <2>2, SnapshotOp DEF Commit!Steps
    <2> QED BY <1>1, <1>2, <1>3, <2>3, DeletingOn
  <1> QED BY <1>4, <1>5 DEF Commit!Capture

LEMMA DeleteChildKept ==
  ASSUME Commit!Inv, Commit!DeleteChild
  PROVE  Commit!Inv'
  <1>1. Commit!TypeOK /\ op.step = "delete"
    BY UnderWay DEF Commit!DeleteChild, Commit!At
  <1>2. /\ dir' = dir /\ disks' = disks /\ payload' = payload /\ touched' = touched
        /\ raced' = raced /\ disturbed' = disturbed /\ commitUsed' = commitUsed
    BY DEF Commit!DeleteChild, Commit!directory, Commit!history
  <1>3. PICK c : \/ /\ kids' = kids \ {c}
                    /\ op' = [op EXCEPT !.snapshot = @ \ {c}, !.changed = TRUE]
                 \/ Commit!FailStep /\ kids' = kids
    BY DEF Commit!DeleteChild
  <1>4. Kept
    BY <1>1, <1>2, <1>3, CommitTypes, KeptStill DEF Commit!TypeOK
  <1>5. CASE Commit!FailStep
    BY <1>1, <1>2, <1>4, <1>5, FailKept
  <1>6. CASE op' = [op EXCEPT !.snapshot = @ \ {c}, !.changed = TRUE]
    <2>1. op.snapshot \ {c} \in SUBSET (Children \cup {intruder})
      BY <1>1 DEF Commit!TypeOK, Commit!OpType
    <2>2. op' = [op EXCEPT !.step = "delete", !.snapshot = op.snapshot \ {c}, !.changed = TRUE]
      BY <1>1, <1>6 DEF Commit!TypeOK, Commit!OpType
    <2>3. /\ SameOp /\ SameGoals /\ op'.step = "delete"
          /\ op'.outcome \in Commit!Outcomes \cup {None}
      BY <1>1, <2>1, <2>2, SnapshotOp DEF Commit!Steps
    <2> QED BY <1>1, <1>2, <1>4, <2>3, DeletingOn
  <1> QED BY <1>3, <1>5, <1>6

LEMMA DeletedEntry ==
  ASSUME Commit!Inv, op.step = "delete"
  PROVE  LET d == [dir EXCEPT ![Commit!doomed] = None]
         IN  /\ d \in Directories /\ d["temporary"] = dir["temporary"] /\ d["active"] = dir["active"]
             /\ ~disturbed => d = Commit!goal /\ disks \subseteq Commit!deletedFrom
  <1> DEFINE d == [dir EXCEPT ![Commit!doomed] = None]
  <1>1. /\ Commit!TypeOK /\ Commit!Staged /\ op.kind \in {"remove", "clean"}
        /\ Commit!doomed \in {"residue", "cleanup"}
    BY UnderWay DEF Commit!Staged, Commit!doomed
  <1>2. d \in Directories /\ d["temporary"] = dir["temporary"] /\ d["active"] = dir["active"]
    BY <1>1, CommitTypes DEF Directories, Commit!Names
  <1>3. ASSUME ~disturbed PROVE d = Commit!goal /\ disks \subseteq Commit!deletedFrom
    <2>1. Commit!Following
      BY <1>3, FollowingForms
    <2>2. CASE op.kind = "clean"
      <3>1. Commit!Between(op.before, op.base) /\ Commit!doomed = "cleanup"
        BY <2>1, <2>2 DEF Commit!Following, Commit!Arrived, Commit!unstarted, Commit!doomed
      <3> QED BY <1>1, <2>2, <3>1, GoalForms DEF Commit!Between, Commit!deletedFrom
    <2>3. CASE op.kind = "remove" /\ op.named
      <3>1. /\ Commit!Between(Commit!promoted, {Commit!promoted}) /\ Commit!doomed = "cleanup"
            /\ op.before["cleanup"] = None
        BY <2>1, <2>3 DEF Commit!Following, Commit!Arrived, Commit!Freed, Commit!doomedPromoted,
           Commit!doomed
      <3>2. \A n \in Commit!Names : d[n] = Commit!goal[n]
        BY <1>1, <2>3, <3>1, FormTypes, GoalForms, CommitTypes DEF Commit!Between, Directories,
           Commit!Names
      <3>3. d = Commit!goal
        BY <1>1, <1>2, <3>2, GoalForms DEF Directories
      <3> QED BY <2>3, <3>1, <3>3 DEF Commit!Between, Commit!deletedFrom
    <2>4. CASE op.kind = "remove" /\ ~op.named
      <3>1. /\ Commit!Between(Commit!aside, {Commit!aside}) /\ Commit!doomed = "residue"
            /\ op.before["residue"] = None
        BY <2>1, <2>4 DEF Commit!Following, Commit!Arrived, Commit!Freed, Commit!waiting,
           Commit!doomed
      <3>2. \A n \in Commit!Names : d[n] = Commit!goal[n]
        BY <1>1, <2>4, <3>1, FormTypes, GoalForms, CommitTypes DEF Commit!Between, Directories,
           Commit!Names
      <3>3. d = Commit!goal
        BY <1>1, <1>2, <3>2, GoalForms DEF Directories
      <3> QED BY <2>4, <3>1, <3>3 DEF Commit!Between, Commit!deletedFrom
    <2> QED BY <1>1, <2>2, <2>3, <2>4
  <1> QED BY <1>2, <1>3

LEMMA DeleteEntryKept ==
  ASSUME Commit!Inv, Commit!DeleteEntry
  PROVE  Commit!Inv'
  <1>1. /\ Commit!TypeOK /\ Commit!Staged /\ Commit!Unpublished /\ op.step = "delete"
        /\ op.kind \in {"remove", "clean"}
        /\ ~Commit!ofFile
    BY UnderWay DEF Commit!DeleteEntry, Commit!At, Commit!Staged, Commit!ofFile
  <1>2. /\ payload' = payload /\ kids' = kids /\ touched' = touched
        /\ raced' = raced /\ disturbed' = disturbed /\ commitUsed' = commitUsed
    BY DEF Commit!DeleteEntry, Commit!files, Commit!history
  <1>3. CASE Commit!FailStep /\ dir' = dir /\ disks' = disks
    <2>1. Kept
      BY <1>1, <1>2, <1>3, CommitTypes, KeptStill DEF Commit!TypeOK
    <2> QED BY <1>1, <1>2, <1>3, <2>1, FailKept
  <1>4. CASE ~(Commit!FailStep /\ dir' = dir /\ disks' = disks)
    <2> DEFINE d == [dir EXCEPT ![Commit!doomed] = None]
    <2>1. /\ dir' = d /\ disks' = disks \cup {d}
          /\ op' = [op EXCEPT !.step = "sync cleanup", !.changed = TRUE]
      BY <1>4 DEF Commit!DeleteEntry, Commit!Write, Commit!directory
    <2>2. Kept
      BY <1>1, <1>2, <2>1, DeletedEntry, CommitTypes DEF Kept, Commit!TypeOK, Commit!Unpublished
    <2>3. op' = [op EXCEPT !.step = "sync cleanup", !.snapshot = op.snapshot, !.changed = TRUE]
      BY <1>1, <2>1 DEF Commit!TypeOK, Commit!OpType
    <2>4. /\ SameOp /\ SameGoals /\ op'.step = "sync cleanup"
          /\ op'.outcome \in Commit!Outcomes \cup {None}
      BY <1>1, <2>3, SnapshotOp DEF Commit!Steps, Commit!TypeOK, Commit!OpType
    <2>5. Commit!Staged'
      BY <1>1, <2>4 DEF Commit!Staged, SameOp, SameGoals
    <2>6. ~disturbed => Commit!Following'
      <3> SUFFICES ASSUME ~disturbed PROVE Commit!Following'
        OBVIOUS
      <3>1. Commit!Following /\ d = Commit!goal /\ disks \subseteq Commit!deletedFrom
        BY <1>1, FollowingForms, DeletedEntry
      <3>2. /\ ~Commit!unstarted' /\ ~Commit!written' /\ ~Commit!moving' /\ ~Commit!waiting'
            /\ ~Commit!doomedPromoted'
        BY <2>4 DEF Commit!unstarted, Commit!written, Commit!moving, Commit!waiting,
           Commit!doomedPromoted
      <3>3. Commit!Between(Commit!goal, Commit!deletedFrom \cup {Commit!goal})'
        BY <2>1, <2>4, <3>1 DEF Commit!Between, SameGoals
      <3>4. Commit!Arrived'
        BY <2>4, <3>2, <3>3 DEF Commit!Arrived
      <3>5. Commit!Freed'
        BY <1>1, <2>4, <3>1 DEF Commit!Following, Commit!Freed, SameOp
      <3> QED BY <1>1, <2>4, <3>1, <3>4, <3>5, GoesOn
    <2> QED BY <1>1, <1>2, <2>2, <2>4, <2>5, <2>6, WentKept DEF Commit!Steps
  <1> QED BY <1>3, <1>4

LEMMA SyncCleanupKept ==
  ASSUME Commit!Inv, Commit!SyncCleanup
  PROVE  Commit!Inv'
  <1>1. /\ Commit!TypeOK /\ Commit!Staged /\ op.step = "sync cleanup"
        /\ op.kind \in {"remove", "clean"} /\ ~Commit!ofFile
    BY UnderWay DEF Commit!SyncCleanup, Commit!At, Commit!Staged, Commit!ofFile
  <1>2. Kept /\ dir' = dir /\ disks' = {dir} /\ disturbed' = disturbed
    BY <1>1, SyncedKept DEF Commit!SyncCleanup, Commit!files, Commit!history, Commit!TypeOK
  <1>3. ~disturbed => Commit!Following /\ dir = Commit!goal
    BY <1>1, FollowingForms DEF Commit!Following, Commit!Arrived, Commit!Between
  <1>4. CASE Commit!Report("complete", {})
    BY <1>1, <1>2, <1>3, <1>4, CompletedKept
  <1>5. CASE op.kind = "clean" /\ Commit!GoTo("verify absent")
    <2>1. /\ SameOp /\ SameGoals /\ op'.step = "verify absent"
          /\ op'.outcome \in Commit!Outcomes \cup {None}
      BY <1>5, UnderWay DEF Commit!Steps
    <2>2. Commit!Staged'
      BY <1>1, <1>5, <2>1 DEF Commit!Staged, SameOp, SameGoals
    <2>3. ~disturbed => Commit!Following'
      <3> SUFFICES ASSUME ~disturbed PROVE Commit!Following'
        OBVIOUS
      <3>1. /\ ~Commit!unstarted' /\ ~Commit!written' /\ ~Commit!moving' /\ ~Commit!waiting'
            /\ ~Commit!doomedPromoted'
        BY <2>1 DEF Commit!unstarted, Commit!written, Commit!moving, Commit!waiting,
           Commit!doomedPromoted
      <3>2. Commit!Between(Commit!goal, {Commit!goal})'
        BY <1>2, <1>3, <2>1 DEF Commit!Between, SameGoals
      <3>3. Commit!Arrived'
        BY <2>1, <3>1, <3>2 DEF Commit!Arrived
      <3>4. Commit!Freed'
        BY <2>1 DEF Commit!Freed
      <3> QED BY <1>1, <1>3, <2>1, <3>3, <3>4, GoesOn
    <2> QED BY <1>1, <1>2, <2>1, <2>2, <2>3, WentKept DEF Commit!Steps
  <1> QED BY <1>4, <1>5 DEF Commit!SyncCleanup

LEMMA VerifyAbsentKept ==
  ASSUME Commit!Inv, Commit!VerifyAbsent
  PROVE  Commit!Inv'
  <1>1. Commit!TypeOK /\ op.step = "verify absent"
    BY UnderWay DEF Commit!VerifyAbsent, Commit!At
  <1>2. /\ dir' = dir /\ disks' = disks /\ payload' = payload /\ kids' = kids
        /\ touched' = touched
        /\ raced' = raced /\ disturbed' = disturbed /\ commitUsed' = commitUsed
    BY DEF Commit!VerifyAbsent, Commit!directory, Commit!files, Commit!history
  <1>3. Kept
    BY <1>1, <1>2, CommitTypes, KeptStill DEF Commit!TypeOK
  <1>4. CASE Commit!FailStep
    BY <1>1, <1>2, <1>3, <1>4, FailKept
  <1>5. CASE Commit!Report("complete", {})
    <2>1. ~disturbed => dir \in disks /\ Commit!Between(Commit!goal, {Commit!goal})
      BY <1>1, FollowingForms, CommitTypes DEF Commit!Following, Commit!Arrived
    <2> QED BY <1>1, <1>2, <1>3, <1>5, <2>1, CompletedKept DEF Commit!Between
  <1> QED BY <1>4, <1>5 DEF Commit!VerifyAbsent

LEMMA FailedKept ==
  ASSUME Commit!Inv, Commit!Fail \/ Commit!SyncFails
  PROVE  Commit!Inv'
  <1>1. Commit!TypeOK /\ op.step \notin {"idle", "undo", "reported"} /\ Commit!FailStep
    BY UnderWay DEF Commit!Fail, Commit!SyncFails
  <1>2. commitUsed' \in [Commit!Events -> Nat]
    BY <1>1, CommitSpent DEF Commit!Fail, Commit!SyncFails, Commit!Events
  <1>3. CASE Commit!Fail
    <2>1. /\ dir' = dir /\ disks' = disks /\ payload' = payload /\ kids' = kids
          /\ touched' = touched /\ raced' = raced /\ disturbed' = disturbed
      BY <1>3 DEF Commit!Fail, Commit!directory, Commit!files, Commit!history
    <2>2. Kept
      BY <1>1, <1>2, <2>1, CommitTypes, KeptStill DEF Commit!TypeOK
    <2> QED BY <1>1, <2>1, <2>2, FailKept
  <1>4. CASE Commit!SyncFails
    <2>1. /\ Commit!Sync /\ payload' = payload /\ kids' = kids
          /\ touched' = touched /\ raced' = raced /\ disturbed' = disturbed
      BY <1>4 DEF Commit!SyncFails, Commit!files, Commit!history
    <2> QED BY <1>1, <1>2, <2>1, SyncedKept, FailKept
  <1> QED BY <1>3, <1>4

-----------------------------------------------------------------------------
(* Other programs, and failures of the machine. *)

LEMMA OtherReplacesKept ==
  ASSUME Commit!Inv, Commit!OtherReplaces
  PROVE  Commit!Inv'
  <1>1. Commit!TypeOK /\ Commit!Staged /\ Commit!Unpublished
    BY UnderWay
  <1>2. PICK o \in {None, theirs} :
           dir' = [dir EXCEPT !["active"] = o] /\ disks' = disks \cup {dir'}
    BY DEF Commit!OtherReplaces, Commit!Write
  <1>3. /\ payload' = payload /\ kids' = kids /\ touched' = touched /\ op' = op
        /\ raced' = TRUE /\ disturbed' = TRUE /\ commitUsed' \in [Commit!Events -> Nat]
    BY <1>1, CommitSpent DEF Commit!OtherReplaces, Commit!files, Commit!Events
  <1>4. /\ dir' \in Directories /\ dir'["active"] # New /\ dir'["temporary"] = dir["temporary"]
        /\ \A n \in Commit!Names \ {"active"} : dir'[n] = dir[n]
    BY <1>1, <1>2, CommitTypes, StorageCommitAssumption DEF Directories, Commit!Names,
       Commit!Objects, Commit!ObjectsAssumption
  <1>5. Commit!TypeOK'
    BY <1>1, <1>2, <1>3, <1>4 DEF Commit!TypeOK, Directories
  <1>6. Commit!Staged'
    BY <1>1, <1>3 DEF Commit!Staged, Commit!ofFile
  <1>7. Commit!Unpublished'
    <2>1. Commit!ofFile' = Commit!ofFile /\ dir \in disks
      BY <1>1, <1>3, CommitTypes DEF Commit!ofFile
    <2>2. \A s \in disks' : s \in disks \/ s = dir'
      BY <1>2
    <2>3. \A n \in Commit!Names : dir'[n] = New => n # "active" /\ dir[n] = New
      BY <1>4
    <2>4. \A s \in disks' : s["temporary"] \in {None, New} /\ (s["active"] = New => payload = "synced")
      BY <1>1, <1>4, <2>1, <2>2 DEF Commit!Unpublished
    <2>5. (Commit!ofFile /\ op.step \in {"validate", "temporary"}) => \A s \in disks', n \in Commit!Names : s[n] # New
      BY <1>1, <2>1, <2>2, <2>3 DEF Commit!Unpublished
    <2>6. (Commit!ofFile /\ op.step \in {"write", "sync payload", "revalidate", "commit", "undo"})
             => \A s \in disks', n \in Commit!Names : s[n] = New => n = "temporary"
      BY <1>1, <2>1, <2>2, <2>3 DEF Commit!Unpublished
    <2>7. (Commit!ofFile /\ op.step \in {"revalidate", "commit"}) => payload = "synced"
      BY <1>1 DEF Commit!Unpublished
    <2> QED BY <1>3, <2>1, <2>4, <2>5, <2>6, <2>7 DEF Commit!Unpublished
  <1> QED BY <1>3, <1>5, <1>6, <1>7 DEF Commit!Inv, Commit!OutcomeTruthful

LEMMA OtherAddsKept ==
  ASSUME Commit!Inv, Commit!OtherAdds
  PROVE  Commit!Inv'
  <1>1. Commit!TypeOK /\ Commit!Staged /\ Commit!Unpublished
    BY UnderWay
  <1>2. /\ dir' = dir /\ disks' = disks /\ payload' = payload /\ kids' = kids \cup {intruder}
        /\ touched' = TRUE /\ op' = op
        /\ raced' = TRUE /\ disturbed' = TRUE /\ commitUsed' \in [Commit!Events -> Nat]
    BY <1>1, CommitSpent DEF Commit!OtherAdds, Commit!directory, Commit!Events
  <1>3. Commit!TypeOK'
    BY <1>1, <1>2 DEF Commit!TypeOK
  <1>4. Commit!Staged'
    BY <1>1, <1>2 DEF Commit!Staged, Commit!ofFile
  <1>5. Commit!Unpublished'
    BY <1>1, <1>2 DEF Commit!Unpublished, Commit!ofFile
  <1> QED BY <1>2, <1>3, <1>4, <1>5 DEF Commit!Inv, Commit!OutcomeTruthful

(* Without an operation the directory is whatever the last one left, on the disk or not. *)
LEMMA NoOpKept ==
  ASSUME Commit!Inv, op' = Commit!NoOp, dir' \in disks', disks' \subseteq disks,
         UNCHANGED <<Commit!files, Commit!history>>,
         commitUsed' \in [Commit!Events -> Nat]
  PROVE  Commit!Inv'
  <1>1. Commit!TypeOK /\ Commit!Unpublished
    BY UnderWay
  <1>2. Commit!NoOp \in Commit!OpType
    <2>1. Commit!Empty \in Directories
      BY DEF Commit!Empty, Directories
    <2> QED BY <2>1 DEF Commit!NoOp, Commit!OpType, Commit!Steps, Directories
  <1>3. op'.kind = None /\ op'.step = "idle" /\ op'.named = FALSE /\ op'.expected = None
    BY DEF Commit!NoOp
  <1>4. Commit!TypeOK'
    BY <1>1, <1>2 DEF Commit!TypeOK, Commit!files, Commit!history
  <1>5. ~Commit!ofFile'
    BY <1>3, StorageCommitAssumption DEF Commit!ofFile, Commit!ObjectsAssumption, Commit!Kinds
  <1>6. Commit!Staged'
    BY <1>3, <1>5, StorageCommitAssumption DEF Commit!Staged, Commit!ObjectsAssumption
  <1>7. Commit!Unpublished'
    BY <1>1, <1>5 DEF Commit!Unpublished, Commit!files
  <1>8. Commit!OutcomeTruthful'
    BY <1>3 DEF Commit!OutcomeTruthful, Commit!At
  <1> QED BY <1>3, <1>4, <1>6, <1>7, <1>8 DEF Commit!Inv

LEMMA MachineKept ==
  ASSUME Commit!Inv, Commit!ProcessDies \/ Commit!PowerFails
  PROVE  Commit!Inv'
  <1>1. Commit!TypeOK
    BY UnderWay
  <1>2. /\ commitUsed' \in [Commit!Events -> Nat] /\ op' = Commit!NoOp
        /\ UNCHANGED <<Commit!files, Commit!history>>
    BY <1>1, CommitSpent DEF Commit!ProcessDies, Commit!PowerFails, Commit!Events
  <1>3. dir' \in disks' /\ disks' \subseteq disks
    BY <1>1, CommitTypes DEF Commit!ProcessDies, Commit!PowerFails, Commit!directory
  <1> QED BY <1>2, <1>3, NoOpKept

-----------------------------------------------------------------------------
(* The invariant. *)

LEMMA CommitInit == Commit!Init => Commit!Inv
  <1> SUFFICES ASSUME Commit!Init PROVE Commit!Inv
    OBVIOUS
  <1>1. PICK o \in {None, Old, Tree}, n \in {"active", "cleanup"} : dir = [Commit!Empty EXCEPT ![n] = o]
    BY DEF Commit!Init
  <1>2. Commit!Empty \in Directories /\ \A m \in Commit!Names : Commit!Empty[m] = None
    BY DEF Commit!Empty, Directories
  <1>3. dir \in Directories /\ dir["temporary"] = None /\ dir["active"] # New
    BY <1>1, <1>2, StorageCommitAssumption DEF Directories, Commit!Names, Commit!Objects,
       Commit!ObjectsAssumption
  <1>4. Commit!NoOp \in Commit!OpType
    BY <1>2 DEF Commit!NoOp, Commit!OpType, Commit!Steps, Directories
  <1>5. op.kind = None /\ op.step = "idle" /\ op.named = FALSE /\ op.expected = None
    BY DEF Commit!Init, Commit!NoOp
  <1>6. disks = {dir}
    BY DEF Commit!Init
  <1>7. Commit!TypeOK
    BY <1>3, <1>4, <1>6 DEF Commit!TypeOK, Commit!Init, Directories
  <1>8. ~Commit!ofFile
    BY <1>5, StorageCommitAssumption DEF Commit!ofFile, Commit!ObjectsAssumption, Commit!Kinds
  <1>9. Commit!Staged
    BY <1>5, <1>8, StorageCommitAssumption DEF Commit!Staged, Commit!ObjectsAssumption
  <1>10. Commit!Unpublished
    BY <1>3, <1>6, <1>8 DEF Commit!Unpublished
  <1>11. Commit!OutcomeTruthful
    BY <1>5 DEF Commit!OutcomeTruthful, Commit!At
  <1> QED BY <1>5, <1>7, <1>9, <1>10, <1>11 DEF Commit!Inv

LEMMA CommitUnchanged ==
  ASSUME Commit!Inv, UNCHANGED Commit!vars
  PROVE  Commit!Inv'
  <1>1. /\ dir' = dir /\ disks' = disks /\ payload' = payload /\ kids' = kids
        /\ touched' = touched
        /\ op' = op /\ raced' = raced /\ disturbed' = disturbed /\ commitUsed' = commitUsed
    BY DEF Commit!vars
  <1>2. /\ Commit!unstarted' = Commit!unstarted /\ Commit!written' = Commit!written
        /\ Commit!moving' = Commit!moving /\ Commit!waiting' = Commit!waiting
        /\ Commit!doomedPromoted' = Commit!doomedPromoted
    BY <1>1 DEF Commit!unstarted, Commit!written, Commit!moving, Commit!waiting,
       Commit!doomedPromoted, Commit!ofFile
  <1>3. SameGoals
    BY <1>1 DEF SameGoals, Commit!goal, Commit!staged, Commit!aside, Commit!promoted,
       Commit!ofFile, Commit!deletedFrom
  <1>4. Commit!Following' <=> Commit!Following
    BY <1>1, <1>2, <1>3 DEF Commit!Following, Commit!Grounded, Commit!Arrived, Commit!Freed,
       SameGoals, Commit!Between, Commit!source
  <1>5. Commit!OutcomeTruthful'
    BY <1>1, <1>3 DEF Commit!Inv, Commit!OutcomeTruthful, SameGoals, Commit!At, Commit!apart
  <1>6. Commit!TypeOK'
    BY <1>1 DEF Commit!Inv, Commit!TypeOK
  <1>7. Commit!Staged'
    BY <1>1, <1>3 DEF Commit!Inv, Commit!Staged, SameGoals
  <1>8. Commit!Unpublished'
    BY <1>1, <1>3 DEF Commit!Inv, Commit!Unpublished, SameGoals
  <1> QED BY <1>1, <1>4, <1>5, <1>6, <1>7, <1>8 DEF Commit!Inv

LEMMA CommitNextKept ==
  ASSUME Commit!Inv, Commit!Next \/ UNCHANGED Commit!vars
  PROVE  Commit!Inv'
  <1>1. CASE \E kind \in Commit!Kinds, named \in BOOLEAN : Commit!Begin(kind, named)
    BY <1>1, BeginKept
  <1>2. CASE Commit!Work
    BY <1>2, ValidateKept, CreateTemporaryKept, WritePayloadKept, SyncPayloadKept, RevalidateKept,
       CommitKept, UndoKept, VerifyMovedKept, SyncParentKept, VerifyAgainKept, PromoteKept,
       VerifyPromotedKept, SyncPromotedKept, CaptureKept, DeleteChildKept, DeleteEntryKept,
       SyncCleanupKept, VerifyAbsentKept DEF Commit!Work
  <1> QED BY <1>1, <1>2, CommitUnknownKept, PromoteUnknownKept, UndoFailsKept, FailedKept,
             OtherReplacesKept, OtherAddsKept, MachineKept, CommitUnchanged DEF Commit!Next

(* Whatever fails, whoever interferes and whenever the power fails: what a commit has done
   at each of its steps, which of its names were free, and what a power failure may leave. *)
THEOREM CommitInvariant == Commit!Spec => []Commit!Inv
  BY CommitInit, CommitNextKept, PTL DEF Commit!Spec

LEMMA CommitWhole == Commit!Inv => Commit!TypeOK /\ Commit!OutcomeTruthful /\ Commit!AllOrNothing
  <1> SUFFICES ASSUME Commit!Inv PROVE Commit!AllOrNothing
    BY DEF Commit!Inv
  <1>1. \A s \in disks : s["active"] = New => payload = "synced"
    BY UnderWay DEF Commit!Unpublished
  <1>2. ASSUME op.kind # None, ~disturbed, NEW s \in disks
        PROVE  \E b \in op.base \cup {Commit!goal} : s["active"] = b["active"]
    <2>1. Commit!Following /\ op.step # "idle"
      BY <1>2, UnderWay DEF Commit!Inv, Commit!Staged
    <2>2. CASE op.step = "reported"
      BY <1>2, <2>1, <2>2 DEF Commit!Following
    <2>3. CASE op.step # "reported"
      BY <1>2, <2>1, <2>3, FollowingForms DEF Whole
    <2> QED BY <2>2, <2>3
  <1> QED BY <1>1, <1>2 DEF Commit!AllOrNothing

(* What the caller of a commit is told holds and survives a power failure, and none leaves
   half an entry. *)
THEOREM CommitAlwaysTruthful == Commit!Spec => []CommitTruthful
  <1>1. Commit!Inv => CommitTruthful
    BY CommitWhole DEF CommitTruthful
  <1> QED BY <1>1, CommitInvariant, PTL

-----------------------------------------------------------------------------
(* What others have put there. *)

Stays(o) == (\E n \in Commit!Names : dir[n] = o) => \E n \in Commit!Names : dir'[n] = o

LEMMA StaysWhenWritten ==
  ASSUME Commit!TypeOK, NEW n \in Commit!Names, NEW v, dir' = [dir EXCEPT ![n] = v], NEW o,
         dir[n] # o
  PROVE  Stays(o)
  <1>1. \A m \in Commit!Names : m # n => dir'[m] = dir[m]
    BY CommitTypes DEF Directories
  <1> QED BY <1>1 DEF Stays

LEMMA StaysWhenMoved ==
  ASSUME Commit!TypeOK, NEW n \in Commit!Names, NEW m \in Commit!Names, n # m,
         dir' = Commit!moved(n, m), NEW o, dir[m] # o
  PROVE  Stays(o)
  <1>1. dir'[m] = dir[n] /\ \A k \in Commit!Names : k \notin {n, m} => dir'[k] = dir[k]
    BY CommitTypes DEF Directories, Commit!moved
  <1> QED BY <1>1 DEF Stays

(* Who writes to the directory, or takes something out of Tree. *)
ByCommit ==
  \/ Commit!CreateTemporary \/ Commit!Commit \/ Commit!CommitUnknown \/ Commit!Undo \/ Commit!UndoFails \/ Commit!Promote \/ Commit!PromoteUnknown
  \/ Commit!DeleteEntry

LEMMA OthersWrite ==
  ASSUME Commit!Inv, Commit!Next \/ UNCHANGED Commit!vars,
         commitUsed'["foreign"] = commitUsed["foreign"],
         commitUsed'["crash"] = commitUsed["crash"],
         ~ByCommit
  PROVE  dir' = dir /\ (Commit!DeleteChild \/ kids' = kids)
  <1>1. ~Commit!OtherReplaces /\ ~Commit!OtherAdds /\ ~Commit!ProcessDies /\ ~Commit!PowerFails
    BY UnderWay, CommitSpent DEF Commit!OtherReplaces, Commit!OtherAdds, Commit!ProcessDies,
       Commit!PowerFails, Commit!Events
  <1>2. ASSUME NEW kind \in Commit!Kinds, NEW named \in BOOLEAN, Commit!Begin(kind, named)
        PROVE  dir' = dir /\ kids' = kids
    BY <1>2 DEF Commit!Begin, Commit!directory
  <1>3. ASSUME Commit!Work, ~Commit!DeleteChild
        PROVE  dir' = dir /\ kids' = kids
    BY <1>3 DEF Commit!Work, ByCommit, Commit!Validate, Commit!WritePayload, Commit!SyncPayload,
       Commit!Revalidate, Commit!VerifyMoved,
       Commit!SyncParent, Commit!VerifyAgain, Commit!VerifyPromoted, Commit!SyncPromoted, Commit!Capture, Commit!SyncCleanup, Commit!VerifyAbsent,
       Commit!directory, Commit!files, Commit!Sync
  <1>4. Commit!DeleteChild => dir' = dir
    BY DEF Commit!DeleteChild, Commit!directory
  <1>5. Commit!Fail \/ Commit!SyncFails \/ UNCHANGED Commit!vars => dir' = dir /\ kids' = kids
    BY DEF Commit!Fail, Commit!SyncFails, Commit!directory, Commit!files, Commit!Sync, Commit!vars
  <1> QED BY <1>1, <1>2, <1>3, <1>4, <1>5 DEF Commit!Next, ByCommit

LEMMA WritesKeepForeign ==
  ASSUME Commit!Inv, ByCommit
  PROVE  Stays(theirs) \/ (op.kind = "replace" /\ raced)
  <1>1. /\ Commit!TypeOK /\ Commit!Staged /\ dir["temporary"] # theirs /\ theirs # None
        /\ op.expected # theirs
    BY UnderWay, CommitTypes, StorageCommitAssumption DEF Commit!Unpublished, Commit!Staged,
       Commit!ObjectsAssumption
  <1>2. CASE dir' = dir
    BY <1>2 DEF Stays
  <1>3. CASE Commit!CreateTemporary \/ Commit!Undo \/ Commit!UndoFails
    <2>1. dir' = dir \/ \E v : dir' = [dir EXCEPT !["temporary"] = v]
      BY <1>3 DEF Commit!CreateTemporary, Commit!Undo, Commit!UndoFails, Commit!Write,
         Commit!directory
    <2> QED BY <1>1, <1>2, <2>1, StaysWhenWritten DEF Commit!Names
  <1>4. CASE Commit!Commit \/ Commit!CommitUnknown
    <2>1. dir' = dir \/ (Commit!canRename /\ dir' = Commit!moved(Commit!from(op.kind), Commit!to(op.kind)))
      BY <1>4 DEF Commit!Commit, Commit!CommitUnknown, Commit!Write, Commit!directory
    <2>2. op.step = "commit"
      BY <1>4 DEF Commit!Commit, Commit!CommitUnknown, Commit!At
    <2>3. CASE Commit!canRename /\ dir' = Commit!moved(Commit!from(op.kind), Commit!to(op.kind)) /\ ~(op.kind = "replace" /\ raced)
      <3>1. dir[Commit!to(op.kind)] # theirs
        BY <1>1, <2>2, <2>3 DEF Commit!canRename, Commit!to, Commit!Staged
      <3>2. /\ Commit!from(op.kind) \in Commit!Names /\ Commit!to(op.kind) \in Commit!Names
            /\ Commit!from(op.kind) # Commit!to(op.kind)
        BY DEF Commit!from, Commit!to, Commit!Names
      <3> QED BY <1>1, <2>3, <3>1, <3>2, StaysWhenMoved
    <2> QED BY <1>2, <2>1, <2>3
  <1>5. CASE Commit!Promote \/ Commit!PromoteUnknown
    <2>1. dir' = dir \/ (dir["cleanup"] = None /\ dir' = Commit!moved("residue", "cleanup"))
      BY <1>5 DEF Commit!Promote, Commit!PromoteUnknown, Commit!Write, Commit!directory
    <2> QED BY <1>1, <1>2, <2>1, StaysWhenMoved DEF Commit!Names
  <1>6. CASE Commit!DeleteEntry
    <2>1. dir' = dir \/ (Commit!unchanged /\ dir' = [dir EXCEPT ![Commit!doomed] = None])
      BY <1>6 DEF Commit!DeleteEntry, Commit!Write, Commit!directory
    <2>2. Commit!unchanged => dir[Commit!doomed] # theirs
      BY <1>1 DEF Commit!unchanged, Commit!sameEntry
    <2>3. Commit!doomed \in Commit!Names
      BY DEF Commit!doomed, Commit!Names
    <2> QED BY <1>1, <1>2, <2>1, <2>2, <2>3, StaysWhenWritten
  <1> QED BY <1>3, <1>4, <1>5, <1>6 DEF ByCommit

(* A directory into which something has come since it was last looked at is not taken apart. *)
LEMMA DeletesKeepAlien ==
  ASSUME Commit!Inv, intruder \in kids, touched, op.step \in {"capture", "delete"},
         Commit!DeleteChild \/ ByCommit \/ (dir' = dir /\ kids' = kids)
  PROVE  intruder \in kids' /\ Stays(Tree)
  <1>1. Commit!TypeOK
    BY UnderWay
  <1>2. CASE dir' = dir /\ kids' = kids
    BY <1>2 DEF Stays
  <1>3. CASE Commit!DeleteChild
    <2>1. kids' = kids
      BY <1>3 DEF Commit!DeleteChild, Commit!contents, Commit!unchanged, Commit!sameEntry
    <2> QED BY <1>2, <1>3, <2>1 DEF Commit!DeleteChild, Commit!directory
  <1>4. CASE ByCommit
    <2>1. Commit!DeleteEntry
      BY <1>4 DEF ByCommit, Commit!CreateTemporary, Commit!Commit, Commit!CommitUnknown,
         Commit!Undo, Commit!UndoFails, Commit!Promote,
         Commit!PromoteUnknown, Commit!At
    <2>2. kids' = kids
      BY <2>1 DEF Commit!DeleteEntry, Commit!files
    <2>3. CASE dir' = dir
      BY <1>2, <2>2, <2>3
    <2>4. CASE Commit!unchanged /\ Commit!contents = {} /\ dir' = [dir EXCEPT ![Commit!doomed] = None]
      <3>1. dir[Commit!doomed] # Tree
        BY <2>4 DEF Commit!unchanged, Commit!sameEntry, Commit!contents
      <3>2. Commit!doomed \in Commit!Names
        BY DEF Commit!doomed, Commit!Names
      <3> QED BY <1>1, <2>2, <2>4, <3>1, <3>2, StaysWhenWritten
    <2> QED BY <2>1, <2>3, <2>4 DEF Commit!DeleteEntry, Commit!Write, Commit!directory
  <1> QED BY <1>2, <1>3, <1>4

LEMMA ForeignStep ==
  ASSUME Commit!Inv, Commit!Next \/ UNCHANGED Commit!vars,
         commitUsed'["foreign"] = commitUsed["foreign"],
         commitUsed'["crash"] = commitUsed["crash"]
  PROVE  /\ Stays(theirs) \/ (op.kind = "replace" /\ raced)
         /\ (intruder \in kids /\ touched /\ op.step \in {"capture", "delete"})
               => (intruder \in kids' /\ Stays(Tree))
  <1>1. CASE ByCommit
    BY <1>1, WritesKeepForeign, DeletesKeepAlien
  <1>2. CASE ~ByCommit
    <2>1. dir' = dir /\ (Commit!DeleteChild \/ kids' = kids)
      BY <1>2, OthersWrite
    <2>2. Stays(theirs)
      BY <2>1 DEF Stays
    <2> QED BY <2>1, <2>2, DeletesKeepAlien
  <1> QED BY <1>1, <1>2

(* A commit destroys nothing that another program has put in its way, but for a file that is
   replaced after it was looked at. *)
THEOREM CommitForeignKept == Commit!Spec => Commit!ForeignKept
  <1>1. Commit!Inv /\ [Commit!Next]_(Commit!vars) =>
        [LET kept(o) == (\E n \in Commit!Names : dir[n] = o) => \E n \in Commit!Names : dir'[n] = o
         IN  (commitUsed'["foreign"] = commitUsed["foreign"] /\ commitUsed'["crash"] = commitUsed["crash"])
                 => /\ kept(theirs) \/ (op.kind = "replace" /\ raced)
                    /\ (intruder \in kids /\ touched /\ op.step \in {"capture", "delete"})
                          => (intruder \in kids' /\ kept(Tree))]_(Commit!vars)
    BY ForeignStep DEF Stays
  <1> QED BY <1>1, CommitInvariant, PTL DEF Commit!Spec, Commit!ForeignKept

-----------------------------------------------------------------------------
(* The cache: entries, and the fields of resolvers. *)

LEMMA EntryForms ==
  ASSUME NEW e \in Cache!Entries
  PROVE  /\ e.kind \in {"missing", "alien", "own"}
         /\ e.kind = "missing" => e = Cache!Missing
         /\ e.kind = "alien" => e = Cache!Alien
         /\ e.kind = "own" => /\ e.claims \in Contents /\ e.content \in Contents \cup {Damaged}
                              /\ e = Cache!Own(e.claims, e.content)
  BY DEF Cache!Entries, Cache!Missing, Cache!Alien, Cache!Own

LEMMA EntryKinds ==
  /\ Cache!Missing \in Cache!Entries /\ Cache!Alien \in Cache!Entries
  /\ Cache!Missing.kind = "missing" /\ Cache!Alien.kind = "alien"
  /\ \A c \in Contents, d \in Contents \cup {Damaged} :
        Cache!Own(c, d) \in Cache!Entries /\ Cache!Own(c, d).kind = "own" /\ Cache!Own(c, d).claims = c /\ Cache!Own(c, d).content = d
  <1>1. Cache!Missing \in Cache!Entries /\ Cache!Alien \in Cache!Entries
    BY DEF Cache!Entries
  <1>2. \A c \in Contents, d \in Contents \cup {Damaged} : Cache!Own(c, d) \in Cache!Entries
    BY DEF Cache!Entries
  <1> QED BY <1>1, <1>2 DEF Cache!Missing, Cache!Alien, Cache!Own

LEMMA EntryStates ==
  ASSUME NEW e \in Cache!Entries, NEW accepts
  PROVE  /\ Cache!stateOf(e, accepts) = "missing" <=> e = Cache!Missing
         /\ Cache!stateOf(e, accepts) = "valid" <=>
               e.kind = "own" /\ e.claims \in accepts /\ e.content = e.claims
  BY EntryForms, EntryKinds DEF Cache!stateOf

LEMMA ResolverFields ==
  ASSUME Cache!TypeOK, NEW r \in Resolvers
  PROVE  /\ res[r] \in Cache!ResolverType /\ res[r].step \in Cache!Steps
         /\ res[r].content \in Contents \cup {Cache!NoContent}
         /\ res[r].file \in [Cache!Keys -> Nat]
         /\ res[r].locked \subseteq Cache!Keys /\ res[r].beaten \subseteq Cache!Keys
         /\ res[r].touched \in BOOLEAN
         /\ res[r].result \in Contents \cup {Cache!NoContent, "error"}
  BY DEF Cache!TypeOK, Cache!ResolverType

LEMMA NewResolverType ==
  /\ Cache!NewResolver \in Cache!ResolverType
  /\ [Cache!NewResolver EXCEPT !.result = "error"] \in Cache!ResolverType
  BY DEF Cache!NewResolver, Cache!ResolverType, Cache!Steps

LEMMA ContentKnown ==
  ASSUME Cache!Inv, NEW r \in Resolvers, res[r].step \in Cache!Resolved
  PROVE  /\ res[r].content \in Contents /\ res[r].content \in Cache!Keys /\ res[r].content # Index
         /\ res[r].content \in served
  BY SourceCacheAssumption DEF Cache!Inv, Cache!Knowing, Cache!TypeOK, Cache!Keys,
     Cache!KeyAssumption

(* Two that work on one entry work on different files. *)
LEMMA OneWorks ==
  ASSUME Cache!Inv, Cache!unreplaced, NEW q \in Resolvers, NEW r \in Resolvers, q # r,
         NEW k \in res[q].locked
  PROVE  k \notin res[r].locked
  <1>1. k \in Cache!Keys /\ record[k] = 0 /\ res[q].file[k] \in Nat /\ res[r].file[k] \in Nat
    BY ResolverFields DEF Cache!Inv
  <1>2. res[q].file[k] <= 0 /\ res[r].file[k] <= 0
    BY <1>1 DEF Cache!Inv, Cache!Locking
  <1> QED BY <1>1, <1>2 DEF Cache!Inv, Cache!Alone

LEMMA Validity ==
  ASSUME Cache!TypeOK, NEW c \in Contents
  PROVE  /\ Cache!valid(c) <=> entry[c].kind = "own" /\ entry[c].claims = c /\ entry[c].content = c
         /\ Cache!stateOf(entry[c], {c}) = "missing" <=> entry[c] = Cache!Missing
  BY EntryStates DEF Cache!TypeOK, Cache!valid, Cache!Keys

-----------------------------------------------------------------------------
(* What a step of one resolver must keep to. *)

(* Only the entry of a lock that is held changes, and a valid one never does. *)
Careful(r) ==
  \A c \in Contents : (Cache!unreplaced /\ entry'[c] # entry[c]) => c \in res[r].locked /\ ~Cache!valid(c)

Sound(r) == Cache!Locking(r) /\ Cache!Knowing(r) /\ Cache!Seeing(r)

LEMMA OthersSound ==
  ASSUME Cache!Inv, NEW r \in Resolvers, NEW q \in Resolvers, q # r, Careful(r),
         UNCHANGED record, cacheUsed'["replace"] = cacheUsed["replace"], served \subseteq served',
         res'[q] = res[q]
  PROVE  Sound(q)'
  <1>1. Cache!Locking(q)'
    BY DEF Cache!Inv, Cache!Locking, Cache!held, Cache!lockValid
  <1>2. Cache!Knowing(q)'
    BY DEF Cache!Inv, Cache!Knowing
  <1>3. Cache!Seeing(q)'
    <2>1. Cache!Seeing(q) /\ (Cache!unreplaced' <=> Cache!unreplaced) /\ Cache!TypeOK
      BY DEF Cache!Inv, Cache!unreplaced
    <2>2. ASSUME Cache!unreplaced, res[q].step = "remove" PROVE ~Cache!valid(res[q].content)'
      <3>1. res[q].content \in Contents
        BY <2>2, ContentKnown DEF Cache!Resolved, Cache!Steps
      <3>2. res[q].content \in res[q].locked
        BY <2>2 DEF Cache!Inv, Cache!Locking, Cache!held
      <3>3. res[q].content \notin res[r].locked
        BY <2>2, <3>2, OneWorks
      <3> QED BY <2>1, <2>2, <3>1, <3>3 DEF Careful, Cache!Seeing, Cache!valid
    <2>3. ASSUME Cache!unreplaced, res[q].step \in Cache!Looked, ~res[q].touched
          PROVE  Cache!valid(res[q].content)'
      <3>1. res[q].content \in Contents
        BY <2>3, ContentKnown DEF Cache!Looked, Cache!Resolved, Cache!Steps
      <3> QED BY <2>1, <2>3, <3>1 DEF Careful, Cache!Seeing, Cache!valid
    <2> QED BY <2>1, <2>2, <2>3 DEF Cache!Seeing
  <1> QED BY <1>1, <1>2, <1>3 DEF Sound

(* What a lock is taken or kept on. *)
Held(r, new) ==
  \A k \in new.locked : /\ new.file[k] = res[r].file[k]
                        /\ k \in res[r].locked \/ Cache!grantable(r, k)

LEMMA StepKept ==
  ASSUME Cache!Inv, NEW r \in Resolvers, NEW new \in Cache!ResolverType,
         res' = [res EXCEPT ![r] = new],
         UNCHANGED record, cacheUsed' \in [Cache!Events -> Nat],
         cacheUsed'["replace"] = cacheUsed["replace"],
         served \subseteq served', served' \subseteq Contents,
         entry' \in [Cache!Keys -> Cache!Entries], Cache!Backed', Careful(r), Held(r, new), Sound(r)'
  PROVE  Cache!Inv'
  <1>1. res'[r] = new /\ \A q \in Resolvers : q # r => res'[q] = res[q]
    BY DEF Cache!Inv, Cache!TypeOK
  <1>2. Cache!TypeOK'
    BY DEF Cache!Inv, Cache!TypeOK
  <1>3. \A q \in Resolvers : Sound(q)'
    BY <1>1, OthersSound
  <1>4. ASSUME NEW q \in Resolvers, q # r, NEW k, k \in res[q].locked, k \in new.locked
        PROVE  res[q].file[k] # new.file[k]
    BY <1>4 DEF Cache!Inv, Cache!Alone, Held, Cache!grantable
  <1>5. Cache!Alone'
    BY <1>1, <1>4 DEF Cache!Inv, Cache!Alone
  <1>6. Cache!unreplaced' => \A k \in Cache!Keys : record'[k] = 0
    BY DEF Cache!Inv, Cache!unreplaced
  <1> QED BY <1>2, <1>3, <1>5, <1>6 DEF Cache!Inv, Sound

(* Nothing is written. *)
LEMMA LookKept ==
  ASSUME Cache!Inv, NEW r \in Resolvers, NEW new \in Cache!ResolverType,
         res' = [res EXCEPT ![r] = new],
         UNCHANGED <<entry, record, served, cacheUsed>>, Held(r, new), Sound(r)'
  PROVE  Cache!Inv'
  <1>1. /\ Cache!Backed' /\ Careful(r) /\ entry' \in [Cache!Keys -> Cache!Entries]
        /\ cacheUsed' \in [Cache!Events -> Nat]
    BY DEF Cache!Inv, Cache!Backed, Careful, Cache!TypeOK
  <1>2. served' \subseteq Contents
    BY DEF Cache!Inv, Cache!TypeOK
  <1> QED BY <1>1, <1>2, StepKept

(* A resolution that ends, with an error or because its process dies. *)
LEMMA GivesUp ==
  ASSUME Cache!Inv, NEW r \in Resolvers,
         NEW new \in {Cache!NewResolver, [Cache!NewResolver EXCEPT !.result = "error"]},
         res' = [res EXCEPT ![r] = new],
         UNCHANGED record, cacheUsed' \in [Cache!Events -> Nat],
         cacheUsed'["replace"] = cacheUsed["replace"],
         UNCHANGED served, entry' \in [Cache!Keys -> Cache!Entries], Cache!Backed', Careful(r)
  PROVE  Cache!Inv'
  <1>1. /\ new.step = "idle" /\ new.locked = {} /\ new.beaten = {} /\ new.result \notin Contents
        /\ \A k \in Cache!Keys : new.file[k] = 0
    BY SourceCacheAssumption DEF Cache!NewResolver, Cache!KeyAssumption, Cache!NoContent
  <1>2. res'[r] = new
    BY DEF Cache!Inv, Cache!TypeOK
  <1>3. Cache!Locking(r)'
    <2>1. \A k \in Cache!Keys : record'[k] \in Nat
      BY DEF Cache!Inv, Cache!TypeOK
    <2>2. Cache!held(r)' = {}
      BY <1>1, <1>2 DEF Cache!held
    <2>3. \A k \in Cache!Keys : res'[r].file[k] <= record'[k]
      BY <1>1, <1>2, <2>1
    <2> QED BY <1>1, <1>2, <2>2, <2>3 DEF Cache!Locking, Cache!Indexed
  <1>4. Cache!Knowing(r)' /\ Cache!Seeing(r)'
    BY <1>1, <1>2 DEF Cache!Knowing, Cache!Seeing, Cache!Resolved, Cache!Looked
  <1>5. new \in Cache!ResolverType /\ Held(r, new) /\ served' \subseteq Contents
    BY <1>1, NewResolverType DEF Held, Cache!Inv, Cache!TypeOK
  <1> QED BY <1>3, <1>4, <1>5, StepKept DEF Sound

LEMMA FailsKept ==
  ASSUME Cache!Inv, NEW r \in Resolvers, Cache!Fail(r),
         UNCHANGED <<entry, record, served, cacheUsed>>
  PROVE  Cache!Inv'
  <1>1. /\ Cache!Backed' /\ Careful(r) /\ entry' \in [Cache!Keys -> Cache!Entries]
        /\ cacheUsed' \in [Cache!Events -> Nat]
    BY DEF Cache!Inv, Cache!Backed, Careful, Cache!TypeOK
  <1> QED BY <1>1, GivesUp DEF Cache!Fail

LEMMA SpentElse ==
  ASSUME Cache!TypeOK, NEW e \in Cache!Events, e # "replace", Cache!Spend(e)
  PROVE  cacheUsed' \in [Cache!Events -> Nat] /\ cacheUsed'["replace"] = cacheUsed["replace"]
  BY DEF Cache!TypeOK, Cache!Spend, Cache!Events

LEMMA CacheWentKept ==
  ASSUME Cache!Inv, NEW r \in Resolvers, NEW x \in Cache!Steps, Cache!GoTo(r, x),
         UNCHANGED record, cacheUsed' \in [Cache!Events -> Nat],
         cacheUsed'["replace"] = cacheUsed["replace"],
         UNCHANGED served, entry' \in [Cache!Keys -> Cache!Entries], Cache!Backed', Careful(r),
         Cache!held(r)' = Cache!held(r), x \in Cache!Indexed => Pinned,
         x \in Cache!Resolved => res[r].step \in Cache!Resolved,
         Cache!Seeing(r)'
  PROVE  Cache!Inv'
  <1> DEFINE new == [res[r] EXCEPT !.step = x]
  <1>1. res' = [res EXCEPT ![r] = new]
    BY DEF Cache!GoTo
  <1>2. /\ new \in Cache!ResolverType /\ new.step = x /\ new.content = res[r].content
        /\ new.file = res[r].file /\ new.locked = res[r].locked /\ new.beaten = res[r].beaten
        /\ new.result = res[r].result
    BY ResolverFields DEF Cache!Inv, Cache!ResolverType
  <1> HIDE DEF new
  <1>3. res'[r] = new
    BY <1>1 DEF Cache!Inv, Cache!TypeOK
  <1>4. Cache!Locking(r)'
    BY <1>2, <1>3 DEF Cache!Inv, Cache!Locking, Cache!lockValid
  <1>5. Cache!Knowing(r)'
    BY <1>2, <1>3 DEF Cache!Inv, Cache!Knowing
  <1>6. Held(r, new) /\ served' \subseteq Contents
    BY <1>2 DEF Held, Cache!Inv, Cache!TypeOK
  <1> QED BY <1>1, <1>2, <1>4, <1>5, <1>6, StepKept DEF Sound

(* ... and nothing is written. *)
LEMMA WentOn ==
  ASSUME Cache!Inv, NEW r \in Resolvers, NEW x \in Cache!Steps, Cache!GoTo(r, x),
         UNCHANGED <<entry, record, served, cacheUsed>>,
         Cache!held(r)' = Cache!held(r), x \in Cache!Indexed => Pinned,
         x \in Cache!Resolved => res[r].step \in Cache!Resolved,
         Cache!Seeing(r)'
  PROVE  Cache!Inv'
  <1>1. /\ Cache!Backed' /\ Careful(r) /\ entry' \in [Cache!Keys -> Cache!Entries]
        /\ cacheUsed' \in [Cache!Events -> Nat]
    BY DEF Cache!Inv, Cache!Backed, Careful, Cache!TypeOK
  <1> QED BY <1>1, CacheWentKept

(* Whoever frees a lock with a good end has beaten all that work on other files. *)
LEMMA UnlockKept ==
  ASSUME Cache!Inv, NEW r \in Resolvers, NEW k \in res[r].locked, NEW x \in Cache!Steps,
         Cache!Unlock(r, k, x),
         UNCHANGED <<entry, record, served, cacheUsed>>,
         (IF Pinned /\ x \notin {"idle", "open index", "lock index", "return"} THEN {Index} ELSE {})
           = res[r].locked \ {k},
         x \notin {"verify", "place", "remove", "commit", "confirm", "lost"},
         x \in Cache!Indexed => Pinned, x \in Cache!Resolved => res[r].step \in Cache!Resolved,
         x \in Cache!Looked => res[r].step \in Cache!Looked
  PROVE  Cache!Inv'
  <1>1. CASE ~Cache!lockValid(r, k)
    BY <1>1, FailsKept DEF Cache!Unlock
  <1>2. CASE Cache!lockValid(r, k)
    <2> DEFINE new == [res[r] EXCEPT !.step = x, !.locked = @ \ {k}, !.beaten = @ \ {k}]
               past(q) == [res[q] EXCEPT !.beaten = @ \cup {k}]
    <2>1. res' = [q \in Resolvers |-> IF q = r THEN new
                                       ELSE IF k \in res[q].locked THEN past(q) ELSE res[q]]
      BY <1>2 DEF Cache!Unlock
    <2>2. /\ new \in Cache!ResolverType /\ new.step = x /\ new.content = res[r].content
          /\ new.file = res[r].file /\ new.locked = res[r].locked \ {k}
          /\ new.beaten = res[r].beaten \ {k} /\ new.touched = res[r].touched
          /\ new.result = res[r].result
      BY ResolverFields DEF Cache!Inv, Cache!ResolverType
    <2>3. ASSUME NEW q \in Resolvers
          PROVE  /\ past(q) \in Cache!ResolverType /\ past(q).step = res[q].step
                 /\ past(q).content = res[q].content /\ past(q).file = res[q].file
                 /\ past(q).locked = res[q].locked /\ past(q).beaten = res[q].beaten \cup {k}
                 /\ past(q).touched = res[q].touched /\ past(q).result = res[q].result
      <3>1. k \in Cache!Keys
        BY ResolverFields DEF Cache!Inv
      <3> QED BY <3>1, ResolverFields DEF Cache!Inv, Cache!ResolverType
    <2> HIDE DEF new, past
    <2>4. /\ res'[r] = new
          /\ \A q \in Resolvers : q # r => res'[q] = IF k \in res[q].locked THEN past(q) ELSE res[q]
      BY <2>1
    <2>5. Cache!TypeOK'
      <3>1. res' \in [Resolvers -> Cache!ResolverType]
        BY <2>1, <2>2, <2>3, ResolverFields DEF Cache!Inv
      <3> QED BY <3>1 DEF Cache!Inv, Cache!TypeOK
    <2>6. Sound(r)'
      <3>1. Cache!Locking(r)'
        <4>1. Cache!held(r)' = res[r].locked \ {k}
          BY <2>2, <2>4 DEF Cache!held
        <4>2. Cache!Locking(r)
          BY DEF Cache!Inv
        <4>3. /\ \A j \in Cache!Keys : res'[r].file[j] <= record'[j]
              /\ \A j \in res'[r].beaten : record'[j] # res'[r].file[j]
          BY <2>2, <2>4, <4>2 DEF Cache!Locking, Cache!lockValid
        <4>4. res'[r].beaten \subseteq res'[r].locked
          BY <2>2, <2>4, <4>2 DEF Cache!Locking
        <4> QED BY <2>2, <2>4, <4>1, <4>3, <4>4 DEF Cache!Locking, Cache!lockValid
      <3>2. Cache!Knowing(r)'
        BY <2>2, <2>4 DEF Cache!Inv, Cache!Knowing
      <3>3. Cache!Seeing(r)'
        BY <2>2, <2>4 DEF Cache!Inv, Cache!Seeing, Cache!unreplaced, Cache!valid
      <3> QED BY <3>1, <3>2, <3>3 DEF Sound
    <2>7. ASSUME NEW q \in Resolvers, q # r PROVE Sound(q)'
      <3>1. /\ res'[q].step = res[q].step /\ res'[q].content = res[q].content
            /\ res'[q].file = res[q].file /\ res'[q].locked = res[q].locked
            /\ res'[q].beaten = res[q].beaten \/ (k \in res[q].locked /\ res'[q].beaten = res[q].beaten \cup {k})
            /\ res'[q].touched = res[q].touched /\ res'[q].result = res[q].result
        BY <2>3, <2>4, <2>7
      <3>2. k \in res[q].locked => ~Cache!lockValid(q, k)
        BY <1>2, <2>7 DEF Cache!Inv, Cache!Alone, Cache!lockValid
      <3>3. Cache!Locking(q)'
        <4>1. Cache!held(q)' = Cache!held(q)
          BY <3>1 DEF Cache!held
        <4>2. Cache!Locking(q)
          BY DEF Cache!Inv
        <4>3. \A j \in Cache!Keys : res'[q].file[j] <= record'[j]
          BY <3>1, <4>2 DEF Cache!Locking
        <4>4. \A j \in res'[q].beaten : record'[j] # res'[q].file[j]
          BY <3>1, <3>2, <4>2 DEF Cache!Locking, Cache!lockValid
        <4>5. res'[q].beaten \subseteq res'[q].locked
          BY <3>1, <4>2 DEF Cache!Locking
        <4> QED BY <3>1, <4>1, <4>2, <4>3, <4>4, <4>5 DEF Cache!Locking, Cache!lockValid
      <3>4. Cache!Knowing(q)' /\ Cache!Seeing(q)'
        BY <3>1 DEF Cache!Inv, Cache!Knowing, Cache!Seeing, Cache!unreplaced, Cache!valid
      <3> QED BY <3>3, <3>4 DEF Sound
    <2>8. Cache!Alone'
      <3>1. \A q \in Resolvers : res'[q].locked \subseteq res[q].locked /\ res'[q].file = res[q].file
        BY <2>2, <2>3, <2>4
      <3>2. Cache!Alone
        BY DEF Cache!Inv
      <3>3. ASSUME NEW p \in Resolvers, NEW q \in Resolvers, p # q,
                   NEW j \in res'[p].locked \cap res'[q].locked
            PROVE  res'[p].file[j] # res'[q].file[j]
        <4>1. j \in res[p].locked \cap res[q].locked
          BY <3>1, <3>3
        <4> QED BY <3>1, <3>2, <3>3, <4>1 DEF Cache!Alone
      <3> QED BY <3>3 DEF Cache!Alone
    <2>9. Cache!Backed' /\ (Cache!unreplaced' => \A j \in Cache!Keys : record'[j] = 0)
      BY DEF Cache!Inv, Cache!Backed, Cache!unreplaced
    <2> QED BY <2>5, <2>6, <2>7, <2>8, <2>9 DEF Cache!Inv, Sound
  <1> QED BY <1>1, <1>2

-----------------------------------------------------------------------------
(* The steps of a resolver. *)

LEMMA CacheBegins ==
  ASSUME Cache!Inv, NEW r \in Resolvers, Cache!Begin(r)
  PROVE  Cache!Inv'
  <1> DEFINE x == IF Pinned THEN "open index" ELSE "fetch"
             new == [Cache!NewResolver EXCEPT !.step = x]
  <1>1. res' = [res EXCEPT ![r] = new] /\ UNCHANGED <<entry, record, served>>
    BY DEF Cache!Begin
  <1>2. /\ new \in Cache!ResolverType /\ new.step = x /\ new.locked = {} /\ new.beaten = {}
        /\ new.result = Cache!NoContent /\ \A k \in Cache!Keys : new.file[k] = 0
    BY DEF Cache!NewResolver, Cache!ResolverType, Cache!Steps
  <1>3. x \in {"open index", "fetch"} /\ (x = "open index" <=> Pinned)
    OBVIOUS
  <1> HIDE DEF new, x
  <1>4. res'[r] = new /\ \A k \in Cache!Keys : record'[k] \in Nat
    BY <1>1 DEF Cache!Inv, Cache!TypeOK
  <1>5. Cache!Locking(r)'
    <2>1. Cache!held(r)' = {}
      BY <1>2, <1>3, <1>4 DEF Cache!held
    <2>2. \A k \in Cache!Keys : res'[r].file[k] <= record'[k]
      BY <1>2, <1>4
    <2> QED BY <1>2, <1>3, <1>4, <2>1, <2>2 DEF Cache!Locking, Cache!Indexed
  <1>6. Cache!Knowing(r)' /\ Cache!Seeing(r)'
    BY <1>2, <1>3, <1>4, SourceCacheAssumption
       DEF Cache!Knowing, Cache!Seeing, Cache!Resolved, Cache!Looked, Cache!KeyAssumption,
           Cache!NoContent
  <1>7. cacheUsed' \in [Cache!Events -> Nat] /\ cacheUsed'["replace"] = cacheUsed["replace"]
    BY SpentElse DEF Cache!Begin, Cache!Inv, Cache!Events
  <1>8. /\ Cache!Backed' /\ Careful(r) /\ entry' \in [Cache!Keys -> Cache!Entries]
        /\ served' \subseteq Contents
    BY <1>1 DEF Cache!Inv, Cache!Backed, Careful, Cache!TypeOK
  <1>9. Held(r, new)
    BY <1>2 DEF Held
  <1> QED BY <1>1, <1>2, <1>5, <1>6, <1>7, <1>8, <1>9, StepKept DEF Sound

Opening(step, next) ==
  \/ step = "open index" /\ next = "lock index"
  \/ step = "open artifact" /\ next = "lock artifact"
  \/ step = "open publish" /\ next = "lock publish"

LEMMA OpenKept ==
  ASSUME Cache!Inv, NEW r \in Resolvers, NEW k \in Cache!Keys, NEW step \in Cache!Steps,
         NEW next \in Cache!Steps,
         Cache!Open(r, step, k, next), k \notin res[r].locked, Opening(step, next)
  PROVE  Cache!Inv'
  <1> DEFINE new == [res[r] EXCEPT !.step = next, !.file[k] = record[k]]
  <1>1. /\ res' = [res EXCEPT ![r] = new] /\ res[r].step = step
        /\ UNCHANGED <<entry, record, served, cacheUsed>>
    BY DEF Cache!Open, Cache!At
  <1>2. record[k] \in Nat
    BY DEF Cache!Inv, Cache!TypeOK
  <1>3. /\ new \in Cache!ResolverType /\ new.step = next /\ new.content = res[r].content
        /\ new.file = [res[r].file EXCEPT ![k] = record[k]]
        /\ new.locked = res[r].locked /\ new.beaten = res[r].beaten /\ new.result = res[r].result
    BY <1>2, ResolverFields DEF Cache!Inv, Cache!ResolverType
  <1> HIDE DEF new
  <1>4. res'[r] = new
    BY <1>1 DEF Cache!Inv, Cache!TypeOK
  <1>5. /\ res[r].file \in [Cache!Keys -> Nat] /\ res[r].locked \subseteq Cache!Keys
        /\ res[r].beaten \subseteq res[r].locked
        /\ \A j \in Cache!Keys : res[r].file[j] <= record[j]
        /\ \A j \in res[r].beaten : record[j] # res[r].file[j]
        /\ res[r].locked = Cache!held(r) /\ (res[r].step \in Cache!Indexed => Pinned)
    BY ResolverFields DEF Cache!Inv, Cache!Locking, Cache!lockValid
  <1>10. \A j \in Cache!Keys : j # k => new.file[j] = res[r].file[j]
    BY <1>3, <1>5
  <1>11. new.file[k] = record[k]
    BY <1>3, <1>5
  <1>12. record' = record /\ served' = served /\ res[r].step = step
    BY <1>1
  <1>6. Cache!Locking(r)'
    <2>1. Cache!held(r)' = Cache!held(r)
      BY <1>1, <1>3, <1>4 DEF Cache!held, Opening
    <2>2. \A j \in Cache!Keys : res'[r].file[j] <= record'[j]
      <3>1. ASSUME NEW j \in Cache!Keys PROVE new.file[j] <= record[j]
        <4>1. CASE j = k
          BY <1>2, <1>11, <4>1
        <4>2. CASE j # k
          BY <1>5, <1>10, <4>2
        <4> QED BY <4>1, <4>2
      <3> QED BY <1>4, <1>12, <3>1
    <2>3. \A j \in res'[r].beaten : record'[j] # res'[r].file[j]
      <3>1. \A j \in new.beaten : record[j] # new.file[j]
        BY <1>3, <1>5, <1>10
      <3> QED BY <1>4, <1>12, <3>1
    <2>4. res'[r].step \in Cache!Indexed => Pinned
      BY <1>1, <1>3, <1>4, <1>5 DEF Cache!Indexed, Opening
    <2> QED BY <1>3, <1>4, <1>5, <2>1, <2>2, <2>3, <2>4 DEF Cache!Locking, Cache!lockValid
  <1>7. Cache!Knowing(r)'
    <2>1. new.step \in Cache!Resolved => res[r].step \in Cache!Resolved
      BY <1>1, <1>3 DEF Cache!Resolved, Cache!Steps, Opening
    <2>2. Cache!Knowing(r)
      BY DEF Cache!Inv
    <2> QED BY <1>3, <1>4, <1>12, <2>1, <2>2 DEF Cache!Knowing
  <1>8. Cache!Seeing(r)'
    BY <1>3, <1>4 DEF Cache!Seeing, Cache!Looked, Opening
  <1>9. Held(r, new)
    BY <1>3, <1>5, <1>10 DEF Held
  <1> QED BY <1>1, <1>3, <1>6, <1>7, <1>8, <1>9, LookKept DEF Sound

LEMMA LockKept ==
  ASSUME Cache!Inv, NEW r \in Resolvers, NEW k \in Cache!Keys, NEW step \in Cache!Steps,
         NEW next \in Cache!Steps,
         Cache!Lock(r, step, k, next),
         \/ step = "lock index" /\ next = "lookup" /\ k = Index
         \/ step = "lock artifact" /\ next = "verify" /\ k = res[r].content
         \/ step = "lock publish" /\ next = "place" /\ k = res[r].content
  PROVE  Cache!Inv'
  <1>1. /\ res[r].step = step /\ Cache!grantable(r, k)
        /\ UNCHANGED <<entry, record, served, cacheUsed>>
    BY DEF Cache!Lock, Cache!At
  <1>2. CASE ~Cache!lockValid(r, k)
    BY <1>1, <1>2, FailsKept DEF Cache!Lock
  <1>3. CASE Cache!lockValid(r, k)
    <2> DEFINE new == [res[r] EXCEPT !.step = next, !.locked = @ \cup {k}]
    <2>1. res' = [res EXCEPT ![r] = new]
      BY <1>3 DEF Cache!Lock
    <2>2. /\ new \in Cache!ResolverType /\ new.step = next /\ new.content = res[r].content
          /\ new.file = res[r].file /\ new.locked = res[r].locked \cup {k}
          /\ new.beaten = res[r].beaten /\ new.result = res[r].result
      BY ResolverFields DEF Cache!Inv, Cache!ResolverType
    <2> HIDE DEF new
    <2>3. res'[r] = new
      BY <2>1 DEF Cache!Inv, Cache!TypeOK
    <2>4. Cache!Locking(r)
      BY DEF Cache!Inv
    <2>5. Cache!Locking(r)'
      <3>1. Cache!held(r)' = Cache!held(r) \cup {k}
        BY <1>1, <2>2, <2>3, <2>4 DEF Cache!held, Cache!Locking, Cache!Indexed
      <3>2. res'[r].step \in Cache!Indexed => Pinned
        BY <1>1, <2>2, <2>3, <2>4 DEF Cache!Locking, Cache!Indexed
      <3> QED BY <1>1, <2>2, <2>3, <2>4, <3>1, <3>2 DEF Cache!Locking, Cache!lockValid
    <2>6. Cache!Knowing(r)'
      BY <1>1, <2>2, <2>3 DEF Cache!Inv, Cache!Knowing, Cache!Resolved, Cache!Steps
    <2>7. Cache!Seeing(r)'
      BY <2>2, <2>3 DEF Cache!Seeing, Cache!Looked
    <2>8. Held(r, new)
      BY <1>1, <2>2 DEF Held
    <2> QED BY <1>1, <2>1, <2>2, <2>5, <2>6, <2>7, <2>8, LookKept DEF Sound
  <1> QED BY <1>2, <1>3

LEMMA AcquireKept ==
  ASSUME Cache!Inv, NEW r \in Resolvers,
         Cache!OpenIndex(r) \/ Cache!OpenArtifact(r) \/ Cache!OpenPublish(r) \/ Cache!Acquire(r)
  PROVE  Cache!Inv'
  <1>1. /\ Index \in Cache!Keys
        /\ {"open index", "lock index", "open artifact", "lock artifact", "open publish",
                                 "lock publish", "lookup", "verify", "place"} \subseteq Cache!Steps
    BY DEF Cache!Keys, Cache!Steps
  <1>2. res[r].locked = Cache!held(r)
    BY DEF Cache!Inv, Cache!Locking
  <1>3. CASE Cache!OpenIndex(r)
    <2>1. Index \notin res[r].locked
      BY <1>2, <1>3 DEF Cache!OpenIndex, Cache!Open, Cache!At, Cache!held
    <2> QED BY <1>1, <1>3, <2>1, OpenKept DEF Cache!OpenIndex, Opening
  <1>4. CASE Cache!OpenArtifact(r)
    <2>1. res[r].step = "open artifact"
      BY <1>4 DEF Cache!OpenArtifact, Cache!Open, Cache!At
    <2>2. res[r].content \in Cache!Keys /\ res[r].content # Index
      BY <2>1, ContentKnown DEF Cache!Resolved, Cache!Steps
    <2>3. res[r].content \notin res[r].locked
      BY <1>2, <2>1, <2>2 DEF Cache!held
    <2> QED BY <1>1, <1>4, <2>2, <2>3, OpenKept DEF Cache!OpenArtifact, Opening
  <1>5. CASE Cache!OpenPublish(r)
    <2>1. res[r].step = "open publish"
      BY <1>5 DEF Cache!OpenPublish, Cache!Open, Cache!At
    <2>2. res[r].content \in Cache!Keys /\ res[r].content # Index
      BY <2>1, ContentKnown DEF Cache!Resolved, Cache!Steps
    <2>3. res[r].content \notin res[r].locked
      BY <1>2, <2>1, <2>2 DEF Cache!held
    <2> QED BY <1>1, <1>5, <2>2, <2>3, OpenKept DEF Cache!OpenPublish, Opening
  <1>6. CASE Cache!LockIndex(r)
    BY <1>1, <1>6, LockKept DEF Cache!LockIndex
  <1>7. CASE Cache!LockArtifact(r)
    <2>1. res[r].content \in Cache!Keys
      BY <1>7, ContentKnown DEF Cache!LockArtifact, Cache!Lock, Cache!At, Cache!Resolved,
         Cache!Steps
    <2> QED BY <1>1, <1>7, <2>1, LockKept DEF Cache!LockArtifact
  <1>8. CASE Cache!LockPublish(r)
    <2>1. res[r].content \in Cache!Keys
      BY <1>8, ContentKnown DEF Cache!LockPublish, Cache!Lock, Cache!At, Cache!Resolved,
         Cache!Steps
    <2> QED BY <1>1, <1>8, <2>1, LockKept DEF Cache!LockPublish
  <1> QED BY <1>3, <1>4, <1>5, <1>6, <1>7, <1>8 DEF Cache!Acquire

LEMMA WentFields ==
  ASSUME Cache!TypeOK, NEW r \in Resolvers, NEW x, Cache!GoTo(r, x)
  PROVE  /\ res'[r].step = x /\ res'[r].content = res[r].content
         /\ res'[r].touched = res[r].touched
  BY ResolverFields DEF Cache!TypeOK, Cache!ResolverType, Cache!GoTo

LEMMA WentPlainly ==
  ASSUME Cache!Inv, NEW r \in Resolvers, NEW x \in Cache!Steps, Cache!GoTo(r, x),
         UNCHANGED <<entry, record, served, cacheUsed>>,
         Cache!held(r)' = Cache!held(r), x \in Cache!Indexed => Pinned,
         x \in Cache!Resolved => res[r].step \in Cache!Resolved,
         x \notin Cache!Looked, x # "remove"
  PROVE  Cache!Inv'
  <1>1. Cache!Seeing(r)'
    BY WentFields DEF Cache!Seeing, Cache!Inv
  <1> QED BY <1>1, WentOn

LEMMA LookupKept ==
  ASSUME Cache!Inv, NEW r \in Resolvers, Cache!Lookup(r)
  PROVE  Cache!Inv'
  <1>1. /\ res[r].step = "lookup" /\ UNCHANGED <<entry, record, served, cacheUsed>>
        /\ Cache!TypeOK /\ Cache!Locking(r)
    BY DEF Cache!Lookup, Cache!At, Cache!Inv
  <1>2. Pinned
    BY <1>1 DEF Cache!Locking, Cache!Indexed
  <1>3. CASE Cache!stateOf(entry[Index], Contents) = "valid"
    <2> DEFINE c == entry[Index].content
               new == [res[r] EXCEPT !.step = "open artifact", !.content = c]
    <2>1. res' = [res EXCEPT ![r] = new]
      BY <1>3 DEF Cache!Lookup
    <2>2. entry[Index] \in Cache!Entries /\ Index \in Cache!Keys
      BY <1>1 DEF Cache!TypeOK, Cache!Keys
    <2>3. c \in Contents /\ c \in served
      BY <1>3, <2>2, EntryStates DEF Cache!Inv, Cache!Backed
    <2> HIDE DEF c
    <2>4. /\ new \in Cache!ResolverType /\ new.step = "open artifact" /\ new.content = c
          /\ new.file = res[r].file /\ new.locked = res[r].locked /\ new.beaten = res[r].beaten
          /\ new.result = res[r].result
      BY <1>1, <2>3, ResolverFields DEF Cache!ResolverType, Cache!Steps
    <2> HIDE DEF new
    <2>5. res'[r] = new
      BY <2>1 DEF Cache!Inv, Cache!TypeOK
    <2>6. Cache!Locking(r)'
      <3>1. Cache!held(r)' = Cache!held(r)
        BY <1>1, <2>4, <2>5 DEF Cache!held
      <3> QED BY <1>1, <1>2, <2>4, <2>5, <3>1 DEF Cache!Locking, Cache!lockValid
    <2>7. Cache!Knowing(r)' /\ Cache!Seeing(r)'
      BY <1>1, <2>3, <2>4, <2>5 DEF Cache!Inv, Cache!Knowing, Cache!Seeing, Cache!Looked
    <2>8. Held(r, new)
      BY <2>4 DEF Held
    <2> QED BY <1>1, <2>1, <2>4, <2>6, <2>7, <2>8, LookKept DEF Sound
  <1>4. CASE Cache!stateOf(entry[Index], Contents) # "valid"
    <2>1. PICK x \in {"fetch", "retire index"} : Cache!GoTo(r, x)
      BY <1>4 DEF Cache!Lookup
    <2>2. Cache!held(r)' = Cache!held(r)
      BY <1>1, <2>1, WentFields DEF Cache!held
    <2> QED BY <1>1, <1>2, <2>1, <2>2, WentPlainly DEF Cache!Steps, Cache!Resolved, Cache!Looked
  <1> QED BY <1>3, <1>4

(* What changes of the index is no content. *)
LEMMA IndexOnly ==
  ASSUME Cache!Inv, NEW r \in Resolvers, NEW e \in Cache!Entries,
         entry' = [entry EXCEPT ![Index] = e],
         e.kind = "own" => e.claims \in served, UNCHANGED served
  PROVE  /\ entry' \in [Cache!Keys -> Cache!Entries] /\ Cache!Backed' /\ Careful(r)
         /\ \A c \in Contents : Cache!valid(c)' <=> Cache!valid(c)
  <1>1. /\ Index \in Cache!Keys /\ entry \in [Cache!Keys -> Cache!Entries]
        /\ \A c \in Contents : c \in Cache!Keys /\ c # Index /\ entry'[c] = entry[c]
    BY SourceCacheAssumption DEF Cache!Keys, Cache!KeyAssumption, Cache!Inv, Cache!TypeOK
  <1>2. Cache!Backed'
    BY <1>1, SourceCacheAssumption DEF Cache!Inv, Cache!Backed, Cache!KeyAssumption
  <1> QED BY <1>1, <1>2 DEF Careful, Cache!valid

LEMMA IndexRemoved ==
  ASSUME Cache!Inv, NEW r \in Resolvers, NEW x \in Cache!Steps, Cache!GoTo(r, x),
         entry' = [entry EXCEPT ![Index] = Cache!Missing],
         UNCHANGED <<record, served, cacheUsed>>,
         \/ res[r].step = "retire index" /\ x = "fetch"
         \/ res[r].step = "index remove" /\ x = "index commit"
  PROVE  Cache!Inv'
  <1>1. /\ entry' \in [Cache!Keys -> Cache!Entries] /\ Cache!Backed' /\ Careful(r)
        /\ \A c \in Contents : Cache!valid(c)' <=> Cache!valid(c)
    BY IndexOnly, EntryKinds
  <1>2. Pinned /\ Cache!TypeOK
    BY DEF Cache!Inv, Cache!Locking, Cache!Indexed
  <1>3. Cache!held(r)' = Cache!held(r)
    BY <1>2, WentFields DEF Cache!held
  <1>4. Cache!Seeing(r)'
    <2>1. CASE x = "fetch"
      BY <1>2, <2>1, WentFields DEF Cache!Seeing, Cache!Looked
    <2>2. CASE x = "index commit" /\ res[r].step = "index remove"
      <3>1. res[r].content \in Contents
        BY <2>2, ContentKnown DEF Cache!Resolved, Cache!Steps
      <3>2. Cache!Seeing(r) /\ (Cache!unreplaced' <=> Cache!unreplaced)
        BY DEF Cache!Inv, Cache!unreplaced
      <3> QED BY <1>1, <1>2, <2>2, <3>1, <3>2, WentFields DEF Cache!Seeing, Cache!Looked,
                 Cache!valid
    <2> QED BY <2>1, <2>2
  <1> QED BY <1>1, <1>2, <1>3, <1>4, CacheWentKept DEF Cache!Resolved, Cache!Steps, Cache!Inv,
             Cache!TypeOK

LEMMA VerifyKept ==
  ASSUME Cache!Inv, NEW r \in Resolvers, Cache!Verify(r)
  PROVE  Cache!Inv'
  <1>1. /\ res[r].step = "verify" /\ UNCHANGED <<entry, record, served, cacheUsed>>
        /\ Cache!Locking(r)
    BY DEF Cache!Verify, Cache!At, Cache!Inv
  <1>2. Pinned /\ res[r].content \in Contents /\ res[r].content # Index
    BY <1>1, ContentKnown DEF Cache!Locking, Cache!Indexed, Cache!Resolved, Cache!Steps
  <1>3. PICK x \in {"check hit", "fetch"} : Cache!Unlock(r, res[r].content, x)
    BY DEF Cache!Verify
  <1>4. res[r].locked = {Index, res[r].content}
    BY <1>1, <1>2 DEF Cache!Locking, Cache!held
  <1> QED BY <1>1, <1>2, <1>3, <1>4, UnlockKept DEF Cache!Steps, Cache!Resolved, Cache!Looked

LEMMA CheckKept ==
  ASSUME Cache!Inv, NEW r \in Resolvers, Cache!CheckHit(r) \/ Cache!CheckPublished(r)
  PROVE  Cache!Inv'
  <1> DEFINE x == IF Cache!CheckHit(r) THEN "leave" ELSE IF Pinned THEN "index place" ELSE "return"
             good == entry[res[r].content].kind = "own" /\ entry[res[r].content].content = res[r].content
  <1>1. /\ res[r].step \in {"check hit", "check published"} /\ Cache!TypeOK /\ Cache!Locking(r)
        /\ UNCHANGED <<entry, record, served, cacheUsed>>
    BY DEF Cache!CheckHit, Cache!CheckPublished, Cache!Check, Cache!At, Cache!Inv
  <1>2. res[r].content \in Contents /\ res[r].content \in Cache!Keys
    BY <1>1, ContentKnown DEF Cache!Resolved, Cache!Steps
  <1>3. CASE good
    <2> DEFINE new == [res[r] EXCEPT !.step = x, !.touched = FALSE]
    <2>1. res' = [res EXCEPT ![r] = new]
      BY <1>3 DEF Cache!CheckHit, Cache!CheckPublished, Cache!Check, Cache!At
    <2>2. /\ x \in {"leave", "index place", "return"}
          /\ x = "leave" => res[r].step = "check hit"
          /\ x = "index place" => res[r].step = "check published" /\ Pinned
          /\ x = "return" => res[r].step = "check published" /\ ~Pinned
      BY DEF Cache!CheckHit, Cache!CheckPublished, Cache!Check, Cache!At
    <2> HIDE DEF x
    <2>3. /\ new \in Cache!ResolverType /\ new.step = x /\ new.content = res[r].content
          /\ new.file = res[r].file /\ new.locked = res[r].locked /\ new.beaten = res[r].beaten
          /\ new.result = res[r].result
      BY <1>1, <2>2, ResolverFields DEF Cache!ResolverType, Cache!Steps
    <2> HIDE DEF new
    <2>4. res'[r] = new
      BY <2>1 DEF Cache!Inv, Cache!TypeOK
    <2>5. Cache!valid(res[r].content)
      BY <1>1, <1>2, <1>3, Validity DEF Cache!Inv, Cache!Backed
    <2>6. Cache!Locking(r)'
      <3>1. Cache!held(r)' = Cache!held(r)
        <4>1. res'[r].step = x /\ res'[r].content = res[r].content
          BY <2>3, <2>4
        <4>2. CASE x = "leave"
          BY <1>1, <2>2, <4>1, <4>2 DEF Cache!held
        <4>3. CASE x = "index place"
          BY <1>1, <2>2, <4>1, <4>3 DEF Cache!held
        <4>4. CASE x = "return"
          BY <1>1, <2>2, <4>1, <4>4 DEF Cache!held
        <4> QED BY <2>2, <4>2, <4>3, <4>4
      <3>2. x \in Cache!Indexed => Pinned
        BY <1>1, <2>2 DEF Cache!Locking, Cache!Indexed
      <3> QED BY <1>1, <2>3, <2>4, <3>1, <3>2 DEF Cache!Locking, Cache!lockValid
    <2>7. Cache!Knowing(r)' /\ Cache!Seeing(r)'
      <3>1. res[r].step \in Cache!Resolved /\ x # "remove" /\ Cache!Knowing(r)
        BY <1>1, <2>2 DEF Cache!Resolved, Cache!Steps, Cache!Inv
      <3> QED BY <1>1, <2>3, <2>4, <2>5, <3>1 DEF Cache!Knowing, Cache!Seeing, Cache!valid
    <2>8. Held(r, new)
      BY <2>3 DEF Held
    <2> QED BY <1>1, <2>1, <2>3, <2>6, <2>7, <2>8, LookKept DEF Sound
  <1>4. CASE ~good
    <2>1. CASE res[r].step = "check hit"
      <3>1. Cache!GoTo(r, "fetch")
        BY <1>4, <2>1 DEF Cache!CheckHit, Cache!CheckPublished, Cache!Check, Cache!CheckFailed,
           Cache!At
      <3>2. res'[r].step = "fetch" /\ res'[r].content = res[r].content
        BY <1>1, <3>1, WentFields
      <3>3. Cache!held(r)' = Cache!held(r)
        BY <2>1, <3>2 DEF Cache!held
      <3> QED BY <1>1, <3>1, <3>3, WentPlainly DEF Cache!Steps, Cache!Resolved, Cache!Looked,
                 Cache!Indexed
    <2>2. CASE res[r].step = "check published"
      <3>1. Cache!Fail(r)
        BY <1>4, <2>2 DEF Cache!CheckHit, Cache!CheckPublished, Cache!Check, Cache!CheckFailed,
           Cache!At
      <3> QED BY <1>1, <3>1, FailsKept
    <2> QED BY <1>1, <2>1, <2>2
  <1> QED BY <1>3, <1>4

LEMMA FetchKept ==
  ASSUME Cache!Inv, NEW r \in Resolvers, Cache!Fetch(r)
  PROVE  Cache!Inv'
  <1>1. /\ res[r].step = "fetch" /\ UNCHANGED <<entry, record, cacheUsed>> /\ Cache!TypeOK
        /\ Cache!Locking(r)
    BY DEF Cache!Fetch, Cache!At, Cache!Inv
  <1>2. CASE Cache!Fail(r) /\ UNCHANGED served
    BY <1>1, <1>2, FailsKept
  <1>3. ASSUME NEW c \in Contents, served' = served \cup {c},
               res' = [res EXCEPT ![r].step = "open publish", ![r].content = c]
        PROVE  Cache!Inv'
    <2> DEFINE new == [res[r] EXCEPT !.step = "open publish", !.content = c]
    <2>1. res' = [res EXCEPT ![r] = new]
      BY <1>3
    <2>2. /\ new \in Cache!ResolverType /\ new.step = "open publish" /\ new.content = c
          /\ new.file = res[r].file /\ new.locked = res[r].locked /\ new.beaten = res[r].beaten
          /\ new.result = res[r].result
      BY <1>1, ResolverFields DEF Cache!ResolverType, Cache!Steps
    <2> HIDE DEF new
    <2>3. res'[r] = new
      BY <2>1 DEF Cache!Inv, Cache!TypeOK
    <2>4. Cache!Locking(r)'
      <3>1. Cache!held(r)' = Cache!held(r)
        BY <1>1, <2>2, <2>3 DEF Cache!held
      <3> QED BY <1>1, <2>2, <2>3, <3>1 DEF Cache!Locking, Cache!lockValid, Cache!Indexed
    <2>5. Cache!Knowing(r)' /\ Cache!Seeing(r)'
      <3>1. Cache!Knowing(r) /\ c \in served' /\ served \subseteq served'
        BY <1>3 DEF Cache!Inv
      <3> QED BY <2>2, <2>3, <3>1 DEF Cache!Knowing, Cache!Seeing, Cache!Looked
    <2>6. Held(r, new)
      BY <2>2 DEF Held
    <2>7. Cache!Backed'
      BY <1>1, <1>3 DEF Cache!Inv, Cache!Backed
    <2>8. Careful(r)
      BY <1>1 DEF Careful
    <2>9. served \subseteq served' /\ served' \subseteq Contents
      BY <1>1, <1>3 DEF Cache!TypeOK
    <2>10. entry' \in [Cache!Keys -> Cache!Entries] /\ cacheUsed' \in [Cache!Events -> Nat]
      BY <1>1 DEF Cache!TypeOK
    <2> QED BY <1>1, <2>1, <2>2, <2>4, <2>5, <2>6, <2>7, <2>8, <2>9, <2>10, StepKept DEF Sound
  <1> QED BY <1>1, <1>2, <1>3 DEF Cache!Fetch

(* The content whose lock is held, and the index lock for a source that names a version. *)
LEMMA Publishing ==
  ASSUME Cache!Inv, NEW r \in Resolvers,
         res[r].step \in {"place", "remove", "commit", "confirm", "lost"}
  PROVE  /\ res[r].content \in Contents /\ res[r].content \in Cache!Keys /\ res[r].content # Index
         /\ res[r].content \in served /\ res[r].content \in res[r].locked
         /\ res[r].locked \ {res[r].content} = IF Pinned THEN {Index} ELSE {}
  <1>1. /\ res[r].content \in Contents /\ res[r].content \in Cache!Keys /\ res[r].content # Index
        /\ res[r].content \in served
    BY ContentKnown DEF Cache!Resolved, Cache!Steps
  <1>2. res[r].locked = Cache!held(r)
    BY DEF Cache!Inv, Cache!Locking
  <1> QED BY <1>1, <1>2 DEF Cache!held

LEMMA PublishedKept ==
  ASSUME Cache!Inv, NEW r \in Resolvers,
         res[r].step \in {"place", "remove", "commit", "confirm", "lost"},
         Cache!Unlock(r, res[r].content, "check published"), UNCHANGED <<entry, record, served, cacheUsed>>
  PROVE  Cache!Inv'
  <1> QED BY Publishing, UnlockKept DEF Cache!Steps, Cache!Resolved, Cache!Looked, Cache!Indexed

LEMMA PlaceKept ==
  ASSUME Cache!Inv, NEW r \in Resolvers, Cache!Place(r)
  PROVE  Cache!Inv'
  <1> DEFINE state == Cache!stateOf(entry[res[r].content], {res[r].content})
  <1>1. res[r].step = "place" /\ UNCHANGED <<entry, record, served, cacheUsed>> /\ Cache!TypeOK
    BY DEF Cache!Place, Cache!At, Cache!Inv
  <1>2. CASE state = "valid" /\ Cache!Unlock(r, res[r].content, "check published")
    BY <1>1, <1>2, PublishedKept
  <1>3. CASE state = "missing" /\ Cache!GoTo(r, "commit")
    <2>1. Cache!held(r)' = Cache!held(r)
      BY <1>1, <1>3, WentFields DEF Cache!held
    <2> QED BY <1>1, <1>3, <2>1, WentPlainly DEF Cache!Steps, Cache!Resolved, Cache!Looked,
               Cache!Indexed
  <1>4. CASE state = "owned invalid" /\ Cache!GoTo(r, "remove")
    <2>1. Cache!held(r)' = Cache!held(r)
      BY <1>1, <1>4, WentFields DEF Cache!held
    <2>2. Cache!Seeing(r)'
      <3>1. /\ ~Cache!valid(res[r].content)
            /\ (Cache!valid(res[r].content)' <=> Cache!valid(res[r].content))
        BY <1>1, <1>4, WentFields DEF Cache!valid
      <3>2. res'[r].step = "remove" /\ res'[r].content = res[r].content
        BY <1>1, <1>4, WentFields
      <3> QED BY <1>1, <1>4, <3>1, <3>2 DEF Cache!Seeing, Cache!Looked, Cache!valid
    <2> QED BY <1>1, <1>4, <2>1, <2>2, WentOn DEF Cache!Steps, Cache!Resolved, Cache!Indexed
  <1>5. CASE Cache!Fail(r)
    BY <1>1, <1>5, FailsKept
  <1> QED BY <1>2, <1>3, <1>4, <1>5 DEF Cache!Place

LEMMA ConfirmKept ==
  ASSUME Cache!Inv, NEW r \in Resolvers, Cache!LostRace(r) \/ Cache!Confirm(r)
  PROVE  Cache!Inv'
  <1>1. res[r].step \in {"lost", "confirm"} /\ UNCHANGED <<entry, record, served, cacheUsed>>
    BY DEF Cache!LostRace, Cache!Confirm, Cache!At
  <1>2. Cache!Unlock(r, res[r].content, "check published") \/ Cache!Fail(r)
    BY DEF Cache!LostRace, Cache!Confirm
  <1> QED BY <1>1, <1>2, PublishedKept, FailsKept

(* What changes under the lock of a content. *)
LEMMA ContentOnly ==
  ASSUME Cache!Inv, NEW r \in Resolvers, NEW c \in Contents, c \in res[r].locked,
         NEW e \in Cache!Entries,
         e.kind = "own" => e.claims = c /\ c \in served,
         (Cache!unreplaced /\ Cache!valid(c)) => e = entry[c],
         entry' = [entry EXCEPT ![c] = e], UNCHANGED served
  PROVE  entry' \in [Cache!Keys -> Cache!Entries] /\ Cache!Backed' /\ Careful(r)
  <1>1. /\ c \in Cache!Keys /\ entry \in [Cache!Keys -> Cache!Entries] /\ entry'[c] = e
        /\ \A k \in Cache!Keys : k # c => entry'[k] = entry[k]
    BY DEF Cache!Keys, Cache!Inv, Cache!TypeOK
  <1>2. Cache!Backed'
    BY <1>1 DEF Cache!Inv, Cache!Backed
  <1>3. Careful(r)
    BY <1>1 DEF Careful, Cache!Keys
  <1>4. entry' \in [Cache!Keys -> Cache!Entries]
    BY <1>1
  <1> QED BY <1>2, <1>3, <1>4

LEMMA RemoveKept ==
  ASSUME Cache!Inv, NEW r \in Resolvers, Cache!Remove(r)
  PROVE  Cache!Inv'
  <1>1. /\ res[r].step = "remove" /\ UNCHANGED <<record, served, cacheUsed>> /\ Cache!TypeOK
        /\ Cache!GoTo(r, "commit") /\ entry' = [entry EXCEPT ![res[r].content] = Cache!Missing]
    BY DEF Cache!Remove, Cache!At, Cache!Inv
  <1>2. Cache!unreplaced => ~Cache!valid(res[r].content)
    BY <1>1 DEF Cache!Inv, Cache!Seeing
  <1>3. entry' \in [Cache!Keys -> Cache!Entries] /\ Cache!Backed' /\ Careful(r)
    BY <1>1, <1>2, Publishing, EntryKinds, ContentOnly
  <1>4. res'[r].step = "commit" /\ res'[r].content = res[r].content
    BY <1>1, WentFields
  <1>5. Cache!held(r)' = Cache!held(r) /\ Cache!Seeing(r)'
    BY <1>1, <1>4 DEF Cache!held, Cache!Seeing, Cache!Looked
  <1> QED BY <1>1, <1>3, <1>5, CacheWentKept DEF Cache!Steps, Cache!Resolved, Cache!Indexed,
             Cache!TypeOK

LEMMA CacheCommits ==
  ASSUME Cache!Inv, NEW r \in Resolvers, Cache!Commit(r)
  PROVE  Cache!Inv'
  <1> DEFINE c == res[r].content
  <1>1. res[r].step = "commit" /\ UNCHANGED <<record, served, cacheUsed>> /\ Cache!TypeOK
    BY DEF Cache!Commit, Cache!At, Cache!Inv
  <1>2. CASE entry[c] = Cache!Missing
    <2>1. entry' = [entry EXCEPT ![c] = Cache!Own(c, c)] /\ Cache!GoTo(r, "confirm")
      BY <1>2 DEF Cache!Commit
    <2>2. ~Cache!valid(c)
      BY <1>1, <1>2, Publishing, Validity, EntryKinds
    <2>6. c \in Contents /\ c \in served /\ c \in res[r].locked
      BY <1>1, Publishing
    <2>7. Cache!Own(c, c) \in Cache!Entries /\ Cache!Own(c, c).claims = c
      BY <2>6, EntryKinds
    <2>3. entry' \in [Cache!Keys -> Cache!Entries] /\ Cache!Backed' /\ Careful(r)
      BY <1>1, <2>1, <2>2, <2>6, <2>7, ContentOnly
    <2>4. res'[r].step = "confirm" /\ res'[r].content = c
      BY <1>1, <2>1, WentFields
    <2>5. Cache!held(r)' = Cache!held(r) /\ Cache!Seeing(r)'
      BY <1>1, <2>4 DEF Cache!held, Cache!Seeing, Cache!Looked
    <2> QED BY <1>1, <2>1, <2>3, <2>5, CacheWentKept DEF Cache!Steps, Cache!Resolved,
               Cache!Indexed, Cache!TypeOK
  <1>3. CASE entry[c] # Cache!Missing
    <2>1. UNCHANGED <<entry, record, served, cacheUsed>> /\ Cache!GoTo(r, "lost")
      BY <1>1, <1>3 DEF Cache!Commit
    <2>2. res'[r].step = "lost" /\ res'[r].content = c
      BY <1>1, <2>1, WentFields
    <2>3. Cache!held(r)' = Cache!held(r)
      BY <1>1, <2>2 DEF Cache!held
    <2> QED BY <1>1, <2>1, <2>3, WentPlainly DEF Cache!Steps, Cache!Resolved, Cache!Looked,
               Cache!Indexed
  <1> QED BY <1>2, <1>3

(* A resolver that goes on after its last look at the content, and leaves it alone. *)
LEMMA LookedOn ==
  ASSUME Cache!Inv, NEW r \in Resolvers,
         res[r].step \in {"index place", "index remove", "index commit"},
         NEW x \in {"index remove", "index commit", "leave"}, Cache!GoTo(r, x),
         UNCHANGED <<record, served, cacheUsed>>, entry' \in [Cache!Keys -> Cache!Entries],
         Cache!Backed', Careful(r),
         \A c \in Contents : Cache!valid(c)' <=> Cache!valid(c)
  PROVE  Cache!Inv'
  <1>1. Cache!TypeOK /\ Cache!Seeing(r) /\ (Cache!unreplaced' <=> Cache!unreplaced) /\ Pinned
    BY DEF Cache!Inv, Cache!unreplaced, Cache!Locking, Cache!Indexed
  <1>2. /\ res'[r].step = x /\ res'[r].content = res[r].content
        /\ res'[r].touched = res[r].touched
    BY <1>1, WentFields
  <1>3. res[r].content \in Contents /\ res[r].step \in Cache!Looked
    BY ContentKnown DEF Cache!Resolved, Cache!Steps, Cache!Looked
  <1>4. Cache!Seeing(r)'
    <2>1. Cache!valid(res[r].content)' <=> Cache!valid(res[r].content)
      BY <1>2, <1>3 DEF Cache!valid
    <2> QED BY <1>1, <1>2, <1>3, <2>1 DEF Cache!Seeing, Cache!Looked, Cache!valid
  <1>5. Cache!held(r)' = Cache!held(r)
    BY <1>2 DEF Cache!held
  <1>6. /\ cacheUsed' \in [Cache!Events -> Nat] /\ x \in Cache!Steps
        /\ res[r].step \in Cache!Resolved
    BY <1>1 DEF Cache!TypeOK, Cache!Steps, Cache!Resolved
  <1> QED BY <1>1, <1>4, <1>5, <1>6, CacheWentKept

LEMMA IndexPlaceKept ==
  ASSUME Cache!Inv, NEW r \in Resolvers, Cache!IndexPlace(r)
  PROVE  Cache!Inv'
  <1>1. res[r].step = "index place" /\ UNCHANGED <<entry, record, served, cacheUsed>>
    BY DEF Cache!IndexPlace, Cache!At
  <1>2. PICK x \in {"index remove", "index commit", "leave"} : Cache!GoTo(r, x)
    BY DEF Cache!IndexPlace
  <1>3. Cache!Backed' /\ Careful(r) /\ entry' \in [Cache!Keys -> Cache!Entries] /\ \A c \in Contents : Cache!valid(c)' <=> Cache!valid(c)
    BY <1>1 DEF Cache!Inv, Cache!Backed, Careful, Cache!TypeOK, Cache!valid
  <1> QED BY <1>1, <1>2, <1>3, LookedOn

LEMMA IndexCommitKept ==
  ASSUME Cache!Inv, NEW r \in Resolvers, Cache!IndexCommit(r)
  PROVE  Cache!Inv'
  <1> DEFINE c == res[r].content
  <1>1. res[r].step = "index commit" /\ UNCHANGED <<record, served, cacheUsed>>
    BY DEF Cache!IndexCommit, Cache!At
  <1>2. c \in Contents /\ c \in served
    BY <1>1, ContentKnown DEF Cache!Resolved, Cache!Steps
  <1>3. CASE entry[Index] = Cache!Missing
    <2>1. entry' = [entry EXCEPT ![Index] = Cache!Own(c, c)] /\ Cache!GoTo(r, "leave")
      BY <1>3 DEF Cache!IndexCommit
    <2>2. Cache!Own(c, c) \in Cache!Entries /\ Cache!Own(c, c).claims = c
      BY <1>2, EntryKinds
    <2>3. /\ entry' \in [Cache!Keys -> Cache!Entries] /\ Cache!Backed' /\ Careful(r)
          /\ \A d \in Contents : Cache!valid(d)' <=> Cache!valid(d)
      BY <1>1, <1>2, <2>1, <2>2, IndexOnly
    <2> QED BY <1>1, <2>1, <2>3, LookedOn
  <1>4. CASE entry[Index] # Cache!Missing
    <2>1. UNCHANGED entry /\ (Cache!GoTo(r, "leave") \/ Cache!Fail(r))
      BY <1>4 DEF Cache!IndexCommit
    <2>2. Cache!Backed' /\ Careful(r) /\ entry' \in [Cache!Keys -> Cache!Entries] /\ \A d \in Contents : Cache!valid(d)' <=> Cache!valid(d)
      BY <1>1, <2>1 DEF Cache!Inv, Cache!Backed, Careful, Cache!TypeOK, Cache!valid
    <2> QED BY <1>1, <2>1, <2>2, LookedOn, FailsKept
  <1> QED BY <1>3, <1>4

LEMMA RetireIndexKept ==
  ASSUME Cache!Inv, NEW r \in Resolvers, Cache!RetireIndex(r) \/ Cache!IndexRemove(r)
  PROVE  Cache!Inv'
  BY IndexRemoved DEF Cache!RetireIndex, Cache!IndexRemove, Cache!At, Cache!Steps

LEMMA LeaveKept ==
  ASSUME Cache!Inv, NEW r \in Resolvers, Cache!Leave(r)
  PROVE  Cache!Inv'
  <1>1. /\ res[r].step = "leave" /\ Cache!Unlock(r, Index, "return")
        /\ UNCHANGED <<entry, record, served, cacheUsed>>
    BY DEF Cache!Leave, Cache!At
  <1>2. Pinned /\ res[r].locked = {Index}
    BY <1>1 DEF Cache!Inv, Cache!Locking, Cache!held, Cache!Indexed
  <1> QED BY <1>1, <1>2, UnlockKept DEF Cache!Steps, Cache!Resolved, Cache!Looked, Cache!Indexed

LEMMA ReturnKept ==
  ASSUME Cache!Inv, NEW r \in Resolvers, Cache!ReturnResult(r)
  PROVE  Cache!Inv'
  <1> DEFINE c == res[r].content
             new == [Cache!NewResolver EXCEPT !.result = c]
  <1>1. /\ res[r].step = "return" /\ UNCHANGED <<entry, record, served, cacheUsed>>
        /\ Cache!TypeOK
        /\ res' = [res EXCEPT ![r] = new]
    BY DEF Cache!ReturnResult, Cache!At, Cache!Inv
  <1>2. c \in Contents /\ c \in served
    BY <1>1, ContentKnown DEF Cache!Resolved, Cache!Steps
  <1>3. /\ new \in Cache!ResolverType /\ new.step = "idle" /\ new.locked = {} /\ new.beaten = {}
        /\ new.result = c /\ \A k \in Cache!Keys : new.file[k] = 0
    BY <1>2 DEF Cache!NewResolver, Cache!ResolverType, Cache!Steps
  <1> HIDE DEF new
  <1>4. res'[r] = new /\ \A k \in Cache!Keys : record'[k] \in Nat
    BY <1>1 DEF Cache!TypeOK
  <1>5. Cache!Locking(r)'
    <2>1. Cache!held(r)' = {}
      BY <1>3, <1>4 DEF Cache!held
    <2>2. \A k \in Cache!Keys : res'[r].file[k] <= record'[k]
      BY <1>3, <1>4
    <2> QED BY <1>3, <1>4, <2>1, <2>2 DEF Cache!Locking, Cache!Indexed
  <1>6. Cache!Knowing(r)' /\ Cache!Seeing(r)'
    <2>1. res'[r].step = "idle" /\ res'[r].result \in served'
      BY <1>1, <1>2, <1>3, <1>4
    <2> QED BY <2>1 DEF Cache!Knowing, Cache!Seeing, Cache!Resolved, Cache!Looked
  <1>7. Held(r, new)
    BY <1>3 DEF Held
  <1> QED BY <1>1, <1>3, <1>5, <1>6, <1>7, LookKept DEF Sound

-----------------------------------------------------------------------------
(* Faults and other people. *)

LEMMA FaultWrites ==
  ASSUME Cache!Inv, NEW r \in Resolvers, Cache!Fault(r)
  PROVE  entry' \in [Cache!Keys -> Cache!Entries] /\ Cache!Backed' /\ Careful(r)
  <1> DEFINE c == res[r].content
  <1>1. /\ res[r].step \in {"retire index", "remove", "commit", "index remove", "index commit"}
        /\ UNCHANGED served /\ Cache!TypeOK
    BY DEF Cache!Fault, Cache!Inv
  <1>2. CASE entry' = entry
    BY <1>1, <1>2 DEF Cache!Inv, Cache!Backed, Careful, Cache!TypeOK
  <1>3. CASE res[r].step \in {"retire index", "index remove", "index commit"} /\ entry' # entry
    <2>1. PICK e \in {Cache!Missing, Cache!Own(c, c)} : /\ entry' = [entry EXCEPT ![Index] = e]
                                                        /\ e # Cache!Missing => res[r].step = "index commit"
      <3>1. Index \in Cache!Keys /\ entry = [entry EXCEPT ![Index] = entry[Index]]
        BY <1>1 DEF Cache!Keys, Cache!TypeOK
      <3> QED BY <1>3, <3>1 DEF Cache!Fault
    <2>2. e \in Cache!Entries /\ (e.kind = "own" => e.claims \in served)
      <3>1. CASE e = Cache!Missing
        BY <3>1, EntryKinds
      <3>2. CASE e = Cache!Own(c, c) /\ res[r].step = "index commit"
        <4>1. c \in Contents /\ c \in served
          BY <3>2, ContentKnown DEF Cache!Resolved, Cache!Steps
        <4> QED BY <3>2, <4>1, EntryKinds
      <3> QED BY <2>1, <3>1, <3>2
    <2> QED BY <1>1, <2>1, <2>2, IndexOnly
  <1>4. CASE res[r].step \in {"remove", "commit"} /\ entry' # entry
    <2>1. c \in Contents /\ c \in served /\ c \in res[r].locked /\ c \in Cache!Keys
      BY <1>4, Publishing
    <2>2. PICK e \in {Cache!Missing, Cache!Own(c, c)} :
              /\ entry' = [entry EXCEPT ![c] = e]
              /\ res[r].step = "remove" \/ entry[c] = Cache!Missing
      <3>1. entry = [entry EXCEPT ![c] = entry[c]]
        BY <1>1, <2>1 DEF Cache!TypeOK
      <3> QED BY <1>4, <3>1 DEF Cache!Fault
    <2>3. e \in Cache!Entries /\ (e.kind = "own" => e.claims = c /\ c \in served)
      BY <2>1, EntryKinds
    <2>4. Cache!unreplaced => ~Cache!valid(c)
      <3>1. CASE res[r].step = "remove"
        BY <3>1 DEF Cache!Inv, Cache!Seeing
      <3>2. CASE entry[c] = Cache!Missing
        BY <1>1, <2>1, <3>2, Validity, EntryKinds
      <3> QED BY <2>2, <3>1, <3>2
    <2> QED BY <1>1, <2>1, <2>2, <2>3, <2>4, ContentOnly
  <1> QED BY <1>1, <1>2, <1>3, <1>4

LEMMA CacheFaults ==
  ASSUME Cache!Inv, NEW r \in Resolvers, Cache!Fault(r)
  PROVE  Cache!Inv'
  <1>1. /\ Cache!Fail(r) /\ UNCHANGED <<record, served>>
        /\ cacheUsed' \in [Cache!Events -> Nat] /\ cacheUsed'["replace"] = cacheUsed["replace"]
    BY SpentElse DEF Cache!Fault, Cache!Inv, Cache!Events
  <1> QED BY <1>1, FaultWrites, GivesUp DEF Cache!Fail

LEMMA CacheCrashes ==
  ASSUME Cache!Inv, NEW r \in Resolvers, Cache!Crash(r)
  PROVE  Cache!Inv'
  <1>1. /\ res' = [res EXCEPT ![r] = Cache!NewResolver] /\ UNCHANGED <<entry, record, served>>
        /\ cacheUsed' \in [Cache!Events -> Nat] /\ cacheUsed'["replace"] = cacheUsed["replace"]
    BY SpentElse DEF Cache!Crash, Cache!Inv, Cache!Events
  <1>2. Cache!Backed' /\ Careful(r) /\ entry' \in [Cache!Keys -> Cache!Entries]
    BY <1>1 DEF Cache!Inv, Cache!Backed, Careful, Cache!TypeOK
  <1> QED BY <1>1, <1>2, GivesUp

LEMMA DamageKept ==
  ASSUME Cache!Inv, NEW k \in Cache!Keys, Cache!Damage(k)
  PROVE  Cache!Inv'
  <1> DEFINE past(q) == [res[q] EXCEPT !.touched = @ \/ res[q].content = k]
  <1>1. /\ res' = [q \in Resolvers |-> past(q)] /\ UNCHANGED <<record, served>> /\ Cache!TypeOK
        /\ cacheUsed' \in [Cache!Events -> Nat] /\ cacheUsed'["replace"] = cacheUsed["replace"]
    BY SpentElse DEF Cache!Damage, Cache!Inv, Cache!Events
  <1>2. ASSUME NEW q \in Resolvers
        PROVE  /\ past(q) \in Cache!ResolverType /\ past(q).step = res[q].step
               /\ past(q).content = res[q].content /\ past(q).file = res[q].file
               /\ past(q).locked = res[q].locked /\ past(q).beaten = res[q].beaten
               /\ past(q).result = res[q].result
               /\ past(q).touched = (res[q].touched \/ res[q].content = k)
    BY <1>1, ResolverFields DEF Cache!ResolverType
  <1> HIDE DEF past
  <1>3. \A q \in Resolvers : /\ res'[q] \in Cache!ResolverType /\ res'[q].step = res[q].step
               /\ res'[q].content = res[q].content /\ res'[q].file = res[q].file
               /\ res'[q].locked = res[q].locked /\ res'[q].beaten = res[q].beaten
               /\ res'[q].result = res[q].result
               /\ res'[q].touched = (res[q].touched \/ res[q].content = k)
    BY <1>1, <1>2
  <1>4. PICK e : /\ entry' = [entry EXCEPT ![k] = e] /\ e \in Cache!Entries
                 /\ e.kind = "own" => entry[k].kind = "own" /\ e.claims = entry[k].claims
                                      /\ e.content = Damaged
    <2>1. entry[k] \in Cache!Entries
      BY <1>1 DEF Cache!TypeOK
    <2>2. CASE entry' = [entry EXCEPT ![k] = Cache!Alien]
      BY <2>2, EntryKinds
    <2>3. CASE entry[k].kind = "own" /\ entry' = [entry EXCEPT ![k].content = Damaged]
      <3> DEFINE e == Cache!Own(entry[k].claims, Damaged)
      <3>1. [entry[k] EXCEPT !.content = Damaged] = e
        BY <2>1, <2>3, EntryForms DEF Cache!Own
      <3>2. entry[k].claims \in Contents
        BY <2>1, <2>3, EntryForms
      <3>3. e \in Cache!Entries /\ e.claims = entry[k].claims /\ e.content = Damaged
        BY <3>2, EntryKinds
      <3> QED BY <2>3, <3>1, <3>3
    <2> QED BY <2>2, <2>3 DEF Cache!Damage
  <1>5. entry' \in [Cache!Keys -> Cache!Entries] /\ entry'[k] = e /\ \A j \in Cache!Keys : j # k => entry'[j] = entry[j]
    BY <1>1, <1>4 DEF Cache!TypeOK
  <1>6. Cache!TypeOK'
    <2>1. res' \in [Resolvers -> Cache!ResolverType]
      BY <1>1, <1>2
    <2> QED BY <1>1, <1>5, <2>1 DEF Cache!TypeOK
  <1>7. Cache!Backed'
    BY <1>1, <1>4, <1>5 DEF Cache!Inv, Cache!Backed
  <1>8. \A c \in Contents : (Cache!valid(c)' => Cache!valid(c)) /\ (c # k => (Cache!valid(c)' <=> Cache!valid(c)))
    <2> SUFFICES ASSUME NEW c \in Contents
                 PROVE  (Cache!valid(c)' => Cache!valid(c)) /\ (c # k => (Cache!valid(c)' <=> Cache!valid(c)))
      OBVIOUS
    <2>1. CASE c # k
      BY <1>5, <2>1 DEF Cache!valid, Cache!Keys
    <2>2. CASE c = k
      <3>1. ~(e.kind = "own" /\ e.claims = c /\ e.content = c)
        BY <1>4, SourceCacheAssumption DEF Cache!KeyAssumption
      <3>2. entry'[c] = e
        BY <1>5, <2>2
      <3>3. ~Cache!valid(c)'
        BY <1>4, <3>1, <3>2, EntryStates DEF Cache!valid
      <3> QED BY <2>2, <3>3
    <2> QED BY <2>1, <2>2
  <1>9. ASSUME NEW q \in Resolvers PROVE Sound(q)'
    <2>1. Cache!Locking(q)'
      <3>1. Cache!held(q)' = Cache!held(q)
        BY <1>3 DEF Cache!held
      <3>2. Cache!Locking(q)
        BY DEF Cache!Inv
      <3> QED BY <1>1, <1>3, <3>1, <3>2 DEF Cache!Locking, Cache!lockValid
    <2>2. Cache!Knowing(q)'
      <3>1. Cache!Knowing(q)
        BY DEF Cache!Inv
      <3> QED BY <1>1, <1>3, <3>1 DEF Cache!Knowing
    <2>3. Cache!Seeing(q)'
      <3>1. Cache!Seeing(q) /\ (Cache!unreplaced' <=> Cache!unreplaced)
        BY <1>1 DEF Cache!Inv, Cache!unreplaced
      <3>2. res[q].step \in {"remove"} \cup Cache!Looked => res[q].content \in Contents
        BY ContentKnown DEF Cache!Looked, Cache!Resolved, Cache!Steps
      <3>3. Cache!valid(res[q].content)' <=> Cache!stateOf(entry'[res[q].content], {res[q].content}) = "valid"
        BY <1>3 DEF Cache!valid
      <3>4. ASSUME Cache!unreplaced, res[q].step = "remove" PROVE ~Cache!valid(res[q].content)'
        BY <1>8, <3>1, <3>2, <3>3, <3>4 DEF Cache!Seeing, Cache!valid
      <3>5. ASSUME Cache!unreplaced, res[q].step \in Cache!Looked, ~res'[q].touched
            PROVE  Cache!valid(res[q].content)'
        <4>1. ~res[q].touched /\ res[q].content # k
          BY <1>3, <3>5
        <4> QED BY <1>8, <3>1, <3>2, <3>3, <3>5, <4>1 DEF Cache!Seeing, Cache!valid
      <3> QED BY <1>3, <3>1, <3>4, <3>5 DEF Cache!Seeing
    <2> QED BY <2>1, <2>2, <2>3 DEF Sound
  <1>10. Cache!Alone'
    BY <1>3 DEF Cache!Inv, Cache!Alone
  <1>11. Cache!unreplaced' => \A j \in Cache!Keys : record'[j] = 0
    BY <1>1 DEF Cache!Inv, Cache!unreplaced
  <1> QED BY <1>6, <1>7, <1>9, <1>10, <1>11 DEF Cache!Inv, Sound

LEMMA ReplaceKept ==
  ASSUME Cache!Inv, NEW k \in Cache!Keys, Cache!ReplaceRecord(k)
  PROVE  Cache!Inv'
  <1>1. /\ record' = [record EXCEPT ![k] = @ + 1] /\ UNCHANGED <<entry, served, res>>
        /\ Cache!TypeOK /\ cacheUsed' \in [Cache!Events -> Nat] /\ ~Cache!unreplaced'
    BY DEF Cache!ReplaceRecord, Cache!Spend, Cache!Inv, Cache!TypeOK, Cache!Events,
       Cache!unreplaced
  <1>2. /\ record \in [Cache!Keys -> Nat] /\ record' \in [Cache!Keys -> Nat]
        /\ \A j \in Cache!Keys : record'[j] = IF j = k THEN record[j] + 1 ELSE record[j]
    BY <1>1 DEF Cache!TypeOK
  <1>3. ASSUME NEW q \in Resolvers PROVE Sound(q)'
    <2>1. /\ Cache!Locking(q) /\ res[q].file \in [Cache!Keys -> Nat]
          /\ res[q].beaten \subseteq Cache!Keys
      BY ResolverFields DEF Cache!Inv
    <2>2. \A j \in Cache!Keys : /\ res[q].file[j] <= record'[j]
                                /\ record[j] # res[q].file[j] => record'[j] # res[q].file[j]
      BY <1>2, <2>1 DEF Cache!Locking
    <2>3. Cache!Locking(q)'
      BY <1>1, <2>1, <2>2 DEF Cache!Locking, Cache!lockValid, Cache!held
    <2>4. Cache!Knowing(q)' /\ Cache!Seeing(q)'
      BY <1>1 DEF Cache!Inv, Cache!Knowing, Cache!Seeing
    <2> QED BY <2>3, <2>4 DEF Sound
  <1>4. Cache!TypeOK' /\ Cache!Backed' /\ Cache!Alone'
    BY <1>1, <1>2 DEF Cache!Inv, Cache!TypeOK, Cache!Backed, Cache!Alone
  <1> QED BY <1>1, <1>3, <1>4 DEF Cache!Inv, Sound

-----------------------------------------------------------------------------
(* All steps. *)

LEMMA CacheInit == Cache!Init => Cache!Inv
  <1> SUFFICES ASSUME Cache!Init PROVE Cache!Inv
    OBVIOUS
  <1>1. Cache!TypeOK
    BY NewResolverType, EntryKinds DEF Cache!Init, Cache!TypeOK
  <1>2. \A r \in Resolvers : /\ res[r].step = "idle" /\ res[r].locked = {} /\ res[r].beaten = {}
                             /\ res[r].result = Cache!NoContent /\ \A k \in Cache!Keys : res[r].file[k] = 0
    BY DEF Cache!Init, Cache!NewResolver
  <1>3. \A k \in Cache!Keys : record[k] = 0 /\ entry[k] = Cache!Missing
    BY DEF Cache!Init
  <1>4. \A r \in Resolvers : Cache!Locking(r)
    <2> SUFFICES ASSUME NEW r \in Resolvers PROVE Cache!Locking(r)
      OBVIOUS
    <2>1. Cache!held(r) = {} /\ res[r].locked = {} /\ res[r].beaten = {} /\ res[r].step = "idle"
      BY <1>2 DEF Cache!held
    <2>2. \A k \in Cache!Keys : res[r].file[k] <= record[k]
      BY <1>2, <1>3
    <2>3. res[r].step \notin Cache!Indexed
      BY <2>1 DEF Cache!Indexed
    <2> QED BY <2>1, <2>2, <2>3 DEF Cache!Locking
  <1>5. \A r \in Resolvers : Cache!Knowing(r) /\ Cache!Seeing(r)
    BY <1>2, SourceCacheAssumption DEF Cache!Knowing, Cache!Seeing, Cache!Resolved, Cache!Looked,
       Cache!KeyAssumption, Cache!NoContent
  <1>6. Cache!Alone /\ Cache!Backed
    BY <1>2, <1>3, EntryKinds DEF Cache!Alone, Cache!Backed
  <1> QED BY <1>1, <1>3, <1>4, <1>5, <1>6 DEF Cache!Inv

LEMMA CacheUnchanged ==
  ASSUME Cache!Inv, UNCHANGED Cache!vars
  PROVE  Cache!Inv'
  <1>1. /\ Cache!TypeOK' /\ Cache!Backed' /\ Cache!Alone'
        /\ (Cache!unreplaced' => \A k \in Cache!Keys : record'[k] = 0)
    BY DEF Cache!vars, Cache!Inv, Cache!TypeOK, Cache!Backed, Cache!Alone, Cache!unreplaced
  <1>2. ASSUME NEW r \in Resolvers
        PROVE  Cache!Locking(r)' /\ Cache!Knowing(r)' /\ Cache!Seeing(r)'
    BY DEF Cache!vars, Cache!Inv, Cache!Locking, Cache!held, Cache!lockValid, Cache!Knowing,
       Cache!Seeing, Cache!unreplaced, Cache!valid
  <1> QED BY <1>1, <1>2 DEF Cache!Inv

LEMMA CacheNextKept ==
  ASSUME Cache!Inv, Cache!Next \/ UNCHANGED Cache!vars
  PROVE  Cache!Inv'
  <1>1. ASSUME NEW r \in Resolvers, Cache!Hit(r) PROVE Cache!Inv'
    BY <1>1, AcquireKept, LookupKept, RetireIndexKept, VerifyKept, CheckKept DEF Cache!Hit
  <1>2. ASSUME NEW r \in Resolvers, Cache!PublishEntry(r) PROVE Cache!Inv'
    BY <1>2, AcquireKept, PlaceKept, RemoveKept, CacheCommits, ConfirmKept, CheckKept DEF
       Cache!PublishEntry
  <1>3. ASSUME NEW r \in Resolvers, Cache!PublishIndex(r) PROVE Cache!Inv'
    BY <1>3, IndexPlaceKept, RetireIndexKept, IndexCommitKept, LeaveKept, ReturnKept DEF
       Cache!PublishIndex
  <1>4. ASSUME NEW r \in Resolvers,
               Cache!Begin(r) \/ Cache!Acquire(r) \/ Cache!Work(r) \/ Cache!Fault(r) \/ Cache!Crash(r)
        PROVE  Cache!Inv'
    BY <1>1, <1>2, <1>3, <1>4, CacheBegins, AcquireKept, FetchKept, CacheFaults, CacheCrashes DEF
       Cache!Work
  <1> QED BY <1>4, DamageKept, ReplaceKept, CacheUnchanged DEF Cache!Next

(* Whoever resolves, damages entries or replaces lock records, and whatever fails: which
   locks a resolver holds at each step, that two never hold one, and that what is being
   removed stays invalid while what was looked at stays valid. *)
THEOREM CacheInvariant == Cache!Spec => []Cache!Inv
  BY CacheInit, CacheNextKept, PTL DEF Cache!Spec

LEMMA CacheFine ==
  ASSUME Cache!Inv
  PROVE  Cache!TypeOK /\ Cache!Genuine /\ Cache!OneSuccess
  <1>1. ASSUME NEW r \in Resolvers, NEW k \in res[r].beaten, k \in res[r].locked
        PROVE  ~Cache!lockValid(r, k)
    BY <1>1 DEF Cache!Inv, Cache!Locking
  <1>2. Cache!Genuine
    BY DEF Cache!Inv, Cache!Genuine, Cache!Knowing, Cache!Seeing, Cache!Looked, Cache!valid,
       Cache!unreplaced
  <1> QED BY <1>1, <1>2 DEF Cache!OneSuccess, Cache!Inv

(* What a resolution returns was served and is still what was hashed, and of two that work
   on an entry under a replaced lock record only one ends well. *)
THEOREM CacheAlwaysSound == Cache!Spec => []CacheSound
  <1>1. Cache!Inv => CacheSound
    BY CacheFine DEF CacheSound
  <1> QED BY <1>1, CacheInvariant, PTL

-----------------------------------------------------------------------------
(* No resolver removes a valid entry. *)

LEMMA SpentSome ==
  ASSUME Cache!TypeOK, NEW e \in Cache!Events, Cache!Spend(e)
  PROVE  cacheUsed' # cacheUsed
  BY DEF Cache!TypeOK, Cache!Spend

LEMMA KeepsValid ==
  ASSUME Cache!Inv, Cache!Next \/ UNCHANGED Cache!vars, NEW c \in Contents, Cache!valid(c),
         cacheUsed'["replace"] = 0, cacheUsed' = cacheUsed
  PROVE  entry'[c] = entry[c]
  <1>1. Cache!TypeOK /\ Cache!unreplaced /\ Index # c
    BY SourceCacheAssumption DEF Cache!Inv, Cache!unreplaced, Cache!KeyAssumption
  <1>2. ASSUME NEW r \in Resolvers,
               Cache!Begin(r) \/ Cache!Acquire(r) \/ Cache!Fetch(r) \/ Cache!Crash(r)
        PROVE  entry' = entry
    BY <1>2 DEF Cache!Begin, Cache!Acquire, Cache!LockIndex, Cache!LockArtifact,
       Cache!LockPublish, Cache!Lock, Cache!Fetch, Cache!Crash
  <1>3. ASSUME NEW r \in Resolvers, Cache!Fault(r) PROVE FALSE
    BY <1>1, <1>3, SpentSome DEF Cache!Fault, Cache!Events
  <1>4. ASSUME NEW k \in Cache!Keys, Cache!Damage(k) \/ Cache!ReplaceRecord(k) PROVE FALSE
    BY <1>1, <1>4, SpentSome DEF Cache!Damage, Cache!ReplaceRecord, Cache!Events
  <1>5. ASSUME NEW r \in Resolvers, Cache!Hit(r) PROVE entry'[c] = entry[c]
    <2>1. CASE Cache!RetireIndex(r)
      BY <1>1, <2>1 DEF Cache!RetireIndex, Cache!TypeOK, Cache!Keys
    <2>2. CASE ~Cache!RetireIndex(r)
      BY <1>5, <2>2 DEF Cache!Hit, Cache!OpenIndex, Cache!OpenArtifact, Cache!Open, Cache!Lookup,
         Cache!Verify, Cache!CheckHit, Cache!Check
    <2> QED BY <2>1, <2>2
  <1>6. ASSUME NEW r \in Resolvers, Cache!Remove(r) PROVE entry'[c] = entry[c]
    <2>1. c # res[r].content
      BY <1>1, <1>6 DEF Cache!Remove, Cache!At, Cache!Inv, Cache!Seeing
    <2> QED BY <1>1, <1>6, <2>1 DEF Cache!Remove, Cache!TypeOK, Cache!Keys
  <1>7. ASSUME NEW r \in Resolvers, Cache!Commit(r) PROVE entry'[c] = entry[c]
    <2>1. CASE c = res[r].content
      <3>1. entry[c] # Cache!Missing
        BY <1>1, EntryKinds, Validity
      <3> QED BY <1>7, <2>1, <3>1 DEF Cache!Commit
    <2>2. CASE c # res[r].content
      <3>1. \/ entry' = entry
            \/ \E e : entry' = [entry EXCEPT ![res[r].content] = e]
        BY <1>7 DEF Cache!Commit
      <3> QED BY <1>1, <2>2, <3>1 DEF Cache!TypeOK, Cache!Keys
    <2> QED BY <2>1, <2>2
  <1>8. ASSUME NEW r \in Resolvers, Cache!PublishEntry(r) PROVE entry'[c] = entry[c]
    <2>1. CASE Cache!Remove(r) \/ Cache!Commit(r)
      BY <1>6, <1>7, <2>1
    <2>2. CASE ~(Cache!Remove(r) \/ Cache!Commit(r))
      BY <1>8, <2>2
         DEF Cache!PublishEntry, Cache!OpenPublish, Cache!Open, Cache!Place, Cache!LostRace,
             Cache!Confirm, Cache!CheckPublished, Cache!Check
    <2> QED BY <2>1, <2>2
  <1>9. ASSUME NEW r \in Resolvers, Cache!PublishIndex(r) PROVE entry'[c] = entry[c]
    <2>1. \/ entry' = entry
          \/ \E e : entry' = [entry EXCEPT ![Index] = e]
      BY <1>9 DEF Cache!PublishIndex, Cache!IndexPlace, Cache!IndexRemove, Cache!IndexCommit,
         Cache!Leave, Cache!ReturnResult
    <2> QED BY <1>1, <2>1 DEF Cache!TypeOK, Cache!Keys
  <1> QED BY <1>2, <1>3, <1>4, <1>5, <1>8, <1>9 DEF Cache!Next, Cache!Work, Cache!vars

(* As long as nobody touches the lock records, no resolver removes an entry that is valid. *)
THEOREM ValidAlwaysKept == Cache!Spec => Cache!ValidKept
  <1>1. Cache!Inv /\ [Cache!Next]_(Cache!vars) => [Cache!keptByResolvers]_(Cache!vars)
    BY KeepsValid DEF Cache!valid, Cache!keptByResolvers
  <1> QED BY <1>1, CacheInvariant, PTL DEF Cache!Spec, Cache!ValidKept

-----------------------------------------------------------------------------
(* The cleanup of removals: what each step does to what the run may touch. *)

LEMMA CleanupConstants ==
  /\ Removal!Intents \subseteq Nat /\ \A i \in Removal!Intents : Owned[i] \in {"file", "tree"}
  /\ {"runs", "faults", "strangers"} = DOMAIN CleanupLimit
  /\ \A b \in DOMAIN CleanupLimit : CleanupLimit[b] \in Nat
  /\ Count \in Nat /\ 1 \in Removal!Intents /\ \A i \in Removal!Intents : i \in 1 .. (Count + 1)
  BY RemovalCleanupAssumption DEF Removal!CleanupAssumption, Removal!Intents

LEMMA Assessed ==
  ASSUME NEW i \in Removal!Intents, NEW s \in [Removal!Places -> Removal!Entries]
  PROVE  /\ Removal!Assess(i, s) \in {"confirm", "promote", "empty", "blocked"}
         /\ Removal!Assess(i, s) = "promote" => s.residue = Owned[i] /\ s.cleanup = "absent"
         /\ Removal!Assess(i, s) = "empty" => s.residue = "absent" /\ s.cleanup \in {Owned[i], "partial"}
  BY CleanupConstants DEF Removal!Assess, Removal!AdmitsEntry, Removal!AdmitsProgress,
     Removal!Nothing, Removal!Places

LEMMA CleanupInit == Removal!Init => Removal!Inv
  <1> SUFFICES ASSUME Removal!Init PROVE Removal!Inv
    OBVIOUS
  <1>1. Removal!Typed
    <2>1. /\ slots \in [Removal!Intents -> [Removal!Places -> Removal!Entries]]
          /\ found \in [Removal!Intents -> [Removal!Places -> Removal!Entries]]
          /\ fresh \in [Removal!Places -> Removal!Entries]
      BY DEF Removal!Init, Removal!Places, Removal!Entries, Removal!Nothing
    <2>2. mode \in {"apply", "recover"}
      BY RemovalCleanupAssumption DEF Removal!Init, Removal!CleanupAssumption
    <2>3. spent \in [DOMAIN CleanupLimit -> Nat] /\ \A b \in DOMAIN CleanupLimit : spent[b] <= CleanupLimit[b]
      BY CleanupConstants DEF Removal!Init
    <2> QED BY <2>1, <2>2, <2>3, CleanupConstants DEF Removal!Init, Removal!Typed
  <1> QED BY <1>1 DEF Removal!Init, Removal!Inv, Removal!Ordered, Removal!Authorized,
             Removal!Executing

(* A run that ends without success changes nothing that matters. *)
LEMMA EndKept ==
  ASSUME Removal!Inv, pc # "idle", pc' = "idle",
         result' \in {"blocked", "unplannable", "exhausted", "failed"},
         UNCHANGED <<slots, mode, place, found, fresh, changed>>,
         spent' \in [DOMAIN CleanupLimit -> Nat], \A b \in DOMAIN CleanupLimit : spent'[b] <= CleanupLimit[b]
  PROVE  Removal!Inv'
  <1>1. Removal!Typed'
    BY DEF Removal!Inv, Removal!Typed
  <1>2. Removal!ready' <=> Removal!ready
    BY DEF Removal!ready, Removal!Assess, Removal!AdmitsEntry, Removal!AdmitsProgress
  <1> QED BY <1>1, <1>2 DEF Removal!Inv, Removal!Ordered, Removal!Authorized, Removal!Executing

LEMMA CleanupReturnKept ==
  ASSUME Removal!Inv, pc # "idle", NEW r \in {"blocked", "unplannable", "exhausted", "failed"},
         Removal!Return(r)
  PROVE  Removal!Inv'
  <1>1. spent' \in [DOMAIN CleanupLimit -> Nat] /\ \A b \in DOMAIN CleanupLimit : spent'[b] <= CleanupLimit[b]
    BY DEF Removal!Return, Removal!Inv, Removal!Typed
  <1> QED BY <1>1, EndKept DEF Removal!Return

LEMMA PlanKept ==
  ASSUME Removal!Inv, Removal!Plan
  PROVE  Removal!Inv'
  <1>1. CASE \E r \in {"unplannable", "blocked"} : Removal!Return(r)
    BY <1>1, CleanupReturnKept DEF Removal!Plan
  <1>2. CASE pc' = "preflight" /\ UNCHANGED <<slots, mode, place, found, fresh, result, changed, spent>>
    <2>1. Removal!Typed'
      BY <1>2 DEF Removal!Inv, Removal!Typed
    <2> QED BY <1>2, <2>1 DEF Removal!Plan, Removal!Inv, Removal!Ordered, Removal!Authorized,
               Removal!Executing
  <1> QED BY <1>1, <1>2 DEF Removal!Plan

LEMMA PreflightKept ==
  ASSUME Removal!Inv, Removal!Preflight
  PROVE  Removal!Inv'
  <1>1. CASE Removal!Return("exhausted")
    BY <1>1, CleanupReturnKept DEF Removal!Preflight
  <1>2. CASE ~Removal!Return("exhausted")
    <2>1. /\ pc = "preflight" /\ pc' = pc /\ place \in Removal!Intents /\ place' = place + 1
          /\ found' = [found EXCEPT ![place] = slots[place]]
          /\ UNCHANGED <<slots, mode, fresh, result, changed, spent>>
      BY <1>2 DEF Removal!Preflight
    <2>2. Removal!Typed'
      <3>1. place + 1 \in 1 .. (Count + 1)
        BY <2>1, RemovalCleanupAssumption DEF Removal!Intents, Removal!CleanupAssumption
      <3>2. found' \in [Removal!Intents -> [Removal!Places -> Removal!Entries]]
        BY <2>1 DEF Removal!Inv, Removal!Typed
      <3> QED BY <2>1, <3>1, <3>2 DEF Removal!Inv, Removal!Typed
    <2> QED BY <2>1, <2>2 DEF Removal!Inv, Removal!Ordered, Removal!Authorized, Removal!Executing
  <1> QED BY <1>1, <1>2

LEMMA StartKept ==
  ASSUME Removal!Inv, Removal!Start
  PROVE  Removal!Inv'
  <1>1. CASE \E i \in Removal!Intents : Removal!Assess(i, found[i]) = "blocked"
    BY <1>1, CleanupReturnKept DEF Removal!Start
  <1>2. CASE ~(\E i \in Removal!Intents : Removal!Assess(i, found[i]) = "blocked")
    <2>1. /\ pc = "preflight" /\ pc' = "observe" /\ place' = 1
          /\ UNCHANGED <<slots, mode, found, fresh, result, changed, spent>>
      BY <1>2 DEF Removal!Start
    <2>2. Removal!Typed'
      BY <2>1, CleanupConstants DEF Removal!Inv, Removal!Typed
    <2>3. Removal!ready /\ Removal!ready'
      BY <1>2, <2>1 DEF Removal!ready, Removal!Assess, Removal!AdmitsEntry, Removal!AdmitsProgress
    <2>4. \A i \in Removal!Intents : ~(i < 1)
      BY DEF Removal!Intents
    <2> QED BY <2>1, <2>2, <2>3, <2>4, CleanupConstants DEF Removal!Inv, Removal!Ordered,
               Removal!Authorized, Removal!Executing
  <1> QED BY <1>1, <1>2

LEMMA ObserveKept ==
  ASSUME Removal!Inv, Removal!Observe
  PROVE  Removal!Inv'
  <1>0. /\ pc = "observe" /\ place \in Removal!Intents
        /\ slots[place] \in [Removal!Places -> Removal!Entries]
    BY DEF Removal!Observe, Removal!Inv, Removal!Typed, Removal!Ordered, Removal!Executing
  <1>1. CASE Removal!Return("exhausted")
    BY <1>0, <1>1, CleanupReturnKept
  <1>2. CASE Removal!Grown(place, slots[place]) \/ Removal!Assess(place, slots[place]) = "blocked"
    <2>1. CASE ~Removal!Return("exhausted")
      <3>1. /\ pc' = "idle" /\ result' = "blocked"
            /\ UNCHANGED <<slots, mode, place, found, fresh, changed, spent>>
        BY <1>2, <2>1 DEF Removal!Observe, Removal!Charge
      <3>2. spent' \in [DOMAIN CleanupLimit -> Nat] /\ \A b \in DOMAIN CleanupLimit : spent'[b] <= CleanupLimit[b]
        BY <3>1 DEF Removal!Inv, Removal!Typed
      <3> QED BY <1>0, <3>1, <3>2, EndKept
    <2> QED BY <1>1, <2>1
  <1>3. CASE /\ ~Removal!Return("exhausted")
             /\ ~(Removal!Grown(place, slots[place]) \/ Removal!Assess(place, slots[place]) = "blocked")
    <2>1. /\ fresh' = slots[place] /\ pc' = Removal!Assess(place, slots[place])
          /\ UNCHANGED <<slots, mode, place, found, result, changed, spent>>
      BY <1>3 DEF Removal!Observe, Removal!Charge
    <2>2. pc' \in {"confirm", "promote", "empty"}
      BY <1>0, <1>3, <2>1, Assessed
    <2>3. Removal!Typed'
      BY <1>0, <2>1, <2>2 DEF Removal!Inv, Removal!Typed
    <2>4. Removal!ready' <=> Removal!ready
      BY <2>1 DEF Removal!ready, Removal!Assess, Removal!AdmitsEntry, Removal!AdmitsProgress
    <2>5. Removal!Ordered'
      BY <1>0, <2>1, <2>2, <2>4 DEF Removal!Inv, Removal!Ordered, Removal!Executing,
         Removal!cleared
    <2>6. Removal!Authorized'
      BY <1>0, <2>1, <2>2, Assessed DEF Removal!Authorized
    <2> QED BY <2>3, <2>5, <2>6 DEF Removal!Inv
  <1> QED BY <1>1, <1>2, <1>3

(* A run goes on to its next step at the same intent. *)
LEMMA ProceedKept ==
  ASSUME Removal!Inv, pc \in Removal!Executing, pc' \in Removal!Executing, pc' # "confirmed",
         slots' \in [Removal!Intents -> [Removal!Places -> Removal!Entries]],
         \A i \in Removal!Intents \ {place} : slots'[i] = slots[i],
         fresh' \in [Removal!Places -> Removal!Entries], changed' \in BOOLEAN,
         UNCHANGED <<mode, place, found, result, spent>>,
         Removal!Authorized'
  PROVE  Removal!Inv'
  <1>1. Removal!Typed'
    BY DEF Removal!Inv, Removal!Typed, Removal!Executing
  <1>2. Removal!ready' <=> Removal!ready
    BY DEF Removal!ready, Removal!Assess, Removal!AdmitsEntry, Removal!AdmitsProgress
  <1>3. place \in Removal!Intents /\ place \in Nat
    BY CleanupConstants DEF Removal!Inv, Removal!Ordered
  <1>4. \A i \in Removal!Intents : i < place => Removal!cleared(i)'
    <2> SUFFICES ASSUME NEW i \in Removal!Intents, i < place PROVE Removal!cleared(i)'
      OBVIOUS
    <2>1. i # place
      BY <1>3
    <2> QED BY <2>1, <1>3 DEF Removal!Inv, Removal!Ordered, Removal!cleared
  <1>5. result # "clean"
    BY DEF Removal!Inv, Removal!Ordered, Removal!Executing
  <1>6. Removal!Ordered'
    BY <1>2, <1>3, <1>4, <1>5 DEF Removal!Inv, Removal!Ordered, Removal!Executing
  <1> QED BY <1>1, <1>6 DEF Removal!Inv

LEMMA CleanupPromoteKept ==
  ASSUME Removal!Inv, Removal!Promote
  PROVE  Removal!Inv'
  <1>0. pc = "promote" /\ place \in Removal!Intents /\ fresh.residue = Owned[place]
    BY DEF Removal!Promote, Removal!Inv, Removal!Ordered, Removal!Authorized, Removal!Executing
  <1>1. CASE Removal!Return("exhausted")
    BY <1>0, <1>1, CleanupReturnKept
  <1>2. CASE /\ ~Removal!Return("exhausted")
             /\ slots[place] # [residue |-> fresh.residue, cleanup |-> "absent"]
    <2>1. /\ pc' = "idle" /\ result' = "failed"
          /\ UNCHANGED <<slots, mode, place, found, fresh, changed, spent>>
      BY <1>2 DEF Removal!Promote, Removal!Charge
    <2>2. spent' \in [DOMAIN CleanupLimit -> Nat] /\ \A b \in DOMAIN CleanupLimit : spent'[b] <= CleanupLimit[b]
      BY <2>1 DEF Removal!Inv, Removal!Typed
    <2> QED BY <1>0, <2>1, <2>2, EndKept
  <1>3. CASE /\ ~Removal!Return("exhausted")
             /\ slots[place] = [residue |-> fresh.residue, cleanup |-> "absent"]
    <2>1. /\ slots' = [slots EXCEPT ![place] = [residue |-> "absent", cleanup |-> fresh.residue]]
          /\ changed' = TRUE /\ pc' = "empty"
          /\ fresh' = [residue |-> "absent", cleanup |-> fresh.residue]
          /\ UNCHANGED <<mode, place, found, result, spent>>
      BY <1>3 DEF Removal!Promote, Removal!Charge
    <2>2. fresh' \in [Removal!Places -> Removal!Entries]
      BY <1>0, <2>1, CleanupConstants DEF Removal!Places, Removal!Entries
    <2>3. slots' \in [Removal!Intents -> [Removal!Places -> Removal!Entries]] /\ \A i \in Removal!Intents \ {place} : slots'[i] = slots[i]
      BY <1>0, <2>1, <2>2 DEF Removal!Inv, Removal!Typed
    <2>4. Removal!Authorized'
      BY <1>0, <2>1 DEF Removal!Authorized
    <2> QED BY <1>0, <2>1, <2>2, <2>3, <2>4, ProceedKept DEF Removal!Executing
  <1> QED BY <1>1, <1>2, <1>3

LEMMA EmptyKept ==
  ASSUME Removal!Inv, Removal!Empty
  PROVE  Removal!Inv'
  <1>0. pc = "empty" /\ place \in Removal!Intents /\ fresh.cleanup \in {Owned[place], "partial"}
    BY DEF Removal!Empty, Removal!Inv, Removal!Ordered, Removal!Authorized, Removal!Executing
  <1>1. CASE Removal!Return("exhausted")
    BY <1>0, <1>1, CleanupReturnKept
  <1>2. CASE ~Removal!Return("exhausted") /\ slots[place].cleanup # fresh.cleanup
    <2>1. /\ pc' = "idle" /\ result' = "failed"
          /\ UNCHANGED <<slots, mode, place, found, fresh, changed, spent>>
      BY <1>2 DEF Removal!Empty, Removal!Charge
    <2>2. spent' \in [DOMAIN CleanupLimit -> Nat] /\ \A b \in DOMAIN CleanupLimit : spent'[b] <= CleanupLimit[b]
      BY <2>1 DEF Removal!Inv, Removal!Typed
    <2> QED BY <1>0, <2>1, <2>2, EndKept
  <1>3. CASE ~Removal!Return("exhausted") /\ slots[place].cleanup = fresh.cleanup
    <2>1. /\ pc' = "unlink"
          /\ UNCHANGED <<slots, mode, place, found, fresh, result, changed, spent>>
      BY <1>3 DEF Removal!Empty, Removal!Charge
    <2>2. Removal!Authorized'
      BY <1>0, <1>3, <2>1 DEF Removal!Authorized
    <2>3. /\ slots' \in [Removal!Intents -> [Removal!Places -> Removal!Entries]]
          /\ fresh' \in [Removal!Places -> Removal!Entries]
          /\ changed' \in BOOLEAN
      BY <2>1 DEF Removal!Inv, Removal!Typed
    <2> QED BY <1>0, <2>1, <2>2, <2>3, ProceedKept DEF Removal!Executing
  <1> QED BY <1>1, <1>2, <1>3

LEMMA UnlinkKept ==
  ASSUME Removal!Inv, Removal!Unlink
  PROVE  Removal!Inv'
  <1>0. /\ pc = "unlink" /\ place \in Removal!Intents
        /\ slots[place].cleanup \in {Owned[place], "partial"}
        /\ slots \in [Removal!Intents -> [Removal!Places -> Removal!Entries]]
    BY DEF Removal!Unlink, Removal!Inv, Removal!Typed, Removal!Ordered, Removal!Authorized,
       Removal!Executing
  <1>1. /\ changed' = TRUE
        /\ UNCHANGED <<mode, place, found, fresh, result, spent>>
    BY DEF Removal!Unlink
  <1>2. PICK e \in {"partial", "absent"} : /\ slots' = [slots EXCEPT ![place]["cleanup"] = e]
                                           /\ pc' = IF e = "partial" THEN pc ELSE "confirm"
    BY DEF Removal!Unlink, Removal!Put
  <1>3. slots' \in [Removal!Intents -> [Removal!Places -> Removal!Entries]] /\ \A i \in Removal!Intents \ {place} : slots'[i] = slots[i]
    BY <1>0, <1>2 DEF Removal!Places, Removal!Entries
  <1>4. slots'[place].cleanup = e
    BY <1>0, <1>2 DEF Removal!Places
  <1>5. Removal!Authorized'
    BY <1>0, <1>1, <1>2, <1>4 DEF Removal!Authorized
  <1>6. fresh' \in [Removal!Places -> Removal!Entries] /\ changed' \in BOOLEAN
    BY <1>1 DEF Removal!Inv, Removal!Typed
  <1> QED BY <1>0, <1>1, <1>2, <1>3, <1>5, <1>6, ProceedKept DEF Removal!Executing

LEMMA CleanupConfirmKept ==
  ASSUME Removal!Inv, Removal!Confirm
  PROVE  Removal!Inv'
  <1>0. pc = "confirm" /\ place \in Removal!Intents
    BY DEF Removal!Confirm, Removal!Inv, Removal!Ordered, Removal!Executing
  <1>1. CASE Removal!Return("exhausted")
    BY <1>0, <1>1, CleanupReturnKept
  <1>2. CASE ~Removal!Return("exhausted") /\ slots[place].residue # "absent"
    <2>1. /\ pc' = "idle" /\ result' = "failed"
          /\ UNCHANGED <<slots, mode, place, found, fresh, changed, spent>>
      BY <1>2 DEF Removal!Confirm, Removal!Charge
    <2>2. spent' \in [DOMAIN CleanupLimit -> Nat] /\ \A b \in DOMAIN CleanupLimit : spent'[b] <= CleanupLimit[b]
      BY <2>1 DEF Removal!Inv, Removal!Typed
    <2> QED BY <1>0, <2>1, <2>2, EndKept
  <1>3. CASE ~Removal!Return("exhausted") /\ slots[place].residue = "absent"
    <2>1. /\ pc' = "confirmed"
          /\ UNCHANGED <<slots, mode, place, found, fresh, result, changed, spent>>
      BY <1>3 DEF Removal!Confirm, Removal!Charge
    <2>2. Removal!Typed'
      BY <2>1 DEF Removal!Inv, Removal!Typed
    <2>3. Removal!ready' <=> Removal!ready
      BY <2>1 DEF Removal!ready, Removal!Assess, Removal!AdmitsEntry, Removal!AdmitsProgress
    <2>4. Removal!Ordered'
      BY <1>0, <1>3, <2>1, <2>3 DEF Removal!Inv, Removal!Ordered, Removal!Executing,
         Removal!cleared
    <2> QED BY <2>1, <2>2, <2>4 DEF Removal!Inv, Removal!Authorized
  <1> QED BY <1>1, <1>2, <1>3

LEMMA ConfirmedKept ==
  ASSUME Removal!Inv, Removal!Confirmed
  PROVE  Removal!Inv'
  <1>0. /\ pc = "confirmed" /\ place \in Removal!Intents
        /\ slots[place].residue \in {"absent", "alien"}
    BY DEF Removal!Confirmed, Removal!Inv, Removal!Ordered, Removal!Executing
  <1>1. CASE Removal!Return("exhausted")
    BY <1>0, <1>1, CleanupReturnKept
  <1>2. CASE ~Removal!Return("exhausted") /\ slots[place].cleanup # "absent"
    <2>1. /\ pc' = "idle" /\ result' = "failed"
          /\ UNCHANGED <<slots, mode, place, found, fresh, changed, spent>>
      BY <1>2 DEF Removal!Confirmed, Removal!Charge
    <2>2. spent' \in [DOMAIN CleanupLimit -> Nat] /\ \A b \in DOMAIN CleanupLimit : spent'[b] <= CleanupLimit[b]
      BY <2>1 DEF Removal!Inv, Removal!Typed
    <2> QED BY <1>0, <2>1, <2>2, EndKept
  <1>3. CASE ~Removal!Return("exhausted") /\ slots[place].cleanup = "absent"
    <2>1. /\ pc' = IF place = Count THEN "idle" ELSE "observe"
          /\ result' = IF place = Count THEN "clean" ELSE result
          /\ place' = place + 1
          /\ UNCHANGED <<slots, mode, found, fresh, changed, spent>>
      BY <1>3 DEF Removal!Confirmed, Removal!Charge
    <2>2. place \in 1 .. Count /\ Count \in Nat
      BY <1>0, CleanupConstants DEF Removal!Intents
    <2>3. Removal!Typed'
      BY <2>1, <2>2 DEF Removal!Inv, Removal!Typed
    <2>4. Removal!ready' <=> Removal!ready
      BY <2>1 DEF Removal!ready, Removal!Assess, Removal!AdmitsEntry, Removal!AdmitsProgress
    <2>5. Removal!cleared(place)
      BY <1>0, <1>3 DEF Removal!cleared, Removal!Places
    <2>6. \A i \in Removal!Intents : i < place' => Removal!cleared(i)'
      <3> SUFFICES ASSUME NEW i \in Removal!Intents, i < place + 1 PROVE Removal!cleared(i)'
        BY <2>1
      <3>1. i = place \/ i < place
        BY <2>2 DEF Removal!Intents
      <3>2. Removal!cleared(i)
        BY <1>0, <2>5, <3>1 DEF Removal!Inv, Removal!Ordered, Removal!Executing
      <3> QED BY <2>1, <3>2 DEF Removal!cleared
    <2>7. place = Count => \A i \in Removal!Intents : Removal!cleared(i)'
      BY <2>1, <2>2, <2>6 DEF Removal!Intents
    <2>8. place # Count => place' \in Removal!Intents
      BY <2>1, <2>2 DEF Removal!Intents
    <2>9. Removal!Ordered'
      BY <1>0, <2>1, <2>4, <2>6, <2>7, <2>8 DEF Removal!Inv, Removal!Ordered, Removal!Executing
    <2> QED BY <2>1, <2>3, <2>9 DEF Removal!Inv, Removal!Authorized
  <1> QED BY <1>1, <1>2, <1>3

LEMMA FaultKept ==
  ASSUME Removal!Inv, Removal!Fault
  PROVE  Removal!Inv'
  <1>1. spent' \in [DOMAIN CleanupLimit -> Nat] /\ \A b \in DOMAIN CleanupLimit : spent'[b] <= CleanupLimit[b]
    BY CleanupConstants DEF Removal!Fault, Removal!Spend, Removal!Inv, Removal!Typed
  <1> QED BY <1>1, EndKept DEF Removal!Fault

LEMMA RecoverKept ==
  ASSUME Removal!Inv, Removal!Recover
  PROVE  Removal!Inv'
  <1>1. spent' \in [DOMAIN CleanupLimit -> Nat] /\ \A b \in DOMAIN CleanupLimit : spent'[b] <= CleanupLimit[b]
    BY CleanupConstants DEF Removal!Recover, Removal!Spend, Removal!Inv, Removal!Typed
  <1>2. /\ found' \in [Removal!Intents -> [Removal!Places -> Removal!Entries]]
        /\ fresh' \in [Removal!Places -> Removal!Entries]
    BY DEF Removal!Recover, Removal!Nothing, Removal!Places, Removal!Entries
  <1>3. Removal!Typed'
    BY <1>1, <1>2, CleanupConstants DEF Removal!Recover, Removal!Inv, Removal!Typed
  <1> QED BY <1>3 DEF Removal!Recover, Removal!Inv, Removal!Ordered, Removal!Authorized,
             Removal!Executing

LEMMA StrangerKept ==
  ASSUME Removal!Inv, Removal!Stranger
  PROVE  Removal!Inv'
  <1>0. /\ UNCHANGED <<mode, pc, place, found, fresh, result, changed>>
        /\ slots \in [Removal!Intents -> [Removal!Places -> Removal!Entries]]
    BY DEF Removal!Stranger, Removal!Inv, Removal!Typed
  <1>1. spent' \in [DOMAIN CleanupLimit -> Nat] /\ \A b \in DOMAIN CleanupLimit : spent'[b] <= CleanupLimit[b]
    BY CleanupConstants DEF Removal!Stranger, Removal!Spend, Removal!Inv, Removal!Typed
  <1>2. PICK i \in Removal!Intents, p \in Removal!Places, e \in {"absent", "alien"} :
          slots[i][p] \in {"absent", "alien"} /\ slots' = [slots EXCEPT ![i][p] = e]
    BY DEF Removal!Stranger, Removal!Put
  <1>3. /\ slots' \in [Removal!Intents -> [Removal!Places -> Removal!Entries]]
        /\ \A j \in Removal!Intents, q \in Removal!Places :
             slots'[j][q] = slots[j][q] \/ {slots[j][q], slots'[j][q]} \subseteq {"absent", "alien"}
    BY <1>0, <1>2 DEF Removal!Entries
  <1>4. Removal!Typed'
    BY <1>0, <1>1, <1>3 DEF Removal!Inv, Removal!Typed
  <1>5. Removal!ready' <=> Removal!ready
    BY <1>0 DEF Removal!ready, Removal!Assess, Removal!AdmitsEntry, Removal!AdmitsProgress
  <1>6. \A j \in Removal!Intents : Removal!cleared(j) => Removal!cleared(j)'
    BY <1>3 DEF Removal!cleared
  <1>7. /\ \A j \in Removal!Intents : slots[j].residue \in {"absent", "alien"}
                                => slots'[j].residue \in {"absent", "alien"}
        /\ \A j \in Removal!Intents : slots[j].cleanup \in {Owned[j], "partial"}
                                => slots'[j].cleanup \in {Owned[j], "partial"}
    BY <1>3, CleanupConstants DEF Removal!Places
  <1>8. Removal!Ordered'
    BY <1>0, <1>5, <1>6, <1>7 DEF Removal!Inv, Removal!Ordered, Removal!Executing
  <1>9. Removal!Authorized'
    BY <1>0, <1>7 DEF Removal!Inv, Removal!Ordered, Removal!Authorized, Removal!Executing
  <1> QED BY <1>4, <1>8, <1>9 DEF Removal!Inv

LEMMA CleanupStutter ==
  ASSUME Removal!Inv, UNCHANGED Removal!vars
  PROVE  Removal!Inv'
  BY DEF Removal!vars, Removal!Inv, Removal!Typed, Removal!Ordered, Removal!Authorized,
     Removal!ready, Removal!cleared, Removal!Executing, Removal!Assess, Removal!AdmitsEntry,
         Removal!AdmitsProgress

(* For any number of removals, whatever their costs, and whatever fails or is put in the
   way: nothing is changed before all are ready, what lies behind the run is done, and what
   it is about to move or take apart is what a removal left behind. *)
THEOREM CleanupInvariant == Removal!Spec => []Removal!Inv
  <1>1. Removal!Inv /\ [Removal!Next]_(Removal!vars) => Removal!Inv'
    <2> SUFFICES ASSUME Removal!Inv, [Removal!Next]_(Removal!vars) PROVE Removal!Inv'
      OBVIOUS
    <2> QED BY PlanKept, PreflightKept, StartKept, ObserveKept, CleanupPromoteKept, EmptyKept,
               UnlinkKept,
               CleanupConfirmKept, ConfirmedKept, FaultKept, RecoverKept, StrangerKept, CleanupStutter
            DEF Removal!Next, Removal!Step
  <1> QED BY <1>1, CleanupInit, PTL DEF Removal!Spec

LEMMA InvSound == Removal!Inv => Removal!Typed /\ Removal!ReadyFirst /\ Removal!DischargedClean
  BY DEF Removal!Inv, Removal!Ordered, Removal!ReadyFirst, Removal!DischargedClean,
     Removal!ready, Removal!cleared

(* The cleanup starts when all removals are ready, and says that it is done when nothing
   that a removal left behind is there. *)
THEOREM CleanupAlwaysSound == Removal!Spec => []CleanupSound
  <1>1. Removal!Inv => CleanupSound
    BY InvSound DEF CleanupSound
  <1> QED BY <1>1, CleanupInvariant, PTL

LEMMA AlienStep ==
  ASSUME Removal!Inv, [Removal!Next]_(Removal!vars)
  PROVE  Removal!alienKept
  <1> SUFFICES ASSUME NEW i \in Removal!Intents, NEW p \in Removal!Places, slots[i][p] = "alien",
                      spent'.strangers = spent.strangers
               PROVE  slots'[i][p] = "alien"
    BY DEF Removal!alienKept
  <1>0. slots \in [Removal!Intents -> [Removal!Places -> Removal!Entries]]
    BY DEF Removal!Inv, Removal!Typed
  <1>1. CASE UNCHANGED slots
    BY <1>1
  <1>2. CASE Removal!Promote /\ slots' # slots
    <2>1. /\ slots' = [slots EXCEPT ![place] = [residue |-> "absent", cleanup |-> fresh.residue]]
          /\ slots[place] = [residue |-> fresh.residue, cleanup |-> "absent"]
          /\ fresh.residue = Owned[place]
          /\ place \in Removal!Intents
      BY <1>2 DEF Removal!Promote, Removal!Charge, Removal!Return, Removal!Inv, Removal!Ordered,
         Removal!Authorized, Removal!Executing
    <2>2. i # place
      BY <2>1, CleanupConstants DEF Removal!Places
    <2> QED BY <1>0, <2>1, <2>2
  <1>3. CASE Removal!Unlink
    <2>1. /\ slots[place].cleanup # "alien" /\ place \in Removal!Intents
          /\ \E e \in Removal!Entries : slots' = [slots EXCEPT ![place]["cleanup"] = e]
      BY <1>3, CleanupConstants DEF Removal!Unlink, Removal!Put, Removal!Inv, Removal!Ordered,
         Removal!Authorized, Removal!Executing, Removal!Entries
    <2> QED BY <1>0, <2>1 DEF Removal!Places
  <1>4. CASE Removal!Stranger
    BY <1>4, CleanupConstants DEF Removal!Stranger, Removal!Spend, Removal!Inv, Removal!Typed
  <1> QED BY <1>1, <1>2, <1>3, <1>4
          DEF Removal!Next, Removal!Step, Removal!vars, Removal!Plan, Removal!Preflight,
              Removal!Start, Removal!Observe, Removal!Empty, Removal!Confirm, Removal!Confirmed,
              Removal!Charge,
              Removal!Return, Removal!Fault, Removal!Recover

(* A run never moves or destroys what another program has put under a private name. *)
THEOREM AlienAlwaysKept == Removal!Spec => Removal!AlienKept
  <1>1. Removal!Inv /\ [Removal!Next]_(Removal!vars) => [Removal!alienKept]_(Removal!vars)
    BY AlienStep
  <1> QED BY <1>1, CleanupInvariant, PTL DEF Removal!Spec, Removal!AlienKept

-----------------------------------------------------------------------------
(* Neither a commit nor a cleanup destroys what another program has put in its way. *)
THEOREM ForeignAlwaysKept == Commit!Spec /\ Removal!Spec => ForeignKept
  BY CommitForeignKept, AlienAlwaysKept DEF ForeignKept

(* What the run explores are behaviours of the four specifications. *)
THEOREM StorageProved == StorageSpec => Commit!Spec /\ Cache!Spec /\ Removal!Spec /\ Spec
  <1> DEFINE storageVars == <<at, commitVars, cacheVars, cleanupVars, vars>>
  <1>1. StorageInit => Commit!Init /\ Cache!Init /\ Removal!Init /\ Init
    BY DEF StorageInit
  <1>2. [StorageNext]_storageVars => [Commit!Next]_(Commit!vars)
    BY DEF StorageNext, CommitNext, CacheNext, CleanupNext, RetirementNext, commitVars,
           Commit!vars
  <1>3. [StorageNext]_storageVars => [Cache!Next]_(Cache!vars)
    BY DEF StorageNext, CommitNext, CacheNext, CleanupNext, RetirementNext, cacheVars,
           Cache!vars
  <1>4. [StorageNext]_storageVars => [Removal!Next]_(Removal!vars)
    BY DEF StorageNext, CommitNext, CacheNext, CleanupNext, RetirementNext, cleanupVars,
           Removal!vars
  <1>5. [StorageNext]_storageVars => [Next]_vars
    BY DEF StorageNext, CommitNext, CacheNext, CleanupNext, RetirementNext
  <1> HIDE DEF storageVars
  <1>6. StorageSpec => StorageInit /\ [][StorageNext]_storageVars
    BY DEF StorageSpec, storageVars
  <1> QED
    BY <1>1, <1>2, <1>3, <1>4, <1>5, <1>6, PTL
    DEF Commit!Spec, Cache!Spec, Removal!Spec, Spec

=============================================================================
