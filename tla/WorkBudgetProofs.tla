-------------------------- MODULE WorkBudgetProofs --------------------------
(***************************************************************************)
(* For every limit, every set of amounts and every client, a budget        *)
(* conserves its capacity and hands over what it has reserved.  Capacity   *)
(* is conserved because each charge is backed exactly once: by the         *)
(* reservation of its phase until the phase begins, and by the phase's     *)
(* child from then on.                                                     *)
(***************************************************************************)
EXTENDS WorkBudget, TLAPS

(* What the budget owes to a phase: its reservation, and once it has begun *)
(* what its children were given.                                           *)
Pledged ==
  [p \in Phase |-> [d \in Dim |->
     IF p \in begun THEN granted[p][d]
     ELSE IF p = "execution" /\ ~Direct THEN 0 ELSE reserved[p][d]]]

Books ==
  \A d \in Dim : /\ own[d] + Total(Pledged, d) <= used[d]
                 /\ used[d] <= Limit[d]

(* A phase that has not begun has no child; an execution begins only where *)
(* the client lets it.                                                     *)
NotYet ==
  /\ \A p \in Phase \ begun : granted[p] = None
  /\ "execution" \in begun => Direct
  /\ "control" \in begun => "general" \in begun
  /\ reserved["control"] = None

(* The parts of an invocation follow its handle.                           *)
Handles ==
  \A h \in Handle :
    /\ handle[h] = "none" => /\ {Attach(h), Command(h), Safety(h)} \cap begun = {}
                             /\ reserved[Attach(h)] = None
                             /\ reserved[Command(h)] = None
                             /\ reserved[Safety(h)] = None
    /\ handle[h] = "held" => {Attach(h), Command(h), Safety(h)} \cap begun = {}
    /\ handle[h] = "attached" => {Command(h), Safety(h)} \cap begun = {}

(* A phase that is settled was transferred in full or needed nothing.      *)
Dispositions ==
  /\ \A p \in {"scratch", "retirement"} : p \in begun => granted[p] = reserved[p]
  /\ "lifecycle" \in begun => granted["lifecycle"]["paths"] = reserved["lifecycle"]["paths"]
  /\ reserved["lifecycle"]["tree"] = 0
  /\ "lifecycle" \notin Phases => reserved["lifecycle"] = None
  /\ "lifecycle" \in excused => Direct
  /\ "scratch" \in excused => ~scratched
  /\ "retirement" \in excused => reserved["retirement"] = None
  /\ excused \cap begun = {}
  /\ excused \subseteq {"lifecycle", "scratch", "retirement"}
  /\ "general" \in begun => \A p \in {"lifecycle", "scratch", "retirement"} : Settled(p)

IInv == TypeOK /\ Books /\ NotYet /\ Handles /\ Dispositions
----------------------------------------------------------------------------
(* Totals over the phases.                                                 *)
LEMMA TotalSame ==
  ASSUME NEW d \in Dim, NEW f \in [Phase -> Vector], NEW g \in [Phase -> Vector],
         \A p \in Phase : g[p][d] <= f[p][d]
  PROVE  /\ Total(g, d) \in Nat
         /\ Total(f, d) \in Nat
         /\ Total(g, d) <= Total(f, d)
  <1>1. \A p \in Phase : f[p][d] \in Nat /\ g[p][d] \in Nat /\ g[p][d] <= f[p][d]
    BY DEF Vector
  <1>2. OfRemovals(g, d) \in Nat /\ OfRemovals(f, d) \in Nat /\ OfRemovals(g, d) <= OfRemovals(f, d)
    <2>1. {"forward", "backup", "lifecycle", "execution"} \subseteq Phase
      BY DEF Phase
    <2>2. /\ f["forward"][d] \in Nat /\ g["forward"][d] \in Nat /\ g["forward"][d] <= f["forward"][d]
          /\ f["backup"][d] \in Nat /\ g["backup"][d] \in Nat /\ g["backup"][d] <= f["backup"][d]
          /\ f["lifecycle"][d] \in Nat /\ g["lifecycle"][d] \in Nat /\ g["lifecycle"][d] <= f["lifecycle"][d]
          /\ f["execution"][d] \in Nat /\ g["execution"][d] \in Nat /\ g["execution"][d] <= f["execution"][d]
      BY <1>1, <2>1
    <2> QED BY <2>2 DEF OfRemovals
  <1>3. OfControl(g, d) \in Nat /\ OfControl(f, d) \in Nat /\ OfControl(g, d) <= OfControl(f, d)
    <2>1. {"general", "control", "semantic", "scratch", "retirement"} \subseteq Phase
      BY DEF Phase
    <2>2. /\ f["general"][d] \in Nat /\ g["general"][d] \in Nat /\ g["general"][d] <= f["general"][d]
          /\ f["control"][d] \in Nat /\ g["control"][d] \in Nat /\ g["control"][d] <= f["control"][d]
          /\ f["semantic"][d] \in Nat /\ g["semantic"][d] \in Nat /\ g["semantic"][d] <= f["semantic"][d]
          /\ f["scratch"][d] \in Nat /\ g["scratch"][d] \in Nat /\ g["scratch"][d] <= f["scratch"][d]
          /\ f["retirement"][d] \in Nat /\ g["retirement"][d] \in Nat /\ g["retirement"][d] <= f["retirement"][d]
      BY <1>1, <2>1
    <2> QED BY <2>2 DEF OfControl
  <1>4. OfInvocation(g, d, "first") \in Nat /\ OfInvocation(f, d, "first") \in Nat /\ OfInvocation(g, d, "first") <= OfInvocation(f, d, "first")
    <2>1. {"attach1", "command1", "safety1"} \subseteq Phase
      BY DEF Phase
    <2>2. /\ f["attach1"][d] \in Nat /\ g["attach1"][d] \in Nat /\ g["attach1"][d] <= f["attach1"][d]
          /\ f["command1"][d] \in Nat /\ g["command1"][d] \in Nat /\ g["command1"][d] <= f["command1"][d]
          /\ f["safety1"][d] \in Nat /\ g["safety1"][d] \in Nat /\ g["safety1"][d] <= f["safety1"][d]
      BY <1>1, <2>1
    <2> QED BY <2>2 DEF OfInvocation, Attach, Command, Safety
  <1>5. OfInvocation(g, d, "second") \in Nat /\ OfInvocation(f, d, "second") \in Nat /\ OfInvocation(g, d, "second") <= OfInvocation(f, d, "second")
    <2>1. {"attach2", "command2", "safety2"} \subseteq Phase
      BY DEF Phase
    <2>2. /\ f["attach2"][d] \in Nat /\ g["attach2"][d] \in Nat /\ g["attach2"][d] <= f["attach2"][d]
          /\ f["command2"][d] \in Nat /\ g["command2"][d] \in Nat /\ g["command2"][d] <= f["command2"][d]
          /\ f["safety2"][d] \in Nat /\ g["safety2"][d] \in Nat /\ g["safety2"][d] <= f["safety2"][d]
      BY <1>1, <2>1
    <2> QED BY <2>2 DEF OfInvocation, Attach, Command, Safety
  <1> QED BY <1>2, <1>3, <1>4, <1>5 DEF Total

LEMMA TotalOne ==
  ASSUME NEW d \in Dim, NEW f \in [Phase -> Vector], NEW g \in [Phase -> Vector],
         NEW q \in Phase, NEW w \in Vector,
         \A p \in Phase : g[p][d] <= IF p = q THEN f[p][d] + w[d] ELSE f[p][d]
  PROVE  /\ Total(g, d) \in Nat
         /\ Total(f, d) \in Nat
         /\ Total(g, d) <= Total(f, d) + w[d]
  <1> DEFINE add(S) == IF q \in S THEN w[d] ELSE 0
  <1>0. w[d] \in Nat
    BY DEF Vector
  <1>1. \A p \in Phase : f[p][d] \in Nat /\ g[p][d] \in Nat
    BY DEF Vector
  <1>2. /\ OfRemovals(g, d) \in Nat /\ OfRemovals(f, d) \in Nat
        /\ OfRemovals(g, d) <= OfRemovals(f, d) + add({"forward", "backup", "lifecycle", "execution"})
    <2>1. {"forward", "backup", "lifecycle", "execution"} \subseteq Phase
      BY DEF Phase
    <2>2. /\ f["forward"][d] \in Nat /\ g["forward"][d] \in Nat
          /\ f["backup"][d] \in Nat /\ g["backup"][d] \in Nat
          /\ f["lifecycle"][d] \in Nat /\ g["lifecycle"][d] \in Nat
          /\ f["execution"][d] \in Nat /\ g["execution"][d] \in Nat
      BY <1>1, <2>1
    <2>3. /\ g["forward"][d] <= IF "forward" = q THEN f["forward"][d] + w[d] ELSE f["forward"][d]
          /\ g["backup"][d] <= IF "backup" = q THEN f["backup"][d] + w[d] ELSE f["backup"][d]
          /\ g["lifecycle"][d] <= IF "lifecycle" = q THEN f["lifecycle"][d] + w[d] ELSE f["lifecycle"][d]
          /\ g["execution"][d] <= IF "execution" = q THEN f["execution"][d] + w[d] ELSE f["execution"][d]
      BY <2>1
    <2> QED BY <1>0, <2>2, <2>3 DEF OfRemovals
  <1>3. /\ OfControl(g, d) \in Nat /\ OfControl(f, d) \in Nat
        /\ OfControl(g, d) <= OfControl(f, d) + add({"general", "control", "semantic", "scratch", "retirement"})
    <2>1. {"general", "control", "semantic", "scratch", "retirement"} \subseteq Phase
      BY DEF Phase
    <2>2. /\ f["general"][d] \in Nat /\ g["general"][d] \in Nat
          /\ f["control"][d] \in Nat /\ g["control"][d] \in Nat
          /\ f["semantic"][d] \in Nat /\ g["semantic"][d] \in Nat
          /\ f["scratch"][d] \in Nat /\ g["scratch"][d] \in Nat
          /\ f["retirement"][d] \in Nat /\ g["retirement"][d] \in Nat
      BY <1>1, <2>1
    <2>3. /\ g["general"][d] <= IF "general" = q THEN f["general"][d] + w[d] ELSE f["general"][d]
          /\ g["control"][d] <= IF "control" = q THEN f["control"][d] + w[d] ELSE f["control"][d]
          /\ g["semantic"][d] <= IF "semantic" = q THEN f["semantic"][d] + w[d] ELSE f["semantic"][d]
          /\ g["scratch"][d] <= IF "scratch" = q THEN f["scratch"][d] + w[d] ELSE f["scratch"][d]
          /\ g["retirement"][d] <= IF "retirement" = q THEN f["retirement"][d] + w[d] ELSE f["retirement"][d]
      BY <2>1
    <2> QED BY <1>0, <2>2, <2>3 DEF OfControl
  <1>4. /\ OfInvocation(g, d, "first") \in Nat /\ OfInvocation(f, d, "first") \in Nat
        /\ OfInvocation(g, d, "first") <= OfInvocation(f, d, "first") + add({"attach1", "command1", "safety1"})
    <2>1. {"attach1", "command1", "safety1"} \subseteq Phase
      BY DEF Phase
    <2>2. /\ f["attach1"][d] \in Nat /\ g["attach1"][d] \in Nat
          /\ f["command1"][d] \in Nat /\ g["command1"][d] \in Nat
          /\ f["safety1"][d] \in Nat /\ g["safety1"][d] \in Nat
      BY <1>1, <2>1
    <2>3. /\ g["attach1"][d] <= IF "attach1" = q THEN f["attach1"][d] + w[d] ELSE f["attach1"][d]
          /\ g["command1"][d] <= IF "command1" = q THEN f["command1"][d] + w[d] ELSE f["command1"][d]
          /\ g["safety1"][d] <= IF "safety1" = q THEN f["safety1"][d] + w[d] ELSE f["safety1"][d]
      BY <2>1
    <2> QED BY <1>0, <2>2, <2>3 DEF OfInvocation, Attach, Command, Safety
  <1>5. /\ OfInvocation(g, d, "second") \in Nat /\ OfInvocation(f, d, "second") \in Nat
        /\ OfInvocation(g, d, "second") <= OfInvocation(f, d, "second") + add({"attach2", "command2", "safety2"})
    <2>1. {"attach2", "command2", "safety2"} \subseteq Phase
      BY DEF Phase
    <2>2. /\ f["attach2"][d] \in Nat /\ g["attach2"][d] \in Nat
          /\ f["command2"][d] \in Nat /\ g["command2"][d] \in Nat
          /\ f["safety2"][d] \in Nat /\ g["safety2"][d] \in Nat
      BY <1>1, <2>1
    <2>3. /\ g["attach2"][d] <= IF "attach2" = q THEN f["attach2"][d] + w[d] ELSE f["attach2"][d]
          /\ g["command2"][d] <= IF "command2" = q THEN f["command2"][d] + w[d] ELSE f["command2"][d]
          /\ g["safety2"][d] <= IF "safety2" = q THEN f["safety2"][d] + w[d] ELSE f["safety2"][d]
      BY <2>1
    <2> QED BY <1>0, <2>2, <2>3 DEF OfInvocation, Attach, Command, Safety
  <1>6. add({"forward", "backup", "lifecycle", "execution"})
        + add({"general", "control", "semantic", "scratch", "retirement"})
        + add({"attach1", "command1", "safety1"})
        + add({"attach2", "command2", "safety2"}) = w[d]
    BY <1>0 DEF Phase
  <1> HIDE DEF add
  <1>7. /\ add({"forward", "backup", "lifecycle", "execution"}) \in Nat
        /\ add({"general", "control", "semantic", "scratch", "retirement"}) \in Nat
        /\ add({"attach1", "command1", "safety1"}) \in Nat
        /\ add({"attach2", "command2", "safety2"}) \in Nat
    BY <1>0 DEF add
  <1> QED BY <1>0, <1>2, <1>3, <1>4, <1>5, <1>6, <1>7 DEF Total

LEMMA PledgedType == TypeOK => Pledged \in [Phase -> Vector]
  BY DEF TypeOK, Pledged, Vector, Dim

LEMMA GrantedPledged ==
  ASSUME IInv
  PROVE  Conserved
  <1> SUFFICES ASSUME NEW d \in Dim PROVE own[d] + Total(granted, d) <= Limit[d]
    BY DEF Conserved
  <1>1. Pledged \in [Phase -> Vector] /\ granted \in [Phase -> Vector]
    BY PledgedType DEF IInv, TypeOK
  <1>2. \A p \in Phase : granted[p][d] <= Pledged[p][d]
    <2> SUFFICES ASSUME NEW p \in Phase PROVE granted[p][d] <= Pledged[p][d]
      OBVIOUS
    <2>1. CASE p \in begun
      BY <2>1, <1>1 DEF Pledged, Vector
    <2>2. CASE p \notin begun
      BY <2>2, <1>1 DEF Pledged, Vector, IInv, NotYet, None, TypeOK
    <2> QED BY <2>1, <2>2
  <1>3. /\ Total(granted, d) \in Nat
        /\ Total(Pledged, d) \in Nat
        /\ Total(granted, d) <= Total(Pledged, d)
    BY <1>1, <1>2, TotalSame
  <1>4. own[d] + Total(Pledged, d) <= used[d] /\ used[d] <= Limit[d]
    BY DEF IInv, Books
  <1> QED BY <1>3, <1>4, LimitAssumption DEF IInv, TypeOK, Vector

(* One step of the books: at most w is pledged to one phase and v spent,   *)
(* and both are charged.                                                   *)
LEMMA BooksStep ==
  ASSUME IInv, TypeOK', NEW q \in Phase, NEW v \in Vector, NEW w \in Vector,
         \A d \in Dim : own'[d] = own[d] + v[d],
         \A d \in Dim : used[d] + v[d] + w[d] <= used'[d] /\ used'[d] <= Limit[d],
         \A p \in Phase : \A d \in Dim :
           Pledged'[p][d] <= IF p = q THEN Pledged[p][d] + w[d] ELSE Pledged[p][d]
  PROVE  Books'
  <1> SUFFICES ASSUME NEW d \in Dim
               PROVE  own'[d] + Total(Pledged', d) <= used'[d] /\ used'[d] <= Limit[d]
    BY DEF Books
  <1>1. Pledged \in [Phase -> Vector] /\ Pledged' \in [Phase -> Vector]
    BY PledgedType DEF IInv, TypeOK, Pledged, Vector, Dim
  <1>2. /\ Total(Pledged', d) \in Nat /\ Total(Pledged, d) \in Nat
        /\ Total(Pledged', d) <= Total(Pledged, d) + w[d]
    BY <1>1, TotalOne
  <1>3. own[d] + Total(Pledged, d) <= used[d]
    BY DEF IInv, Books
  <1>4. own[d] \in Nat /\ own'[d] \in Nat /\ used[d] \in Nat /\ used'[d] \in Nat
        /\ v[d] \in Nat /\ w[d] \in Nat
    BY DEF IInv, TypeOK, Vector
  <1> QED BY <1>2, <1>3, <1>4

(* Vectors.                                                                *)
LEMMA Vectors ==
  /\ None \in Vector
  /\ \A v, w \in Vector : Plus(v, w) \in Vector
  /\ \A v, w \in Vector : \A d \in Dim : Plus(v, w)[d] = v[d] + w[d]
  /\ \A v \in Vector : Plus(None, v) = v
  /\ \A d \in Dim : None[d] = 0
  BY DEF None, Plus, Vector

LEMMA InPhase ==
  /\ {"forward", "backup", "lifecycle", "execution"} \subseteq Phase
  /\ {"general", "control", "semantic", "scratch", "retirement"} \subseteq Phase
  /\ \A h \in Handle : {Attach(h), Command(h), Safety(h)} \subseteq Phase
  BY DEF Phase, Handle, Attach, Command, Safety

(* The three parts of an invocation are phases of their own, apart from    *)
(* every named phase and from the other invocation's.                      *)
LEMMA Apart ==
  \A h \in Handle :
    /\ Attach(h) # Command(h) /\ Attach(h) # Safety(h) /\ Command(h) # Safety(h)
    /\ {Attach(h), Command(h), Safety(h)} \cap
         {"forward", "backup", "lifecycle", "execution", "general", "control",
          "semantic", "scratch", "retirement"} = {}
    /\ \A k \in Handle \ {h} :
         {Attach(h), Command(h), Safety(h)} \cap {Attach(k), Command(k), Safety(k)} = {}
  BY DEF Handle, Attach, Command, Safety

LEMMA InitInv == Init => IInv
  <1> SUFFICES ASSUME Init PROVE IInv
    OBVIOUS
  <1>1. TypeOK
    BY Vectors DEF Init, TypeOK
  <1>2. Books
    <2> SUFFICES ASSUME NEW d \in Dim
                 PROVE  own[d] + Total(Pledged, d) <= used[d] /\ used[d] <= Limit[d]
      BY DEF Books
    <2>1. \A p \in Phase : Pledged[p][d] = 0
      BY DEF Init, Pledged, None
    <2>2. Total(Pledged, d) = 0
      BY <2>1 DEF Total, OfRemovals, OfControl, OfInvocation, Phase, Attach, Command, Safety
    <2> QED BY <2>2, LimitAssumption DEF Init, None, Vector
  <1>3. NotYet
    BY InPhase DEF Init, NotYet
  <1>4. Handles
    BY InPhase DEF Init, Handles
  <1>5. Dispositions
    BY InPhase DEF Init, Dispositions, None, Dim
  <1> QED BY <1>1, <1>2, <1>3, <1>4, <1>5 DEF IInv

LEMMA AdmitRemovalDemandsInv ==
  ASSUME IInv, AdmitRemovalDemands
  PROVE  IInv'
  <1>1. TypeOK'
    BY DEF IInv, TypeOK, AdmitRemovalDemands
  <1>2. Books'
    <2>1. \A d \in Dim : own'[d] = own[d] + None[d]
      BY Vectors DEF AdmitRemovalDemands, IInv, TypeOK, Vector
    <2>2. \A d \in Dim : used[d] + None[d] + None[d] <= used'[d] /\ used'[d] <= Limit[d]
      BY Vectors, LimitAssumption DEF AdmitRemovalDemands, IInv, TypeOK, Vector, Books
    <2>3. \A p \in Phase : \A d \in Dim :
            Pledged'[p][d] <= IF p = "forward" THEN Pledged[p][d] + None[d] ELSE Pledged[p][d]
      BY Vectors, PledgedType DEF AdmitRemovalDemands, IInv, TypeOK, Vector, Pledged, NotYet, Transfer
    <2>4. "forward" \in Phase /\ None \in Vector /\ None \in Vector
      BY Vectors, InPhase
    <2> QED BY <1>1, <2>1, <2>2, <2>3, <2>4, BooksStep
  <1>3. NotYet'
    BY InPhase DEF IInv, TypeOK, NotYet, AdmitRemovalDemands
  <1>4. Handles'
    BY InPhase, Apart DEF IInv, TypeOK, Handles, AdmitRemovalDemands
  <1>5. Dispositions'
    BY InPhase, ClientAssumption DEF IInv, TypeOK, Dispositions, Settled, AdmitRemovalDemands
  <1> QED BY <1>1, <1>2, <1>3, <1>4, <1>5 DEF IInv

LEMMA AdmitPhysicalWorkInv ==
  ASSUME IInv, NEW w \in Works, AdmitPhysicalWork(w)
  PROVE  IInv'
  <1>0. w \in Vector
    BY WorksAssumption
  <1>1. TypeOK'
    BY <1>0, Vectors DEF IInv, TypeOK, AdmitPhysicalWork
  <1>2. Books'
    <2>1. \A d \in Dim : own'[d] = own[d] + w[d]
      BY <1>0, Vectors DEF AdmitPhysicalWork, IInv, TypeOK
    <2>2. ASSUME NEW d \in Dim
          PROVE  used[d] + w[d] + None[d] <= used'[d] /\ used'[d] <= Limit[d]
      <3>1. used[d] \in Nat /\ w[d] \in Nat /\ Limit[d] \in Nat
        BY <1>0, LimitAssumption DEF IInv, TypeOK, Vector
      <3>2. used'[d] = used[d] + w[d] /\ None[d] = 0
        BY <1>0, Vectors DEF AdmitPhysicalWork, IInv, TypeOK
      <3>3. w[d] <= Limit[d] - used[d]
        BY DEF AdmitPhysicalWork, Fits
      <3> QED BY <3>1, <3>2, <3>3
    <2>3. \A p \in Phase : \A d \in Dim :
            Pledged'[p][d] <= IF p = "forward" THEN Pledged[p][d] + None[d] ELSE Pledged[p][d]
      BY Vectors, PledgedType DEF AdmitPhysicalWork, IInv, TypeOK, Vector, Pledged
    <2>4. "forward" \in Phase /\ w \in Vector /\ None \in Vector
      BY Vectors, InPhase, <1>0
    <2> QED BY <1>1, <2>1, <2>2, <2>3, <2>4, BooksStep
  <1>3. NotYet'
    BY InPhase DEF IInv, TypeOK, NotYet, AdmitPhysicalWork
  <1>4. Handles'
    BY InPhase, Apart DEF IInv, TypeOK, Handles, AdmitPhysicalWork
  <1>5. Dispositions'
    BY InPhase, ClientAssumption DEF IInv, TypeOK, Dispositions, Settled, AdmitPhysicalWork
  <1> QED BY <1>1, <1>2, <1>3, <1>4, <1>5 DEF IInv

LEMMA ReserveInv ==
  ASSUME IInv, NEW p \in Phase, NEW w \in Works, Reserve(p, w)
  PROVE  IInv'
  <1>0. w \in Vector
    BY WorksAssumption
  <1>a. p \in {"forward", "backup", "execution", "general", "semantic", "scratch", "retirement"}
    BY DEF Reserve, MayReserve, Phase
  <1>1. TypeOK'
    BY <1>0, Vectors DEF IInv, TypeOK, Reserve, Charge, rest
  <1>2. Books'
    <2>4. p \in Phase /\ None \in Vector /\ w \in Vector
      BY <1>0, Vectors
    <2>1. \A d \in Dim : own'[d] = own[d] + None[d]
      BY Vectors DEF Reserve, Charge, rest, IInv, TypeOK, Vector
    <2>2. \A d \in Dim : used[d] + None[d] + w[d] <= used'[d] /\ used'[d] <= Limit[d]
      <3> SUFFICES ASSUME NEW d \in Dim
                   PROVE  used[d] + None[d] + w[d] <= used'[d] /\ used'[d] <= Limit[d]
        OBVIOUS
      <3>1. /\ used[d] \in Nat /\ Limit[d] \in Nat /\ used[d] <= Limit[d]
            /\ None[d] = 0 /\ w[d] \in Nat
        BY <2>4, Vectors, LimitAssumption DEF IInv, TypeOK, Vector, Books
      <3>2. used'[d] = used[d] + w[d] /\ w[d] <= Limit[d] - used[d]
        BY <2>4, Vectors DEF Reserve, Charge, rest, Fits, IInv, TypeOK
      <3> QED BY <3>1, <3>2
    <2>3. \A x \in Phase : \A d \in Dim :
            Pledged'[x][d] <= IF x = p THEN Pledged[x][d] + w[d] ELSE Pledged[x][d]
      <3> SUFFICES ASSUME NEW x \in Phase, NEW d \in Dim
                   PROVE  Pledged'[x][d] <= IF x = p THEN Pledged[x][d] + w[d] ELSE Pledged[x][d]
        OBVIOUS
      <3>1. /\ Pledged'[x][d] = IF x \in begun' THEN granted'[x][d]
                               ELSE IF x = "execution" /\ ~Direct THEN 0 ELSE reserved'[x][d]
            /\ Pledged[x][d] = IF x \in begun THEN granted[x][d]
                              ELSE IF x = "execution" /\ ~Direct THEN 0 ELSE reserved[x][d]
        BY DEF Pledged
      <3>2. /\ begun' = begun /\ granted' = granted
            /\ reserved'[x][d] = IF x = p THEN reserved[x][d] + w[d] ELSE reserved[x][d]
        <4>1. begun' = begun /\ granted' = granted
          BY DEF Reserve, Charge, rest
        <4>2. reserved'[x] = IF x = p THEN Plus(reserved[x], w) ELSE reserved[x]
          BY <2>4 DEF IInv, TypeOK, Reserve, Charge, rest
        <4>3. Plus(reserved[x], w)[d] = reserved[x][d] + w[d]
          BY DEF Plus
        <4> QED BY <4>1, <4>2, <4>3
      <3>3. reserved[x][d] \in Nat /\ granted[x][d] \in Nat /\ w[d] \in Nat
        BY <2>4 DEF IInv, TypeOK, Vector
      <3> QED BY <3>1, <3>2, <3>3
    <2> QED BY <1>1, <2>1, <2>2, <2>3, <2>4, BooksStep
  <1>3. NotYet'
    BY <1>a, InPhase DEF IInv, TypeOK, NotYet, Reserve, Charge, rest
  <1>4. Handles'
    BY <1>a, InPhase, Apart DEF IInv, TypeOK, Handles, Reserve, Charge, rest
  <1>5. Dispositions'
    BY <1>a, InPhase, ClientAssumption DEF IInv, TypeOK, Dispositions, Settled, MayReserve, Reserve, Charge, rest
  <1> QED BY <1>1, <1>2, <1>3, <1>4, <1>5 DEF IInv

LEMMA ReserveScratchCleanupInv ==
  ASSUME IInv, NEW w \in Works, ReserveScratchCleanup(w)
  PROVE  IInv'
  <1>0. w \in Vector
    BY WorksAssumption
  <1>1. TypeOK'
    BY <1>0, InPhase, Vectors DEF IInv, TypeOK, ReserveScratchCleanup, Charge
  <1>2. Books'
    <2>4. "scratch" \in Phase /\ None \in Vector /\ w \in Vector
      BY <1>0, InPhase, Vectors
    <2>1. \A d \in Dim : own'[d] = own[d] + None[d]
      BY Vectors DEF ReserveScratchCleanup, Charge, IInv, TypeOK, Vector
    <2>2. \A d \in Dim : used[d] + None[d] + w[d] <= used'[d] /\ used'[d] <= Limit[d]
      <3> SUFFICES ASSUME NEW d \in Dim
                   PROVE  used[d] + None[d] + w[d] <= used'[d] /\ used'[d] <= Limit[d]
        OBVIOUS
      <3>1. /\ used[d] \in Nat /\ Limit[d] \in Nat /\ used[d] <= Limit[d]
            /\ None[d] = 0 /\ w[d] \in Nat
        BY <2>4, Vectors, LimitAssumption DEF IInv, TypeOK, Vector, Books
      <3>2. used'[d] = used[d] + w[d] /\ w[d] <= Limit[d] - used[d]
        BY <2>4, Vectors DEF ReserveScratchCleanup, Charge, Fits, IInv, TypeOK
      <3> QED BY <3>1, <3>2
    <2>3. \A x \in Phase : \A d \in Dim :
            Pledged'[x][d] <= IF x = "scratch" THEN Pledged[x][d] + w[d] ELSE Pledged[x][d]
      <3> SUFFICES ASSUME NEW x \in Phase, NEW d \in Dim
                   PROVE  Pledged'[x][d] <= IF x = "scratch" THEN Pledged[x][d] + w[d] ELSE Pledged[x][d]
        OBVIOUS
      <3>1. /\ Pledged'[x][d] = IF x \in begun' THEN granted'[x][d]
                               ELSE IF x = "execution" /\ ~Direct THEN 0 ELSE reserved'[x][d]
            /\ Pledged[x][d] = IF x \in begun THEN granted[x][d]
                              ELSE IF x = "execution" /\ ~Direct THEN 0 ELSE reserved[x][d]
        BY DEF Pledged
      <3>2. /\ begun' = begun /\ granted' = granted
            /\ reserved'[x][d] = IF x = "scratch" THEN reserved[x][d] + w[d] ELSE reserved[x][d]
        <4>1. begun' = begun /\ granted' = granted
          BY DEF ReserveScratchCleanup, Charge
        <4>2. reserved'[x] = IF x = "scratch" THEN Plus(reserved[x], w) ELSE reserved[x]
          BY <2>4 DEF IInv, TypeOK, ReserveScratchCleanup, Charge
        <4>3. Plus(reserved[x], w)[d] = reserved[x][d] + w[d]
          BY DEF Plus
        <4> QED BY <4>1, <4>2, <4>3
      <3>3. reserved[x][d] \in Nat /\ granted[x][d] \in Nat /\ w[d] \in Nat
        BY <2>4 DEF IInv, TypeOK, Vector
      <3> QED BY <3>1, <3>2, <3>3
    <2> QED BY <1>1, <2>1, <2>2, <2>3, <2>4, BooksStep
  <1>3. NotYet'
    BY InPhase DEF IInv, TypeOK, NotYet, ReserveScratchCleanup, Charge
  <1>4. Handles'
    BY InPhase, Apart DEF IInv, TypeOK, Handles, ReserveScratchCleanup, Charge
  <1>5. Dispositions'
    BY InPhase, ClientAssumption DEF IInv, TypeOK, Dispositions, Settled, MayReserve, ReserveScratchCleanup, Charge
  <1> QED BY <1>1, <1>2, <1>3, <1>4, <1>5 DEF IInv

LEMMA ReserveCleanupLifecycleInv ==
  ASSUME IInv, NEW v \in Works, NEW w \in Works, ReserveCleanupLifecycle(v, w)
  PROVE  IInv'
  <1> DEFINE u == Plus(v, w)
  <1>0. v \in Vector /\ w \in Vector /\ u \in Vector
        /\ \A d \in Dim : u[d] = v[d] + w[d]
    BY WorksAssumption, Vectors
  <1>b. /\ used' = Plus(used, u) /\ Fits(u)
        /\ reserved' = [reserved EXCEPT
              !["lifecycle"] = Plus(reserved["lifecycle"], u),
              !["execution"] = Plus(reserved["execution"], w)]
    BY DEF ReserveCleanupLifecycle
  <1>a. ~Direct /\ "execution" \notin begun
    BY ClientAssumption DEF ReserveCleanupLifecycle, IInv, NotYet
  <1> HIDE DEF u
  <1>1. TypeOK'
    BY <1>0, <1>b, InPhase, Vectors DEF IInv, TypeOK, ReserveCleanupLifecycle, rest
  <1>2. Books'
    <2>4. "lifecycle" \in Phase /\ None \in Vector /\ u \in Vector
      BY <1>0, InPhase, Vectors
    <2>1. \A d \in Dim : own'[d] = own[d] + None[d]
      BY Vectors DEF ReserveCleanupLifecycle, rest, IInv, TypeOK, Vector
    <2>2. \A d \in Dim : used[d] + None[d] + u[d] <= used'[d] /\ used'[d] <= Limit[d]
      <3> SUFFICES ASSUME NEW d \in Dim
                   PROVE  used[d] + None[d] + u[d] <= used'[d] /\ used'[d] <= Limit[d]
        OBVIOUS
      <3>1. /\ used[d] \in Nat /\ Limit[d] \in Nat /\ used[d] <= Limit[d]
            /\ None[d] = 0 /\ u[d] \in Nat
        BY <2>4, Vectors, LimitAssumption DEF IInv, TypeOK, Vector, Books
      <3>2. used'[d] = used[d] + u[d] /\ u[d] <= Limit[d] - used[d]
        BY <1>0, <1>b, Vectors DEF Fits, IInv, TypeOK
      <3> QED BY <3>1, <3>2
    <2>3. \A x \in Phase : \A d \in Dim :
            Pledged'[x][d] <= IF x = "lifecycle" THEN Pledged[x][d] + u[d] ELSE Pledged[x][d]
      <3> SUFFICES ASSUME NEW x \in Phase, NEW d \in Dim
                   PROVE  Pledged'[x][d] <= IF x = "lifecycle" THEN Pledged[x][d] + u[d] ELSE Pledged[x][d]
        OBVIOUS
      <3>1. /\ Pledged'[x][d] = IF x \in begun' THEN granted'[x][d]
                               ELSE IF x = "execution" /\ ~Direct THEN 0 ELSE reserved'[x][d]
            /\ Pledged[x][d] = IF x \in begun THEN granted[x][d]
                              ELSE IF x = "execution" /\ ~Direct THEN 0 ELSE reserved[x][d]
        BY DEF Pledged
      <3>2. /\ begun' = begun /\ granted' = granted /\ ~Direct
            /\ x # "execution" =>
                 reserved'[x][d] = IF x = "lifecycle" THEN reserved[x][d] + u[d] ELSE reserved[x][d]
            /\ reserved'[x][d] \in Nat
        <4>1. begun' = begun /\ granted' = granted /\ ~Direct
          BY <1>a DEF ReserveCleanupLifecycle, rest
        <4>2. x # "execution" =>
                reserved'[x] = IF x = "lifecycle" THEN Plus(reserved[x], u) ELSE reserved[x]
          BY <1>b, <2>4 DEF IInv, TypeOK
        <4>3. Plus(reserved[x], u)[d] = reserved[x][d] + u[d]
          BY DEF Plus
        <4>4. reserved'[x][d] \in Nat
          BY <1>1 DEF TypeOK, Vector
        <4> QED BY <4>1, <4>2, <4>3, <4>4
      <3>3. reserved[x][d] \in Nat /\ granted[x][d] \in Nat /\ u[d] \in Nat
        BY <2>4 DEF IInv, TypeOK, Vector
      <3> QED BY <3>1, <3>2, <3>3
    <2> QED BY <1>1, <2>1, <2>2, <2>3, <2>4, BooksStep
  <1>3. NotYet'
    BY InPhase DEF IInv, TypeOK, NotYet, ReserveCleanupLifecycle, rest
  <1>4. Handles'
    BY InPhase, Apart DEF IInv, TypeOK, Handles, ReserveCleanupLifecycle, rest
  <1>5. Dispositions'
    <2>1. /\ reserved'["lifecycle"] = Plus(reserved["lifecycle"], u)
          /\ reserved'["scratch"] = reserved["scratch"]
          /\ reserved'["retirement"] = reserved["retirement"]
          /\ u["tree"] = 0
      <3>1. v["tree"] = 0 /\ w["tree"] = 0 /\ "tree" \in Dim
        BY DEF ReserveCleanupLifecycle, Dim
      <3>2. u["tree"] = 0
        BY <1>0, <3>1
      <3> QED BY <1>b, <3>2, InPhase DEF IInv, TypeOK
    <2>2. reserved'["lifecycle"]["tree"] = 0
      <3>1. Plus(reserved["lifecycle"], u)["tree"] = reserved["lifecycle"]["tree"] + u["tree"]
        BY DEF Plus, Dim
      <3> QED BY <2>1, <3>1 DEF IInv, Dispositions
    <2> QED BY <2>1, <2>2 DEF IInv, Dispositions, Settled, ReserveCleanupLifecycle, rest
  <1> QED BY <1>1, <1>2, <1>3, <1>4, <1>5 DEF IInv

LEMMA BeginReservedInv ==
  ASSUME IInv, NEW p \in Phase, BeginReserved(p)
  PROVE  IInv'
  <1>a. /\ p \in {"forward", "backup", "execution", "semantic", "scratch", "retirement"}
        /\ p \notin begun
        /\ Plus(granted[p], reserved[p]) = reserved[p]
    BY Vectors DEF BeginReserved, MayBegin, IInv, NotYet, TypeOK
  <1>1. TypeOK'
    BY InPhase, Vectors DEF IInv, TypeOK, BeginReserved, Transfer, MayBegin
  <1>2. Books'
    <2>4. p \in Phase /\ None \in Vector /\ None \in Vector
      BY Vectors
    <2>1. \A d \in Dim : own'[d] = own[d] + None[d]
      BY Vectors DEF BeginReserved, Transfer, MayBegin, IInv, TypeOK, Vector
    <2>2. \A d \in Dim : used[d] + None[d] + None[d] <= used'[d] /\ used'[d] <= Limit[d]
      <3> SUFFICES ASSUME NEW d \in Dim
                   PROVE  used[d] + None[d] + None[d] <= used'[d] /\ used'[d] <= Limit[d]
        OBVIOUS
      <3>1. /\ used[d] \in Nat /\ Limit[d] \in Nat /\ used[d] <= Limit[d]
            /\ None[d] = 0 /\ None[d] \in Nat
        BY <2>4, Vectors, LimitAssumption DEF IInv, TypeOK, Vector, Books
      <3>2. used' = used
        BY DEF BeginReserved, Transfer, MayBegin
      <3> QED BY <3>1, <3>2, Vectors
    <2>3. \A x \in Phase : \A d \in Dim :
            Pledged'[x][d] <= IF x = p THEN Pledged[x][d] + None[d] ELSE Pledged[x][d]
      <3> SUFFICES ASSUME NEW x \in Phase, NEW d \in Dim
                   PROVE  Pledged'[x][d] <= IF x = p THEN Pledged[x][d] + None[d] ELSE Pledged[x][d]
        OBVIOUS
      <3>1. /\ Pledged'[x][d] = IF x \in begun' THEN granted'[x][d]
                               ELSE IF x = "execution" /\ ~Direct THEN 0 ELSE reserved'[x][d]
            /\ Pledged[x][d] = IF x \in begun THEN granted[x][d]
                              ELSE IF x = "execution" /\ ~Direct THEN 0 ELSE reserved[x][d]
        BY DEF Pledged
      <3>2. /\ begun' = begun \cup {p} /\ reserved' = reserved
            /\ granted'[x] = IF x = p THEN reserved[x] ELSE granted[x]
            /\ x = "execution" /\ ~Direct => x # p
        BY <1>a DEF BeginReserved, Transfer, MayBegin, IInv, TypeOK
      <3>3. reserved[x][d] \in Nat /\ granted[x][d] \in Nat /\ None[d] \in Nat
        BY <2>4 DEF IInv, TypeOK, Vector
      <3> QED BY <1>a, <3>1, <3>2, <3>3, Vectors
    <2> QED BY <1>1, <2>1, <2>2, <2>3, <2>4, BooksStep
  <1>3. NotYet'
    BY <1>a, InPhase DEF IInv, TypeOK, NotYet, BeginReserved, Transfer, MayBegin
  <1>4. Handles'
    BY <1>a, InPhase, Apart DEF IInv, TypeOK, Handles, BeginReserved, Transfer, MayBegin
  <1>5. Dispositions'
    <2>1. /\ begun' = begun \cup {p} /\ reserved' = reserved
          /\ \A x \in Phase : granted'[x] = IF x = p THEN reserved[x] ELSE granted[x]
          /\ p \notin excused \/ p \in {"forward", "backup", "execution"}
          /\ excused' = excused /\ scratched' = scratched
      BY <1>a DEF BeginReserved, Transfer, MayBegin, IInv, TypeOK
    <2>2. excused \subseteq {"lifecycle", "scratch", "retirement"}
      BY DEF IInv, Dispositions
    <2> QED BY <1>a, <2>1, <2>2, InPhase DEF IInv, Dispositions, Settled
  <1> QED BY <1>1, <1>2, <1>3, <1>4, <1>5 DEF IInv

LEMMA BeginReservedCleanupLifecycleInv ==
  ASSUME IInv, BeginReservedCleanupLifecycle
  PROVE  IInv'
  <1> DEFINE r == [d \in Dim |-> IF d = "tree" THEN Limit["tree"] - used["tree"] ELSE 0]
  <1>a. /\ r \in Vector
        /\ r["paths"] = 0
        /\ r["tree"] = Limit["tree"] - used["tree"]
        /\ Remaining["tree"] = r["tree"]
    BY LimitAssumption DEF Remaining, IInv, Books, TypeOK, Vector, Dim
  <1>b. granted' = [granted EXCEPT !["lifecycle"] = Plus(reserved["lifecycle"], r)]
        /\ Plus(reserved["lifecycle"], r) \in Vector
    <2>1. reserved["lifecycle"] \in Vector /\ reserved["lifecycle"]["tree"] = 0
      BY InPhase DEF IInv, TypeOK, Dispositions
    <2>2. Plus(reserved["lifecycle"], r) =
            [d \in Dim |-> IF d = "tree" THEN Remaining["tree"] ELSE reserved["lifecycle"]["paths"]]
      BY <2>1, <1>a DEF Plus, Dim, Vector
    <2> QED BY <1>a, <2>1, <2>2, Vectors DEF BeginReservedCleanupLifecycle
  <1> HIDE DEF r
  <1>1. TypeOK'
    <2>1. granted' \in [Phase -> Vector]
      BY <1>b DEF IInv, TypeOK
    <2> QED BY <2>1, <1>a, InPhase, LimitAssumption DEF IInv, TypeOK, Vector, Dim, BeginReservedCleanupLifecycle
  <1>2. Books'
    <2>4. "lifecycle" \in Phase /\ None \in Vector /\ r \in Vector
      BY <1>a, InPhase, Vectors
    <2>1. \A d \in Dim : own'[d] = own[d] + None[d]
      BY Vectors DEF BeginReservedCleanupLifecycle, MayBegin, IInv, TypeOK, Vector
    <2>2. \A d \in Dim : used[d] + None[d] + r[d] <= used'[d] /\ used'[d] <= Limit[d]
      <3> SUFFICES ASSUME NEW d \in Dim
                   PROVE  used[d] + None[d] + r[d] <= used'[d] /\ used'[d] <= Limit[d]
        OBVIOUS
      <3>1. /\ used[d] \in Nat /\ Limit[d] \in Nat /\ used[d] <= Limit[d]
            /\ None[d] = 0 /\ r[d] \in Nat
        BY <2>4, Vectors, LimitAssumption DEF IInv, TypeOK, Vector, Books
      <3>2. used'[d] = used[d] + r[d] /\ r[d] <= Limit[d] - used[d]
        <4>1. /\ used' = [used EXCEPT !["tree"] = Limit["tree"]]
              /\ used \in [Dim -> Nat]
          BY DEF BeginReservedCleanupLifecycle, IInv, TypeOK, Vector
        <4>2. CASE d = "tree"
          BY <4>1, <4>2, <1>a, <3>1
        <4>3. CASE d = "paths"
          BY <4>1, <4>3, <1>a, <3>1
        <4> QED BY <4>2, <4>3 DEF Dim
      <3> QED BY <3>1, <3>2
    <2>3. \A x \in Phase : \A d \in Dim :
            Pledged'[x][d] <= IF x = "lifecycle" THEN Pledged[x][d] + r[d] ELSE Pledged[x][d]
      <3> SUFFICES ASSUME NEW x \in Phase, NEW d \in Dim
                   PROVE  Pledged'[x][d] <= IF x = "lifecycle" THEN Pledged[x][d] + r[d] ELSE Pledged[x][d]
        OBVIOUS
      <3>1. /\ Pledged'[x][d] = IF x \in begun' THEN granted'[x][d]
                               ELSE IF x = "execution" /\ ~Direct THEN 0 ELSE reserved'[x][d]
            /\ Pledged[x][d] = IF x \in begun THEN granted[x][d]
                              ELSE IF x = "execution" /\ ~Direct THEN 0 ELSE reserved[x][d]
        BY DEF Pledged
      <3>2. /\ begun' = begun \cup {"lifecycle"} /\ reserved' = reserved /\ "lifecycle" \notin begun
            /\ granted'[x][d] = IF x = "lifecycle" THEN reserved[x][d] + r[d] ELSE granted[x][d]
        <4>1. begun' = begun \cup {"lifecycle"} /\ reserved' = reserved /\ "lifecycle" \notin begun
          BY DEF BeginReservedCleanupLifecycle, MayBegin
        <4>2. granted'[x] = IF x = "lifecycle" THEN Plus(reserved[x], r) ELSE granted[x]
          BY <1>b DEF IInv, TypeOK
        <4>3. Plus(reserved[x], r)[d] = reserved[x][d] + r[d]
          BY DEF Plus
        <4> QED BY <4>1, <4>2, <4>3
      <3>3. reserved[x][d] \in Nat /\ granted[x][d] \in Nat /\ r[d] \in Nat
        BY <2>4 DEF IInv, TypeOK, Vector
      <3> QED BY <3>1, <3>2, <3>3
    <2> QED BY <1>1, <2>1, <2>2, <2>3, <2>4, BooksStep
  <1>3. NotYet'
    BY InPhase DEF IInv, TypeOK, NotYet, BeginReservedCleanupLifecycle, MayBegin
  <1>4. Handles'
    BY InPhase, Apart DEF IInv, TypeOK, Handles, BeginReservedCleanupLifecycle, MayBegin
  <1>5. Dispositions'
    <2>1. granted'["lifecycle"]["paths"] = reserved["lifecycle"]["paths"]
      <3>1. Plus(reserved["lifecycle"], r)["paths"] = reserved["lifecycle"]["paths"] + r["paths"]
        BY DEF Plus, Dim
      <3>2. reserved["lifecycle"]["paths"] \in Nat
        BY InPhase DEF IInv, TypeOK, Vector, Dim
      <3>3. granted'["lifecycle"] = Plus(reserved["lifecycle"], r)
        BY <1>b, InPhase DEF IInv, TypeOK
      <3> QED BY <1>a, <3>1, <3>2, <3>3
    <2> QED BY <2>1, <1>b, InPhase DEF IInv, TypeOK, Dispositions, Settled, BeginReservedCleanupLifecycle, MayBegin
  <1> QED BY <1>1, <1>2, <1>3, <1>4, <1>5 DEF IInv

LEMMA ConcludeCleanupLifecycleInv ==
  ASSUME IInv, ConcludeCleanupLifecycle
  PROVE  IInv'
  <1>1. TypeOK'
    BY InPhase DEF IInv, TypeOK, ConcludeCleanupLifecycle
  <1>2. Books'
    <2>1. \A d \in Dim : own'[d] = own[d] + None[d]
      BY Vectors DEF ConcludeCleanupLifecycle, IInv, TypeOK, Vector
    <2>2. \A d \in Dim : used[d] + None[d] + None[d] <= used'[d] /\ used'[d] <= Limit[d]
      BY Vectors, LimitAssumption DEF ConcludeCleanupLifecycle, IInv, TypeOK, Vector, Books
    <2>3. \A p \in Phase : \A d \in Dim :
            Pledged'[p][d] <= IF p = "forward" THEN Pledged[p][d] + None[d] ELSE Pledged[p][d]
      BY Vectors, PledgedType DEF ConcludeCleanupLifecycle, IInv, TypeOK, Vector, Pledged, NotYet, Transfer
    <2>4. "forward" \in Phase /\ None \in Vector /\ None \in Vector
      BY Vectors, InPhase
    <2> QED BY <1>1, <2>1, <2>2, <2>3, <2>4, BooksStep
  <1>3. NotYet'
    BY InPhase DEF IInv, TypeOK, NotYet, ConcludeCleanupLifecycle
  <1>4. Handles'
    BY InPhase, Apart DEF IInv, TypeOK, Handles, ConcludeCleanupLifecycle
  <1>5. Dispositions'
    BY InPhase, ClientAssumption DEF IInv, TypeOK, Dispositions, Settled, ConcludeCleanupLifecycle
  <1> QED BY <1>1, <1>2, <1>3, <1>4, <1>5 DEF IInv

LEMMA ConcludeScratchCleanupNotApplicableInv ==
  ASSUME IInv, ConcludeScratchCleanupNotApplicable
  PROVE  IInv'
  <1>1. TypeOK'
    BY InPhase DEF IInv, TypeOK, ConcludeScratchCleanupNotApplicable
  <1>2. Books'
    <2>1. \A d \in Dim : own'[d] = own[d] + None[d]
      BY Vectors DEF ConcludeScratchCleanupNotApplicable, IInv, TypeOK, Vector
    <2>2. \A d \in Dim : used[d] + None[d] + None[d] <= used'[d] /\ used'[d] <= Limit[d]
      BY Vectors, LimitAssumption DEF ConcludeScratchCleanupNotApplicable, IInv, TypeOK, Vector, Books
    <2>3. \A p \in Phase : \A d \in Dim :
            Pledged'[p][d] <= IF p = "forward" THEN Pledged[p][d] + None[d] ELSE Pledged[p][d]
      BY Vectors, PledgedType DEF ConcludeScratchCleanupNotApplicable, IInv, TypeOK, Vector, Pledged, NotYet, Transfer
    <2>4. "forward" \in Phase /\ None \in Vector /\ None \in Vector
      BY Vectors, InPhase
    <2> QED BY <1>1, <2>1, <2>2, <2>3, <2>4, BooksStep
  <1>3. NotYet'
    BY InPhase DEF IInv, TypeOK, NotYet, ConcludeScratchCleanupNotApplicable
  <1>4. Handles'
    BY InPhase, Apart DEF IInv, TypeOK, Handles, ConcludeScratchCleanupNotApplicable
  <1>5. Dispositions'
    BY InPhase, ClientAssumption DEF IInv, TypeOK, Dispositions, Settled, ConcludeScratchCleanupNotApplicable
  <1> QED BY <1>1, <1>2, <1>3, <1>4, <1>5 DEF IInv

LEMMA ConcludeRetirementNotApplicableInv ==
  ASSUME IInv, ConcludeRetirementNotApplicable
  PROVE  IInv'
  <1>1. TypeOK'
    BY InPhase DEF IInv, TypeOK, ConcludeRetirementNotApplicable
  <1>2. Books'
    <2>1. \A d \in Dim : own'[d] = own[d] + None[d]
      BY Vectors DEF ConcludeRetirementNotApplicable, IInv, TypeOK, Vector
    <2>2. \A d \in Dim : used[d] + None[d] + None[d] <= used'[d] /\ used'[d] <= Limit[d]
      BY Vectors, LimitAssumption DEF ConcludeRetirementNotApplicable, IInv, TypeOK, Vector, Books
    <2>3. \A p \in Phase : \A d \in Dim :
            Pledged'[p][d] <= IF p = "forward" THEN Pledged[p][d] + None[d] ELSE Pledged[p][d]
      BY Vectors, PledgedType DEF ConcludeRetirementNotApplicable, IInv, TypeOK, Vector, Pledged, NotYet, Transfer
    <2>4. "forward" \in Phase /\ None \in Vector /\ None \in Vector
      BY Vectors, InPhase
    <2> QED BY <1>1, <2>1, <2>2, <2>3, <2>4, BooksStep
  <1>3. NotYet'
    BY InPhase DEF IInv, TypeOK, NotYet, ConcludeRetirementNotApplicable
  <1>4. Handles'
    BY InPhase, Apart DEF IInv, TypeOK, Handles, ConcludeRetirementNotApplicable
  <1>5. Dispositions'
    BY InPhase, ClientAssumption DEF IInv, TypeOK, Dispositions, Settled, ConcludeRetirementNotApplicable
  <1> QED BY <1>1, <1>2, <1>3, <1>4, <1>5 DEF IInv

LEMMA BeginGeneralExecutionInv ==
  ASSUME IInv, BeginGeneralExecution
  PROVE  IInv'
  <1> DEFINE r == [d \in Dim |-> IF d = "paths" THEN Remaining["paths"] ELSE 0]
  <1>a. /\ r \in Vector
        /\ r["tree"] = 0
        /\ r["paths"] = Limit["paths"] - used["paths"]
    BY LimitAssumption DEF Remaining, IInv, Books, TypeOK, Vector, Dim
  <1>b. granted' = [granted EXCEPT !["general"] = reserved["general"], !["control"] = r]
    <2>1. Plus(granted["general"], reserved["general"]) = reserved["general"]
      BY InPhase, Vectors DEF BeginGeneralExecution, MayBeginGeneral, IInv, NotYet, TypeOK
    <2> QED BY <2>1 DEF BeginGeneralExecution
  <1> HIDE DEF r
  <1>1. TypeOK'
    BY <1>a, <1>b, InPhase, LimitAssumption DEF IInv, TypeOK, BeginGeneralExecution
  <1>2. Books'
    <2>4. "control" \in Phase /\ None \in Vector /\ r \in Vector
      BY <1>a, InPhase, Vectors
    <2>1. \A d \in Dim : own'[d] = own[d] + None[d]
      BY Vectors DEF BeginGeneralExecution, MayBeginGeneral, IInv, TypeOK, Vector
    <2>2. \A d \in Dim : used[d] + None[d] + r[d] <= used'[d] /\ used'[d] <= Limit[d]
      <3> SUFFICES ASSUME NEW d \in Dim
                   PROVE  used[d] + None[d] + r[d] <= used'[d] /\ used'[d] <= Limit[d]
        OBVIOUS
      <3>1. /\ used[d] \in Nat /\ Limit[d] \in Nat /\ used[d] <= Limit[d]
            /\ None[d] = 0 /\ r[d] \in Nat
        BY <2>4, Vectors, LimitAssumption DEF IInv, TypeOK, Vector, Books
      <3>2. used'[d] = Limit[d] /\ r[d] <= Limit[d] - used[d]
        <4>1. used' = Limit
          BY DEF BeginGeneralExecution
        <4>2. CASE d = "tree"
          BY <4>1, <4>2, <1>a, <3>1
        <4>3. CASE d = "paths"
          BY <4>1, <4>3, <1>a, <3>1
        <4> QED BY <4>2, <4>3 DEF Dim
      <3> QED BY <3>1, <3>2
    <2>3. \A x \in Phase : \A d \in Dim :
            Pledged'[x][d] <= IF x = "control" THEN Pledged[x][d] + r[d] ELSE Pledged[x][d]
      <3> SUFFICES ASSUME NEW x \in Phase, NEW d \in Dim
                   PROVE  Pledged'[x][d] <= IF x = "control" THEN Pledged[x][d] + r[d] ELSE Pledged[x][d]
        OBVIOUS
      <3>1. /\ Pledged'[x][d] = IF x \in begun' THEN granted'[x][d]
                               ELSE IF x = "execution" /\ ~Direct THEN 0 ELSE reserved'[x][d]
            /\ Pledged[x][d] = IF x \in begun THEN granted[x][d]
                              ELSE IF x = "execution" /\ ~Direct THEN 0 ELSE reserved[x][d]
        BY DEF Pledged
      <3>2. /\ begun' = begun \cup {"general", "control"} /\ reserved' = reserved
            /\ "general" \notin begun /\ "control" \notin begun
            /\ granted'[x][d] = IF x = "control" THEN reserved[x][d] + r[d]
                                ELSE IF x = "general" THEN reserved[x][d] ELSE granted[x][d]
        <4>1. /\ begun' = begun \cup {"general", "control"} /\ reserved' = reserved
              /\ "general" \notin begun /\ "control" \notin begun
          BY DEF BeginGeneralExecution, MayBeginGeneral, IInv, NotYet
        <4>2. granted'[x] = IF x = "control" THEN r ELSE IF x = "general" THEN reserved[x] ELSE granted[x]
          BY <1>b DEF IInv, TypeOK
        <4>3. x = "control" => reserved[x][d] = 0
          BY DEF IInv, NotYet, None
        <4>4. r[d] \in Nat
          BY <1>a DEF Vector
        <4> QED BY <4>1, <4>2, <4>3, <4>4
      <3>3. reserved[x][d] \in Nat /\ granted[x][d] \in Nat /\ r[d] \in Nat
        BY <2>4 DEF IInv, TypeOK, Vector
      <3> QED BY <3>1, <3>2, <3>3
    <2> QED BY <1>1, <2>1, <2>2, <2>3, <2>4, BooksStep
  <1>3. NotYet'
    BY <1>b, InPhase DEF IInv, TypeOK, NotYet, BeginGeneralExecution, MayBeginGeneral
  <1>4. Handles'
    BY <1>b, InPhase, Apart DEF IInv, TypeOK, Handles, BeginGeneralExecution, MayBeginGeneral
  <1>5. Dispositions'
    BY <1>b, InPhase DEF IInv, TypeOK, Dispositions, Settled, BeginGeneralExecution, MayBeginGeneral
  <1> QED BY <1>1, <1>2, <1>3, <1>4, <1>5 DEF IInv

LEMMA BeginGeneralExecutionRetainingControlInv ==
  ASSUME IInv, BeginGeneralExecutionRetainingControl
  PROVE  IInv'
  <1>a. /\ "general" \notin begun
        /\ Plus(granted["general"], reserved["general"]) = reserved["general"]
    BY InPhase, Vectors DEF BeginGeneralExecutionRetainingControl, MayBeginGeneral, IInv, NotYet, TypeOK
  <1>1. TypeOK'
    BY InPhase, Vectors DEF IInv, TypeOK, BeginGeneralExecutionRetainingControl, MayBeginGeneral, Transfer
  <1>2. Books'
    <2>4. "general" \in Phase /\ None \in Vector /\ None \in Vector
      BY InPhase, Vectors
    <2>1. \A d \in Dim : own'[d] = own[d] + None[d]
      BY Vectors DEF BeginGeneralExecutionRetainingControl, MayBeginGeneral, Transfer, IInv, TypeOK, Vector
    <2>2. \A d \in Dim : used[d] + None[d] + None[d] <= used'[d] /\ used'[d] <= Limit[d]
      <3> SUFFICES ASSUME NEW d \in Dim
                   PROVE  used[d] + None[d] + None[d] <= used'[d] /\ used'[d] <= Limit[d]
        OBVIOUS
      <3>1. /\ used[d] \in Nat /\ Limit[d] \in Nat /\ used[d] <= Limit[d]
            /\ None[d] = 0 /\ None[d] \in Nat
        BY <2>4, Vectors, LimitAssumption DEF IInv, TypeOK, Vector, Books
      <3>2. used' = used
        BY DEF BeginGeneralExecutionRetainingControl, MayBeginGeneral, Transfer
      <3> QED BY <3>1, <3>2, Vectors
    <2>3. \A x \in Phase : \A d \in Dim :
            Pledged'[x][d] <= IF x = "general" THEN Pledged[x][d] + None[d] ELSE Pledged[x][d]
      <3> SUFFICES ASSUME NEW x \in Phase, NEW d \in Dim
                   PROVE  Pledged'[x][d] <= IF x = "general" THEN Pledged[x][d] + None[d] ELSE Pledged[x][d]
        OBVIOUS
      <3>1. /\ Pledged'[x][d] = IF x \in begun' THEN granted'[x][d]
                               ELSE IF x = "execution" /\ ~Direct THEN 0 ELSE reserved'[x][d]
            /\ Pledged[x][d] = IF x \in begun THEN granted[x][d]
                              ELSE IF x = "execution" /\ ~Direct THEN 0 ELSE reserved[x][d]
        BY DEF Pledged
      <3>2. /\ begun' = begun \cup {"general"} /\ reserved' = reserved
            /\ granted'[x] = IF x = "general" THEN reserved[x] ELSE granted[x]
        BY <1>a DEF BeginGeneralExecutionRetainingControl, MayBeginGeneral, Transfer, IInv, TypeOK
      <3>3. reserved[x][d] \in Nat /\ granted[x][d] \in Nat /\ None[d] \in Nat
        BY <2>4 DEF IInv, TypeOK, Vector
      <3> QED BY <1>a, <3>1, <3>2, <3>3, Vectors
    <2> QED BY <1>1, <2>1, <2>2, <2>3, <2>4, BooksStep
  <1>3. NotYet'
    BY <1>a, InPhase DEF IInv, TypeOK, NotYet, BeginGeneralExecutionRetainingControl, MayBeginGeneral, Transfer
  <1>4. Handles'
    BY <1>a, InPhase, Apart DEF IInv, TypeOK, Handles, BeginGeneralExecutionRetainingControl, MayBeginGeneral, Transfer
  <1>5. Dispositions'
    BY <1>a, InPhase DEF IInv, TypeOK, Dispositions, Settled, BeginGeneralExecutionRetainingControl, MayBeginGeneral, Transfer
  <1> QED BY <1>1, <1>2, <1>3, <1>4, <1>5 DEF IInv

LEMMA TakeAttachmentInv ==
  ASSUME IInv, NEW h \in Handle, TakeAttachment(h)
  PROVE  IInv'
  <1> DEFINE q == Attach(h)
  <1>a. /\ q \in Phase /\ q \notin begun
        /\ q \notin {"forward", "backup", "lifecycle", "execution", "general", "control",
                    "semantic", "scratch", "retirement"}
        /\ Plus(granted[q], reserved[q]) = reserved[q]
    BY InPhase, Apart, Vectors DEF TakeAttachment, Handles, IInv, NotYet, TypeOK
  <1>1. TypeOK'
    BY <1>a, Vectors DEF IInv, TypeOK, TakeAttachment, Transfer
  <1>2. Books'
    <2>4. q \in Phase /\ None \in Vector /\ None \in Vector
      BY <1>a, Vectors
    <2>1. \A d \in Dim : own'[d] = own[d] + None[d]
      BY Vectors DEF TakeAttachment, Transfer, IInv, TypeOK, Vector
    <2>2. \A d \in Dim : used[d] + None[d] + None[d] <= used'[d] /\ used'[d] <= Limit[d]
      <3> SUFFICES ASSUME NEW d \in Dim
                   PROVE  used[d] + None[d] + None[d] <= used'[d] /\ used'[d] <= Limit[d]
        OBVIOUS
      <3>1. /\ used[d] \in Nat /\ Limit[d] \in Nat /\ used[d] <= Limit[d]
            /\ None[d] = 0 /\ None[d] \in Nat
        BY <2>4, Vectors, LimitAssumption DEF IInv, TypeOK, Vector, Books
      <3>2. used' = used
        BY DEF TakeAttachment, Transfer
      <3> QED BY <3>1, <3>2, Vectors
    <2>3. \A x \in Phase : \A d \in Dim :
            Pledged'[x][d] <= IF x = q THEN Pledged[x][d] + None[d] ELSE Pledged[x][d]
      <3> SUFFICES ASSUME NEW x \in Phase, NEW d \in Dim
                   PROVE  Pledged'[x][d] <= IF x = q THEN Pledged[x][d] + None[d] ELSE Pledged[x][d]
        OBVIOUS
      <3>1. /\ Pledged'[x][d] = IF x \in begun' THEN granted'[x][d]
                               ELSE IF x = "execution" /\ ~Direct THEN 0 ELSE reserved'[x][d]
            /\ Pledged[x][d] = IF x \in begun THEN granted[x][d]
                              ELSE IF x = "execution" /\ ~Direct THEN 0 ELSE reserved[x][d]
        BY DEF Pledged
      <3>2. /\ begun' = begun \cup {q} /\ reserved' = reserved
            /\ granted'[x] = IF x = q THEN reserved[x] ELSE granted[x]
            /\ x = "execution" => x # q
        BY <1>a DEF TakeAttachment, Transfer, IInv, TypeOK
      <3>3. reserved[x][d] \in Nat /\ granted[x][d] \in Nat /\ None[d] \in Nat
        BY <2>4 DEF IInv, TypeOK, Vector
      <3> QED BY <1>a, <3>1, <3>2, <3>3, Vectors
    <2> QED BY <1>1, <2>1, <2>2, <2>3, <2>4, BooksStep
  <1>3. NotYet'
    BY <1>a, InPhase DEF IInv, TypeOK, NotYet, TakeAttachment, Transfer
  <1>4. Handles'
    <2>1. /\ begun' = begun \cup {q} /\ reserved' = reserved
          /\ handle' = [handle EXCEPT ![h] = "attached"]
      BY DEF TakeAttachment, Transfer
    <2>2. {Command(h), Safety(h)} \cap begun' = {}
      BY <2>1, Apart DEF IInv, Handles, TakeAttachment
    <2>3. \A k \in Handle \ {h} : q \notin {Attach(k), Command(k), Safety(k)} /\ handle'[k] = handle[k]
      BY <2>1, Apart DEF IInv, TypeOK
    <2>4. handle'[h] = "attached"
      BY <2>1 DEF IInv, TypeOK
    <2> SUFFICES ASSUME NEW k \in Handle
                 PROVE  /\ handle'[k] = "none" =>
                              /\ {Attach(k), Command(k), Safety(k)} \cap begun' = {}
                              /\ reserved'[Attach(k)] = None
                              /\ reserved'[Command(k)] = None
                              /\ reserved'[Safety(k)] = None
                        /\ handle'[k] = "held" => {Attach(k), Command(k), Safety(k)} \cap begun' = {}
                        /\ handle'[k] = "attached" => {Command(k), Safety(k)} \cap begun' = {}
      BY DEF Handles
    <2>5. CASE k = h
      BY <2>2, <2>4, <2>5
    <2>6. CASE k # h
      BY <2>1, <2>3, <2>6 DEF IInv, Handles
    <2> QED BY <2>5, <2>6
  <1>5. Dispositions'
    BY <1>a, InPhase DEF IInv, TypeOK, Dispositions, Settled, TakeAttachment, Transfer
  <1> QED BY <1>1, <1>2, <1>3, <1>4, <1>5 DEF IInv

LEMMA TakeInv ==
  ASSUME IInv, NEW h \in Handle, Take(h)
  PROVE  IInv'
  <1> DEFINE q == Command(h)
             r == Safety(h)
             named == {"forward", "backup", "lifecycle", "execution", "general", "control",
                       "semantic", "scratch", "retirement"}
  <1>a. /\ q \in Phase /\ q \notin begun /\ q \notin named
        /\ r \in Phase /\ r \notin begun /\ r \notin named /\ q # r
        /\ Plus(granted[q], reserved[q]) = reserved[q]
        /\ Plus(granted[r], reserved[r]) = reserved[r]
    BY InPhase, Apart, Vectors DEF Take, Handles, IInv, NotYet, TypeOK
  <1>1. TypeOK'
    BY <1>a, Vectors DEF IInv, TypeOK, Take
  <1>2. Books'
    <2>4. q \in Phase /\ None \in Vector /\ None \in Vector
      BY <1>a, Vectors
    <2>1. \A d \in Dim : own'[d] = own[d] + None[d]
      BY Vectors DEF Take, IInv, TypeOK, Vector
    <2>2. \A d \in Dim : used[d] + None[d] + None[d] <= used'[d] /\ used'[d] <= Limit[d]
      <3> SUFFICES ASSUME NEW d \in Dim
                   PROVE  used[d] + None[d] + None[d] <= used'[d] /\ used'[d] <= Limit[d]
        OBVIOUS
      <3>1. /\ used[d] \in Nat /\ Limit[d] \in Nat /\ used[d] <= Limit[d]
            /\ None[d] = 0 /\ None[d] \in Nat
        BY <2>4, Vectors, LimitAssumption DEF IInv, TypeOK, Vector, Books
      <3>2. used' = used
        BY DEF Take
      <3> QED BY <3>1, <3>2, Vectors
    <2>3. \A x \in Phase : \A d \in Dim :
            Pledged'[x][d] <= IF x = q THEN Pledged[x][d] + None[d] ELSE Pledged[x][d]
      <3> SUFFICES ASSUME NEW x \in Phase, NEW d \in Dim
                   PROVE  Pledged'[x][d] <= IF x = q THEN Pledged[x][d] + None[d] ELSE Pledged[x][d]
        OBVIOUS
      <3>1. /\ Pledged'[x][d] = IF x \in begun' THEN granted'[x][d]
                               ELSE IF x = "execution" /\ ~Direct THEN 0 ELSE reserved'[x][d]
            /\ Pledged[x][d] = IF x \in begun THEN granted[x][d]
                              ELSE IF x = "execution" /\ ~Direct THEN 0 ELSE reserved[x][d]
        BY DEF Pledged
      <3>2. /\ begun' = begun \cup {q, r} /\ reserved' = reserved
            /\ granted'[x] = IF x \in {q, r} THEN reserved[x] ELSE granted[x]
            /\ x = "execution" => x \notin {q, r}
        BY <1>a DEF Take, IInv, TypeOK
      <3>3. reserved[x][d] \in Nat /\ granted[x][d] \in Nat /\ None[d] \in Nat
        BY <2>4 DEF IInv, TypeOK, Vector
      <3> QED BY <1>a, <3>1, <3>2, <3>3, Vectors
    <2> QED BY <1>1, <2>1, <2>2, <2>3, <2>4, BooksStep
  <1>3. NotYet'
    BY <1>a, InPhase DEF IInv, TypeOK, NotYet, Take
  <1>4. Handles'
    <2>1. /\ begun' = begun \cup {q, r} /\ reserved' = reserved
          /\ handle' = [handle EXCEPT ![h] = "taken"]
      BY DEF Take
    <2> QED BY <1>a, <2>1, Apart DEF IInv, TypeOK, Handles
  <1>5. Dispositions'
    <2>1. /\ begun' = begun \cup {q, r} /\ reserved' = reserved
          /\ excused' = excused /\ scratched' = scratched
          /\ \A x \in Phase : x \notin {q, r} => granted'[x] = granted[x]
      BY <1>a DEF Take, IInv, TypeOK
    <2>2. excused' \cap begun' = {}
      BY <1>a, <2>1 DEF IInv, Dispositions
    <2>3. \A x \in named : x \notin {q, r} /\ x \in Phase
      BY <1>a, InPhase
    <2> HIDE DEF q, r
    <2>4. \A x \in named : (x \in begun' <=> x \in begun) /\ granted'[x] = granted[x]
      BY <2>1, <2>3
    <2> QED BY <2>1, <2>2, <2>4 DEF IInv, Dispositions, Settled
  <1> QED BY <1>1, <1>2, <1>3, <1>4, <1>5 DEF IInv

(* Prepaying an invocation charges its three parts at once.                *)
LEMMA PrepayInv ==
  ASSUME IInv, NEW h \in Handle, NEW a \in Vector, NEW c \in Vector, NEW s \in Vector,
         handle[h] = "none", Prepay(h, a, c, s),
         handle' = [handle EXCEPT ![h] = "held"] \/ handle' = [handle EXCEPT ![h] = "attached"],
         UNCHANGED <<pending, own, granted, begun, excused, scratched, closed>>
  PROVE  IInv'
  <1> DEFINE u == Plus(Plus(a, c), s)
             named == {"forward", "backup", "lifecycle", "execution", "general", "control",
                       "semantic", "scratch", "retirement"}
  <1>0. u \in Vector /\ \A d \in Dim : u[d] = a[d] + c[d] + s[d]
    BY Vectors DEF Plus, Vector
  <1>a. /\ {Attach(h), Command(h), Safety(h)} \subseteq Phase
        /\ {Attach(h), Command(h), Safety(h)} \cap begun = {}
        /\ {Attach(h), Command(h), Safety(h)} \cap named = {}
        /\ Attach(h) # Command(h) /\ Attach(h) # Safety(h) /\ Command(h) # Safety(h)
        /\ reserved[Attach(h)] = None /\ reserved[Command(h)] = None /\ reserved[Safety(h)] = None
    BY InPhase, Apart DEF IInv, Handles
  <1>b. /\ used' = Plus(used, u) /\ Fits(u)
        /\ reserved' = [reserved EXCEPT ![Attach(h)] = a, ![Command(h)] = c, ![Safety(h)] = s]
    BY DEF Prepay
  <1> HIDE DEF u
  <1>1. TypeOK'
    BY <1>0, <1>a, <1>b, Vectors DEF IInv, TypeOK
  <1>2. Books'
    <2> DEFINE f0 == Pledged
               f1 == [f0 EXCEPT ![Attach(h)] = a]
               f2 == [f1 EXCEPT ![Command(h)] = c]
               f3 == [f2 EXCEPT ![Safety(h)] = s]
    <2>1. f0 \in [Phase -> Vector] /\ Pledged' \in [Phase -> Vector]
      BY <1>1, PledgedType DEF IInv, TypeOK, Pledged, Vector, Dim
    <2>2. /\ \A x \in Phase : x \notin {Attach(h), Command(h), Safety(h)} => Pledged'[x] = f0[x]
          /\ Pledged'[Attach(h)] = a /\ Pledged'[Command(h)] = c /\ Pledged'[Safety(h)] = s
      <3>1. ASSUME NEW x \in Phase, x \notin {Attach(h), Command(h), Safety(h)}
            PROVE  Pledged'[x] = f0[x]
        BY <1>b, <3>1 DEF Pledged, IInv, TypeOK
      <3>2. ASSUME NEW x \in {Attach(h), Command(h), Safety(h)}
            PROVE  Pledged'[x] = reserved'[x]
        <4>1. x \in Phase /\ x \notin begun' /\ x # "execution" /\ reserved'[x] \in Vector
          BY <1>1, <1>a DEF TypeOK
        <4>2. Pledged'[x] = [d \in Dim |-> reserved'[x][d]]
          BY <4>1 DEF Pledged
        <4> QED BY <4>1, <4>2 DEF Vector
      <3>3. reserved'[Attach(h)] = a /\ reserved'[Command(h)] = c /\ reserved'[Safety(h)] = s
        BY <1>a, <1>b DEF IInv, TypeOK
      <3> QED BY <3>1, <3>2, <3>3
    <2>3. \A d \in Dim : f0[Attach(h)][d] = 0 /\ f0[Command(h)][d] = 0 /\ f0[Safety(h)][d] = 0
      BY <1>a DEF Pledged, None
    <2> HIDE DEF f0
    <2>4. f1 \in [Phase -> Vector] /\ f2 \in [Phase -> Vector] /\ f3 \in [Phase -> Vector]
      BY <2>1, <1>a
    <2> SUFFICES ASSUME NEW d \in Dim
                 PROVE  own'[d] + Total(Pledged', d) <= used'[d] /\ used'[d] <= Limit[d]
      BY DEF Books
    <2>5. Total(f0, d) \in Nat /\ Total(f1, d) \in Nat /\ Total(f1, d) <= Total(f0, d) + a[d]
      <3>1. \A p \in Phase : f1[p][d] <= IF p = Attach(h) THEN f0[p][d] + a[d] ELSE f0[p][d]
        BY <2>1, <2>3, <1>a DEF Vector
      <3> QED BY <3>1, <2>1, <2>4, <1>a, TotalOne
    <2>6. Total(f2, d) \in Nat /\ Total(f2, d) <= Total(f1, d) + c[d]
      <3>1. \A p \in Phase : f2[p][d] <= IF p = Command(h) THEN f1[p][d] + c[d] ELSE f1[p][d]
        BY <2>1, <2>3, <2>4, <1>a DEF Vector
      <3> HIDE DEF f1, f2
      <3> QED BY <3>1, <2>4, <1>a, TotalOne
    <2>7. Total(f3, d) \in Nat /\ Total(f3, d) <= Total(f2, d) + s[d]
      <3>1. \A p \in Phase : f3[p][d] <= IF p = Safety(h) THEN f2[p][d] + s[d] ELSE f2[p][d]
        BY <2>1, <2>3, <2>4, <1>a DEF Vector
      <3> HIDE DEF f1, f2, f3
      <3> QED BY <3>1, <2>4, <1>a, TotalOne
    <2>8. Pledged' = f3
      <3>1. \A x \in Phase : Pledged'[x] = f3[x]
        BY <2>1, <2>2, <2>4, <1>a
      <3> HIDE DEF f3
      <3> QED BY <3>1, <2>1, <2>4
    <2>9. /\ own' = own /\ used'[d] = used[d] + u[d] /\ u[d] = a[d] + c[d] + s[d]
          /\ u[d] <= Limit[d] - used[d]
      BY <1>0, <1>b DEF Plus, Fits
    <2>10. /\ own[d] \in Nat /\ used[d] \in Nat /\ a[d] \in Nat /\ c[d] \in Nat /\ s[d] \in Nat
           /\ Limit[d] \in Nat /\ own[d] + Total(f0, d) <= used[d]
      BY LimitAssumption DEF IInv, TypeOK, Vector, Books, f0
    <2> HIDE DEF f1, f2, f3
    <2> QED BY <2>5, <2>6, <2>7, <2>8, <2>9, <2>10
  <1>3. NotYet'
    BY <1>a, <1>b, InPhase DEF IInv, TypeOK, NotYet
  <1>4. Handles'
    <2>1. handle'[h] \in {"held", "attached"} /\ \A k \in Handle \ {h} : handle'[k] = handle[k]
      BY DEF IInv, TypeOK
    <2>2. \A k \in Handle \ {h} :
            /\ reserved'[Attach(k)] = reserved[Attach(k)]
            /\ reserved'[Command(k)] = reserved[Command(k)]
            /\ reserved'[Safety(k)] = reserved[Safety(k)]
      BY <1>b, InPhase, Apart DEF IInv, TypeOK
    <2> QED BY <1>a, <2>1, <2>2 DEF IInv, Handles
  <1>5. Dispositions'
    <2>1. \A x \in named : reserved'[x] = reserved[x]
      BY <1>a, <1>b, InPhase DEF IInv, TypeOK
    <2> QED BY <2>1 DEF IInv, Dispositions, Settled
  <1> QED BY <1>1, <1>2, <1>3, <1>4, <1>5 DEF IInv

LEMMA InvocationInv ==
  ASSUME IInv, NEW h \in Handle, NEW a \in Works, NEW c \in Works, NEW s \in Works,
         ReserveInvocation(h, c, s) \/ ReserveInvocationWithAttachment(h, a, c, s)
  PROVE  IInv'
  <1>1. a \in Vector /\ c \in Vector /\ s \in Vector /\ None \in Vector
    BY WorksAssumption, Vectors
  <1>2. CASE ReserveInvocation(h, c, s)
    BY <1>1, <1>2, PrepayInv DEF ReserveInvocation
  <1>3. CASE ReserveInvocationWithAttachment(h, a, c, s)
    BY <1>1, <1>3, PrepayInv DEF ReserveInvocationWithAttachment
  <1> QED BY <1>2, <1>3

LEMMA NextInv ==
  ASSUME IInv, [Next]_vars
  PROVE  IInv'
  <1>1. CASE UNCHANGED vars
    <2>1. Pledged' = Pledged
      BY <1>1 DEF vars, Pledged
    <2> QED BY <1>1, <2>1 DEF vars, IInv, TypeOK, Books, NotYet, Handles, Dispositions, Settled
  <1>2. CASE AdmitRemovalDemands
    BY <1>2, AdmitRemovalDemandsInv
  <1>3. CASE \E w \in Works : AdmitPhysicalWork(w) \/ ReserveScratchCleanup(w)
    BY <1>3, AdmitPhysicalWorkInv, ReserveScratchCleanupInv
  <1>4. CASE \E p \in Phase : BeginReserved(p) \/ \E w \in Works : Reserve(p, w)
    BY <1>4, BeginReservedInv, ReserveInv
  <1>5. CASE \E v, w \in Works : ReserveCleanupLifecycle(v, w)
    BY <1>5, ReserveCleanupLifecycleInv
  <1>6. CASE BeginReservedCleanupLifecycle
    BY <1>6, BeginReservedCleanupLifecycleInv
  <1>7. CASE ConcludeCleanupLifecycle
    BY <1>7, ConcludeCleanupLifecycleInv
  <1>8. CASE ConcludeScratchCleanupNotApplicable
    BY <1>8, ConcludeScratchCleanupNotApplicableInv
  <1>9. CASE ConcludeRetirementNotApplicable
    BY <1>9, ConcludeRetirementNotApplicableInv
  <1>10. CASE BeginGeneralExecution
    BY <1>10, BeginGeneralExecutionInv
  <1>11. CASE BeginGeneralExecutionRetainingControl
    BY <1>11, BeginGeneralExecutionRetainingControlInv
  <1>12. CASE \E h \in Handle : TakeAttachment(h) \/ Take(h)
    BY <1>12, TakeAttachmentInv, TakeInv
  <1>13. CASE \E h \in Handle : \E c, s \in Works : ReserveInvocation(h, c, s)
    BY <1>13, InvocationInv
  <1>14. CASE \E h \in Handle : \E a, c, s \in Works : ReserveInvocationWithAttachment(h, a, c, s)
    BY <1>14, InvocationInv
  <1> QED BY <1>1, <1>2, <1>3, <1>4, <1>5, <1>6, <1>7, <1>8, <1>9, <1>10, <1>11, <1>12, <1>13,
             <1>14 DEF Next

LEMMA AlwaysIInv == Spec => []IInv
  BY InitInv, NextInv, PTL DEF Spec

LEMMA HandedOver ==
  ASSUME IInv
  PROVE  Handed
  <1> SUFFICES ASSUME "general" \in begun
               PROVE  /\ reserved["retirement"] = granted["retirement"]
                      /\ scratched => reserved["scratch"] = granted["scratch"]
                      /\ reserved["lifecycle"]["paths"] = granted["lifecycle"]["paths"]
    BY DEF Handed
  <1>1. \A p \in {"lifecycle", "scratch", "retirement"} : p \in begun \/ p \in excused
    BY DEF IInv, Dispositions, Settled
  <1>2. reserved["retirement"] = granted["retirement"]
    BY <1>1, InPhase DEF IInv, Dispositions, NotYet
  <1>3. scratched => reserved["scratch"] = granted["scratch"]
    BY <1>1 DEF IInv, Dispositions
  <1>4. CASE "lifecycle" \in begun
    BY <1>4, <1>2, <1>3 DEF IInv, Dispositions
  <1>5. CASE "lifecycle" \in excused
    <2>1. reserved["lifecycle"] = None /\ granted["lifecycle"] = None
      BY <1>5, ClientAssumption, InPhase DEF IInv, Dispositions, NotYet
    <2> QED BY <2>1, <1>2, <1>3
  <1> QED BY <1>1, <1>4, <1>5
----------------------------------------------------------------------------
(* Every counter stays a natural number and every phase in its place, for  *)
(* all limits and clients: no transfer or drain makes a child's limit      *)
(* negative.                                                               *)
THEOREM TypeCorrect == Spec => []TypeOK
  BY AlwaysIInv, PTL DEF IInv

(* The operation as a whole, its own work and that of every child it has   *)
(* ever transferred capacity to, stays within its limits, whatever they    *)
(* are and in whatever order phases are reserved, begun and concluded.     *)
THEOREM BudgetConserved == Spec => []Conserved
  BY AlwaysIInv, GrantedPledged, PTL

(* Once host effects may begin, no capacity reserved for retirement,       *)
(* rollback scratch or removal cleanup is left behind in the parent.       *)
THEOREM ReservationsHanded == Spec => []Handed
  BY AlwaysIInv, HandedOver, PTL
=============================================================================
