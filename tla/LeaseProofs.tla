------------------------------ MODULE LeaseProofs ------------------------------
(***************************************************************************)
(* Proofs about the mutation leases, for every tree of paths, every set of  *)
(* requests, and any number of processes, owners and events.                *)
(***************************************************************************)
EXTENDS MutationLease, FiniteSetTheorems, WellFoundedInduction, TLAPS

(* Part 1: normalization keeps every conflict. *)

(* A nonempty set of naturals has a least element. *)
LEMMA LeastNatural == ASSUME NEW T \in SUBSET Nat, T # {}
                      PROVE  \E x \in T : \A y \in T : x <= y
<1>1. PICK x \in T : \A y \in T : ~(<<y, x>> \in OpToRel(<, Nat))
  BY WFMin, NatLessThanWellFounded
<1>2. ASSUME NEW y \in T PROVE x <= y
  <2>1. y \in Nat /\ x \in Nat
    OBVIOUS
  <2>2. y < x => <<y, x>> \in OpToRel(<, Nat)
    BY <2>1 DEF OpToRel
  <2>3. ~(y < x)
    BY <1>1, <2>2
  <2> QED BY <2>1, <2>3
<1> QED BY <1>2

(* Going up a path, there is a topmost directory of any set that has one. *)
LEMMA Topmost == ASSUME NEW p \in Paths, NEW S \in SUBSET Above[p], S # {}
                 PROVE  \E q \in S : Above[q] \cap S = {}
<1> DEFINE depth(q) == Cardinality(Above[q])
<1>1. \A q \in S : q \in Paths /\ IsFiniteSet(Above[q]) /\ depth(q) \in Nat
  BY PathAssumption, TreeAssumption, FS_CardinalityType
<1>2. PICK q \in S : \A r \in S : depth(q) <= depth(r)
  <2> DEFINE T == {depth(r) : r \in S}
  <2>1. T \in SUBSET Nat /\ T # {}
    BY <1>1
  <2>2. PICK x \in T : \A y \in T : x <= y
    BY <2>1, LeastNatural
  <2> QED BY <2>2
<1>3. ASSUME NEW r \in Above[q], r \in S PROVE FALSE
  <2>1. Above[r] \subseteq Above[q] /\ r \notin Above[r]
    BY <1>1, <1>3, TreeAssumption
  <2>2. depth(r) <= depth(q) /\ (depth(q) = depth(r) => Above[q] = Above[r])
    BY <1>1, <2>1, FS_Subset
  <2>3. depth(q) <= depth(r)
    BY <1>2, <1>3
  <2> QED BY <1>1, <1>3, <2>1, <2>2, <2>3
<1> QED BY <1>2, <1>3

(* What a path domain locks is the path itself or a directory above it. *)
LEMMA PathDomain == ASSUME NEW d \in Domains, isPath(d)
                    PROVE  /\ d.path \in Paths
                           /\ d.access \in Access
                           /\ leasePath(d) \in Paths
                           /\ contains(leasePath(d), d.path)
<1>1. d \in PathDomains
  BY DEF Domains, RouteDomains, isPath
<1>2. d.path \in Paths /\ d.access \in Access /\ d.anchor \in Anchors(d.path)
  BY <1>1 DEF PathDomains, LogicalDomains, PhysicalDomains
<1> QED BY <1>2, PathAssumption DEF leasePath, contains, Anchors

(* A domain on a host names its target and scope. *)
LEMMA RouteDomain == ASSUME NEW d \in Domains, onHost(d)
                     PROVE  /\ d.target \in Targets
                            /\ d.scope \in Scopes
                            /\ isRoute(d) => d.family \in Families /\ d.containment \in Containment
BY DEF Domains, PathDomains, LogicalDomains, PhysicalDomains, RouteDomains, onHost, isRoute

(* Normalization keeps to the paths of the domains. *)
LEMMA PathsOfDomains == ASSUME NEW D \in SUBSET Domains
                        PROVE  /\ paths(D) \subseteq Paths
                               /\ exclusivePaths(D) \subseteq paths(D)
                               /\ retained(D) \subseteq paths(D)
BY PathDomain DEF paths, exclusivePaths, retained

(* Of two paths that contain a third, one contains the other. *)
LEMMA Chain == ASSUME NEW p \in Paths, NEW q \in Paths, NEW r \in Paths,
                      contains(p, r), contains(q, r)
               PROVE  contains(p, q) \/ q \in Above[p]
BY TreeAssumption DEF contains

(* What contains a directory contains what is below it. *)
LEMMA ContainsTransitive == ASSUME NEW p \in Paths, NEW q \in Paths, NEW r \in Paths,
                                   contains(p, q), contains(q, r)
                            PROVE  contains(p, r)
BY PathAssumption, TreeAssumption DEF contains

(* Every path that is asked for is locked, or an exclusive directory above it is. *)
LEMMA Retained == ASSUME NEW D \in SUBSET Domains, NEW d \in D, isPath(d)
                  PROVE  \E a \in retained(D) :
                            /\ contains(a, leasePath(d))
                            /\ a # leasePath(d) \/ d.access = "exclusive" => a \in exclusivePaths(D)
<1> DEFINE p == leasePath(d)
<1>1. p \in paths(D) /\ p \in Paths /\ (d.access = "exclusive" => p \in exclusivePaths(D))
  BY PathDomain DEF paths, exclusivePaths
<1>2. CASE ~covered(D, p)
  <2>1. p \in retained(D)
    BY <1>1, <1>2 DEF retained
  <2> QED BY <1>1, <2>1 DEF contains
<1>3. CASE covered(D, p)
  <2> DEFINE S == Above[p] \cap exclusivePaths(D)
  <2>1. PICK a \in S : Above[a] \cap S = {}
    BY <1>1, <1>3, Topmost DEF covered
  <2>2. Above[a] \subseteq Above[p]
    BY <1>1, <2>1, TreeAssumption
  <2>3. ~covered(D, a)
    BY <2>1, <2>2 DEF covered
  <2>4. a \in retained(D)
    BY <2>1, <2>3, PathsOfDomains DEF retained
  <2> QED BY <2>1, <2>4 DEF contains
<1> QED BY <1>2, <1>3

(* Every record that is locked alone is locked, and has a key. *)
LEMMA KeysType == ASSUME NEW D \in SUBSET Domains
                  PROVE  keys(D) \subseteq Keys /\ exclusiveKeys(D) \subseteq keys(D)
<1>1. retained(D) \cup ancestors(D) \subseteq Paths
  BY PathsOfDomains, PathAssumption DEF ancestors
<1>2. hostIntents(D) \subseteq Keys
  BY RouteDomain DEF hostIntents, Keys
<1>3. ASSUME NEW d \in D, isRoute(d) PROVE footprint(d) \in Keys
  BY <1>3, RouteDomain DEF footprint, Keys, isRoute, onHost, Containment
<1>4. exclusiveKeys(D) \subseteq Keys
  BY <1>1, <1>3 DEF exclusiveKeys, Keys
<1> QED BY <1>1, <1>2, <1>4 DEF keys, Keys

(* A record that one request locks alone and the other locks at all. *)
LEMMA ContendedKey == ASSUME NEW D \in SUBSET Domains, NEW E \in SUBSET Domains,
                             NEW k \in exclusiveKeys(D), k \in keys(E)
                      PROVE  k \in contended(D, E) /\ k \in contended(E, D)
BY KeysType DEF contended, normalize

(* An exclusive path and a path at or below it contend for a record: the directory
   that covers one of them is the path, or an ancestor, of the other. *)
LEMMA PathConflict == ASSUME NEW D \in SUBSET Domains, NEW E \in SUBSET Domains,
                             NEW d \in D, NEW e \in E, isPath(d), isPath(e),
                             d.access = "exclusive", contains(leasePath(d), e.path)
                      PROVE  contended(D, E) # {} /\ contended(E, D) # {}
<1>1. PICK a \in retained(D) : contains(a, leasePath(d)) /\ a \in exclusivePaths(D)
  BY Retained
<1>2. PICK b \in retained(E) : /\ contains(b, leasePath(e))
                               /\ b # leasePath(e) => b \in exclusivePaths(E)
  BY Retained
<1>3. /\ a \in Paths /\ b \in Paths
      /\ d.path \in Paths /\ leasePath(d) \in Paths
      /\ e.path \in Paths /\ leasePath(e) \in Paths /\ contains(leasePath(e), e.path)
  BY PathsOfDomains, PathDomain
<1>4. contains(a, e.path) /\ contains(b, e.path)
  BY <1>1, <1>2, <1>3, ContainsTransitive
<1>5. pathKey(a) \in exclusiveKeys(D)
  BY <1>1 DEF exclusiveKeys
<1>6. CASE contains(a, b)
  <2>1. a \in retained(E) \cup ancestors(E)
    BY <1>2, <1>6 DEF contains, ancestors
  <2>2. pathKey(a) \in keys(E)
    BY <2>1 DEF keys
  <2> QED BY <1>5, <2>2, ContendedKey
<1>7. CASE b \in Above[a]
  <2>1. b \in exclusivePaths(E)
    <3>1. CASE b # leasePath(e)
      BY <3>1, <1>2
    <3>2. CASE b = leasePath(e) /\ e.access = "exclusive"
      BY <3>2 DEF exclusivePaths
    <3>3. CASE b = leasePath(e) /\ e.access # "exclusive"
      <4>1. b = e.path
        BY <3>3 DEF leasePath
      <4>2. a = b \/ a \in Above[b]
        BY <4>1, <1>4 DEF contains
      <4>3. Above[b] \subseteq Above[a] /\ a \notin Above[a]
        BY <1>3, <1>7, TreeAssumption
      <4> QED BY <4>2, <4>3, <1>7
    <3> QED BY <3>1, <3>2, <3>3
  <2>2. pathKey(b) \in exclusiveKeys(E)
    BY <1>2, <2>1 DEF exclusiveKeys
  <2>3. pathKey(b) \in keys(D)
    BY <1>1, <1>7 DEF keys, ancestors
  <2> QED BY <2>2, <2>3, ContendedKey
<1> QED BY <1>3, <1>4, <1>6, <1>7, Chain

(* A route and what it may affect on the host contend for the record of its footprint. *)
LEMMA RouteConflict == ASSUME NEW D \in SUBSET Domains, NEW E \in SUBSET Domains,
                              NEW d \in D, NEW e \in E, isRoute(d), onHost(e), excludes(d, e)
                       PROVE  contended(D, E) # {} /\ contended(E, D) # {}
<1>1. footprint(d) \in exclusiveKeys(D)
  BY DEF exclusiveKeys
<1>2. d.containment \in Containment
  BY RouteDomain DEF onHost, isRoute
<1>3. d.target = e.target /\ (d.containment = "unknown" \/ d.scope = e.scope)
      /\ (d.containment = "paths" => isRoute(e) /\ e.containment = "paths" /\ d.family = e.family)
  BY DEF excludes, isPath, isRoute
<1>4. targetKey(e.target) \in keys(E) /\ scopeKey(e.target, e.scope) \in keys(E)
  BY DEF keys, hostIntents
<1>5. isRoute(e) => footprint(e) \in keys(E)
  BY DEF keys, exclusiveKeys
<1>6. footprint(d) \in keys(E)
  BY <1>2, <1>3, <1>4, <1>5 DEF footprint, Containment
<1> QED BY <1>1, <1>6, ContendedKey

(* Normalization loses no conflict: two requests of which one must be kept from what
   the other asks for share a lock record that one of them locks alone. *)
THEOREM ConflictsContend == ASSUME NEW D \in SUBSET Domains, NEW E \in SUBSET Domains,
                                   conflicting(D, E)
                            PROVE  contended(D, E) # {}
<1>1. PICK d \in D, e \in E : excludes(d, e) \/ excludes(e, d)
  BY DEF conflicting
<1>2. CASE excludes(d, e)
  BY <1>2, PathConflict, RouteConflict DEF excludes
<1>3. CASE excludes(e, d)
  BY <1>3, PathConflict, RouteConflict DEF excludes
<1> QED BY <1>1, <1>2, <1>3

-----------------------------------------------------------------------------
(* Part 2: the inductive invariant. *)

(* normalize gives every key a mode, or none. *)
LEMMA NormalizeType == ASSUME NEW D PROVE normalize(D) \in [Keys -> Access \cup {"none"}]
BY DEF normalize, Access

(* A set that asks for nothing holds nothing. *)
LEMMA NewSetType == NewSet \in SetType
<1>1. pathKey(StoreRoot) \in Keys
  BY PathAssumption DEF Keys
<1> QED BY <1>1, NormalizeType DEF NewSet, SetType, Phases

(* The parts of an owner's state are of their types. *)
LEMMA OwnerType == ASSUME TypeOK, NEW o \in Owners
                   PROVE  /\ ProcessOf[o] \in Processes
                          /\ set[o] \in SetType
                          /\ set[o].key \in Keys
                          /\ registry[ProcessOf[o]][set[o].key] \in States
BY OwnerAssumption DEF TypeOK, SetType

(* The invariant holds at first. *)
LEMMA Initially == Init => Inv
<1> SUFFICES ASSUME Init PROVE Inv
  OBVIOUS
<1>1. \A o \in Owners : ProcessOf[o] \in Processes
  BY OwnerAssumption
<1>2. TypeOK
  BY NewSetType DEF Init, TypeOK, Locks, Unlocked, States, NoState, Events
<1>3. \A o \in Owners : set[o] = NewSet
  BY DEF Init
<1>4. /\ NewSet.phase = "idle" /\ NewSet.held = {} /\ NewSet.lost = {}
      /\ NewSet.domains = {} /\ NewSet.need = normalize({})
  BY DEF NewSet
<1>5. Needed
  BY <1>3, <1>4 DEF Needed, needy, acquiring, At, missing
<1>6. Serialized /\ Backed /\ Alone /\ Current /\ NoMissedSignal
  BY <1>1, <1>3, <1>4 DEF Init, Serialized, serialized, Backed, backed, counted,
       Alone, compatible, Current, current, NoMissedSignal, At, NoState, Unlocked, locked,
       lockOf, state
<1> QED BY <1>2, <1>5, <1>6 DEF Inv

(* The record being acquired is one of the keys. *)
LEMMA OpenType == ASSUME NEW s \in SetType, NEW k \in Keys, NEW n \in Nat
                  PROVE  [s EXCEPT !.phase = "enter", !.key = k, !.file = n] \in SetType
BY DEF SetType, Phases

(* The records that are held are of the keys. *)
LEMMA HeldType == ASSUME NEW s \in SetType, NEW k \in Keys, NEW ph \in Phases
                  PROVE  [s EXCEPT !.held = @ \cup {k}, !.phase = ph] \in SetType
BY DEF SetType

(* A lock that is there has a mode. *)
LEMMA LockType == ASSUME NEW lock \in Locks
                  PROVE  lock.locked \in BOOLEAN /\ (lock.locked => lock.access \in Access)
<1>1. CASE lock = Unlocked
  BY <1>1 DEF Unlocked
<1>2. CASE lock # Unlocked
  BY <1>2 DEF Locks
<1> QED BY <1>1, <1>2

(* Events are counted. *)
LEMMA SpendType == ASSUME TypeOK, NEW e \in Events, Spend(e) PROVE used' \in [Events -> Nat]
BY DEF TypeOK, Spend

(* What an owner has is unchanged by a step that leaves its set and its locks alone,
   or only wakes it. *)
LEMMA OwnerFrame == ASSUME Inv, NEW o \in Owners,
                           \/ set'[o] = set[o]
                           \/ At(o, "asleep") /\ set'[o] = [set[o] EXCEPT !.phase = "enter"],
                           locked(o)' = locked(o), record' = record,
                           \A k \in locked(o) : flock'[ProcessOf[o]][k] = flock[ProcessOf[o]][k]
                    PROVE  needy(o)' /\ backed(o)' /\ current(o)'
<1> USE DEF Inv
<1>1. set[o] \in SetType /\ needy(o) /\ backed(o) /\ current(o)
  BY OwnerType DEF Needed, Backed, Current
<1>2. CASE set'[o] = set[o]
  <2>1. needy(o)'
    BY <1>1, <1>2 DEF needy, acquiring, At, missing
  <2>2. backed(o)'
    BY <1>1, <1>2 DEF backed, At
  <2>3. current(o)'
    BY <1>1, <1>2 DEF current, backed, At, lockOf
  <2> QED BY <2>1, <2>2, <2>3
<1>3. CASE At(o, "asleep") /\ set'[o] = [set[o] EXCEPT !.phase = "enter"]
  <2>1. /\ set[o].phase = "asleep" /\ set'[o].phase = "enter" /\ set'[o].key = set[o].key
        /\ set'[o].held = set[o].held /\ set'[o].need = set[o].need
        /\ set'[o].domains = set[o].domains /\ set'[o].lost = set[o].lost
    BY <1>1, <1>3 DEF SetType, At
  <2>2. needy(o)'
    BY <1>1, <2>1 DEF needy, acquiring, At, missing
  <2>3. backed(o)'
    BY <1>1, <2>1 DEF backed, At
  <2>4. current(o)'
    BY <1>1, <2>1 DEF current, backed, At, lockOf
  <2> QED BY <2>2, <2>3, <2>4
<1> QED BY <1>2, <1>3

(* A step of an owner that neither calls nor leaves flock and touches no lock. *)
LEMMA QuietStep == ASSUME Inv, NEW o \in Owners,
                          record' = record, flock' = flock, registry' = registry,
                          set[o].phase # "flock",
                          set'[o].phase \notin {"flock", "asleep"},
                          \A x \in Owners : x # o => set'[x] = set[x],
                          TypeOK', needy(o)', backed(o)', current(o)'
                   PROVE  Inv'
<1> USE DEF Inv
<1>1. \A x \in Owners : At(x, "flock")' => x # o /\ At(x, "flock") /\ state(x)' = state(x)
  BY DEF At, state
<1>2. \A p \in Processes, k \in Keys : registry[p][k].acquiring # NoOwner =>
          /\ registry[p][k].acquiring \in Owners
          /\ registry[p][k].acquiring # o
  BY DEF Serialized, serialized, At, TypeOK, States
<1>3. Serialized'
  BY <1>1, <1>2 DEF Serialized, serialized, At
<1>4. NoMissedSignal'
  BY DEF NoMissedSignal, At, free, shareable, state, lockOf, wanted
<1>5. \A x \in Owners : needy(x)' /\ backed(x)' /\ current(x)'
  <2> SUFFICES ASSUME NEW x \in Owners, x # o PROVE needy(x)' /\ backed(x)' /\ current(x)'
    OBVIOUS
  <2>1. locked(x)' = locked(x)
    BY DEF locked
  <2> QED BY <2>1, OwnerFrame
<1>6. Needed' /\ Backed' /\ Current'
  BY <1>5 DEF Needed, Backed, Current, counted
<1> QED BY <1>3, <1>4, <1>6 DEF Alone, compatible

(* A request begins. *)
LEMMA BeginAcquireKeeps == ASSUME Inv, NEW o \in Owners, BeginAcquire(o) PROVE Inv'
<1> USE DEF Inv
<1>1. PICK D \in Requests :
          set' = [set EXCEPT ![o] = [NewSet EXCEPT !.phase = "open", !.domains = D,
                                                   !.need = normalize(D)]]
  BY DEF BeginAcquire
<1>2. D \in SUBSET Domains
  BY RequestAssumption
<1> DEFINE new == [NewSet EXCEPT !.phase = "open", !.domains = D, !.need = normalize(D)]
<1>3. /\ new \in SetType /\ new.phase = "open" /\ new.held = {} /\ new.domains = D
      /\ new.need = normalize(D)
  BY <1>2, NewSetType, NormalizeType DEF NewSet, SetType, Phases
<1>4. set'[o] = new /\ \A x \in Owners : x # o => set'[x] = set[x]
  BY <1>1 DEF TypeOK
<1>5. record' = record /\ flock' = flock /\ registry' = registry
  BY DEF BeginAcquire
<1> HIDE DEF new
<1>6. TypeOK'
  <2>1. set' \in [Owners -> SetType]
    BY <1>1, <1>3 DEF TypeOK, new
  <2>2. used' \in [Events -> Nat]
    BY SpendType DEF BeginAcquire, Events
  <2> QED BY <1>5, <2>1, <2>2 DEF TypeOK
<1>7. needy(o)'
  BY <1>3, <1>4 DEF needy, acquiring, At, missing
<1>8. set[o].held = {} /\ set[o].phase = "idle" /\ backed(o)
  BY DEF Needed, needy, Backed, BeginAcquire, At
<1>9. backed(o)' /\ current(o)'
  BY <1>3, <1>4, <1>5, <1>8 DEF backed, current, At, locked
<1> QED BY <1>3, <1>4, <1>5, <1>6, <1>7, <1>8, <1>9, QuietStep

(* The next record is opened. *)
LEMMA OpenRecordKeeps == ASSUME Inv, NEW o \in Owners, OpenRecord(o) PROVE Inv'
<1> USE DEF Inv
<1>1. PICK k \in Keys :
          /\ k \in missing(o)
          /\ set' = [set EXCEPT ![o].phase = "enter", ![o].key = k, ![o].file = record[k]]
  BY DEF OpenRecord, first
<1>2. record' = record /\ flock' = flock /\ registry' = registry /\ used' = used
  BY DEF OpenRecord
<1>3. set[o] \in SetType /\ set[o].phase = "open" /\ needy(o) /\ backed(o) /\ current(o)
  BY OwnerType DEF OpenRecord, At, Needed, Backed, Current
<1>4. set'[o] = [set[o] EXCEPT !.phase = "enter", !.key = k, !.file = record[k]]
  BY <1>1 DEF TypeOK
<1>5. \A x \in Owners : x # o => set'[x] = set[x]
  BY <1>1 DEF TypeOK
<1>6. TypeOK'
  <2>1. set'[o] \in SetType
    <3>1. record[k] \in Nat
      BY DEF TypeOK
    <3>2. [set[o] EXCEPT !.phase = "enter", !.key = k, !.file = record[k]] \in SetType
      BY <1>3, <3>1, OpenType
    <3> QED BY <1>4, <3>2
  <2>2. set' \in [Owners -> SetType]
    BY <1>1, <2>1 DEF TypeOK
  <2> QED BY <1>2, <2>2 DEF TypeOK
<1>7. /\ set'[o].phase = "enter" /\ set'[o].key = k
      /\ set'[o].held = set[o].held /\ set'[o].need = set[o].need
      /\ set'[o].domains = set[o].domains /\ set'[o].lost = set[o].lost
  BY <1>3, <1>4 DEF SetType
<1>8. needy(o)'
  BY <1>1, <1>3, <1>7 DEF needy, acquiring, At, missing
<1>9. backed(o)' /\ current(o)'
  BY <1>2, <1>3, <1>7 DEF backed, current, At, locked
<1> QED BY <1>2, <1>3, <1>5, <1>6, <1>7, <1>8, <1>9, QuietStep

(* A locked record counts as held. *)
LEMMA VerifyRecordKeeps == ASSUME Inv, NEW o \in Owners, VerifyRecord(o) PROVE Inv'
<1> USE DEF Inv
<1> DEFINE k == set[o].key
           next == IF missing(o) = {k} THEN "held" ELSE "open"
<1>1. /\ record[k] = set[o].file
      /\ set' = [set EXCEPT ![o].held = @ \cup {k}, ![o].phase = next]
  BY DEF VerifyRecord
<1>2. record' = record /\ flock' = flock /\ registry' = registry /\ used' = used
  BY DEF VerifyRecord
<1>3. /\ set[o] \in SetType /\ set[o].phase = "verify" /\ k \in Keys
      /\ next \in {"held", "open"} /\ needy(o) /\ backed(o) /\ current(o)
  BY OwnerType DEF VerifyRecord, At, Needed, Backed, Current
<1> HIDE DEF next
<1>4. set'[o] = [set[o] EXCEPT !.held = @ \cup {k}, !.phase = next]
  BY <1>1 DEF TypeOK
<1>5. \A x \in Owners : x # o => set'[x] = set[x]
  BY <1>1 DEF TypeOK
<1>6. TypeOK'
  <2>1. set'[o] \in SetType
    <3>1. next \in Phases
      BY <1>3 DEF Phases
    <3>2. [set[o] EXCEPT !.held = @ \cup {k}, !.phase = next] \in SetType
      BY <1>3, <3>1, HeldType
    <3> QED BY <1>4, <3>2
  <2>2. set' \in [Owners -> SetType]
    BY <1>1, <2>1 DEF TypeOK
  <2> QED BY <1>2, <2>2 DEF TypeOK
<1>7. /\ set'[o].phase = next /\ set'[o].key = k
      /\ set'[o].held = set[o].held \cup {k} /\ set'[o].need = set[o].need
      /\ set'[o].domains = set[o].domains /\ set'[o].lost = set[o].lost
  BY <1>3, <1>4 DEF SetType
<1>8. needy(o)'
  <2>1. k \in missing(o)
    BY <1>3 DEF needy, acquiring
  <2>2. missing(o)' = missing(o) \ {k}
    BY <1>7 DEF missing
  <2>3. set'[o].held \subseteq {l \in Keys : set'[o].need[l] # "none"}
    BY <1>3, <1>7, <2>1 DEF needy, missing
  <2>4. next = "held" => missing(o)' = {}
    BY <2>2 DEF next
  <2> QED BY <1>3, <1>7, <2>3, <2>4 DEF needy, acquiring, At
<1>9. backed(o)'
  <2>1. locked(o)' = locked(o) /\ locked(o) = set[o].held \cup {k}
    BY <1>2, <1>3 DEF locked, backed, At
  <2> QED BY <1>2, <1>3, <1>7, <2>1 DEF backed, At
<1>10. current(o)'
  <2>1. flock[ProcessOf[o]][k].file = record[k]
    BY <1>1, <1>3 DEF current, At, lockOf
  <2> QED BY <1>2, <1>3, <1>7, <2>1 DEF current, At
<1> QED BY <1>2, <1>3, <1>5, <1>6, <1>7, <1>8, <1>9, <1>10, QuietStep

(* The operation is over. *)
LEMMA BeginReleaseKeeps == ASSUME Inv, NEW o \in Owners, BeginRelease(o) PROVE Inv'
<1> USE DEF Inv
<1>1. /\ set' = [set EXCEPT ![o].phase = "release"]
      /\ record' = record /\ flock' = flock /\ registry' = registry /\ used' = used
  BY DEF BeginRelease
<1>2. set[o] \in SetType /\ set[o].phase = "held" /\ needy(o) /\ backed(o) /\ current(o)
  BY OwnerType DEF BeginRelease, At, Needed, Backed, Current
<1>3. set'[o] = [set[o] EXCEPT !.phase = "release"]
  BY <1>1 DEF TypeOK
<1>4. \A x \in Owners : x # o => set'[x] = set[x]
  BY <1>1 DEF TypeOK
<1>5. TypeOK'
  <2>1. set' \in [Owners -> SetType]
    BY <1>1, <1>2 DEF TypeOK, SetType, Phases
  <2> QED BY <1>1, <2>1 DEF TypeOK
<1>6. /\ set'[o].phase = "release"
      /\ set'[o].held = set[o].held /\ set'[o].need = set[o].need
      /\ set'[o].domains = set[o].domains /\ set'[o].lost = set[o].lost
  BY <1>2, <1>3 DEF SetType
<1>7. needy(o)'
  BY <1>2, <1>6 DEF needy, acquiring, At, missing
<1>8. backed(o)' /\ current(o)'
  BY <1>1, <1>2, <1>6 DEF backed, current, At, locked
<1> QED BY <1>1, <1>2, <1>4, <1>5, <1>6, <1>7, <1>8, QuietStep

(* Nothing is left to release. *)
LEMMA FinishReleaseKeeps == ASSUME Inv, NEW o \in Owners, FinishRelease(o) PROVE Inv'
<1> USE DEF Inv
<1>1. /\ set' = [set EXCEPT ![o] = NewSet]
      /\ record' = record /\ flock' = flock /\ registry' = registry /\ used' = used
  BY DEF FinishRelease
<1>2. set[o].phase = "release" /\ set[o].held = {} /\ backed(o)
  BY DEF FinishRelease, At, Backed
<1>3. set'[o] = NewSet /\ \A x \in Owners : x # o => set'[x] = set[x]
  BY <1>1 DEF TypeOK
<1>4. TypeOK'
  BY <1>1, NewSetType DEF TypeOK
<1>5. /\ NewSet.phase = "idle" /\ NewSet.held = {}
      /\ NewSet.domains = {} /\ NewSet.need = normalize({})
  BY DEF NewSet
<1>6. needy(o)'
  BY <1>3, <1>5 DEF needy, acquiring, At, missing
<1>7. backed(o)' /\ current(o)'
  BY <1>1, <1>2, <1>3, <1>5 DEF backed, current, At, locked
<1> QED BY <1>1, <1>2, <1>3, <1>4, <1>5, <1>6, <1>7, QuietStep

(* Who is woken goes on with the record it slept on. *)
LEMMA WokenType == ASSUME TypeOK, NEW p, NEW k, NEW x \in Owners,
                          NEW w, w = Woken(p, k)[x]
                   PROVE  /\ w \in SetType
                          /\ w = set[x] \/ (set[x].phase = "asleep" /\ w.phase = "enter")
                          /\ x \notin signalled(p, k) => w = set[x]
                          /\ x \in signalled(p, k) => w.phase = "enter"
                          /\ w.key = set[x].key /\ w.file = set[x].file
                          /\ w.need = set[x].need
<1>1. set[x] \in SetType
  BY OwnerType
<1>2. CASE x \in signalled(p, k)
  <2>1. Woken(p, k)[x] = [set[x] EXCEPT !.phase = "enter"] /\ set[x].phase = "asleep"
    BY <1>2 DEF Woken, signalled, At
  <2> QED BY <1>1, <1>2, <2>1 DEF SetType, Phases
<1>3. CASE x \notin signalled(p, k)
  <2>1. w = set[x]
    BY <1>3 DEF Woken
  <2> QED BY <1>1, <1>3, <2>1
<1> QED BY <1>2, <1>3

(* A step of an owner that touches one record of its process, and perhaps wakes those
   who sleep on it: what must be shown is what concerns that owner and that record. *)
LEMMA FocusedStep ==
    ASSUME Inv, NEW o \in Owners, NEW k \in Keys, NEW p \in Processes, p = ProcessOf[o],
           record' = record, TypeOK', needy(o)', backed(o)', current(o)',
           \A q \in Processes, l \in Keys : q # p \/ l # k =>
               registry'[q][l] = registry[q][l] /\ flock'[q][l] = flock[q][l],
           \A x \in Owners : x # o => set'[x] = set[x] \/ set'[x] = Woken(p, k)[x],
           \A x \in Owners : x # o =>
               /\ x \in registry'[p][k].holders <=> x \in registry[p][k].holders
               /\ x \in registry[p][k].holders => flock'[p][k] = flock[p][k],
           set[o].phase = "flock" => set[o].key = k,
           set'[o].phase \in {"flock", "asleep"} => set'[o].key = k,
           counted(p, k)', serialized(p, k)',
           flock'[p][k].locked /\ flock'[p][k].access = "exclusive"
               => \A x, y \in registry'[p][k].holders : x = y,
           \A q \in Processes : p # q => compatible(p, q, k)' /\ compatible(q, p, k)',
           \A x \in Owners : ProcessOf[x] = p /\ set'[x].key = k =>
               /\ At(x, "flock")' => registry'[p][k].acquiring = x
               /\ At(x, "asleep")' => ~free(x)' /\ ~shareable(x)'
    PROVE  Inv'
<1> USE DEF Inv
<1>1. \A x \in Owners : x # o =>
          /\ set'[x] = set[x] \/ (set[x].phase = "asleep" /\ set'[x].phase = "enter")
          /\ set'[x].key = set[x].key /\ set'[x].file = set[x].file /\ set'[x].need = set[x].need
  <2> SUFFICES ASSUME NEW x \in Owners, x # o
               PROVE  /\ set'[x] = set[x] \/ (set[x].phase = "asleep" /\ set'[x].phase = "enter")
                      /\ set'[x].key = set[x].key /\ set'[x].file = set[x].file
                      /\ set'[x].need = set[x].need
    OBVIOUS
  <2>1. CASE set'[x] = set[x]
    BY <2>1
  <2>2. CASE set'[x] = Woken(p, k)[x]
    BY <2>2, WokenType
  <2> QED BY <2>1, <2>2
<1>2. \A x \in Owners : needy(x)' /\ backed(x)' /\ current(x)'
  <2> SUFFICES ASSUME NEW x \in Owners, x # o PROVE needy(x)' /\ backed(x)' /\ current(x)'
    OBVIOUS
  <2>1. ProcessOf[x] \in Processes
    BY OwnerAssumption
  <2>2. \A l \in Keys : x \in registry'[ProcessOf[x]][l].holders
                        <=> x \in registry[ProcessOf[x]][l].holders
    BY <2>1
  <2>3. locked(x)' = locked(x)
    BY <2>2 DEF locked
  <2>4. \A l \in locked(x) : flock'[ProcessOf[x]][l] = flock[ProcessOf[x]][l]
    BY <2>1 DEF locked
  <2>5. \/ set'[x] = set[x]
        \/ At(x, "asleep") /\ set'[x] = [set[x] EXCEPT !.phase = "enter"]
    BY DEF signalled, Woken
  <2> QED BY <2>3, <2>4, <2>5, OwnerFrame
<1>3. Needed' /\ Current'
  BY <1>2 DEF Needed, Current
<1>4. Backed'
  BY <1>2 DEF Backed, counted
<1>5. Serialized'
  <2>1. ASSUME NEW x \in Owners, At(x, "flock")' PROVE state(x)'.acquiring = x
    <3>1. CASE ProcessOf[x] = p /\ set'[x].key = k
      BY <2>1, <3>1 DEF state
    <3>2. CASE ~(ProcessOf[x] = p /\ set'[x].key = k)
      <4>1. x # o
        BY <2>1, <3>2 DEF At
      <4>2. set'[x] = set[x]
        BY <1>1, <2>1, <4>1 DEF At
      <4>3. ProcessOf[x] \in Processes /\ set[x].key \in Keys
        BY OwnerType
      <4>4. state(x)' = state(x)
        BY <3>2, <4>2, <4>3 DEF state
      <4> QED BY <2>1, <4>2, <4>4 DEF Serialized, At
    <3> QED BY <3>1, <3>2
  <2>2. ASSUME NEW q \in Processes, NEW l \in Keys PROVE serialized(q, l)'
    <3>1. CASE q = p /\ l = k
      BY <3>1
    <3>2. CASE q # p \/ l # k
      <4>1. registry'[q][l] = registry[q][l] /\ serialized(q, l)
        BY <3>2 DEF Serialized
      <4>2. ASSUME registry[q][l].acquiring # NoOwner
            PROVE  set'[registry[q][l].acquiring] = set[registry[q][l].acquiring]
        <5>1. registry[q][l].acquiring \in Owners
          BY <4>2 DEF TypeOK, States
        <5>2. registry[q][l].acquiring # o
          BY <3>2, <4>1, <4>2 DEF serialized, At
        <5> QED BY <1>1, <4>1, <4>2, <5>1, <5>2 DEF serialized, At
      <4> QED BY <4>1, <4>2 DEF serialized, At
    <3> QED BY <3>1, <3>2
  <2> QED BY <2>1, <2>2 DEF Serialized
<1>6. Alone'
  <2>1. ASSUME NEW q \in Processes, NEW r \in Processes, NEW l \in Keys, q # r
        PROVE  compatible(q, r, l)'
    <3>1. CASE l = k /\ (q = p \/ r = p)
      BY <2>1, <3>1
    <3>2. CASE ~(l = k /\ (q = p \/ r = p))
      <4>1. flock'[q][l] = flock[q][l] /\ flock'[r][l] = flock[r][l] /\ compatible(q, r, l)
        BY <2>1, <3>2 DEF Alone
      <4> QED BY <4>1 DEF compatible
    <3> QED BY <3>1, <3>2
  <2>2. ASSUME NEW q \in Processes, NEW l \in Keys,
               flock'[q][l].locked /\ flock'[q][l].access = "exclusive"
        PROVE  \A x, y \in registry'[q][l].holders : x = y
    BY <2>2 DEF Alone
  <2> QED BY <2>1, <2>2 DEF Alone
<1>7. NoMissedSignal'
  <2> SUFFICES ASSUME NEW x \in Owners, At(x, "asleep")' PROVE ~free(x)' /\ ~shareable(x)'
    BY DEF NoMissedSignal
  <2>1. CASE ProcessOf[x] = p /\ set'[x].key = k
    BY <2>1
  <2>2. CASE ~(ProcessOf[x] = p /\ set'[x].key = k)
    <3>1. x # o
      BY <2>2 DEF At
    <3>2. set'[x] = set[x] /\ At(x, "asleep")
      BY <1>1, <3>1 DEF At
    <3>3. ProcessOf[x] \in Processes /\ set[x].key \in Keys
      BY OwnerType
    <3>4. state(x)' = state(x) /\ lockOf(x)' = lockOf(x) /\ wanted(x)' = wanted(x)
      BY <2>2, <3>2, <3>3 DEF state, lockOf, wanted
    <3> QED BY <3>2, <3>4 DEF NoMissedSignal, free, shareable
  <2> QED BY <2>1, <2>2
<1> QED BY <1>3, <1>4, <1>5, <1>6, <1>7

(* A step that changes the phase of one owner. *)
LEMMA PhaseStep == ASSUME TypeOK, NEW o \in Owners, NEW ph \in Phases,
                          set' = [set EXCEPT ![o].phase = ph]
                   PROVE  /\ set' \in [Owners -> SetType] /\ set'[o].phase = ph
                          /\ set'[o].key = set[o].key /\ set'[o].file = set[o].file
                          /\ set'[o].need = set[o].need /\ set'[o].domains = set[o].domains
                          /\ set'[o].lost = set[o].lost /\ set'[o].held = set[o].held
                          /\ \A x \in Owners : x # o => set'[x] = set[x]
<1>1. set[o] \in SetType
  BY OwnerType
<1>2. set'[o] = [set[o] EXCEPT !.phase = ph]
  BY DEF TypeOK
<1>3. set'[o] \in SetType
  BY <1>1, <1>2 DEF SetType
<1>4. set' \in [Owners -> SetType]
  BY <1>3 DEF TypeOK
<1>5. \A x \in Owners : x # o => set'[x] = set[x]
  BY DEF TypeOK
<1> QED BY <1>1, <1>2, <1>4, <1>5 DEF SetType

(* A step that changes the state of one record of one process. *)
LEMMA UpdateStep == ASSUME TypeOK, NEW o \in Owners, NEW new \in States, Update(o, new)
                    PROVE  /\ registry' \in [Processes -> [Keys -> States]]
                           /\ registry'[ProcessOf[o]][set[o].key] = new
                           /\ \A q \in Processes, l \in Keys :
                                  q # ProcessOf[o] \/ l # set[o].key
                                  => registry'[q][l] = registry[q][l]
BY OwnerType DEF Update, TypeOK

(* Nobody calls flock on a record unless the registry says so. *)
LEMMA NobodyCalls == ASSUME Inv, NEW x \in Owners,
                            registry[ProcessOf[x]][set[x].key].acquiring = NoOwner
                     PROVE  ~At(x, "flock")
BY OwnerAssumption DEF Inv, Serialized, state

(* An owner becomes the one who calls flock. *)
LEMMA EnterFlockKeeps == ASSUME Inv, NEW o \in Owners, EnterFlock(o) PROVE Inv'
<1> USE DEF Inv
<1>0. PICK k \in Keys : k = set[o].key
  BY OwnerType
<1> DEFINE p == ProcessOf[o]
           new == [state(o) EXCEPT !.acquiring = o, !.references = @ \cup {o}]
<1>1. /\ set[o] \in SetType /\ set[o].phase = "enter" /\ k = set[o].key /\ p \in Processes
      /\ state(o) \in States /\ state(o) = registry[p][k]
      /\ needy(o) /\ backed(o) /\ current(o) /\ serialized(p, k) /\ counted(p, k)
  BY <1>0, OwnerType DEF EnterFlock, At, state, Needed, Backed, Current, Serialized
<1>2. record' = record /\ flock' = flock /\ used' = used
  BY DEF EnterFlock
<1>3. /\ new \in States /\ new.acquiring = o /\ new.holders = state(o).holders
      /\ new.references = state(o).references \cup {o}
  BY <1>1 DEF States
<1>4. /\ registry' \in [Processes -> [Keys -> States]] /\ registry'[p][k] = new
      /\ \A q \in Processes, l \in Keys : q # p \/ l # k => registry'[q][l] = registry[q][l]
  BY <1>1, <1>3, UpdateStep DEF EnterFlock
<1>5. /\ set' \in [Owners -> SetType] /\ set'[o].phase = "flock"
      /\ set'[o].key = k /\ set'[o].file = set[o].file /\ set'[o].need = set[o].need
      /\ set'[o].domains = set[o].domains /\ set'[o].lost = set[o].lost
      /\ set'[o].held = set[o].held
      /\ \A x \in Owners : x # o => set'[x] = set[x]
  <2>1. set' = [set EXCEPT ![o].phase = "flock"]
    BY DEF EnterFlock
  <2> QED BY <1>1, <2>1, PhaseStep DEF Phases
<1> HIDE DEF new
<1>6. TypeOK'
  BY <1>2, <1>4, <1>5 DEF TypeOK
<1>7. needy(o)'
  BY <1>1, <1>5 DEF needy, acquiring, At, missing
<1>8. k \notin set[o].held /\ set[o].need[k] \in Access
  BY <1>1 DEF needy, acquiring, missing, SetType
<1>9. state(o).acquiring = NoOwner /\ state(o).holders = {} /\ o # NoOwner
  BY OwnerAssumption DEF EnterFlock, free
<1>10. locked(o)' = locked(o)
  BY <1>1, <1>3, <1>4, <1>9 DEF locked
<1>11. backed(o)' /\ current(o)'
  BY <1>1, <1>2, <1>5, <1>10 DEF backed, current, At
<1>12. counted(p, k)' /\ serialized(p, k)'
  BY <1>1, <1>2, <1>3, <1>4, <1>5, <1>9 DEF counted, serialized, At
<1>13. \A q \in Processes : p # q => compatible(p, q, k)' /\ compatible(q, p, k)'
  BY <1>1, <1>2 DEF Alone, compatible
<1>14. ASSUME NEW x \in Owners, ProcessOf[x] = p, set'[x].key = k
       PROVE  /\ At(x, "flock")' => registry'[p][k].acquiring = x
              /\ At(x, "asleep")' => ~free(x)' /\ ~shareable(x)'
  <2>1. At(x, "flock")' => x = o
    BY <1>1, <1>5, <1>9, <1>14, NobodyCalls DEF At
  <2>2. state(x)'.acquiring # NoOwner
    BY <1>3, <1>4, <1>9, <1>14 DEF state
  <2> QED BY <1>3, <1>4, <2>1, <2>2 DEF free, shareable
<1>15. registry'[p][k].holders = {} /\ registry[p][k].holders = {}
  BY <1>1, <1>3, <1>4, <1>9
<1> QED BY <1>1, <1>2, <1>4, <1>5, <1>6, <1>7, <1>11, <1>12, <1>13, <1>14, <1>15, FocusedStep

(* An owner shares the lock of its process. *)
LEMMA EnterShareKeeps == ASSUME Inv, NEW o \in Owners, EnterShare(o) PROVE Inv'
<1> USE DEF Inv
<1>0. PICK k \in Keys : k = set[o].key
  BY OwnerType
<1> DEFINE p == ProcessOf[o]
           new == [state(o) EXCEPT !.holders = @ \cup {o}, !.references = @ \cup {o}]
<1>1. /\ set[o] \in SetType /\ set[o].phase = "enter" /\ k = set[o].key /\ p \in Processes
      /\ state(o) \in States /\ state(o) = registry[p][k]
      /\ needy(o) /\ backed(o) /\ current(o) /\ serialized(p, k) /\ counted(p, k)
  BY <1>0, OwnerType DEF EnterShare, At, state, Needed, Backed, Current, Serialized
<1>2. record' = record /\ flock' = flock /\ used' = used
  BY DEF EnterShare
<1>3. /\ new \in States /\ new.acquiring = state(o).acquiring /\ new.holders = state(o).holders \cup {o}
      /\ new.references = state(o).references \cup {o}
  BY <1>1 DEF States
<1>4. /\ registry' \in [Processes -> [Keys -> States]] /\ registry'[p][k] = new
      /\ \A q \in Processes, l \in Keys : q # p \/ l # k => registry'[q][l] = registry[q][l]
  BY <1>1, <1>3, UpdateStep DEF EnterShare
<1>5. /\ set' \in [Owners -> SetType] /\ set'[o].phase = "verify"
      /\ set'[o].key = k /\ set'[o].file = set[o].file /\ set'[o].need = set[o].need
      /\ set'[o].domains = set[o].domains /\ set'[o].lost = set[o].lost
      /\ set'[o].held = set[o].held
      /\ \A x \in Owners : x # o => set'[x] = set[x]
  <2>1. set' = [set EXCEPT ![o].phase = "verify"]
    BY DEF EnterShare
  <2> QED BY <1>1, <2>1, PhaseStep DEF Phases
<1> HIDE DEF new
<1>6. TypeOK'
  BY <1>2, <1>4, <1>5 DEF TypeOK
<1>7. needy(o)'
  BY <1>1, <1>5 DEF needy, acquiring, At, missing
<1>8. k \notin set[o].held /\ set[o].need[k] \in Access
  BY <1>1 DEF needy, acquiring, missing, SetType
<1>9. /\ state(o).acquiring = NoOwner /\ state(o).holders # {}
      /\ flock[p][k].access = "shared" /\ set[o].need[k] = "shared"
      /\ flock[p][k].file = set[o].file /\ flock[p][k].locked
  <2>1. shareable(o) /\ lockOf(o).file = set[o].file
    BY DEF EnterShare
  <2>2. lockOf(o) = flock[p][k] /\ wanted(o) = set[o].need[k]
    BY <1>0 DEF lockOf, wanted
  <2>3. /\ state(o).acquiring = NoOwner /\ state(o).holders # {}
        /\ flock[p][k].access = "shared" /\ set[o].need[k] = "shared"
    BY <2>1, <2>2 DEF shareable
  <2>4. counted(p, k) /\ state(o) = registry[p][k]
    BY <1>1
  <2>5. flock[p][k].locked
    BY <2>3, <2>4 DEF counted
  <2> QED BY <2>1, <2>2, <2>3, <2>5
<1>10. locked(o)' = locked(o) \cup {k} /\ locked(o) = set[o].held
  <2>1. \A l \in Keys : o \in registry'[p][l].holders <=> (o \in registry[p][l].holders \/ l = k)
    BY <1>1, <1>3, <1>4
  <2> QED BY <1>1, <2>1 DEF locked, backed, At
<1>11. backed(o)'
  BY <1>1, <1>2, <1>5, <1>9, <1>10 DEF backed, At
<1>12. current(o)'
  <2>1. current(o) /\ ProcessOf[o] = p
    BY <1>1
  <2>2. lockOf(o)' = flock[p][k]
    BY <1>2, <1>5 DEF lockOf
  <2> QED BY <1>2, <1>5, <1>9, <2>1, <2>2 DEF current
<1>13. counted(p, k)' /\ serialized(p, k)'
  <2>1. counted(p, k) /\ serialized(p, k) /\ state(o) = registry[p][k]
    BY <1>1
  <2>2. counted(p, k)'
    BY <1>2, <1>3, <1>4, <1>9, <2>1 DEF counted
  <2>3. serialized(p, k)'
    BY <1>3, <1>4, <1>9, <2>1 DEF serialized
  <2> QED BY <2>2, <2>3
<1>14. \A q \in Processes : p # q => compatible(p, q, k)' /\ compatible(q, p, k)'
  BY <1>1, <1>2 DEF Alone, compatible
<1>15. ASSUME NEW x \in Owners, ProcessOf[x] = p, set'[x].key = k
       PROVE  /\ At(x, "flock")' => registry'[p][k].acquiring = x
              /\ At(x, "asleep")' => ~free(x)' /\ ~shareable(x)'
  <2>1. ~At(x, "flock")'
    BY <1>1, <1>5, <1>9, <1>15, NobodyCalls DEF At
  <2>2. ASSUME At(x, "asleep")' PROVE ~free(x)' /\ ~shareable(x)'
    <3>1. x # o /\ set'[x] = set[x] /\ At(x, "asleep")
      BY <1>5, <2>2 DEF At
    <3>2. ~free(x) /\ ~shareable(x) /\ state(x) = registry[p][k] /\ lockOf(x) = flock[p][k]
      BY <1>15, <3>1 DEF NoMissedSignal, state, lockOf
    <3>3. state(x)' = new /\ lockOf(x)' = flock[p][k] /\ wanted(x)' = wanted(x)
      BY <1>2, <1>4, <1>15, <3>1 DEF state, lockOf, wanted
    <3>4. state(o) = registry[p][k]
      BY <1>1
    <3>5. wanted(x) # "shared"
      BY <1>9, <3>2, <3>4 DEF shareable
    <3> QED BY <1>3, <3>3, <3>5 DEF free, shareable
  <2> QED BY <2>1, <2>2
<1>16. /\ flock'[p][k] = flock[p][k] /\ flock'[p][k].access # "exclusive"
       /\ \A x \in Owners : x # o => (x \in registry'[p][k].holders <=> x \in registry[p][k].holders)
  <2>1. state(o) = registry[p][k]
    BY <1>1
  <2> QED BY <1>2, <1>3, <1>4, <1>9, <2>1
<1> QED BY <1>1, <1>2, <1>4, <1>5, <1>6, <1>7, <1>11, <1>12, <1>13, <1>14, <1>15, <1>16,
           FocusedStep

(* An owner that waits for its process sleeps or gives up, and is counted or not. *)
LEMMA WaitingStep ==
    ASSUME Inv, NEW o \in Owners, set[o].phase \in {"enter", "asleep"},
           NEW new \in States, Update(o, new),
           new.acquiring = state(o).acquiring, new.holders = state(o).holders,
           state(o).references \ {o} \subseteq new.references,
           NEW ph \in {"asleep", "release"}, set' = [set EXCEPT ![o].phase = ph],
           ph = "asleep" => ~free(o) /\ ~shareable(o),
           record' = record, flock' = flock, used' \in [Events -> Nat]
    PROVE  Inv'
<1> USE DEF Inv
<1>0. PICK k \in Keys : k = set[o].key
  BY OwnerType
<1> DEFINE p == ProcessOf[o]
<1>1. p \in Processes /\ state(o) = registry[p][k] /\ registry[p][k] \in States
  BY <1>0, OwnerType DEF state
<1>2. set[o] \in SetType /\ needy(o) /\ backed(o) /\ current(o)
  BY OwnerType DEF Needed, Backed, Current
<1>3. serialized(p, k) /\ counted(p, k)
  BY <1>1 DEF Serialized, Backed
<1>4. /\ registry' \in [Processes -> [Keys -> States]] /\ registry'[p][k] = new
      /\ \A q \in Processes, l \in Keys : q # p \/ l # k => registry'[q][l] = registry[q][l]
  BY <1>0, UpdateStep
<1>5. /\ set' \in [Owners -> SetType] /\ set'[o].phase = ph
      /\ set'[o].key = k /\ set'[o].file = set[o].file /\ set'[o].need = set[o].need
      /\ set'[o].domains = set[o].domains /\ set'[o].lost = set[o].lost
      /\ set'[o].held = set[o].held
      /\ \A x \in Owners : x # o => set'[x] = set[x]
  <2>1. ph \in Phases
    BY DEF Phases
  <2> QED BY <1>0, <2>1, PhaseStep
<1>6. TypeOK'
  BY <1>4, <1>5 DEF TypeOK
<1>7. needy(o)'
  BY <1>0, <1>2, <1>5 DEF needy, acquiring, At, missing
<1>8. k \notin set[o].held
  BY <1>0, <1>2 DEF needy, acquiring, missing
<1>9. registry'[p][k].holders = registry[p][k].holders
  BY <1>1, <1>4
<1>10. locked(o)' = locked(o)
  <2>1. \A l \in Keys : registry'[p][l].holders = registry[p][l].holders
    BY <1>1, <1>4, <1>9
  <2> QED BY <2>1 DEF locked
<1>11. locked(o) = set[o].held
  BY <1>2 DEF backed, At
<1>12. backed(o)'
  BY <1>2, <1>5, <1>10, <1>11 DEF backed, At
<1>13. current(o)'
  BY <1>2, <1>5 DEF current, At
<1>14. counted(p, k)'
  <2>1. o \notin registry[p][k].holders
    BY <1>8, <1>11 DEF locked
  <2>2. registry[p][k].holders \subseteq new.references
    BY <1>1, <1>3, <2>1 DEF counted
  <2>3. flock[p][k].locked = (registry[p][k].holders # {})
    BY <1>3 DEF counted
  <2> QED BY <1>4, <1>9, <2>2, <2>3 DEF counted
<1>15. serialized(p, k)'
  <2> DEFINE a == registry[p][k].acquiring
  <2>1. registry'[p][k].acquiring = a
    BY <1>1, <1>4
  <2>2. \A x \in registry'[p][k].holders : ProcessOf[x] = p
    BY <1>3, <1>9 DEF serialized
  <2>3. ASSUME a # NoOwner
        PROVE  /\ registry'[p][k].holders = {} /\ a \in registry'[p][k].references
               /\ ProcessOf[a] = p /\ set'[a].phase = "flock" /\ set'[a].key = k
    <3>1. /\ registry[p][k].holders = {} /\ a \in registry[p][k].references
          /\ ProcessOf[a] = p /\ set[a].phase = "flock" /\ set[a].key = k
      BY <1>3, <2>3 DEF serialized, At
    <3>2. a \in Owners
      BY <1>1, <2>3 DEF States
    <3>3. a # o
      BY <3>1
    <3>4. set'[a] = set[a]
      BY <1>5, <3>2, <3>3
    <3>5. a \in new.references
      BY <1>1, <3>1, <3>3
    <3> QED BY <1>4, <1>9, <3>1, <3>4, <3>5
  <2> QED BY <2>1, <2>2, <2>3 DEF serialized, At
<1>16. \A q \in Processes : p # q => compatible(p, q, k)' /\ compatible(q, p, k)'
  BY <1>1 DEF Alone, compatible
<1>17. ASSUME NEW x \in Owners, ProcessOf[x] = p, set'[x].key = k
       PROVE  /\ At(x, "flock")' => registry'[p][k].acquiring = x
              /\ At(x, "asleep")' => ~free(x)' /\ ~shareable(x)'
  <2>1. set[x].key = k /\ wanted(x)' = wanted(x)
    BY <1>0, <1>5, <1>17 DEF wanted
  <2>2. state(x) = state(o) /\ state(x)' = new /\ lockOf(x)' = lockOf(x)
    BY <1>0, <1>4, <1>17, <2>1 DEF state, lockOf
  <2>3. ASSUME At(x, "flock")' PROVE registry'[p][k].acquiring = x
    <3>1. At(x, "flock")
      BY <1>5, <2>3 DEF At
    <3>2. state(x).acquiring = x
      BY <3>1 DEF Serialized
    <3> QED BY <1>4, <2>2, <3>2
  <2>4. ASSUME At(x, "asleep")' PROVE ~free(x)' /\ ~shareable(x)'
    <3>1. CASE x = o
      <4>1. ~free(x) /\ ~shareable(x)
        BY <1>5, <2>4, <3>1 DEF At
      <4> QED BY <2>1, <2>2, <4>1 DEF free, shareable
    <3>2. CASE x # o
      <4>1. At(x, "asleep")
        BY <1>5, <2>4, <3>2 DEF At
      <4>2. ~free(x) /\ ~shareable(x)
        BY <4>1 DEF NoMissedSignal
      <4> QED BY <2>1, <2>2, <4>2 DEF free, shareable
    <3> QED BY <3>1, <3>2
  <2> QED BY <2>3, <2>4
<1>18. flock[p][k].locked /\ flock[p][k].access = "exclusive"
       => \A x, y \in registry'[p][k].holders : x = y
  BY <1>1, <1>9 DEF Alone
<1>19. \A x \in Owners : x # o => set'[x] = set[x]
  BY <1>5
<1> QED BY <1>0, <1>1, <1>4, <1>5, <1>6, <1>7, <1>9, <1>12, <1>13, <1>14, <1>15, <1>16, <1>17,
           <1>18, <1>19, FocusedStep

(* An owner finds that the lock of its process is of another file. *)
LEMMA RefuseShareKeeps == ASSUME Inv, NEW o \in Owners, RefuseShare(o) PROVE Inv'
<1> DEFINE new == [state(o) EXCEPT !.references = @ \ {o}]
<1>1. TypeOK
  BY DEF Inv
<1>2. state(o) \in States
  BY <1>1, OwnerType DEF state
<1>3. /\ new \in States /\ new.acquiring = state(o).acquiring
      /\ new.holders = state(o).holders /\ new.references = state(o).references \ {o}
  BY <1>2 DEF States
<1>4. /\ set[o].phase = "enter" /\ Update(o, new) /\ set' = [set EXCEPT ![o].phase = "release"]
      /\ record' = record /\ flock' = flock /\ used' = used
  BY DEF RefuseShare, At
<1>5. used' \in [Events -> Nat]
  BY <1>1, <1>4 DEF TypeOK
<1> HIDE DEF new
<1> QED BY <1>3, <1>4, <1>5, WaitingStep

(* An owner goes to sleep. *)
LEMMA EnterSleepKeeps == ASSUME Inv, NEW o \in Owners, EnterSleep(o) PROVE Inv'
<1> DEFINE new == [state(o) EXCEPT !.references = @ \cup {o}]
<1>1. TypeOK
  BY DEF Inv
<1>2. state(o) \in States
  BY <1>1, OwnerType DEF state
<1>3. /\ new \in States /\ new.acquiring = state(o).acquiring
      /\ new.holders = state(o).holders /\ new.references = state(o).references \cup {o}
  BY <1>2 DEF States
<1>4. /\ set[o].phase = "enter" /\ Update(o, new) /\ set' = [set EXCEPT ![o].phase = "asleep"]
      /\ record' = record /\ flock' = flock /\ used' = used /\ ~free(o) /\ ~shareable(o)
  BY DEF EnterSleep, At
<1>5. used' \in [Events -> Nat]
  BY <1>1, <1>4 DEF TypeOK
<1> HIDE DEF new
<1> QED BY <1>3, <1>4, <1>5, WaitingStep

(* A step that changes the phase of one owner and wakes those who sleep on a record. *)
LEMMA WakingStep == ASSUME TypeOK, NEW o \in Owners, NEW ph \in Phases, NEW p, NEW k,
                           ~At(o, "asleep"),
                           set' = [Woken(p, k) EXCEPT ![o].phase = ph]
                    PROVE  /\ set' \in [Owners -> SetType] /\ set'[o].phase = ph
                           /\ set'[o].key = set[o].key /\ set'[o].file = set[o].file
                           /\ set'[o].need = set[o].need /\ set'[o].domains = set[o].domains
                           /\ set'[o].lost = set[o].lost /\ set'[o].held = set[o].held
                           /\ \A x \in Owners : x # o => set'[x] = Woken(p, k)[x]
<1> DEFINE W == Woken(p, k)
<1>1. W \in [Owners -> SetType]
  <2>1. \A x \in Owners : W[x] \in SetType
    BY WokenType
  <2> QED BY <2>1 DEF Woken
<1>2. W[o] = set[o]
  BY WokenType DEF signalled
<1> HIDE DEF W
<1>3. set' = [W EXCEPT ![o].phase = ph]
  BY DEF W
<1>4. set'[o] = [set[o] EXCEPT !.phase = ph]
  BY <1>1, <1>2, <1>3
<1>5. set[o] \in SetType /\ set'[o] \in SetType
  BY <1>4, OwnerType DEF SetType
<1>6. set' \in [Owners -> SetType] /\ \A x \in Owners : x # o => set'[x] = W[x]
  BY <1>1, <1>3, <1>5
<1>7. \A x \in Owners : x # o => set'[x] = Woken(p, k)[x]
  BY <1>6 DEF W
<1> QED BY <1>4, <1>5, <1>6, <1>7 DEF SetType

(* The kernel grants the lock. *)
LEMMA LockRecordKeeps == ASSUME Inv, NEW o \in Owners, LockRecord(o) PROVE Inv'
<1> USE DEF Inv
<1>0. PICK k \in Keys : k = set[o].key
  BY OwnerType
<1> DEFINE p == ProcessOf[o]
           new == [state(o) EXCEPT !.acquiring = NoOwner, !.holders = {o}]
           lock == [locked |-> TRUE, file |-> set[o].file, access |-> set[o].need[k]]
<1>1. /\ set[o] \in SetType /\ set[o].phase = "flock" /\ k = set[o].key /\ p \in Processes
      /\ state(o) \in States /\ state(o) = registry[p][k]
      /\ needy(o) /\ backed(o) /\ current(o) /\ serialized(p, k) /\ counted(p, k)
  BY <1>0, OwnerType DEF LockRecord, At, state, Needed, Backed, Current, Serialized
<1>2. record' = record /\ used' = used
  BY DEF LockRecord
<1>3. /\ state(o).acquiring = o /\ state(o).holders = {} /\ o \in state(o).references
      /\ ~flock[p][k].locked /\ o # NoOwner
  <2>1. state(o).acquiring = o /\ o # NoOwner
    BY <1>1, OwnerAssumption DEF Serialized, At
  <2>2. state(o).holders = {} /\ o \in state(o).references
    BY <1>1, <2>1 DEF serialized
  <2> QED BY <1>1, <2>1, <2>2 DEF counted
<1>4. /\ new \in States /\ new.acquiring = NoOwner /\ new.holders = {o}
      /\ new.references = state(o).references
  BY <1>1 DEF States
<1>5. /\ registry' \in [Processes -> [Keys -> States]] /\ registry'[p][k] = new
      /\ \A q \in Processes, l \in Keys : q # p \/ l # k => registry'[q][l] = registry[q][l]
  BY <1>1, <1>4, UpdateStep DEF LockRecord
<1>6. k \notin set[o].held /\ set[o].need[k] \in Access
  BY <1>1 DEF needy, acquiring, missing, SetType
<1>7. /\ lock \in Locks /\ lock.locked = TRUE /\ lock.file = set[o].file
      /\ lock.access = set[o].need[k]
  BY <1>1, <1>6 DEF Locks, SetType
<1>8. /\ flock' \in [Processes -> [Keys -> Locks]] /\ flock'[p][k] = lock
      /\ \A q \in Processes, l \in Keys : q # p \/ l # k => flock'[q][l] = flock[q][l]
  <2>1. flock' = [flock EXCEPT ![p][k] = lock]
    BY <1>0, Zenon DEF LockRecord, wanted
  <2> HIDE DEF lock
  <2> QED BY <1>1, <1>7, <2>1 DEF TypeOK
<1>9. /\ set' \in [Owners -> SetType] /\ set'[o].phase = "verify"
      /\ set'[o].key = k /\ set'[o].file = set[o].file /\ set'[o].need = set[o].need
      /\ set'[o].domains = set[o].domains /\ set'[o].lost = set[o].lost
      /\ set'[o].held = set[o].held
      /\ \A x \in Owners : x # o => set'[x] = Woken(p, k)[x]
  <2>1. set' = [Woken(p, k) EXCEPT ![o].phase = "verify"]
    BY <1>0 DEF LockRecord
  <2>2. ~At(o, "asleep") /\ k \in Keys /\ p \in Processes
    BY <1>1 DEF At
  <2> QED BY <1>0, <2>1, <2>2, WakingStep, Zenon DEF Phases
<1> HIDE DEF new, lock
<1>10. TypeOK'
  BY <1>2, <1>5, <1>8, <1>9 DEF TypeOK
<1>11. needy(o)'
  BY <1>1, <1>9 DEF needy, acquiring, At, missing
<1>12. locked(o)' = locked(o) \cup {k} /\ locked(o) = set[o].held
  <2>1. \A l \in Keys : o \in registry'[p][l].holders <=> (o \in registry[p][l].holders \/ l = k)
    BY <1>1, <1>4, <1>5
  <2> QED BY <1>1, <2>1 DEF locked, backed, At
<1>13. backed(o)'
  <2>1. ASSUME NEW l \in locked(o)'
        PROVE  flock'[p][l].locked /\ flock'[p][l].access = set'[o].need[l]
    <3>1. CASE l = k
      BY <1>7, <1>8, <1>9, <3>1
    <3>2. CASE l # k
      <4>1. l \in locked(o) /\ l \in Keys
        BY <1>12, <2>1, <3>2 DEF locked
      <4> QED BY <1>1, <1>8, <1>9, <3>2, <4>1 DEF backed
    <3> QED BY <3>1, <3>2
  <2> QED BY <1>9, <1>12, <2>1 DEF backed, At
<1>14. current(o)'
  <2>1. \A l \in set[o].held : l \in Keys /\ l # k
    BY <1>1, <1>6 DEF needy
  <2>2. lockOf(o)'.file = set'[o].file
    BY <1>7, <1>8, <1>9 DEF lockOf
  <2> QED BY <1>1, <1>2, <1>8, <1>9, <2>1, <2>2 DEF current, At
<1>15. counted(p, k)'
  BY <1>3, <1>4, <1>5, <1>7, <1>8 DEF counted
<1>16. serialized(p, k)'
  BY <1>4, <1>5 DEF serialized
<1>17. ASSUME NEW q \in Processes, p # q PROVE compatible(p, q, k)' /\ compatible(q, p, k)'
  <2>1. flock'[q][k] = flock[q][k] /\ flock[q][k] \in Locks
    BY <1>8, <1>17 DEF TypeOK
  <2>2. flock[q][k].locked /\ flock[q][k].file = set[o].file
        => flock[q][k].access # "exclusive" /\ set[o].need[k] # "exclusive"
    BY <1>1, <1>17 DEF LockRecord, grantable, wanted
  <2>3. flock[q][k].locked => flock[q][k].access \in Access
    BY <2>1, LockType
  <2> QED BY <1>6, <1>7, <1>8, <2>1, <2>2, <2>3 DEF compatible, Access
<1>18. ASSUME NEW x \in Owners, ProcessOf[x] = p, set'[x].key = k
       PROVE  ~At(x, "flock")' /\ ~At(x, "asleep")'
  <2>1. CASE x = o
    BY <1>9, <2>1 DEF At
  <2>2. CASE x # o
    <3>1. set'[x] = Woken(p, k)[x] /\ set[x].key = k
      BY <1>9, <1>18, <2>2, WokenType
    <3>2. ~At(x, "flock")
      BY <1>1, <1>3, <1>18, <2>2, <3>1 DEF Serialized, state
    <3>3. At(x, "asleep") => x \in signalled(p, k)
      BY <1>18, <3>1 DEF signalled
    <3> QED BY <3>1, <3>2, <3>3, WokenType DEF At
  <2> QED BY <2>1, <2>2
<1>19. /\ registry'[p][k].holders = {o} /\ registry[p][k].holders = {}
  BY <1>1, <1>3, <1>4, <1>5
<1>20. \A x \in Owners : ProcessOf[x] = p /\ set'[x].key = k =>
           /\ At(x, "flock")' => registry'[p][k].acquiring = x
           /\ At(x, "asleep")' => ~free(x)' /\ ~shareable(x)'
  BY <1>18
<1>21. \A x \in Owners : x # o =>
           /\ x \in registry'[p][k].holders <=> x \in registry[p][k].holders
           /\ x \in registry[p][k].holders => flock'[p][k] = flock[p][k]
  BY <1>19
<1>22. \A q \in Processes, l \in Keys : q # p \/ l # k =>
           registry'[q][l] = registry[q][l] /\ flock'[q][l] = flock[q][l]
  BY <1>5, <1>8
<1> QED BY <1>1, <1>2, <1>9, <1>10, <1>11, <1>13, <1>14, <1>15, <1>16, <1>17, <1>19,
           <1>20, <1>21, <1>22, FocusedStep

(* An owner gives one record back; the last of its process unlocks it. *)
LEMMA UnlockKeeps ==
    ASSUME Inv, NEW o \in Owners, NEW k \in Keys, NEW next \in SetType, Unlock(o, k, next),
           record' = record, used' = used, k \in locked(o),
           next.phase = "release", next.held = set[o].held \ {k}, next.need = set[o].need,
           next.domains = set[o].domains, next.lost = set[o].lost,
           set[o].phase = "release" \/ (set[o].phase = "verify" /\ set[o].key = k)
    PROVE  Inv'
<1> USE DEF Inv
<1> DEFINE p == ProcessOf[o]
           rest == registry[p][k].holders \ {o}
<1>1. /\ p \in Processes /\ registry[p][k] \in States /\ o \in registry[p][k].holders
      /\ needy(o) /\ backed(o) /\ current(o) /\ serialized(p, k) /\ counted(p, k)
  BY OwnerType DEF locked, Needed, Backed, Current, Serialized, TypeOK
<1>2. registry[p][k].acquiring = NoOwner
  BY <1>1 DEF serialized
<1>3. /\ registry' \in [Processes -> [Keys -> States]]
      /\ registry'[p][k].acquiring = NoOwner
      /\ registry'[p][k].holders = rest
      /\ registry'[p][k].references = registry[p][k].references \ {o}
      /\ \A q \in Processes, l \in Keys : q # p \/ l # k => registry'[q][l] = registry[q][l]
  <2>1. registry' = [registry EXCEPT ![p][k].holders = rest, ![p][k].references = @ \ {o}]
    BY DEF Unlock
  <2>2. registry'[p][k] = [registry[p][k] EXCEPT !.holders = rest, !.references = @ \ {o}]
    BY <1>1, <2>1 DEF TypeOK
  <2>3. /\ registry'[p][k] \in States
        /\ registry'[p][k].acquiring = registry[p][k].acquiring
        /\ registry'[p][k].holders = rest
        /\ registry'[p][k].references = registry[p][k].references \ {o}
    BY <1>1, <2>2 DEF States
  <2>4. \A q \in Processes, l \in Keys : q # p \/ l # k => registry'[q][l] = registry[q][l]
    BY <1>1, <2>1 DEF TypeOK
  <2>5. registry' \in [Processes -> [Keys -> States]]
    <3>1. PICK new \in States : new = registry'[p][k]
      BY <2>3
    <3>2. registry' = [registry EXCEPT ![p][k] = new]
      BY <1>1, <2>1, <2>2, <3>1 DEF TypeOK
    <3> QED BY <1>1, <3>1, <3>2 DEF TypeOK
  <2> QED BY <1>2, <2>3, <2>4, <2>5
<1>4. /\ flock' \in [Processes -> [Keys -> Locks]]
      /\ rest = {} => flock'[p][k] = Unlocked
      /\ rest # {} => flock'[p][k] = flock[p][k]
      /\ \A q \in Processes, l \in Keys : q # p \/ l # k => flock'[q][l] = flock[q][l]
  <2>1. CASE rest = {}
    <3>1. flock' = [flock EXCEPT ![p][k] = Unlocked] /\ Unlocked \in Locks
      BY <2>1 DEF Unlock, Locks
    <3> QED BY <1>1, <2>1, <3>1 DEF TypeOK
  <2>2. CASE rest # {}
    BY <2>2 DEF Unlock, TypeOK
  <2> QED BY <2>1, <2>2
<1>5. /\ set' \in [Owners -> SetType] /\ set'[o] = next
      /\ \A x \in Owners : x # o =>
             set'[x] = IF rest = {} THEN Woken(p, k)[x] ELSE set[x]
  <2>1. CASE rest = {}
    <3>1. set' = [Woken(p, k) EXCEPT ![o] = next]
      BY <2>1 DEF Unlock
    <3>2. Woken(p, k) \in [Owners -> SetType]
      <4>1. \A x \in Owners : Woken(p, k)[x] \in SetType
        BY WokenType
      <4> QED BY <4>1 DEF Woken
    <3> QED BY <2>1, <3>1, <3>2
  <2>2. CASE rest # {}
    BY <2>2 DEF Unlock, TypeOK
  <2> QED BY <2>1, <2>2
<1> HIDE DEF rest
<1>6. TypeOK'
  BY <1>3, <1>4, <1>5 DEF TypeOK
<1>7. needy(o)'
  BY <1>1, <1>5 DEF needy, acquiring, At, missing
<1>8. locked(o)' = next.held
  <2>1. locked(o)' = locked(o) \ {k}
    <3>1. o \notin registry'[p][k].holders
      BY <1>3 DEF rest
    <3>2. \A l \in Keys : l # k => registry'[p][l] = registry[p][l]
      BY <1>1, <1>3
    <3> QED BY <3>1, <3>2 DEF locked
  <2>2. locked(o) \ {k} = set[o].held \ {k}
    BY <1>1 DEF backed, At
  <2> QED BY <2>1, <2>2
<1>9. \A l \in next.held : l \in Keys /\ l # k /\ flock'[p][l] = flock[p][l]
  BY <1>1, <1>4 DEF needy
<1>10. backed(o)'
  BY <1>1, <1>5, <1>8, <1>9 DEF backed, At
<1>11. current(o)'
  BY <1>1, <1>5, <1>9 DEF current, At
<1>12. counted(p, k)'
  <2>1. rest \subseteq registry[p][k].references \ {o}
    BY <1>1 DEF counted, rest
  <2>2. CASE rest = {}
    <3>1. flock'[p][k].locked = FALSE
      BY <1>4, <2>2 DEF Unlocked
    <3>2. registry'[p][k].holders = {}
      BY <1>3, <2>2
    <3> QED BY <3>1, <3>2 DEF counted
  <2>3. CASE rest # {}
    <3>1. registry[p][k].holders # {}
      BY <1>1
    <3> QED BY <1>1, <1>3, <1>4, <2>1, <2>3, <3>1 DEF counted
  <2> QED BY <2>2, <2>3
<1>13. serialized(p, k)'
  BY <1>1, <1>3 DEF serialized, rest
<1>14. flock'[p][k].locked /\ flock'[p][k].access = "exclusive"
       => \A x, y \in registry'[p][k].holders : x = y
  <2>1. CASE rest = {}
    BY <1>3, <2>1
  <2>2. CASE rest # {}
    BY <1>1, <1>3, <1>4, <2>2 DEF Alone, rest
  <2> QED BY <2>1, <2>2
<1>15. ASSUME NEW q \in Processes, p # q PROVE compatible(p, q, k)' /\ compatible(q, p, k)'
  <2>1. flock'[q][k] = flock[q][k] /\ compatible(p, q, k) /\ compatible(q, p, k)
    BY <1>1, <1>4, <1>15 DEF Alone
  <2>2. CASE rest = {}
    BY <1>4, <2>2 DEF compatible, Unlocked
  <2>3. CASE rest # {}
    BY <1>4, <2>1, <2>3 DEF compatible
  <2> QED BY <2>2, <2>3
<1>16. ASSUME NEW x \in Owners, ProcessOf[x] = p, set'[x].key = k
       PROVE  /\ At(x, "flock")' => registry'[p][k].acquiring = x
              /\ At(x, "asleep")' => ~free(x)' /\ ~shareable(x)'
  <2>1. CASE x = o
    BY <1>5, <2>1 DEF At
  <2>2. CASE x # o /\ rest = {}
    <3>1. set'[x] = Woken(p, k)[x] /\ set[x].key = k
      BY <1>5, <1>16, <2>2, WokenType
    <3>2. ~At(x, "flock")
      BY <1>2, <1>16, <3>1, NobodyCalls
    <3>3. At(x, "asleep") => x \in signalled(p, k)
      BY <1>16, <3>1 DEF signalled
    <3>4. ~At(x, "flock")' /\ ~At(x, "asleep")'
      BY <3>1, <3>2, <3>3, WokenType DEF At
    <3> QED BY <3>4
  <2>3. CASE x # o /\ rest # {}
    <3>1. set'[x] = set[x] /\ set[x].key = k
      BY <1>5, <1>16, <2>3
    <3>2. ~At(x, "flock")' /\ (At(x, "asleep")' => At(x, "asleep"))
      BY <1>2, <1>16, <3>1, NobodyCalls DEF At
    <3>3. ASSUME At(x, "asleep") PROVE ~free(x)' /\ ~shareable(x)'
      <4>1. ~free(x) /\ ~shareable(x)
        BY <3>3 DEF NoMissedSignal
      <4>2. state(x) = registry[p][k] /\ state(x)' = registry'[p][k]
        BY <1>16, <3>1 DEF state
      <4>3. lockOf(x)' = lockOf(x) /\ wanted(x)' = wanted(x)
        BY <1>4, <1>16, <2>3, <3>1 DEF lockOf, wanted
      <4> QED BY <1>1, <1>2, <1>3, <2>3, <4>1, <4>2, <4>3 DEF free, shareable
    <3> QED BY <3>2, <3>3
  <2> QED BY <2>1, <2>2, <2>3
<1>17. \A x \in Owners : x # o =>
           /\ x \in registry'[p][k].holders <=> x \in registry[p][k].holders
           /\ x \in registry[p][k].holders => flock'[p][k] = flock[p][k]
  BY <1>3, <1>4 DEF rest
<1>18. \A q \in Processes, l \in Keys : q # p \/ l # k =>
           registry'[q][l] = registry[q][l] /\ flock'[q][l] = flock[q][l]
  BY <1>3, <1>4
<1>19. \A x \in Owners : x # o => set'[x] = set[x] \/ set'[x] = Woken(p, k)[x]
  BY <1>5
<1> QED BY <1>1, <1>5, <1>6, <1>7, <1>10, <1>11, <1>12, <1>13, <1>14, <1>15, <1>16,
           <1>17, <1>18, <1>19, FocusedStep

(* A locked record turns out not to be the record of its key. *)
LEMMA RefuseRecordKeeps == ASSUME Inv, NEW o \in Owners, RefuseRecord(o) PROVE Inv'
<1> USE DEF Inv
<1>0. PICK k \in Keys : k = set[o].key
  BY OwnerType
<1>1. set[o] \in SetType /\ set[o].phase = "verify" /\ needy(o) /\ backed(o)
  BY OwnerType DEF RefuseRecord, At, Needed, Backed
<1>2. PICK next \in SetType : next = [set[o] EXCEPT !.phase = "release"]
  BY <1>1 DEF SetType, Phases
<1>3. /\ next.phase = "release" /\ next.held = set[o].held /\ next.need = set[o].need
      /\ next.domains = set[o].domains /\ next.lost = set[o].lost
  BY <1>1, <1>2 DEF SetType
<1>4. Unlock(o, k, next) /\ record' = record /\ used' = used
  BY <1>0, <1>2 DEF RefuseRecord
<1>5. k \in locked(o) /\ k \notin set[o].held
  BY <1>0, <1>1 DEF needy, backed, acquiring, missing, At
<1>6. next.held = set[o].held \ {k}
  BY <1>3, <1>5
<1> QED BY <1>0, <1>1, <1>3, <1>4, <1>5, <1>6, UnlockKeeps

(* A held record is given back. *)
LEMMA ReleaseRecordKeeps == ASSUME Inv, NEW o \in Owners, ReleaseRecord(o) PROVE Inv'
<1> USE DEF Inv
<1>0. PICK k \in Keys : k \in set[o].held /\ Unlock(o, k, [set[o] EXCEPT !.held = @ \ {k}])
  BY DEF ReleaseRecord, last
<1>1. /\ set[o] \in SetType /\ set[o].phase = "release" /\ backed(o)
      /\ record' = record /\ used' = used
  BY OwnerType DEF ReleaseRecord, At, Backed
<1>2. PICK next \in SetType : next = [set[o] EXCEPT !.held = @ \ {k}]
  BY <1>1 DEF SetType
<1>3. /\ next.phase = "release" /\ next.held = set[o].held \ {k} /\ next.need = set[o].need
      /\ next.domains = set[o].domains /\ next.lost = set[o].lost
  BY <1>1, <1>2 DEF SetType
<1>4. Unlock(o, k, next)
  BY <1>0, <1>2
<1>5. k \in locked(o)
  BY <1>0, <1>1 DEF backed, At
<1> QED BY <1>1, <1>3, <1>4, <1>5, UnlockKeeps

(* Giving up: before a record is opened. *)
LEMMA GiveUpOpenKeeps == ASSUME Inv, NEW o \in Owners, GiveUp(o), At(o, "open") PROVE Inv'
<1> USE DEF Inv
<1>1. /\ set' = [set EXCEPT ![o].phase = "release"]
      /\ record' = record /\ flock' = flock /\ registry' = registry
      /\ used' \in [Events -> Nat]
  BY SpendType DEF GiveUp, At, Events
<1>2. set[o] \in SetType /\ set[o].phase = "open" /\ needy(o) /\ backed(o) /\ current(o)
  BY OwnerType DEF At, Needed, Backed, Current
<1>3. /\ set' \in [Owners -> SetType] /\ set'[o].phase = "release"
      /\ set'[o].held = set[o].held /\ set'[o].need = set[o].need
      /\ set'[o].domains = set[o].domains /\ set'[o].lost = set[o].lost
      /\ \A x \in Owners : x # o => set'[x] = set[x]
  BY <1>1, PhaseStep DEF Phases
<1>4. TypeOK'
  BY <1>1, <1>3 DEF TypeOK
<1>5. needy(o)'
  BY <1>2, <1>3 DEF needy, acquiring, At, missing
<1>6. backed(o)' /\ current(o)'
  BY <1>1, <1>2, <1>3 DEF backed, current, At, locked
<1> QED BY <1>1, <1>2, <1>3, <1>4, <1>5, <1>6, QuietStep

(* Giving up: while waiting for the other goroutines of the process. *)
LEMMA GiveUpWaitKeeps == ASSUME Inv, NEW o \in Owners, GiveUp(o),
                                set[o].phase \in {"enter", "asleep"}
                         PROVE  Inv'
<1> DEFINE new == [state(o) EXCEPT !.references = @ \ {o},
                                   !.acquiring = IF @ = o THEN NoOwner ELSE @]
<1>1. TypeOK /\ Serialized
  BY DEF Inv
<1>2. state(o) \in States /\ state(o).acquiring # o
  <2>1. state(o) \in States /\ serialized(ProcessOf[o], set[o].key)
    BY <1>1, OwnerType DEF state, Serialized
  <2> QED BY <2>1, OwnerAssumption DEF serialized, At, state
<1>3. /\ new \in States /\ new.acquiring = state(o).acquiring
      /\ new.holders = state(o).holders /\ new.references = state(o).references \ {o}
  BY <1>2 DEF States
<1>4. /\ Update(o, new) /\ set' = [set EXCEPT ![o].phase = "release"]
      /\ record' = record /\ flock' = flock
  BY DEF GiveUp, At
<1>5. used' \in [Events -> Nat]
  BY <1>1, SpendType DEF GiveUp, Events
<1> HIDE DEF new
<1> QED BY <1>3, <1>4, <1>5, WaitingStep

(* Giving up: while waiting for other processes. *)
LEMMA GiveUpFlockKeeps == ASSUME Inv, NEW o \in Owners, GiveUp(o), At(o, "flock") PROVE Inv'
<1> USE DEF Inv
<1>0. PICK k \in Keys : k = set[o].key
  BY OwnerType
<1> DEFINE p == ProcessOf[o]
           new == [state(o) EXCEPT !.references = @ \ {o},
                                   !.acquiring = IF @ = o THEN NoOwner ELSE @]
<1>1. /\ set[o] \in SetType /\ k = set[o].key /\ p \in Processes
      /\ state(o) \in States /\ state(o) = registry[p][k]
      /\ needy(o) /\ backed(o) /\ current(o) /\ serialized(p, k) /\ counted(p, k)
  BY <1>0, OwnerType DEF state, Needed, Backed, Current, Serialized
<1>2. record' = record /\ flock' = flock /\ used' \in [Events -> Nat]
  BY SpendType DEF GiveUp, Events
<1>3. /\ state(o).acquiring = o /\ state(o).holders = {} /\ o # NoOwner
      /\ set[o].phase = "flock"
  <2>1. state(o).acquiring = o /\ o # NoOwner
    BY OwnerAssumption DEF Serialized
  <2> QED BY <1>1, <2>1 DEF serialized, At
<1>4. new \in States /\ new.acquiring = NoOwner /\ new.holders = {}
  BY <1>1, <1>3 DEF States
<1>5. /\ registry' \in [Processes -> [Keys -> States]] /\ registry'[p][k] = new
      /\ \A q \in Processes, l \in Keys : q # p \/ l # k => registry'[q][l] = registry[q][l]
  BY <1>1, <1>3, <1>4, UpdateStep DEF GiveUp, At
<1>6. /\ set' \in [Owners -> SetType] /\ set'[o].phase = "release"
      /\ set'[o].key = k /\ set'[o].file = set[o].file /\ set'[o].need = set[o].need
      /\ set'[o].domains = set[o].domains /\ set'[o].lost = set[o].lost
      /\ set'[o].held = set[o].held
      /\ \A x \in Owners : x # o => set'[x] = Woken(p, k)[x]
  <2>1. set' = [Woken(p, k) EXCEPT ![o].phase = "release"]
    BY <1>0 DEF GiveUp
  <2>2. ~At(o, "asleep") /\ k \in Keys /\ p \in Processes
    BY <1>1, <1>3 DEF At
  <2> QED BY <1>0, <2>1, <2>2, WakingStep, Zenon DEF Phases
<1> HIDE DEF new
<1>7. TypeOK'
  BY <1>2, <1>5, <1>6 DEF TypeOK
<1>8. needy(o)'
  BY <1>1, <1>6 DEF needy, acquiring, At, missing
<1>9. registry'[p][k].holders = {} /\ registry[p][k].holders = {}
  BY <1>1, <1>3, <1>4, <1>5
<1>10. locked(o)' = locked(o)
  <2>1. \A l \in Keys : registry'[p][l].holders = registry[p][l].holders
    BY <1>1, <1>5, <1>9
  <2> QED BY <2>1 DEF locked
<1>11. backed(o)' /\ current(o)'
  BY <1>1, <1>2, <1>3, <1>6, <1>10 DEF backed, current, At
<1>12. counted(p, k)' /\ serialized(p, k)'
  BY <1>1, <1>2, <1>4, <1>5, <1>9 DEF counted, serialized
<1>13. \A q \in Processes : p # q => compatible(p, q, k)' /\ compatible(q, p, k)'
  BY <1>1, <1>2 DEF Alone, compatible
<1>14. ASSUME NEW x \in Owners, ProcessOf[x] = p, set'[x].key = k
       PROVE  ~At(x, "flock")' /\ ~At(x, "asleep")'
  <2>1. CASE x = o
    BY <1>6, <2>1 DEF At
  <2>2. CASE x # o
    <3>1. set'[x] = Woken(p, k)[x] /\ set[x].key = k
      BY <1>6, <1>14, <2>2, WokenType
    <3>2. ~At(x, "flock")
      BY <1>1, <1>3, <1>14, <2>2, <3>1 DEF Serialized, state
    <3>3. At(x, "asleep") => x \in signalled(p, k)
      BY <1>14, <3>1 DEF signalled
    <3> QED BY <3>1, <3>2, <3>3, WokenType DEF At
  <2> QED BY <2>1, <2>2
<1>15. \A x \in Owners : ProcessOf[x] = p /\ set'[x].key = k =>
           /\ At(x, "flock")' => registry'[p][k].acquiring = x
           /\ At(x, "asleep")' => ~free(x)' /\ ~shareable(x)'
  BY <1>14
<1>16. \A q \in Processes, l \in Keys : q # p \/ l # k =>
           registry'[q][l] = registry[q][l] /\ flock'[q][l] = flock[q][l]
  BY <1>2, <1>5
<1> QED BY <1>1, <1>2, <1>6, <1>7, <1>8, <1>9, <1>11, <1>12, <1>13, <1>15, <1>16, FocusedStep

(* A process dies. *)
LEMMA CrashKeeps == ASSUME Inv, NEW p \in Processes, Crash(p) PROVE Inv'
<1> USE DEF Inv
<1>1. record' = record /\ used' \in [Events -> Nat]
  BY SpendType DEF Crash, Events
<1>2. /\ \A o \in Owners : ProcessOf[o] = p => set'[o] = NewSet
      /\ \A o \in Owners : ProcessOf[o] # p => set'[o] = set[o]
  BY DEF Crash
<1>3. /\ \A k \in Keys : registry'[p][k] = NoState /\ flock'[p][k] = Unlocked
      /\ \A q \in Processes : q # p => registry'[q] = registry[q] /\ flock'[q] = flock[q]
  BY DEF Crash, TypeOK
<1>4. TypeOK'
  <2>1. NoState \in States /\ Unlocked \in Locks
    BY DEF NoState, States, Locks
  <2>2. set' \in [Owners -> SetType]
    BY NewSetType DEF Crash, TypeOK
  <2>3. flock' \in [Processes -> [Keys -> Locks]] /\ registry' \in [Processes -> [Keys -> States]]
    BY <2>1 DEF Crash, TypeOK
  <2> QED BY <1>1, <2>2, <2>3 DEF TypeOK
<1>5. /\ NewSet.phase = "idle" /\ NewSet.held = {} /\ NewSet.lost = {}
      /\ NewSet.domains = {} /\ NewSet.need = normalize({})
  BY DEF NewSet
<1>6. /\ NoState.acquiring = NoOwner /\ NoState.holders = {} /\ NoState.references = {}
      /\ Unlocked.locked = FALSE
  BY DEF NoState, Unlocked
<1>7. ASSUME NEW o \in Owners PROVE needy(o)' /\ backed(o)' /\ current(o)'
  <2>1. CASE ProcessOf[o] = p
    <3>1. set'[o] = NewSet /\ locked(o)' = {}
      BY <1>2, <1>3, <1>6, <2>1 DEF locked
    <3>2. needy(o)'
      BY <1>5, <3>1 DEF needy, acquiring, At, missing
    <3> QED BY <1>5, <3>1, <3>2 DEF backed, current, At
  <2>2. CASE ProcessOf[o] # p
    <3>1. set'[o] = set[o] /\ ProcessOf[o] \in Processes
      BY <1>2, <2>2, OwnerAssumption
    <3>2. locked(o)' = locked(o)
      BY <1>3, <2>2, <3>1 DEF locked
    <3> QED BY <1>1, <1>3, <2>2, <3>1, <3>2, OwnerFrame
  <2> QED BY <2>1, <2>2
<1>8. Needed' /\ Current'
  BY <1>7 DEF Needed, Current
<1>9. Backed'
  <2>1. \A q \in Processes, k \in Keys : counted(q, k)'
    <3> SUFFICES ASSUME NEW q \in Processes, NEW k \in Keys PROVE counted(q, k)'
      OBVIOUS
    <3>1. CASE q = p
      BY <1>3, <1>6, <3>1 DEF counted
    <3>2. CASE q # p
      BY <1>3, <3>2 DEF Backed, counted
    <3> QED BY <3>1, <3>2
  <2> QED BY <1>7, <2>1 DEF Backed
<1>10. Serialized'
  <2>1. ASSUME NEW o \in Owners, At(o, "flock")' PROVE state(o)'.acquiring = o
    <3>1. ProcessOf[o] # p /\ ProcessOf[o] \in Processes
      BY <1>2, <1>5, <2>1, OwnerAssumption DEF At
    <3>2. At(o, "flock") /\ state(o)' = state(o)
      BY <1>2, <1>3, <2>1, <3>1 DEF At, state
    <3> QED BY <3>2 DEF Serialized
  <2>2. ASSUME NEW q \in Processes, NEW k \in Keys PROVE serialized(q, k)'
    <3>1. CASE q = p
      BY <1>3, <1>6, <3>1 DEF serialized
    <3>2. CASE q # p
      <4>1. registry'[q][k] = registry[q][k] /\ serialized(q, k)
        BY <1>3, <3>2 DEF Serialized
      <4>2. registry[q][k].acquiring # NoOwner =>
                set'[registry[q][k].acquiring] = set[registry[q][k].acquiring]
        BY <1>2, <3>2, <4>1 DEF serialized, TypeOK, States
      <4> QED BY <4>1, <4>2 DEF serialized, At
    <3> QED BY <3>1, <3>2
  <2> QED BY <2>1, <2>2 DEF Serialized
<1>11. Alone'
  <2>1. ASSUME NEW q \in Processes, NEW r \in Processes, NEW k \in Keys, q # r
        PROVE  compatible(q, r, k)'
    <3>1. CASE q = p \/ r = p
      BY <1>3, <1>6, <3>1 DEF compatible
    <3>2. CASE q # p /\ r # p
      BY <1>3, <2>1, <3>2 DEF Alone, compatible
    <3> QED BY <3>1, <3>2
  <2>2. ASSUME NEW q \in Processes, NEW k \in Keys,
               flock'[q][k].locked /\ flock'[q][k].access = "exclusive"
        PROVE  \A x, y \in registry'[q][k].holders : x = y
    BY <1>3, <1>6, <2>2 DEF Alone
  <2> QED BY <2>1, <2>2 DEF Alone
<1>12. NoMissedSignal'
  <2> SUFFICES ASSUME NEW o \in Owners, At(o, "asleep")' PROVE ~free(o)' /\ ~shareable(o)'
    BY DEF NoMissedSignal
  <2>1. ProcessOf[o] # p /\ ProcessOf[o] \in Processes
    BY <1>2, <1>5, OwnerAssumption DEF At
  <2>2. At(o, "asleep") /\ state(o)' = state(o) /\ lockOf(o)' = lockOf(o) /\ wanted(o)' = wanted(o)
    BY <1>2, <1>3, <2>1 DEF At, state, lockOf, wanted
  <2> QED BY <2>2 DEF NoMissedSignal, free, shareable
<1> QED BY <1>4, <1>8, <1>9, <1>10, <1>11, <1>12

(* A lock record is replaced. *)
LEMMA ReplaceRecordKeeps == ASSUME Inv, NEW k \in Keys, ReplaceRecord(k) PROVE Inv'
<1> USE DEF Inv
<1>1. flock' = flock /\ registry' = registry /\ used' \in [Events -> Nat]
  BY SpendType DEF ReplaceRecord, Events
<1>2. record' \in [Keys -> Nat] /\ \A l \in Keys : l # k => record'[l] = record[l]
  BY DEF ReplaceRecord, TypeOK
<1>3. ASSUME NEW o \in Owners
      PROVE  /\ set'[o] \in SetType
             /\ set'[o].phase = set[o].phase /\ set'[o].key = set[o].key
             /\ set'[o].file = set[o].file /\ set'[o].need = set[o].need
             /\ set'[o].domains = set[o].domains /\ set'[o].held = set[o].held
             /\ set[o].lost \subseteq set'[o].lost /\ (k \in set[o].held => k \in set'[o].lost)
  <2>1. set[o] \in SetType
    BY OwnerType
  <2>2. CASE k \in set[o].held
    <3>1. set'[o] = [set[o] EXCEPT !.lost = @ \cup {k}]
      BY <2>2 DEF ReplaceRecord
    <3> QED BY <2>1, <3>1 DEF SetType
  <2>3. CASE k \notin set[o].held
    <3>1. set'[o] = set[o]
      BY <2>3 DEF ReplaceRecord
    <3> QED BY <2>1, <2>3, <3>1
  <2> QED BY <2>2, <2>3
<1>4. TypeOK'
  <2>1. set' \in [Owners -> SetType]
    BY <1>3 DEF ReplaceRecord
  <2> QED BY <1>1, <1>2, <2>1 DEF TypeOK
<1>5. ASSUME NEW o \in Owners PROVE needy(o)' /\ backed(o)' /\ current(o)'
  <2>1. needy(o) /\ backed(o) /\ current(o)
    BY DEF Needed, Backed, Current
  <2>2. needy(o)'
    BY <1>3, <2>1 DEF needy, acquiring, At, missing
  <2>3. backed(o)'
    BY <1>1, <1>3, <2>1 DEF backed, locked, At
  <2>4. \A l \in set[o].held : l \in Keys
    BY <2>1 DEF needy
  <2>5. current(o)'
    BY <1>1, <1>2, <1>3, <2>1, <2>4 DEF current, lockOf, At
  <2> QED BY <2>2, <2>3, <2>5
<1>6. Needed' /\ Current' /\ Backed'
  BY <1>1, <1>5 DEF Needed, Current, Backed, counted
<1>7. Serialized'
  <2>1. \A q \in Processes, l \in Keys : registry[q][l].acquiring # NoOwner =>
            registry[q][l].acquiring \in Owners
    BY DEF TypeOK, States
  <2> QED BY <1>1, <1>3, <2>1 DEF Serialized, serialized, At, state
<1>8. NoMissedSignal'
  BY <1>1, <1>3 DEF NoMissedSignal, At, free, shareable, state, lockOf, wanted
<1> QED BY <1>1, <1>4, <1>6, <1>7, <1>8 DEF Alone, compatible

(* Every step keeps the invariant. *)
LEMMA Inductive == Inv /\ [Next]_vars => Inv'
<1> SUFFICES ASSUME Inv, [Next]_vars PROVE Inv'
  OBVIOUS
<1>1. CASE UNCHANGED vars
  <2>1. record' = record /\ flock' = flock /\ registry' = registry /\ set' = set /\ used' = used
    BY <1>1 DEF vars
  <2>2. TypeOK' /\ Needed' /\ Backed' /\ Current'
    BY <2>1 DEF Inv, TypeOK, Needed, needy, Backed, backed, counted, Current, current,
       At, missing, acquiring, locked, lockOf
  <2>3. Serialized' /\ Alone' /\ NoMissedSignal'
    BY <2>1 DEF Inv, Serialized, serialized, Alone, compatible, NoMissedSignal, At,
       state, lockOf, wanted, free, shareable
  <2> QED BY <2>2, <2>3 DEF Inv
<1>2. ASSUME NEW o \in Owners, BeginAcquire(o) PROVE Inv'
  BY <1>2, BeginAcquireKeeps
<1>3. ASSUME NEW o \in Owners, Progress(o) PROVE Inv'
  BY <1>3, OpenRecordKeeps, EnterFlockKeeps, EnterShareKeeps, RefuseShareKeeps,
     EnterSleepKeeps, LockRecordKeeps, VerifyRecordKeeps, RefuseRecordKeeps,
     BeginReleaseKeeps, ReleaseRecordKeeps, FinishReleaseKeeps DEF Progress
<1>4. ASSUME NEW o \in Owners, GiveUp(o) PROVE Inv'
  <2>1. set[o].phase \in {"open", "enter", "asleep", "flock"}
    BY <1>4 DEF GiveUp
  <2> QED BY <1>4, <2>1, GiveUpOpenKeeps, GiveUpWaitKeeps, GiveUpFlockKeeps DEF At
<1>5. ASSUME NEW p \in Processes, Crash(p) PROVE Inv'
  BY <1>5, CrashKeeps
<1>6. ASSUME NEW k \in Keys, ReplaceRecord(k) PROVE Inv'
  BY <1>6, ReplaceRecordKeeps
<1> QED BY <1>1, <1>2, <1>3, <1>4, <1>5, <1>6 DEF Next

(* Of an inductive state: who holds conflicting domains is alone on the record they
   contend for, so two who both do are of two processes and the record was replaced. *)
LEMMA InvExcludes == Inv => Exclusion
<1> SUFFICES ASSUME Inv, NEW o \in Owners, NEW other \in Owners, o # other,
                    At(o, "held"), At(other, "held"),
                    conflicting(set[o].domains, set[other].domains)
             PROVE  /\ ProcessOf[o] # ProcessOf[other]
                    /\ contended(set[o].domains, set[other].domains) \cap
                           (set[o].lost \cup set[other].lost) # {}
  BY DEF Exclusion
<1> USE DEF Inv
<1> DEFINE D == set[o].domains
           E == set[other].domains
           p == ProcessOf[o]
           q == ProcessOf[other]
<1>1. D \in SUBSET Domains /\ E \in SUBSET Domains /\ p \in Processes /\ q \in Processes
  BY OwnerType DEF SetType
<1>2. PICK k \in Keys : /\ k \in contended(D, E) /\ k \in keys(D) /\ k \in keys(E)
                        /\ "exclusive" \in {normalize(D)[k], normalize(E)[k]}
  BY <1>1, ConflictsContend, KeysType DEF contended
<1>3. /\ set[o].need = normalize(D) /\ missing(o) = {}
      /\ set[other].need = normalize(E) /\ missing(other) = {}
  BY DEF Needed, needy
<1>4. normalize(D)[k] # "none" /\ normalize(E)[k] # "none"
  BY <1>2 DEF normalize
<1>5. k \in set[o].held /\ k \in set[other].held
  BY <1>3, <1>4 DEF missing
<1>6. /\ k \in locked(o) /\ flock[p][k].locked /\ flock[p][k].access = normalize(D)[k]
      /\ k \in locked(other) /\ flock[q][k].locked /\ flock[q][k].access = normalize(E)[k]
  BY <1>3, <1>5 DEF Backed, backed
<1>7. p # q
  <2> SUFFICES ASSUME p = q PROVE FALSE
    OBVIOUS
  <2>1. flock[p][k].access = "exclusive"
    BY <1>2, <1>6
  <2>2. o \in registry[p][k].holders /\ other \in registry[p][k].holders
    BY <1>6 DEF locked
  <2> QED BY <1>1, <1>6, <2>1, <2>2 DEF Alone
<1>8. k \in set[o].lost \cup set[other].lost
  <2> SUFFICES ASSUME k \notin set[o].lost, k \notin set[other].lost PROVE FALSE
    OBVIOUS
  <2>1. flock[p][k].file = record[k] /\ flock[q][k].file = record[k]
    BY <1>5 DEF Current, current
  <2>2. compatible(p, q, k) /\ compatible(q, p, k)
    BY <1>1, <1>7 DEF Alone
  <2>3. flock[p][k].access = "shared" /\ flock[q][k].access = "shared"
    BY <1>6, <2>1, <2>2 DEF compatible
  <2> QED BY <1>2, <1>6, <2>3
<1> QED BY <1>2, <1>7, <1>8

-----------------------------------------------------------------------------
(* Part 3: the theorems. *)

(* The invariant of the lease namespace and the process registry. *)
THEOREM Invariance == Spec => []Inv
BY Initially, Inductive, PTL DEF Spec

(* Store.Acquire: two lease sets never both hold conflicting domains, in one process
   at all, and in two unless a lock record was replaced under one of them. *)
THEOREM LeasesExclude == Spec => []Exclusion
BY Invariance, InvExcludes, PTL

(* unixProcessLeaseRegistry: every holder's flock is there in the mode it needs, and
   nobody else's is kept. *)
THEOREM LocksBacked == Spec => []Backed
<1>1. Inv => Backed
  BY DEF Inv
<1> QED BY <1>1, Invariance, PTL

(* registry.acquire: nobody sleeps on a state that would let it go on. *)
THEOREM SignalsSeen == Spec => []NoMissedSignal
<1>1. Inv => NoMissedSignal
  BY DEF Inv
<1> QED BY <1>1, Invariance, PTL

(* Every variable keeps its type. *)
THEOREM TypeCorrect == Spec => []TypeOK
<1>1. Inv => TypeOK
  BY DEF Inv
<1> QED BY <1>1, Invariance, PTL

=============================================================================
