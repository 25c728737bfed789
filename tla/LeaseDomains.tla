------------------------------ MODULE LeaseDomains ------------------------------
(***************************************************************************)
(* The mutation domains an operation asks for, and the lock records they    *)
(* are normalized to (internal/effect/mutation: Domain, Store.normalize).   *)
(*                                                                         *)
(* A domain is a path, possibly one that a target sees, or the route of a   *)
(* host program with what is known of its footprint.  One record is locked  *)
(* per key.  Every path also locks its ancestors, shared: an exclusive lock *)
(* on a directory thereby excludes everything below it.                     *)
(***************************************************************************)
EXTENDS FiniteSets

CONSTANTS
    Paths,      \* canonical paths
    Above,      \* the directories above each path
    NoPath,     \* the namespace anchor of a path that exists
    StoreRoot,  \* where the lock records are kept
    Targets,    \* host programs
    Scopes,     \* project or global
    Families    \* kinds of host operations

Access == {"shared", "exclusive"}

Containment == {"paths", "scope", "unknown"}

ASSUME PathAssumption ==
    /\ Above \in [Paths -> SUBSET Paths]
    /\ StoreRoot \in Paths
    /\ NoPath \notin Paths
ASSUME TreeAssumption ==
    \A p \in Paths :
        /\ IsFiniteSet(Above[p])
        /\ p \notin Above[p]
        /\ \A q \in Above[p] : Above[q] \subseteq Above[p]
        /\ \A q, r \in Above[p] : q = r \/ q \in Above[r] \/ r \in Above[q]

(* pathContains *)
contains(p, q) == p = q \/ p \in Above[q]

(* An entry that does not exist yet and whose spelling the file system may change
   is anchored at the directory that will hold it. *)
Anchors(p) == {NoPath} \cup Above[p]

LogicalDomains == [kind : {"logical"}, path : Paths, anchor : Paths \cup {NoPath},
                   access : Access]

PhysicalDomains == [kind : {"physical"}, path : Paths, anchor : Paths \cup {NoPath},
                    access : Access, target : Targets, scope : Scopes]

RouteDomains == [kind : {"route"}, target : Targets, scope : Scopes,
                 family : Families, containment : Containment]

PathDomains == {d \in LogicalDomains \cup PhysicalDomains : d.anchor \in Anchors(d.path)}

Domains == PathDomains \cup RouteDomains

-----------------------------------------------------------------------------
(* The keys of the lock records. *)

pathKey(p) == [kind |-> "path", path |-> p]

targetKey(t) == [kind |-> "host-target", target |-> t]

scopeKey(t, s) == [kind |-> "host-scope", target |-> t, scope |-> s]

routeKey(t, s, f) == [kind |-> "host-route", target |-> t, scope |-> s, family |-> f]

Keys == {pathKey(p) : p \in Paths}
        \cup {targetKey(t) : t \in Targets}
        \cup {scopeKey(t, s) : t \in Targets, s \in Scopes}
        \cup {routeKey(t, s, f) : t \in Targets, s \in Scopes, f \in Families}

-----------------------------------------------------------------------------
(* Normalization. *)

isPath(d) == d.kind \in {"logical", "physical"}

isRoute(d) == d.kind = "route"

onHost(d) == d.kind \in {"physical", "route"}

(* leasePathIdentity: to create an anchored entry its directory is locked. *)
leasePath(d) == IF d.access = "exclusive" /\ d.anchor # NoPath THEN d.anchor ELSE d.path

paths(D) == {leasePath(d) : d \in {e \in D : isPath(e)}}

exclusivePaths(D) == {leasePath(d) : d \in {e \in D : isPath(e) /\ e.access = "exclusive"}}

(* Mutant: paths below any requested directory are dropped. *)
coveredByAny(D, p) == Above[p] \cap paths(D) # {}

(* hasExclusivePathAncestor *)
covered(D, p) == Above[p] \cap exclusivePaths(D) # {}

retained(D) == {p \in paths(D) : ~covered(D, p)}

ancestors(D) == UNION {Above[p] : p \in retained(D)}

(* What a route locks depends on the strongest proven bound of its effects. *)
footprint(d) ==
    CASE d.containment = "paths"   -> routeKey(d.target, d.scope, d.family)
      [] d.containment = "scope"   -> scopeKey(d.target, d.scope)
      [] d.containment = "unknown" -> targetKey(d.target)

hostIntents(D) == {targetKey(d.target) : d \in {e \in D : onHost(e)}}
                  \cup {scopeKey(d.target, d.scope) : d \in {e \in D : onHost(e)}}

exclusiveKeys(D) == {pathKey(p) : p \in retained(D) \cap exclusivePaths(D)}
                    \cup {footprint(d) : d \in {e \in D : isRoute(e)}}

keys(D) == {pathKey(p) : p \in retained(D) \cup ancestors(D)}
           \cup hostIntents(D) \cup exclusiveKeys(D)

(* How every record is locked for D. *)
normalize(D) == [k \in Keys |-> IF k \in exclusiveKeys(D) THEN "exclusive"
                                ELSE IF k \in keys(D) THEN "shared"
                                ELSE "none"]

(* A set whose paths contain the lock records themselves is refused. *)
admissible(D) ==
    \A d \in D : isPath(d) => ~contains(d.path, StoreRoot) /\ ~contains(leasePath(d), StoreRoot)

-----------------------------------------------------------------------------
(* What the locks are for. *)

(* d excludes e: an exclusive path everything at or below it, a route everything
   on the host that its effects may reach. *)
excludes(d, e) ==
    \/ /\ isPath(d) /\ isPath(e)
       /\ d.access = "exclusive"
       /\ contains(leasePath(d), e.path)
    \/ /\ isRoute(d) /\ onHost(e)
       /\ d.target = e.target
       /\ d.containment = "unknown" \/ d.scope = e.scope
       /\ d.containment = "paths" => isRoute(e) /\ e.containment = "paths" /\ d.family = e.family

conflicting(D, E) == \E d \in D, e \in E : excludes(d, e) \/ excludes(e, d)

(* A lock that both want and one of them wants alone. *)
contended(D, E) ==
    {k \in keys(D) \cap keys(E) : "exclusive" \in {normalize(D)[k], normalize(E)[k]}}

=============================================================================
