---------------------------- MODULE MCMutationLease ----------------------------
(* Two goroutines of one process and one of another, which lock a file, its
   directory and a host scope in various modes. *)
EXTENDS MutationLease, TLC

CONSTANTS dir, file, locks, t, s, f, o1, o2, o3, p1, p2

MCAbove == (dir :> {}) @@ (file :> {dir}) @@ (locks :> {})

MCProcessOf == (o1 :> p1) @@ (o2 :> p1) @@ (o3 :> p2)

logical(path, mode, anchor) ==
    [kind |-> "logical", path |-> path, anchor |-> anchor, access |-> mode]

physical(path, mode) ==
    [kind |-> "physical", path |-> path, anchor |-> NoPath, access |-> mode,
     target |-> t, scope |-> s]

route(containment) ==
    [kind |-> "route", target |-> t, scope |-> s, family |-> f, containment |-> containment]

(* Read the file; publish it on the host and run a host program that may do anything. *)
MCRequests ==
    {{logical(file, "shared", NoPath)},
     {physical(file, "exclusive"), route("unknown")}}

MCRank == (pathKey(dir) :> 1) @@ (pathKey(file) :> 2) @@ (pathKey(locks) :> 3)
          @@ (targetKey(t) :> 4) @@ (scopeKey(t, s) :> 5) @@ (routeKey(t, s, f) :> 6)

(* Two acquisitions, a crash, a timeout and a replaced record. *)
MCLimit == [acquire |-> 2, crash |-> 1, giveup |-> 1, replace |-> 1]

(* normalize neither drops nor invents a conflict: two requests of one and of two domains
   contend for a record exactly if one asks for something that the other must be kept
   from.  LeaseProofs proves the half that safety needs, for every request. *)
Pairs == {D \cup E : D, E \in {{d} : d \in {e \in Domains : admissible({e})}}}
ASSUME NormalizeExact ==
    \A d \in Domains, E \in Pairs :
        admissible({d}) => (contended({d}, E) # {}) = conflicting({d}, E)

=============================================================================
