-------------------------------- MODULE MCWorkflows --------------------------------
(* The two workflows that change what a host has installed: apply with its carriers, and
   the refresh of an extension.  They never work on one relation, so a run that explores
   each beside the other at rest explores all they do. *)
EXTENDS Refresh, TLC

CONSTANTS
    Owners, Globals, Pins, Unknown, CarrierLimit,   \* of CarrierLife
    o1, o2, o3, p1, p2, r1, r2                      \* members of Owners, Pins and Runs

VARIABLES
    part,   \* who runs
    desired, host, by, file, registry, carrierLease, carrierRun, carrierUsed

Carrier ==
    INSTANCE CarrierLife WITH
        Limit <- CarrierLimit, lease <- carrierLease, run <- carrierRun, used <- carrierUsed

ASSUME CarrierLifeAssumption == Carrier!CarrierAssumption

(* Two manifests that share a relation, and one with a relation of its own. *)
RunsLimit == [stops |-> 2, failures |-> 1, blind |-> 1, edits |-> 2, declares |-> 3,
              unmanages |-> 1]

(* Two refreshes of an extension of any kind. *)
RefreshProfiles == [observed : BOOLEAN, native : BOOLEAN]
RefreshLimit == [other |-> 1, edit |-> 2, fault |-> 1, cancel |-> 1, crash |-> 1, effect |-> 1]

carrierVars == <<desired, host, by, file, registry, carrierLease, carrierRun, carrierUsed>>

WorkflowsInit ==
    /\ part \in {"shared", "project", "alone", "pair"}
    /\ Carrier!Init /\ Init
    /\ part # "alone" => profile = [observed |-> TRUE, native |-> TRUE]

(* A manifest that declares nothing and whose relation nobody touches. *)
Still(o) ==
    desired'[o] = None /\ carrierRun'[o] = carrierRun[o] /\ host'[Carrier!Site(o)] = None

interrupted(u) == u["stops"] + u["failures"] + u["blind"] + u["edits"] + u["unmanages"]

SharedNext ==
    /\ part = "shared" /\ Carrier!Next
    /\ Still(o3) /\ interrupted(carrierUsed') <= 1
    /\ UNCHANGED <<part, vars>>

ProjectNext ==
    /\ part = "project" /\ Carrier!Next
    /\ Still(o1) /\ Still(o2) /\ interrupted(carrierUsed') <= 3
    /\ UNCHANGED <<part, vars>>

disturbed(u) == u["edit"] + u["fault"] + u["cancel"] + u["crash"] + u["effect"]

(* One refresh, disturbed by any two events, and two undisturbed. *)
AloneNext ==
    /\ part = "alone" /\ Next
    /\ run'[r2] = run[r2] /\ disturbed(used') <= 2
    /\ UNCHANGED <<part, carrierVars>>

PairNext ==
    /\ part = "pair" /\ Next
    /\ disturbed(used') = 0
    /\ UNCHANGED <<part, carrierVars>>

WorkflowsNext == SharedNext \/ ProjectNext \/ AloneNext \/ PairNext

WorkflowsSpec == WorkflowsInit /\ [][WorkflowsNext]_<<part, carrierVars, vars>>

Symmetry == Permutations({o1, o2}) \cup Permutations({p1, p2})

-----------------------------------------------------------------------------
(* What daem installed, is about to remove or is about to change the pin of is on record,
   wherever a run stopped (carrier_absence.go, carrierclaim). *)
RelationsRecorded ==
    Carrier!TypeOK /\ Carrier!RemovalBacked /\ Carrier!Recorded /\ Carrier!PinAlone

(* No run takes a relation away from another manifest, or drops a reserved pin. *)
RelationsKept == Carrier!SharedKept /\ Carrier!PinKept

=============================================================================
