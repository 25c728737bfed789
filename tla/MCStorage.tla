-------------------------------- MODULE MCStorage --------------------------------
(* Four parts of daem that write to the disk with care: commits of single entries, the
   cache of sources, the cleanup of removals, and the retirement of journals.  They share
   no state, so a run that explores each of them beside the others at rest explores all
   they do. *)
EXTENDS JournalRetirement

CONSTANTS
    Old, Tree, New, theirs, Children, intruder, None, CommitLimit,      \* of StorageCommit
    Resolvers, Contents, Index, Damaged, Pinned, CacheLimit,         \* of SourceCache
    Count, Depth, Root, Owned, Size, Modes, DepthLimit, Capacity,
    CleanupLimit,                                                    \* of RemovalCleanup
    kid1, kid2, r1, r2, h1, h2           \* members of Children, Resolvers and Contents

VARIABLES
    at,   \* the part that runs
    dir, disks, payload, kids, op, touched, raced, disturbed, commitUsed,
    entry, record, served, res, cacheUsed,
    slots, mode, pc, place, found, fresh, pool, allotted, result, changed, spent

Commit ==
    INSTANCE StorageCommit WITH
        Foreign <- theirs, Alien <- intruder, Limit <- CommitLimit, used <- commitUsed

Cache == INSTANCE SourceCache WITH Limit <- CacheLimit, used <- cacheUsed

Removal ==
    INSTANCE RemovalCleanup WITH at <- place, Limit <- CleanupLimit

ASSUME StorageCommitAssumption == Commit!LimitAssumption /\ Commit!ObjectsAssumption
ASSUME SourceCacheAssumption ==
    Cache!KeyAssumption /\ Cache!PinnedAssumption /\ Cache!LimitAssumption
ASSUME RemovalCleanupAssumption == Removal!CleanupAssumption

(* A directory with two children. *)
EntryLimit == [begin |-> 2, fault |-> 2, foreign |-> 2, crash |-> 1]

(* Two processes resolve an object that the remote may serve in two ways. *)
ObjectLimit == [resolve |-> 3, replace |-> 1, damage |-> 1, fault |-> 1, crash |-> 1]

(* A file and a tree of one entry in a home directory of one component. *)
HomeDepth == <<2, 2>>
HomeRoot == <<1, 1>>
HomeOwned == <<"file", "tree">>
HomeSize == <<1, 1>>
HomeLimit == [runs |-> 2, faults |-> 2, strangers |-> 2]

(* Two commands that may apply and recover, and two journals in succession. *)
RetirementLimit == [publish |-> 2, promote |-> 1, crash |-> 1, fault |-> 1, tamper |-> 1]

commitVars == <<dir, disks, payload, kids, op, touched, raced, disturbed, commitUsed>>
cacheVars == <<entry, record, served, res, cacheUsed>>
cleanupVars == <<slots, mode, pc, place, found, fresh, pool, allotted, result, changed, spent>>

StorageInit ==
    /\ at \in {"commit", "cache", "cleanup", "retirement"}
    /\ Commit!Init /\ Cache!Init /\ Removal!Init /\ Init
    /\ at # "commit" => dir = Commit!Empty
    /\ at # "cleanup" => mode = "apply" /\ \A i \in 1 .. Count : slots[i] = Removal!Nothing

CommitNext == at = "commit" /\ Commit!Next /\ UNCHANGED <<at, cacheVars, cleanupVars, vars>>

CacheNext == at = "cache" /\ Cache!Next /\ UNCHANGED <<at, commitVars, cleanupVars, vars>>

CleanupNext == at = "cleanup" /\ Removal!Next /\ UNCHANGED <<at, commitVars, cacheVars, vars>>

(* A journal is tampered with or an operation fails, not both. *)
RetirementNext ==
    /\ at = "retirement"
    /\ Next
    /\ used'["tamper"] + used'["fault"] <= 1
    /\ UNCHANGED <<at, commitVars, cacheVars, cleanupVars>>

StorageNext == CommitNext \/ CacheNext \/ CleanupNext \/ RetirementNext

StorageSpec ==
    StorageInit /\ [][StorageNext]_<<at, commitVars, cacheVars, cleanupVars, vars>>

-----------------------------------------------------------------------------
(* What the caller of a commit is told holds and survives a power failure, and no power
   failure leaves half an entry (storage/commit: Outcome, publication and removal). *)
CommitTruthful ==
    at = "commit" => Commit!TypeOK /\ Commit!OutcomeTruthful /\ Commit!AllOrNothing

(* Neither a commit nor a cleanup destroys what another program has put in its way. *)
ForeignKept == Commit!ForeignKept /\ Removal!AlienKept

(* The cleanup of removals starts when all of them are ready, and says that it is done when
   nothing is left (removaloperation). *)
CleanupSound ==
    at = "cleanup" => Removal!Typed /\ Removal!ReadyFirst /\ Removal!DischargedClean

(* What a resolution returns stays what was hashed, and of two that work on an entry
   under a replaced lock record only one ends well (source/cache, s3object). *)
CacheSound ==
    at = "cache" => Cache!TypeOK /\ Cache!Genuine /\ Cache!OneSuccess

=============================================================================
