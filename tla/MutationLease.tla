------------------------------ MODULE MutationLease ------------------------------
(***************************************************************************)
(* Mutation leases: how operations lock all the records of their domains    *)
(* (internal/effect/mutation: Store.Acquire, LeaseSet, the lease namespace   *)
(* and the process lease registry).                                         *)
(*                                                                         *)
(* An owner is one LeaseSet: a goroutine of some process that acquires.     *)
(* Within a process the registry hands one flock on a record to all who     *)
(* share it; between processes the kernel decides, by the file that was     *)
(* opened.  Processes may die, waiting may be cancelled or time out, and     *)
(* somebody may delete or replace a lock record.                            *)
(***************************************************************************)
EXTENDS LeaseDomains, Naturals

CONSTANTS
    Owners,     \* lease sets
    Processes,
    ProcessOf,  \* the process of each owner
    NoOwner,
    Requests,   \* sets of domains that are asked for
    Rank,       \* the order of the keys
    Limit       \* how often each kind of event may happen

Events == {"acquire", "crash", "giveup", "replace"}

ASSUME OwnerAssumption == /\ ProcessOf \in [Owners -> Processes]
                          /\ NoOwner \notin Owners
ASSUME RequestAssumption == Requests \subseteq (SUBSET Domains) \ {{}}
ASSUME RankAssumption == /\ Rank \in [Keys -> Nat]
                         /\ \A k, l \in Keys : Rank[k] = Rank[l] => k = l
ASSUME LimitAssumption == Limit \in [Events -> Nat]

VARIABLES
    record,    \* the file that is the lock record of each key
    flock,     \* per process and key, the lock it has
    registry,  \* per process and key, the process lease state
    set,       \* the lease sets
    used       \* events so far

vars == <<record, flock, registry, set, used>>

Unlocked == [locked |-> FALSE]

Locks == {Unlocked} \cup [locked : {TRUE}, file : Nat, access : Access]

(* unixProcessLeaseState: who is calling flock, who shares the lock, who is using
   the state at all. *)
States == [acquiring : Owners \cup {NoOwner}, holders : SUBSET Owners,
           references : SUBSET Owners]

NoState == [acquiring |-> NoOwner, holders |-> {}, references |-> {}]

(* `key' and `file' are the record being acquired; `lost' are records that were
   replaced while the set held them (no code keeps track of that). *)
Phases == {"idle", "open", "enter", "asleep", "flock", "verify", "held", "release"}

SetType == [phase : Phases, domains : SUBSET Domains, need : [Keys -> Access \cup {"none"}],
            held : SUBSET Keys, key : Keys, file : Nat, lost : SUBSET Keys]

TypeOK ==
    /\ record \in [Keys -> Nat]
    /\ flock \in [Processes -> [Keys -> Locks]]
    /\ registry \in [Processes -> [Keys -> States]]
    /\ set \in [Owners -> SetType]
    /\ used \in [Events -> Nat]

NewSet == [phase |-> "idle", domains |-> {}, need |-> normalize({}), held |-> {},
           key |-> pathKey(StoreRoot), file |-> 0, lost |-> {}]

Init ==
    /\ record = [k \in Keys |-> 0]
    /\ flock = [p \in Processes |-> [k \in Keys |-> Unlocked]]
    /\ registry = [p \in Processes |-> [k \in Keys |-> NoState]]
    /\ set = [o \in Owners |-> NewSet]
    /\ used = [e \in Events |-> 0]

-----------------------------------------------------------------------------

Spend(e) == /\ used[e] < Limit[e]
            /\ used' = [used EXCEPT ![e] = @ + 1]

At(o, phase) == set[o].phase = phase

state(o) == registry[ProcessOf[o]][set[o].key]

lockOf(o) == flock[ProcessOf[o]][set[o].key]

wanted(o) == set[o].need[set[o].key]

missing(o) == {k \in Keys : set[o].need[k] # "none"} \ set[o].held

first(k, S) == k \in S /\ \A l \in S : Rank[k] <= Rank[l]

last(k, S) == k \in S /\ \A l \in S : Rank[l] <= Rank[k]

(* signalLocked: everyone who sleeps on the state of a key looks again. *)
signalled(p, k) ==
    {o \in Owners : ProcessOf[o] = p /\ At(o, "asleep") /\ set[o].key = k}

Woken(p, k) == [o \in Owners |-> IF o \in signalled(p, k)
                                 THEN [set[o] EXCEPT !.phase = "enter"] ELSE set[o]]

Update(o, new) == registry' = [registry EXCEPT ![ProcessOf[o]][set[o].key] = new]

-----------------------------------------------------------------------------
(* Store.Acquire *)

BeginAcquire(o) ==
    /\ At(o, "idle")
    /\ Spend("acquire")
    /\ \E D \in Requests :
           /\ admissible(D)
           /\ set' = [set EXCEPT ![o] = [NewSet EXCEPT !.phase = "open", !.domains = D,
                                                       !.need = normalize(D)]]
    /\ UNCHANGED <<record, flock, registry>>

(* The next record in the order of the keys is opened, and created if need be. *)
OpenRecord(o) ==
    /\ At(o, "open")
    /\ \E k \in Keys :
           /\ first(k, missing(o))
           /\ set' = [set EXCEPT ![o].phase = "enter", ![o].key = k, ![o].file = record[k]]
    /\ UNCHANGED <<record, flock, registry, used>>

free(o) == state(o).acquiring = NoOwner /\ state(o).holders = {}

shareable(o) ==
    /\ state(o).acquiring = NoOwner
    /\ state(o).holders # {}
    /\ lockOf(o).access = "shared"
    /\ wanted(o) = "shared"

(* The loop of registry.acquire: be the one who calls flock, share the lock that
   the process has, or sleep until the state changes. *)
EnterFlock(o) ==
    /\ At(o, "enter")
    /\ free(o)
    /\ Update(o, [state(o) EXCEPT !.acquiring = o, !.references = @ \cup {o}])
    /\ set' = [set EXCEPT ![o].phase = "flock"]
    /\ UNCHANGED <<record, flock, used>>

EnterShare(o) ==
    /\ At(o, "enter")
    /\ shareable(o)
    /\ lockOf(o).file = set[o].file
    /\ Update(o, [state(o) EXCEPT !.holders = @ \cup {o}, !.references = @ \cup {o}])
    /\ set' = [set EXCEPT ![o].phase = "verify"]
    /\ UNCHANGED <<record, flock, used>>

(* The record was replaced since the process locked it. *)
RefuseShare(o) ==
    /\ At(o, "enter")
    /\ shareable(o)
    /\ lockOf(o).file # set[o].file
    /\ Update(o, [state(o) EXCEPT !.references = @ \ {o}])
    /\ set' = [set EXCEPT ![o].phase = "release"]
    /\ UNCHANGED <<record, flock, used>>

EnterSleep(o) ==
    /\ At(o, "enter")
    /\ ~free(o)
    /\ ~shareable(o)
    /\ Update(o, [state(o) EXCEPT !.references = @ \cup {o}])
    /\ set' = [set EXCEPT ![o].phase = "asleep"]
    /\ UNCHANGED <<record, flock, used>>

(* The kernel: locks of the same file by other processes. *)
grantable(o) ==
    \A p \in Processes \ {ProcessOf[o]} :
        LET lock == flock[p][set[o].key]
        IN ~(lock.locked /\ lock.file = set[o].file /\ "exclusive" \in {lock.access, wanted(o)})

(* Mutant: the mode of the lock is not recorded. *)
LockWithoutMode(o) ==
    /\ At(o, "flock")
    /\ grantable(o)
    /\ flock' = [flock EXCEPT ![ProcessOf[o]][set[o].key] =
                    [locked |-> TRUE, file |-> set[o].file, access |-> "none"]]
    /\ Update(o, [state(o) EXCEPT !.acquiring = NoOwner, !.holders = {o}])
    /\ set' = [Woken(ProcessOf[o], set[o].key) EXCEPT ![o].phase = "verify"]
    /\ UNCHANGED <<record, used>>

(* Mutant: those who sleep are not woken when the lock is there to share. *)
LockSilently(o) ==
    /\ At(o, "flock")
    /\ grantable(o)
    /\ flock' = [flock EXCEPT ![ProcessOf[o]][set[o].key] =
                    [locked |-> TRUE, file |-> set[o].file, access |-> wanted(o)]]
    /\ Update(o, [state(o) EXCEPT !.acquiring = NoOwner, !.holders = {o}])
    /\ set' = [set EXCEPT ![o].phase = "verify"]
    /\ UNCHANGED <<record, used>>

LockRecord(o) ==
    /\ At(o, "flock")
    /\ grantable(o)
    /\ flock' = [flock EXCEPT ![ProcessOf[o]][set[o].key] =
                    [locked |-> TRUE, file |-> set[o].file, access |-> wanted(o)]]
    /\ Update(o, [state(o) EXCEPT !.acquiring = NoOwner, !.holders = {o}])
    /\ set' = [Woken(ProcessOf[o], set[o].key) EXCEPT ![o].phase = "verify"]
    /\ UNCHANGED <<record, used>>

(* Mutant: every holder unlocks. *)
UnlockAlways(o, k, next) ==
    /\ registry' = [registry EXCEPT ![ProcessOf[o]][k].holders = @ \ {o},
                                    ![ProcessOf[o]][k].references = @ \ {o}]
    /\ flock' = [flock EXCEPT ![ProcessOf[o]][k] = Unlocked]
    /\ set' = [Woken(ProcessOf[o], k) EXCEPT ![o] = next]

(* Mutant: those who sleep are not woken when the last holder unlocks. *)
UnlockSilently(o, k, next) ==
    /\ registry' = [registry EXCEPT ![ProcessOf[o]][k].holders = @ \ {o},
                                    ![ProcessOf[o]][k].references = @ \ {o}]
    /\ IF registry[ProcessOf[o]][k].holders = {o}
       THEN flock' = [flock EXCEPT ![ProcessOf[o]][k] = Unlocked]
       ELSE UNCHANGED flock
    /\ set' = [set EXCEPT ![o] = next]

(* registry.release: the last holder unlocks. *)
Unlock(o, k, next) ==
    LET p    == ProcessOf[o]
        rest == registry[p][k].holders \ {o}
    IN /\ registry' = [registry EXCEPT ![p][k].holders = rest,
                                       ![p][k].references = @ \ {o}]
       /\ IF rest = {}
          THEN /\ flock' = [flock EXCEPT ![p][k] = Unlocked]
               /\ set' = [Woken(p, k) EXCEPT ![o] = next]
          ELSE /\ UNCHANGED flock
               /\ set' = [set EXCEPT ![o] = next]

(* Mutant: the record is not looked at again once it is locked. *)
VerifyNothing(o) ==
    /\ At(o, "verify")
    /\ set' = [set EXCEPT ![o].held = @ \cup {set[o].key},
                          ![o].phase = IF missing(o) = {set[o].key} THEN "held" ELSE "open"]
    /\ UNCHANGED <<record, flock, registry, used>>

(* A locked record counts only if it still is the record of its key. *)
VerifyRecord(o) ==
    /\ At(o, "verify")
    /\ record[set[o].key] = set[o].file
    /\ set' = [set EXCEPT ![o].held = @ \cup {set[o].key},
                          ![o].phase = IF missing(o) = {set[o].key} THEN "held" ELSE "open"]
    /\ UNCHANGED <<record, flock, registry, used>>

RefuseRecord(o) ==
    /\ At(o, "verify")
    /\ record[set[o].key] # set[o].file
    /\ Unlock(o, set[o].key, [set[o] EXCEPT !.phase = "release"])
    /\ UNCHANGED <<record, used>>

(* Cancellation, a record that cannot be opened or locked, or the wait has taken too
   long: everything is given back. *)
GiveUp(o) ==
    /\ set[o].phase \in {"open", "enter", "asleep", "flock"}
    /\ Spend("giveup")
    /\ IF At(o, "open") THEN UNCHANGED registry
       ELSE Update(o, [state(o) EXCEPT !.references = @ \ {o},
                                       !.acquiring = IF @ = o THEN NoOwner ELSE @])
    /\ set' = [IF At(o, "flock") THEN Woken(ProcessOf[o], set[o].key) ELSE set
               EXCEPT ![o].phase = "release"]
    /\ UNCHANGED <<record, flock>>

-----------------------------------------------------------------------------
(* LeaseSet.Release: in reverse order. *)

BeginRelease(o) ==
    /\ At(o, "held")
    /\ set' = [set EXCEPT ![o].phase = "release"]
    /\ UNCHANGED <<record, flock, registry, used>>

ReleaseRecord(o) ==
    /\ At(o, "release")
    /\ \E k \in Keys :
           /\ last(k, set[o].held)
           /\ Unlock(o, k, [set[o] EXCEPT !.held = @ \ {k}])
    /\ UNCHANGED <<record, used>>

FinishRelease(o) ==
    /\ At(o, "release")
    /\ set[o].held = {}
    /\ set' = [set EXCEPT ![o] = NewSet]
    /\ UNCHANGED <<record, flock, registry, used>>

-----------------------------------------------------------------------------

(* A process dies, and with it its locks. *)
Crash(p) ==
    /\ \E o \in Owners : ProcessOf[o] = p /\ ~At(o, "idle")
    /\ Spend("crash")
    /\ flock' = [flock EXCEPT ![p] = [k \in Keys |-> Unlocked]]
    /\ registry' = [registry EXCEPT ![p] = [k \in Keys |-> NoState]]
    /\ set' = [o \in Owners |-> IF ProcessOf[o] = p THEN NewSet ELSE set[o]]
    /\ UNCHANGED record

opened(o) == IF set[o].phase \in {"enter", "asleep", "flock", "verify"}
             THEN set[o].held \cup {set[o].key} ELSE set[o].held

(* Somebody removes a lock record that is in use; the next one to open it creates
   another. *)
ReplaceRecord(k) ==
    /\ \E o \in Owners : k \in opened(o)
    /\ Spend("replace")
    /\ record' = [record EXCEPT ![k] = @ + 1]
    /\ set' = [o \in Owners |-> IF k \in set[o].held
                                 THEN [set[o] EXCEPT !.lost = @ \cup {k}] ELSE set[o]]
    /\ UNCHANGED <<flock, registry>>

Progress(o) ==
    \/ OpenRecord(o) \/ EnterFlock(o) \/ EnterShare(o) \/ RefuseShare(o) \/ EnterSleep(o)
    \/ LockRecord(o) \/ VerifyRecord(o) \/ RefuseRecord(o)
    \/ BeginRelease(o) \/ ReleaseRecord(o) \/ FinishRelease(o)

Next ==
    \/ \E o \in Owners : BeginAcquire(o) \/ Progress(o) \/ GiveUp(o)
    \/ \E p \in Processes : Crash(p)
    \/ \E k \in Keys : ReplaceRecord(k)

Spec == Init /\ [][Next]_vars

(* The polling loop and the registry do not stop, and operations end. *)
FairSpec == Spec /\ \A o \in Owners : WF_vars(Progress(o))

-----------------------------------------------------------------------------
(* Properties. *)

(* The keys that an owner has locked, verified or not. *)
locked(o) == {k \in Keys : o \in registry[ProcessOf[o]][k].holders}

(* Two operations never both hold conflicting domains: not in one process in any
   case, and not in two unless a record that one of them held was replaced under it. *)
Exclusion ==
    \A o, other \in Owners :
        /\ o # other
        /\ At(o, "held") /\ At(other, "held")
        /\ conflicting(set[o].domains, set[other].domains)
        => /\ ProcessOf[o] # ProcessOf[other]
           /\ contended(set[o].domains, set[other].domains) \cap
                  (set[o].lost \cup set[other].lost) # {}

backed(o) ==
    /\ locked(o) = set[o].held \cup (IF At(o, "verify") THEN {set[o].key} ELSE {})
    /\ \A k \in locked(o) :
           /\ flock[ProcessOf[o]][k].locked
           /\ flock[ProcessOf[o]][k].access = set[o].need[k]

counted(p, k) ==
    /\ flock[p][k].locked = (registry[p][k].holders # {})
    /\ registry[p][k].holders \subseteq registry[p][k].references

(* Nobody loses a lock, keeps one too many or releases another's: an owner's process
   has the records the owner counts as held, in the mode it needs, and no others.
   (registry.release would fail, or the flock be gone under a holder.) *)
Backed ==
    /\ \A o \in Owners : backed(o)
    /\ \A p \in Processes, k \in Keys : counted(p, k)

(* Nobody sleeps while the state it sleeps on would let it go on. *)
NoMissedSignal ==
    \A o \in Owners : At(o, "asleep") => ~free(o) /\ ~shareable(o)

(* What the above rests on. *)

acquiring(o) == set[o].phase \in {"enter", "asleep", "flock", "verify"}

needy(o) ==
    /\ set[o].need = normalize(set[o].domains)
    /\ set[o].held \subseteq {k \in Keys : set[o].need[k] # "none"}
    /\ acquiring(o) => set[o].key \in missing(o)
    /\ At(o, "held") => missing(o) = {}
    /\ At(o, "idle") => set[o].held = {}

(* A set locks what its domains need, one missing record at a time. *)
Needed == \A o \in Owners : needy(o)

serialized(p, k) ==
    LET lease == registry[p][k]
    IN /\ \A o \in lease.holders : ProcessOf[o] = p
       /\ lease.acquiring # NoOwner => /\ lease.holders = {}
                                   /\ lease.acquiring \in lease.references
                                   /\ ProcessOf[lease.acquiring] = p
                                   /\ At(lease.acquiring, "flock")
                                   /\ set[lease.acquiring].key = k

(* One goroutine of a process calls flock on a record, and while nobody holds it. *)
Serialized ==
    /\ \A o \in Owners : At(o, "flock") => state(o).acquiring = o
    /\ \A p \in Processes, k \in Keys : serialized(p, k)

compatible(p, q, k) ==
    /\ flock[p][k].locked /\ flock[q][k].locked
    /\ flock[p][k].file = flock[q][k].file
    => flock[p][k].access = "shared"

(* A record is locked alone by one owner, or shared by all. *)
Alone ==
    /\ \A p \in Processes, k \in Keys :
           flock[p][k].locked /\ flock[p][k].access = "exclusive"
           => \A o, other \in registry[p][k].holders : o = other
    /\ \A p, q \in Processes, k \in Keys : p # q => compatible(p, q, k)

current(o) ==
    /\ \A k \in set[o].held \ set[o].lost : flock[ProcessOf[o]][k].file = record[k]
    /\ At(o, "verify") => lockOf(o).file = set[o].file

(* A held record that was not replaced is the record of its key. *)
Current == \A o \in Owners : current(o)

(* The inductive invariant. *)
Inv == /\ TypeOK
       /\ Needed
       /\ Serialized
       /\ Backed
       /\ Alone
       /\ Current
       /\ NoMissedSignal

(* Nobody waits for ever, without any timeout: records are locked in one order, and
   every change of a state wakes those who sleep on it. *)
EventuallyReleased == \A o \in Owners : ~At(o, "idle") ~> At(o, "idle")

=============================================================================
