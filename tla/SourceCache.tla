------------------------------- MODULE SourceCache -------------------------------
(***************************************************************************)
(* The shared cache of fetched sources (internal/supply/source/cache) as     *)
(* the S3 resolver uses it for one object.                                  *)
(*                                                                         *)
(* An index entry says which content a version had; the content is an        *)
(* entry of its own, named by its hash.  Several processes resolve at once.  *)
(* Each works on an entry under an advisory lock on the entry's lock record: *)
(* it verifies the entry, removes one it owns but that is invalid, copies a   *)
(* private stage into place without replacing anything, and verifies again.  *)
(* Somebody may damage an entry, put something of their own in its place, or *)
(* replace a lock record while it is held.                                  *)
(***************************************************************************)
EXTENDS Naturals

CONSTANTS
    Resolvers,
    Contents,   \* the hashes of what the remote may serve
    Index,      \* the key of the index entry
    Damaged,    \* content that has no hash anybody knows
    Pinned,     \* whether the source names a version, which the index may remember
    Limit       \* how often each kind of event may happen

Events == {"resolve", "replace", "damage", "fault", "crash"}

(* Nothing else is taken for a hash. *)
KeyAssumption ==
    /\ Index \notin Contents /\ Damaged \notin Contents
    /\ "none" \notin Contents /\ "error" \notin Contents
PinnedAssumption == Pinned \in BOOLEAN
LimitAssumption == Limit \in [Events -> Nat]

Keys == Contents \cup {Index}

VARIABLES
    entry,     \* what is cached under each key
    record,    \* the file that is the lock record of each key
    served,    \* the contents the remote has served
    res,       \* the resolvers
    used       \* events so far

vars == <<entry, record, served, res, used>>

(* An entry with a completion record for its key says what content it has.  (The
   content of the index entry is a hash.)  A directory without one is somebody else's. *)
Missing == [kind |-> "missing"]
Own(claims, content) == [kind |-> "own", claims |-> claims, content |-> content]
Alien == [kind |-> "alien"]

Entries == {Missing, Alien} \cup {Own(c, d) : c \in Contents, d \in Contents \cup {Damaged}}

(* rootedEntryState, for a specification that expects some content (of a content
   key, its own) or accepts any. *)
stateOf(e, accepts) ==
    IF e = Missing THEN "missing"
    ELSE IF e = Alien THEN "unknown"
    ELSE IF e.claims \in accepts /\ e.content = e.claims THEN "valid" ELSE "owned invalid"

-----------------------------------------------------------------------------

Steps == {"idle", "open index", "lock index", "lookup", "open artifact", "lock artifact",
          "verify", "check hit", "retire index", "fetch", "open publish", "lock publish", "place",
          "remove", "commit", "confirm", "lost", "check published", "index place",
          "index remove", "index commit", "leave", "return"}

NoContent == "none"

(* `file' is the lock record that was opened for the key, for the index and for the
   content; `locked' the keys whose lock is held; `content' the hash being resolved;
   `beaten' (history) are the keys on which another resolver's work ended well while
   this one was at work under its lock; `touched' (history), whether somebody has put
   their hands on its content since it last looked.
   `result' is what the last resolution returned. *)
ResolverType ==
    [step : Steps, content : Contents \cup {NoContent}, file : [Keys -> Nat],
     locked : SUBSET Keys, beaten : SUBSET Keys, touched : BOOLEAN,
     result : Contents \cup {NoContent, "error"}]

NewResolver == [step |-> "idle", content |-> NoContent, file |-> [k \in Keys |-> 0],
                locked |-> {}, beaten |-> {}, touched |-> FALSE, result |-> NoContent]

TypeOK ==
    /\ entry \in [Keys -> Entries]
    /\ record \in [Keys -> Nat]
    /\ served \subseteq Contents
    /\ res \in [Resolvers -> ResolverType]
    /\ used \in [Events -> Nat]

Init ==
    /\ entry = [k \in Keys |-> Missing]
    /\ record = [k \in Keys |-> 0]
    /\ served = {}
    /\ res = [r \in Resolvers |-> NewResolver]
    /\ used = [e \in Events |-> 0]

Spend(e) == /\ used[e] < Limit[e]
            /\ used' = [used EXCEPT ![e] = @ + 1]

At(r, step) == res[r].step = step

GoTo(r, step) == res' = [res EXCEPT ![r].step = step]

(* The lock of a key is still that of the record under its name. *)
lockValid(r, k) == record[k] = res[r].file[k]

(* An error unwinds through the locks that are held. *)
Fail(r) == res' = [res EXCEPT ![r] = [NewResolver EXCEPT !.result = "error"]]

-----------------------------------------------------------------------------
(* Locks *)

(* openRecord *)
Open(r, step, k, next) ==
    /\ At(r, step)
    /\ res' = [res EXCEPT ![r].step = next, ![r].file[k] = record[k]]
    /\ UNCHANGED <<entry, record, served, used>>

(* Mutant: the lock is taken without asking who has it. *)
anyGrantable(r, k) == TRUE

grantable(r, k) ==
    \A q \in Resolvers \ {r} : k \in res[q].locked => res[q].file[k] # res[r].file[k]

(* tryAcquire polls until flock succeeds; then the record must still be the one
   under its name. *)
Lock(r, step, k, next) ==
    /\ At(r, step) /\ grantable(r, k)
    /\ IF lockValid(r, k)
       THEN res' = [res EXCEPT ![r].step = next, ![r].locked = @ \cup {k}]
       ELSE Fail(r)
    /\ UNCHANGED <<entry, record, served, used>>

(* Mutant: a body that went well is not followed by a look at the record. *)
UnlockUnchecked(r, k, next) ==
    res' = [q \in Resolvers |->
               IF q = r THEN [res[r] EXCEPT !.step = next, !.locked = @ \ {k}, !.beaten = @ \ {k}]
               ELSE IF k \in res[q].locked THEN [res[q] EXCEPT !.beaten = @ \cup {k}]
               ELSE res[q]]

(* The lock body is over: the record must still be there, then the lock is freed.
   With an error the caller fails as well. *)
Unlock(r, k, next) ==
    IF lockValid(r, k)
    THEN res' = [q \in Resolvers |->
                    IF q = r THEN [res[r] EXCEPT !.step = next, !.locked = @ \ {k}, !.beaten = @ \ {k}]
                    ELSE IF k \in res[q].locked THEN [res[q] EXCEPT !.beaten = @ \cup {k}]
                    ELSE res[q]]
    ELSE Fail(r)

Begin(r) ==
    /\ At(r, "idle") /\ Spend("resolve")
    /\ res' = [res EXCEPT ![r] = [NewResolver EXCEPT !.step = IF Pinned THEN "open index"
                                                             ELSE "fetch"]]
    /\ UNCHANGED <<entry, record, served>>

OpenIndex(r) == Open(r, "open index", Index, "lock index")
LockIndex(r) == Lock(r, "lock index", Index, "lookup")

-----------------------------------------------------------------------------
(* resolveImmutableLocked: from the cache *)

(* Mutant: the hash in an index entry is used though the entry is damaged. *)
LookupUnchecked(r) ==
    /\ At(r, "lookup")
    /\ LET e == entry[Index]
       IN  IF e.kind = "own"
           THEN res' = [res EXCEPT ![r].step = "open artifact", ![r].content = e.content]
           ELSE GoTo(r, IF e = Missing THEN "fetch" ELSE "retire index")
    /\ UNCHANGED <<entry, record, served, used>>

Lookup(r) ==
    /\ At(r, "lookup")
    /\ LET e == entry[Index]
       IN  IF stateOf(e, Contents) = "valid"
           THEN res' = [res EXCEPT ![r].step = "open artifact", ![r].content = e.content]
           ELSE GoTo(r, IF e = Missing THEN "fetch" ELSE "retire index")
    /\ UNCHANGED <<entry, record, served, used>>

(* An index entry that cannot be read is removed, whoever put it there. *)
RetireIndex(r) ==
    /\ At(r, "retire index")
    /\ entry' = [entry EXCEPT ![Index] = Missing]
    /\ GoTo(r, "fetch")
    /\ UNCHANGED <<record, served, used>>

OpenArtifact(r) == Open(r, "open artifact", res[r].content, "lock artifact")
LockArtifact(r) == Lock(r, "lock artifact", res[r].content, "verify")

(* verifyImmutableLookupArtifact; an artifact that is no longer what the index says
   is fetched again. *)
Verify(r) ==
    /\ At(r, "verify")
    /\ LET k == res[r].content
       IN  Unlock(r, k, IF stateOf(entry[k], {k}) = "valid" THEN "check hit" ELSE "fetch")
    /\ UNCHANGED <<entry, record, served, used>>

(* Of a hit the content is fetched again; of what was just fetched this is an error. *)
CheckFailed(r) == IF At(r, "check hit") THEN GoTo(r, "fetch") ELSE Fail(r)

(* Mutant: what was verified under the lock is not hashed again after it. *)
TrustVerified(r, step, next) ==
    /\ At(r, step)
    /\ IF entry[res[r].content] = Missing THEN CheckFailed(r)
       ELSE res' = [res EXCEPT ![r].step = next, ![r].touched = FALSE]
    /\ UNCHANGED <<entry, record, served, used>>

(* resolutionFromMaterialized hashes the content once more, without a lock on it. *)
Check(r, step, next) ==
    /\ At(r, step)
    /\ LET e == entry[res[r].content]
       IN  IF e.kind = "own" /\ e.content = res[r].content
           THEN res' = [res EXCEPT ![r].step = next, ![r].touched = FALSE]
           ELSE CheckFailed(r)
    /\ UNCHANGED <<entry, record, served, used>>

CheckHit(r) == Check(r, "check hit", "leave")

-----------------------------------------------------------------------------
(* ... from the remote *)

(* PrepareDirectory builds a private stage and hashes it. *)
Fetch(r) ==
    /\ At(r, "fetch")
    /\ \/ \E c \in Contents :
              /\ served' = served \cup {c}
              /\ res' = [res EXCEPT ![r].step = "open publish", ![r].content = c]
       \/ Fail(r) /\ UNCHANGED served
    /\ UNCHANGED <<entry, record, used>>

OpenPublish(r) == Open(r, "open publish", res[r].content, "lock publish")
LockPublish(r) == Lock(r, "lock publish", res[r].content, "place")

(* prepareRootedDestination *)
Place(r) ==
    /\ At(r, "place")
    /\ LET k == res[r].content
           state == stateOf(entry[k], {k})
       IN  \/ state = "valid" /\ Unlock(r, k, "check published")
           \/ state = "missing" /\ GoTo(r, "commit")
           \/ state = "owned invalid" /\ GoTo(r, "remove")
           \/ state = "unknown" /\ Fail(r)
    /\ UNCHANGED <<entry, record, served, used>>

(* retireRootedDirectory removes what has the name now. *)
Remove(r) ==
    /\ At(r, "remove")
    /\ entry' = [entry EXCEPT ![res[r].content] = Missing]
    /\ GoTo(r, "commit")
    /\ UNCHANGED <<record, served, used>>

(* The copy of the stage is renamed into place unless something is there. *)
Commit(r) ==
    /\ At(r, "commit")
    /\ LET k == res[r].content
       IN  IF entry[k] = Missing
           THEN entry' = [entry EXCEPT ![k] = Own(k, k)] /\ GoTo(r, "confirm")
           ELSE UNCHANGED entry /\ GoTo(r, "lost")
    /\ UNCHANGED <<record, served, used>>

(* A publisher that lost the race takes the winner's entry, if it is valid. *)
LostRace(r) ==
    /\ At(r, "lost")
    /\ LET k == res[r].content
       IN  IF stateOf(entry[k], {k}) = "valid" THEN Unlock(r, k, "check published") ELSE Fail(r)
    /\ UNCHANGED <<entry, record, served, used>>

Confirm(r) ==
    /\ At(r, "confirm")
    /\ LET k == res[r].content
       IN  IF stateOf(entry[k], {k}) = "valid" THEN Unlock(r, k, "check published") ELSE Fail(r)
    /\ UNCHANGED <<entry, record, served, used>>

CheckPublished(r) == Check(r, "check published", IF Pinned THEN "index place" ELSE "return")

(* immutableLookupIndex.publish: the record must be exactly this one.  What goes
   wrong with it is passed over, unless it is about the cache's own paths. *)
IndexPlace(r) ==
    /\ At(r, "index place")
    /\ LET state == stateOf(entry[Index], {res[r].content})
       IN  GoTo(r, IF state = "missing" THEN "index commit"
                   ELSE IF state = "owned invalid" THEN "index remove" ELSE "leave")
    /\ UNCHANGED <<entry, record, served, used>>

IndexRemove(r) ==
    /\ At(r, "index remove")
    /\ entry' = [entry EXCEPT ![Index] = Missing]
    /\ GoTo(r, "index commit")
    /\ UNCHANGED <<record, served, used>>

IndexCommit(r) ==
    /\ At(r, "index commit")
    /\ LET c == res[r].content
       IN  IF entry[Index] = Missing
           THEN entry' = [entry EXCEPT ![Index] = Own(c, c)] /\ GoTo(r, "leave")
           ELSE /\ IF entry[Index] = Own(c, c) THEN GoTo(r, "leave") ELSE Fail(r)
                /\ UNCHANGED entry
    /\ UNCHANGED <<record, served, used>>

Leave(r) ==
    /\ At(r, "leave")
    /\ Unlock(r, Index, "return")
    /\ UNCHANGED <<entry, record, served, used>>

ReturnResult(r) ==
    /\ At(r, "return")
    /\ res' = [res EXCEPT ![r] = [NewResolver EXCEPT !.result = res[r].content]]
    /\ UNCHANGED <<entry, record, served, used>>

-----------------------------------------------------------------------------
(* Faults and other people *)

(* A commit or a removal fails, whether it happened or not. *)
Fault(r) ==
    /\ res[r].step \in {"retire index", "remove", "commit", "index remove", "index commit"}
    /\ Spend("fault")
    /\ LET k == IF res[r].step \in {"remove", "commit"} THEN res[r].content ELSE Index
           done == IF res[r].step \in {"retire index", "remove", "index remove"} THEN Missing
                   ELSE IF entry[k] = Missing THEN Own(res[r].content, res[r].content)
                   ELSE entry[k]
       IN  entry' \in {entry, [entry EXCEPT ![k] = done]}
    /\ Fail(r)
    /\ UNCHANGED <<record, served>>

Crash(r) ==
    /\ ~At(r, "idle")
    /\ Spend("crash")
    /\ res' = [res EXCEPT ![r] = NewResolver]
    /\ UNCHANGED <<entry, record, served>>

Damage(k) ==
    /\ Spend("damage")
    /\ \/ /\ entry[k].kind = "own"
          /\ entry' = [entry EXCEPT ![k].content = Damaged]
       \/ entry' = [entry EXCEPT ![k] = Alien]
    /\ res' = [r \in Resolvers |-> [res[r] EXCEPT !.touched = @ \/ res[r].content = k]]
    /\ UNCHANGED <<record, served>>

ReplaceRecord(k) ==
    /\ Spend("replace")
    /\ record' = [record EXCEPT ![k] = @ + 1]
    /\ UNCHANGED <<entry, served, res>>

Hit(r) == OpenIndex(r) \/ Lookup(r) \/ RetireIndex(r) \/ OpenArtifact(r) \/ Verify(r) \/ CheckHit(r)

PublishEntry(r) ==
    \/ OpenPublish(r) \/ Place(r) \/ Remove(r) \/ Commit(r) \/ LostRace(r)
    \/ Confirm(r) \/ CheckPublished(r)

PublishIndex(r) == IndexPlace(r) \/ IndexRemove(r) \/ IndexCommit(r) \/ Leave(r) \/ ReturnResult(r)

Acquire(r) == LockIndex(r) \/ LockArtifact(r) \/ LockPublish(r)

Work(r) == Hit(r) \/ Fetch(r) \/ PublishEntry(r) \/ PublishIndex(r)

Next ==
    \/ \E r \in Resolvers : Begin(r) \/ Acquire(r) \/ Work(r) \/ Fault(r) \/ Crash(r)
    \/ \E k \in Keys : Damage(k) \/ ReplaceRecord(k)

Spec == Init /\ [][Next]_vars

-----------------------------------------------------------------------------
(* Properties *)

(* What is resolved is content that the remote served for this version, and from the
   resolver's last look at it until it returns it stays there under its hash, unless
   somebody else damages it or the locks are undermined: no other resolver takes it
   away, and an entry that was damaged before costs a fetch or an error. *)
Genuine ==
    \A r \in Resolvers :
        /\ res[r].result \in Contents => res[r].result \in served
        /\ (/\ res[r].step \in {"index place", "index remove", "index commit", "leave", "return"}
            /\ ~res[r].touched /\ used["replace"] = 0)
               => stateOf(entry[res[r].content], {res[r].content}) = "valid"

(* As long as nobody touches the lock records, a resolver removes no valid entry. *)
keptByResolvers ==
    \A k \in Contents :
        (stateOf(entry[k], {k}) = "valid" /\ used'["replace"] = 0 /\ used' = used)
            => entry'[k] = entry[k]

ValidKept == [][keptByResolvers]_vars

(* Replacing a lock record lets two resolvers work on one entry at once, but once the
   work of one has ended well the other's can only end in an error. *)
OneSuccess ==
    \A r \in Resolvers : \A k \in res[r].beaten : k \in res[r].locked => ~lockValid(r, k)

-----------------------------------------------------------------------------
(* What holds at every step, from which the properties follow. *)

unreplaced == used["replace"] = 0
valid(c) == stateOf(entry[c], {c}) = "valid"

(* The steps of a resolution that has an index, those that know the content and those
   that follow the last look at it. *)
Indexed == {"open index", "lock index", "lookup", "open artifact", "lock artifact", "verify",
            "check hit", "retire index", "index place", "index remove", "index commit", "leave"}
Resolved == Steps \ {"idle", "open index", "lock index", "lookup", "retire index", "fetch"}
Looked == {"index place", "index remove", "index commit", "leave", "return"}

held(r) ==
    (IF Pinned /\ res[r].step \notin {"idle", "open index", "lock index", "return"}
     THEN {Index} ELSE {})
    \cup (IF res[r].step \in {"verify", "place", "remove", "commit", "confirm", "lost"}
          THEN {res[r].content} ELSE {})

(* Which locks a resolver holds at each step, and on which files. *)
Locking(r) ==
    /\ res[r].locked = held(r) /\ res[r].beaten \subseteq res[r].locked
    /\ res[r].step \in Indexed => Pinned
    /\ \A k \in Keys : res[r].file[k] <= record[k]
    /\ \A k \in res[r].beaten : ~lockValid(r, k)

Knowing(r) ==
    /\ res[r].step \in Resolved => res[r].content \in served
    /\ res[r].result \in Contents => res[r].result \in served

(* What is to be removed is still invalid, and what was looked at is still valid. *)
Seeing(r) ==
    unreplaced => /\ res[r].step = "remove" => ~valid(res[r].content)
                  /\ (res[r].step \in Looked /\ ~res[r].touched) => valid(res[r].content)

Alone ==
    \A q, r \in Resolvers : q # r =>
        \A k \in res[q].locked \cap res[r].locked : res[q].file[k] # res[r].file[k]

Backed ==
    \A k \in Keys : entry[k].kind = "own" =>
        entry[k].claims \in served /\ (k \in Contents => entry[k].claims = k)

Inv ==
    /\ TypeOK /\ Backed /\ Alone
    /\ unreplaced => \A k \in Keys : record[k] = 0
    /\ \A r \in Resolvers : Locking(r) /\ Knowing(r) /\ Seeing(r)

=============================================================================
