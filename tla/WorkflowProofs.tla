----------------------------- MODULE WorkflowProofs -----------------------------
(***************************************************************************)
(* The two workflows that change what a host has installed, each proved     *)
(* from an inductive invariant of its own: Refresh for any number of        *)
(* prepared commands, profiles and bounds, and CarrierLife (Carrier) for    *)
(* any manifests, pins and bounds.                                          *)
(***************************************************************************)
EXTENDS MCWorkflows, TLAPS

-----------------------------------------------------------------------------
(* Runs and what their steps change of them. *)

(* What a run has read, and what it knows of its attempt. *)
sameReads(p, q) ==
    /\ q.first = p.first /\ q.seen = p.seen /\ q.state = p.state
    /\ q.revisions = p.revisions /\ q.keep = p.keep

sameStory(p, q) ==
    /\ q.calls = p.calls /\ q.started = p.started /\ q.attempt = p.attempt
    /\ q.nativeErr = p.nativeErr /\ q.left = p.left /\ q.relation = p.relation
    /\ q.observeErr = p.observeErr /\ q.persistErr = p.persistErr /\ q.persisted = p.persisted
    /\ q.wrote = p.wrote /\ q.result = p.result /\ q.declined = p.declined

LEMMA RunFields ==
  ASSUME NEW p \in RunType
  PROVE  /\ p.step \in Steps /\ p.pass \in {"plan", "stabilize", "execute"}
         /\ p.first \in Seen /\ p.seen \in Seen /\ p.state \in States
         /\ p.revisions \in Views /\ p.keep \in Views
         /\ p.attempt \in Attempts /\ p.started \in BOOLEAN /\ p.nativeErr \in BOOLEAN
         /\ p.relation \in Relations \cup {"unknown"} /\ p.observeErr \in BOOLEAN
         /\ p.persistErr \in BOOLEAN /\ p.persisted \in BOOLEAN /\ p.result \in Results
         /\ p.calls \in Nat /\ p.wrote \in BOOLEAN /\ p.left \in BOOLEAN /\ p.declined \in BOOLEAN
  BY DEF RunType

LEMMA StateFields ==
  ASSUME NEW s \in States
  PROVE  /\ s.version \in Nat /\ s.rows \subseteq Runs
         /\ s = [version |-> s.version, rows |-> s.rows]
         /\ [s EXCEPT !.version = @ + 1] \in States
         /\ [s EXCEPT !.version = @ + 1].rows = s.rows
         /\ [s EXCEPT !.version = @ + 1].version = s.version + 1
         /\ \A r \in Runs : /\ [s EXCEPT !.rows = @ \cup {r}] \in States
                            /\ [s EXCEPT !.rows = @ \cup {r}].rows = s.rows \cup {r}
  BY DEF States

LEMMA SameState ==
  ASSUME NEW s \in States, NEW t \in States, since(s, t), t.version <= s.version
  PROVE  s = t
  BY DEF States, since

LEMMA SinceSelf ==
  ASSUME NEW s \in States
  PROVE  since(s, s)
  BY DEF States, since

LEMMA ViewFields ==
  ASSUME NEW v \in Views
  PROVE  v.decl \in 0..1 /\ v.state \in States /\ v.root \in Nat /\ v.relation \in Relations
  BY DEF Views

LEMMA SeenFields ==
  ASSUME NEW s \in Seen
  PROVE  /\ s.decl \in 0..1 /\ s.relation \in Relations
         /\ \A d \in 0..1 : [s EXCEPT !.decl = d] \in Seen /\ [s EXCEPT !.decl = d].decl = d
         /\ \A x \in Relations : /\ [s EXCEPT !.relation = x] \in Seen
                                 /\ [s EXCEPT !.relation = x].decl = s.decl
  BY DEF Seen

LEMMA DiskFields ==
  ASSUME NEW d \in Disks
  PROVE  /\ d.decl \in 0..1 /\ d.state \in States /\ d.relation \in Relations /\ d.root \in Nat
         /\ d.pending \in BOOLEAN /\ d.journal \in BOOLEAN
  BY DEF Disks

LEMMA ViewType ==
  ASSUME TypeOK
  PROVE  /\ view \in Views
         /\ view.decl = disk.decl /\ view.state = disk.state /\ view.root = disk.root
  BY DEF TypeOK, Disks, view, Views, Relations

(* The ways in which a step changes a run. *)
went(p, s) == [p EXCEPT !.step = s]
resulted(p, s, x) == [p EXCEPT !.step = s, !.result = x]
declines(p) == [p EXCEPT !.step = "done", !.result = "cancelled", !.declined = TRUE]
readDeclarations(p, d) == [p EXCEPT !.seen.decl = d, !.step = "load"]
readState(p, s, x, l) == [p EXCEPT !.state = x, !.seen.relation = l, !.step = s]
readRevisions(p, v, x) == [p EXCEPT !.revisions = v, !.first = p.seen, !.pass = x, !.step = "read"]
readKept(p, v) == [p EXCEPT !.keep = v, !.step = "peer"]
begun(p) == [p EXCEPT !.step = "running", !.started = TRUE, !.calls = @ + 1]
attempted(p, attempt, err, left, s) ==
    [p EXCEPT !.attempt = attempt, !.nativeErr = err, !.left = left, !.step = s]
unstarted(p, left) == [p EXCEPT !.step = "cleanup", !.result = "refused", !.left = left]
barred(p, e) == [p EXCEPT !.persistErr = e, !.step = "observe"]
saw(p, x) == [p EXCEPT !.relation = x, !.step = "classify"]
unobserved(p) == [p EXCEPT !.observeErr = TRUE, !.step = "classify"]
unpersisted(p) == [p EXCEPT !.persistErr = TRUE, !.step = "report"]
halfPublished(p) == [p EXCEPT !.wrote = TRUE, !.persistErr = TRUE, !.step = "report"]
published(p) == [p EXCEPT !.wrote = TRUE, !.step = "settle"]
settled(p) == [p EXCEPT !.persistErr = FALSE, !.persisted = TRUE, !.step = "report"]

Quiet == {"idle", "read", "load", "capture", "stable", "ready", "check", "acquire",
          "recheck", "recapture", "compare"} \cup Renewed

(* It goes to another step, and nothing else, ... *)
LEMMA Goes ==
  ASSUME NEW p \in RunType, NEW s \in Steps, NEW q, q = went(p, s)
  PROVE  /\ q \in RunType /\ q.step = s /\ q.pass = p.pass /\ sameReads(p, q) /\ sameStory(p, q)
  BY DEF RunType, went, sameReads, sameStory

LEMMA StoryKept ==
  ASSUME NEW p, NEW q, sameStory(p, q), Followed(p),
         \/ p.step = q.step
         \/ p.step \in Quiet /\ q.step \in Quiet
         \/ p.step \in Quiet \cup {"cleanup"} /\ q.step = "done"
         \/ p.step # "done" /\ q.step = "crashed"
  PROVE  Followed(q)
  <1>1. /\ ended(q) <=> ended(p)
        /\ observed(q) <=> observed(p)
        /\ fresh(q) <=> fresh(p)
        /\ blank(q) <=> blank(p)
        /\ told(q) <=> told(p)
        /\ class(q) = class(p)
    BY DEF sameStory, fresh, blank, ended, observed, told, class, succeeded
  <1>2. CASE p.step = q.step
    BY <1>1, <1>2 DEF sameStory, Followed
  <1>3. CASE p.step \in Quiet /\ q.step \in Quiet
    BY <1>1, <1>3 DEF sameStory, Followed, Quiet, Renewed
  <1>4. CASE p.step \in Quiet \cup {"cleanup"} /\ q.step = "done"
    BY <1>1, <1>4 DEF sameStory, Followed, Quiet, Renewed, blank, fresh, told
  <1>5. CASE p.step # "done" /\ q.step = "crashed"
    BY <1>1, <1>5 DEF sameStory, Followed, Renewed
  <1> QED BY <1>2, <1>3, <1>4, <1>5

(* ... or it ends with a result, ... *)
LEMMA GoesWith ==
  ASSUME NEW p \in RunType, NEW s \in Steps, NEW x \in Results,
         NEW q, q = resulted(p, s, x)
  PROVE  /\ q \in RunType /\ q.step = s /\ q.pass = p.pass /\ sameReads(p, q)
         /\ q.result = x /\ q.started = p.started
         /\ Followed(p) /\ s \in {"cleanup", "done"} /\ ~p.declined /\ told(q) => Followed(q)
         /\ Followed(p) /\ p.step \in Quiet /\ s \in {"cleanup", "done"}
               /\ x \in {"refused", "cancelled"} => Followed(q)
  <1>1. /\ q \in RunType /\ q.step = s /\ q.pass = p.pass /\ sameReads(p, q)
        /\ q.result = x /\ q.started = p.started /\ q.calls = p.calls /\ q.declined = p.declined
        /\ q.persisted = p.persisted
    BY DEF RunType, resulted, sameReads
  <1>2. Followed(p) /\ s \in {"cleanup", "done"} /\ ~p.declined /\ told(q) => Followed(q)
    BY <1>1 DEF Followed, Renewed
  <1>3. Followed(p) /\ p.step \in Quiet /\ s \in {"cleanup", "done"}
               /\ x \in {"refused", "cancelled"} => told(q) /\ ~p.declined
    BY <1>1 DEF Followed, Quiet, Renewed, blank, fresh, told
  <1> QED BY <1>1, <1>2, <1>3

LEMMA StoryDeclined ==
  ASSUME NEW p \in RunType, Followed(p), p.step = "ready",
         NEW q, q = declines(p)
  PROVE  q \in RunType /\ q.step = "done" /\ q.pass = p.pass /\ sameReads(p, q) /\ Followed(q)
         /\ q.started = p.started
  <1>1. /\ q \in RunType /\ q.step = "done" /\ q.pass = p.pass /\ sameReads(p, q)
        /\ q.result = "cancelled" /\ q.started = p.started /\ q.calls = p.calls
        /\ q.persisted = p.persisted
    BY DEF RunType, declines, sameReads, Steps, Results
  <1> QED BY <1>1 DEF Followed, Renewed, blank, fresh, told

(* ... reads, ... *)
LEMMA ReadsDeclarations ==
  ASSUME NEW p \in RunType, NEW d \in 0..1, NEW q, q = readDeclarations(p, d)
  PROVE  /\ q \in RunType /\ q.step = "load" /\ q.pass = p.pass /\ sameStory(p, q)
         /\ q.first = p.first /\ q.seen.decl = d
         /\ q.state = p.state /\ q.revisions = p.revisions /\ q.keep = p.keep
  <1>1. [p.seen EXCEPT !.decl = d] \in Seen /\ [p.seen EXCEPT !.decl = d].decl = d
    BY RunFields, SeenFields
  <1>2. q = [p EXCEPT !.seen = [p.seen EXCEPT !.decl = d], !.step = "load"]
    BY DEF RunType, readDeclarations
  <1> QED BY <1>1, <1>2 DEF RunType, readDeclarations, Steps, sameStory

LEMMA ReadsState ==
  ASSUME NEW p \in RunType, NEW s \in Steps, NEW x \in States, NEW l \in Relations,
         NEW q, q = readState(p, s, x, l)
  PROVE  /\ q \in RunType /\ q.step = s /\ q.pass = p.pass /\ sameStory(p, q)
         /\ q.first = p.first /\ q.seen.decl = p.seen.decl
         /\ q.state = x /\ q.revisions = p.revisions /\ q.keep = p.keep
  <1>1. /\ [p.seen EXCEPT !.relation = l] \in Seen
        /\ [p.seen EXCEPT !.relation = l].decl = p.seen.decl
    BY RunFields, SeenFields
  <1>2. q = [p EXCEPT !.state = x, !.seen = [p.seen EXCEPT !.relation = l], !.step = s]
    BY DEF RunType, readState
  <1> QED BY <1>1, <1>2 DEF RunType, readState, sameStory

LEMMA ReadsRevisions ==
  ASSUME NEW p \in RunType, NEW v \in Views, NEW x \in {"stabilize", "execute"},
         NEW q, q = readRevisions(p, v, x)
  PROVE  /\ q \in RunType /\ q.step = "read" /\ q.pass = x /\ sameStory(p, q)
         /\ q.seen = p.seen /\ q.first = p.seen /\ q.state = p.state /\ q.revisions = v
         /\ q.keep = p.keep
  BY DEF RunType, readRevisions, Steps, sameStory

LEMMA ReadsKept ==
  ASSUME NEW p \in RunType, NEW v \in Views, NEW q, q = readKept(p, v)
  PROVE  /\ q \in RunType /\ q.step = "peer" /\ q.pass = p.pass /\ sameStory(p, q)
         /\ q.first = p.first /\ q.seen = p.seen
         /\ q.state = p.state /\ q.revisions = p.revisions /\ q.keep = v
  BY DEF RunType, readKept, Steps, sameStory

(* ... attempts ... *)
LEMMA StoryStarted ==
  ASSUME NEW p \in RunType, Followed(p), p.step = "invoke",
         NEW q, q = begun(p)
  PROVE  q \in RunType /\ q.step = "running" /\ q.pass = p.pass /\ sameReads(p, q)
         /\ Followed(q) /\ ~q.persistErr /\ p.calls = 0
  <1> DEFINE n == p.calls + 1
  <1>0. n \in Nat /\ q = [p EXCEPT !.step = "running", !.started = TRUE, !.calls = n]
    BY RunFields DEF begun
  <1> HIDE DEF n
  <1>1. /\ q \in RunType /\ q.step = "running" /\ q.pass = p.pass /\ sameReads(p, q)
        /\ q.started /\ q.calls = n /\ q.declined = p.declined
        /\ q.attempt = p.attempt /\ q.nativeErr = p.nativeErr /\ q.left = p.left
        /\ q.relation = p.relation /\ q.observeErr = p.observeErr
        /\ q.persistErr = p.persistErr /\ q.persisted = p.persisted /\ q.wrote = p.wrote
        /\ q.result = p.result
    BY <1>0 DEF RunType, begun, sameReads, Steps
  <1>2. ~p.started /\ p.calls = 0 /\ ~p.declined /\ blank(p)
    BY DEF Followed, Renewed
  <1> QED BY <1>1, <1>2 DEF Followed, Renewed, blank, fresh, n

LEMMA EndedAs ==
  ASSUME NEW p, p.left => p.nativeErr,
         \/ ~p.started /\ p.attempt \in NotStarted
         \/ p.started /\ p.attempt \in Interrupted \cup {"ok", "failed", "lost directory"}
  PROVE  ended(p)
  BY DEF ended

(* How a command that is invoked, or runs, comes to its end. *)
Ways(p, attempt, s) ==
    \/ p.step = "invoke" /\ s = "observe" /\ attempt \in NotStarted
    \/ /\ p.step = "running" /\ s = "post barrier"
       /\ attempt \in Interrupted \cup {"ok", "failed", "lost directory"}

LEMMA StoryNative ==
  ASSUME NEW p \in RunType, Followed(p),
         NEW attempt \in Attempts, NEW err \in BOOLEAN, NEW left \in BOOLEAN,
         NEW s, Ways(p, attempt, s),
         NEW q, q = attempted(p, attempt, err, left, s)
  PROVE  /\ q \in RunType /\ q.step = s /\ q.pass = p.pass /\ sameReads(p, q)
         /\ q.left = left /\ q.nativeErr = err
         /\ (q.left => q.nativeErr) => Followed(q)
         /\ ~q.persistErr /\ q.started = p.started
  <1>0. s \in Steps
    BY DEF Steps, Ways
  <1>1. /\ q \in RunType /\ q.step = s /\ q.pass = p.pass /\ sameReads(p, q)
        /\ q.attempt = attempt /\ q.nativeErr = err /\ q.left = left
        /\ q.started = p.started /\ q.calls = p.calls /\ q.declined = p.declined
        /\ q.relation = p.relation /\ q.observeErr = p.observeErr
        /\ q.persistErr = p.persistErr /\ q.persisted = p.persisted /\ q.wrote = p.wrote
        /\ q.result = p.result
    <2>1. q \in RunType
      BY <1>0 DEF RunType, attempted
    <2>2. /\ q.step = s /\ q.pass = p.pass /\ sameReads(p, q)
          /\ q.attempt = attempt /\ q.nativeErr = err /\ q.left = left
      BY DEF RunType, attempted, sameReads
    <2>3. /\ q.started = p.started /\ q.calls = p.calls /\ q.declined = p.declined
          /\ q.relation = p.relation /\ q.observeErr = p.observeErr
          /\ q.persistErr = p.persistErr /\ q.persisted = p.persisted /\ q.wrote = p.wrote
          /\ q.result = p.result
      BY DEF RunType, attempted
    <2> QED BY <2>1, <2>2, <2>3
  <1>2. ~p.declined /\ blank(p) /\ (p.started <=> p.step = "running")
    BY DEF Followed, Renewed, Ways
  <1>3. ASSUME q.left => q.nativeErr  PROVE  ended(q)
    <2>2. q.started <=> p.step = "running"
      BY <1>1, <1>2
    <2>3. \/ ~q.started /\ q.attempt \in NotStarted
          \/ q.started /\ q.attempt \in Interrupted \cup {"ok", "failed", "lost directory"}
      BY <1>1, <2>2 DEF Ways
    <2> QED BY <1>3, <2>3, EndedAs
  <1>4. fresh(q) /\ ~q.persistErr
    BY <1>1, <1>2 DEF blank, fresh
  <1>5. q.calls = IF q.started THEN 1 ELSE 0
    BY <1>1 DEF Followed
  <1>6. ended(q) => Followed(q)
    BY <1>1, <1>2, <1>4, <1>5 DEF Followed, Renewed, Ways
  <1> QED BY <1>1, <1>3, <1>4, <1>6

LEMMA StoryNotStarted ==
  ASSUME NEW p \in RunType, Followed(p), p.step = "invoke", NEW left \in BOOLEAN,
         NEW q, q = unstarted(p, left)
  PROVE  q \in RunType /\ q.step = "cleanup" /\ q.pass = p.pass /\ sameReads(p, q) /\ Followed(q)
         /\ q.started = p.started
  <1>1. /\ q \in RunType /\ q.step = "cleanup" /\ q.pass = p.pass /\ sameReads(p, q)
        /\ q.result = "refused" /\ q.started = p.started /\ q.calls = p.calls
        /\ q.declined = p.declined /\ q.persisted = p.persisted /\ q.wrote = p.wrote
    BY DEF RunType, unstarted, sameReads, Steps, Results
  <1>2. ~p.declined /\ blank(p) /\ ~p.started
    BY DEF Followed, Renewed
  <1> QED BY <1>1, <1>2 DEF Followed, Renewed, blank, fresh, told

LEMMA StoryBarrier ==
  ASSUME NEW p \in RunType, Followed(p), p.step = "post barrier", NEW e \in BOOLEAN,
         NEW q, q = barred(p, e)
  PROVE  q \in RunType /\ q.step = "observe" /\ q.pass = p.pass /\ sameReads(p, q) /\ Followed(q)
         /\ q.persistErr = e /\ q.started = p.started
  <1>1. /\ q \in RunType /\ q.step = "observe" /\ q.pass = p.pass /\ sameReads(p, q)
        /\ q.persistErr = e
        /\ q.attempt = p.attempt /\ q.nativeErr = p.nativeErr /\ q.left = p.left
        /\ q.started = p.started /\ q.calls = p.calls /\ q.declined = p.declined
        /\ q.relation = p.relation /\ q.observeErr = p.observeErr
        /\ q.persisted = p.persisted /\ q.wrote = p.wrote /\ q.result = p.result
    BY DEF RunType, barred, sameReads, sameStory, Steps
  <1> QED BY <1>1 DEF Followed, Renewed, fresh, ended

LEMMA StoryObserved ==
  ASSUME NEW p \in RunType, Followed(p), p.step = "observe", NEW q,
         \/ ~profile.observed /\ q = went(p, "classify")
         \/ profile.observed /\ \E x \in Relations : q = saw(p, x)
         \/ profile.observed /\ q = unobserved(p)
  PROVE  q \in RunType /\ q.step = "classify" /\ q.pass = p.pass /\ sameReads(p, q) /\ Followed(q)
         /\ q.persistErr = p.persistErr /\ q.started = p.started
  <1> DEFINE same == /\ q \in RunType /\ q.step = "classify" /\ q.pass = p.pass /\ sameReads(p, q)
                     /\ q.attempt = p.attempt /\ q.nativeErr = p.nativeErr /\ q.left = p.left
                     /\ q.started = p.started /\ q.calls = p.calls /\ q.declined = p.declined
                     /\ q.persistErr = p.persistErr /\ q.persisted = p.persisted
                     /\ q.wrote = p.wrote /\ q.result = p.result
  <1>1. fresh(p) /\ ended(p) /\ ~p.declined
    BY DEF Followed, Renewed
  <1>2. CASE ~profile.observed /\ q = went(p, "classify")
    <2>1. same /\ q.relation = p.relation /\ q.observeErr = p.observeErr
      BY <1>2 DEF RunType, went, saw, unobserved, sameReads, Steps
    <2> QED BY <1>1, <1>2, <2>1 DEF Followed, Renewed, fresh, ended, observed
  <1>3. CASE profile.observed /\ \E x \in Relations : q = saw(p, x)
    <2>1. PICK x \in Relations : q = saw(p, x)
      BY <1>3
    <2>2. same /\ q.relation = x /\ q.observeErr = p.observeErr
      BY <2>1 DEF RunType, went, saw, unobserved, sameReads, Steps
    <2> QED BY <1>1, <1>3, <2>2 DEF Followed, Renewed, fresh, ended, observed, Relations
  <1>4. CASE profile.observed /\ q = unobserved(p)
    <2>1. same /\ q.relation = p.relation /\ q.observeErr
      BY <1>4 DEF RunType, went, saw, unobserved, sameReads, Steps
    <2> QED BY <1>1, <1>4, <2>1 DEF Followed, Renewed, fresh, ended, observed
  <1> QED BY <1>2, <1>3, <1>4

LEMMA ClassOf ==
  ASSUME NEW p \in RunType, ended(p), observed(p)
  PROVE  /\ class(p) \in Results
         /\ class(p) \in {"refused", "cancelled"} => ~p.started
         /\ class(p) = "partial" => p.started
         /\ class(p) = "failed" => p.attempt \notin Interrupted /\ p.attempt # "ok"
         /\ class(p) \in {"observed", "unverified"} => p.attempt = "ok" /\ p.started
         /\ class(p) = "observed" => p.relation = "present" /\ profile.observed
         /\ class(p) = "unverified" => p.relation = "unknown"
         /\ unclassified(p) \in {"partial", "cancelled", "failed"}
         /\ unclassified(p) = "partial" <=> p.started /\ p.attempt # "failed"
         /\ unclassified(p) = "cancelled" => ~p.started
         /\ unclassified(p) = "failed" => p.attempt \notin Interrupted /\ p.attempt # "ok"
  <1>1. /\ p.started => p.attempt \in {"timed out", "cancelled", "signaled", "ok", "failed", "lost directory"}
        /\ ~p.started => p.attempt \in {"launch failed", "no working directory", "cancelled early"}
    BY DEF ended, Interrupted, NotStarted
  <1>2. /\ class(p) \in Results
        /\ class(p) \in {"refused", "cancelled"} => ~p.started
        /\ class(p) = "partial" => p.started
        /\ class(p) = "failed" => p.attempt \notin Interrupted /\ p.attempt # "ok"
    BY <1>1 DEF class, succeeded, Interrupted, Results
  <1>3. /\ class(p) \in {"observed", "unverified"} => p.attempt = "ok" /\ p.started
        /\ class(p) = "observed" => p.relation = "present" /\ profile.observed
        /\ class(p) = "unverified" => p.relation = "unknown"
    <2>1. CASE p.attempt = "ok"
      <3>1. class(p) = CASE p.relation = "present" -> "observed"
                         [] p.relation = "unknown" -> "unverified"
                         [] OTHER -> "partial"
        BY <2>1 DEF class, succeeded, Interrupted
      <3>2. p.relation = "present" => profile.observed
        BY DEF observed
      <3>3. p.started
        BY <1>1, <2>1
      <3>4. class(p) = "observed" => p.relation = "present"
        BY <3>1
      <3>5. class(p) = "unverified" => p.relation = "unknown"
        BY <3>1
      <3>6. class(p) = "observed" => profile.observed
        BY <3>2, <3>4
      <3> QED BY <2>1, <3>3, <3>4, <3>5, <3>6
    <2>2. CASE p.attempt # "ok"
      <3>1. p.attempt \in {"timed out", "cancelled", "signaled", "lost directory"} => class(p) = "partial"
        BY DEF class, Interrupted
      <3>2. p.attempt = "cancelled early" => class(p) = "cancelled"
        BY DEF class, Interrupted
      <3>3. p.attempt \in {"failed", "launch failed", "no working directory"} => class(p) = "failed"
        BY DEF class, Interrupted
      <3>4. class(p) \in {"partial", "cancelled", "failed"}
        BY <1>1, <2>2, <3>1, <3>2, <3>3
      <3> QED BY <3>4
    <2> QED BY <2>1, <2>2
  <1>4. /\ unclassified(p) \in {"partial", "cancelled", "failed"}
        /\ unclassified(p) = "partial" <=> p.started /\ p.attempt # "failed"
        /\ unclassified(p) = "cancelled" => ~p.started
        /\ unclassified(p) = "failed" => p.attempt \notin Interrupted /\ p.attempt # "ok"
    BY <1>1 DEF unclassified, Interrupted
  <1> QED BY <1>2, <1>3, <1>4

LEMMA StoryClassified ==
  ASSUME NEW p \in RunType, Followed(p), p.step = "classify", NEW q,
         q = resulted(p, IF p.started THEN "persist" ELSE "report", class(p))
  PROVE  q \in RunType /\ q.step = (IF p.started THEN "persist" ELSE "report") /\ q.pass = p.pass
         /\ sameReads(p, q) /\ Followed(q) /\ q.persistErr = p.persistErr /\ q.started = p.started
  <1>1. ended(p) /\ observed(p) /\ ~p.declined /\ ~p.persisted /\ ~p.wrote
    BY DEF Followed, Renewed
  <1>2. class(p) \in Results
    BY <1>1, ClassOf
  <1>3. PICK s \in Steps : s = IF p.started THEN "persist" ELSE "report"
    BY DEF Steps
  <1>4. /\ q \in RunType /\ q.step = s /\ q.pass = p.pass /\ sameReads(p, q)
        /\ q.attempt = p.attempt /\ q.nativeErr = p.nativeErr /\ q.left = p.left
        /\ q.started = p.started /\ q.calls = p.calls /\ q.declined = p.declined
        /\ q.relation = p.relation /\ q.observeErr = p.observeErr
        /\ q.persistErr = p.persistErr /\ q.persisted = p.persisted
        /\ q.wrote = p.wrote /\ q.result = class(p)
    BY <1>2, <1>3 DEF RunType, resulted, sameReads
  <1>5. ended(q) /\ observed(q) /\ class(q) = class(p)
    BY <1>1, <1>4 DEF ended, observed, class, succeeded
  <1> QED BY <1>1, <1>3, <1>4, <1>5 DEF Followed, Renewed

LEMMA StoryUnclassified ==
  ASSUME NEW p \in RunType, Followed(p), p.step = "classify", NEW q,
         q = resulted(p, "cleanup", unclassified(p))
  PROVE  q \in RunType /\ q.step = "cleanup" /\ q.pass = p.pass /\ sameReads(p, q) /\ Followed(q)
         /\ q.started = p.started
  <1>1. ended(p) /\ observed(p) /\ ~p.declined /\ ~p.persisted /\ ~p.wrote
    BY DEF Followed, Renewed
  <1>2. unclassified(p) \in Results
    BY <1>1, ClassOf DEF Results
  <1>4. /\ q \in RunType /\ q.step = "cleanup" /\ q.pass = p.pass /\ sameReads(p, q)
        /\ q.attempt = p.attempt /\ q.started = p.started /\ q.calls = p.calls
        /\ q.declined = p.declined /\ q.persisted = p.persisted /\ q.result = unclassified(p)
    BY <1>2 DEF RunType, resulted, sameReads, Steps
  <1>5. told(q)
    BY <1>1, <1>4, ClassOf DEF told
  <1> QED BY <1>1, <1>4, <1>5 DEF Followed, Renewed

(* ... and is recorded and reported. *)
LEMMA StoryUnpersisted ==
  ASSUME NEW p \in RunType, Followed(p), p.step \in {"persist", "publish", "settle"}, NEW q,
         \/ q = unpersisted(p)
         \/ q = halfPublished(p)
  PROVE  q \in RunType /\ q.step = "report" /\ q.pass = p.pass /\ sameReads(p, q) /\ Followed(q)
         /\ q.started /\ p.started
  <1> DEFINE same == /\ q \in RunType /\ q.step = "report" /\ q.pass = p.pass /\ sameReads(p, q)
                     /\ q.attempt = p.attempt /\ q.nativeErr = p.nativeErr /\ q.left = p.left
                     /\ q.started = p.started /\ q.calls = p.calls /\ q.declined = p.declined
                     /\ q.relation = p.relation /\ q.observeErr = p.observeErr
                     /\ q.persistErr /\ q.persisted = p.persisted /\ q.result = p.result
  <1>1. /\ ended(p) /\ observed(p) /\ ~p.declined /\ ~p.persisted /\ p.started
        /\ p.result = class(p)
    BY DEF Followed, Renewed
  <1>2. same
    <2>1. CASE q = unpersisted(p)
      BY <2>1 DEF RunType, unpersisted, halfPublished, sameReads, Steps
    <2>2. CASE q = halfPublished(p)
      BY <2>2 DEF RunType, unpersisted, halfPublished, sameReads, Steps
    <2> QED BY <2>1, <2>2
  <1>3. ended(q) /\ observed(q) /\ class(q) = class(p)
    BY <1>1, <1>2 DEF ended, observed, class, succeeded
  <1> QED BY <1>1, <1>2, <1>3 DEF Followed, Renewed

LEMMA StoryPublished ==
  ASSUME NEW p \in RunType, Followed(p), NEW q,
         \/ p.step = "persist" /\ ~p.persistErr /\ q = went(p, "publish")
         \/ p.step = "publish" /\ q = published(p)
  PROVE  q \in RunType /\ q.step = (IF p.step = "persist" THEN "publish" ELSE "settle")
         /\ q.pass = p.pass /\ sameReads(p, q) /\ Followed(q)
         /\ q.persistErr = p.persistErr /\ q.started = p.started
  <1> DEFINE same == /\ q \in RunType /\ q.pass = p.pass /\ sameReads(p, q)
                     /\ q.attempt = p.attempt /\ q.nativeErr = p.nativeErr /\ q.left = p.left
                     /\ q.started = p.started /\ q.calls = p.calls /\ q.declined = p.declined
                     /\ q.relation = p.relation /\ q.observeErr = p.observeErr
                     /\ q.persistErr = p.persistErr /\ q.persisted = p.persisted
                     /\ q.result = p.result
  <1>1. /\ ended(p) /\ observed(p) /\ ~p.declined /\ ~p.persisted /\ ~p.wrote /\ p.started
        /\ p.result = class(p) /\ ~p.persistErr
    BY DEF Followed, Renewed
  <1>2. /\ same
        /\ \/ p.step = "persist" /\ q.step = "publish" /\ ~q.wrote
           \/ p.step = "publish" /\ q.step = "settle" /\ q.wrote
    <2>1. CASE p.step = "persist" /\ q = went(p, "publish")
      BY <1>1, <2>1 DEF RunType, went, published, sameReads, Steps
    <2>2. CASE p.step = "publish" /\ q = published(p)
      BY <2>2 DEF RunType, went, published, sameReads, Steps
    <2> QED BY <2>1, <2>2
  <1>3. ended(q) /\ observed(q) /\ class(q) = class(p)
    BY <1>1, <1>2 DEF ended, observed, class, succeeded
  <1> QED BY <1>1, <1>2, <1>3 DEF Followed, Renewed

LEMMA StorySettled ==
  ASSUME NEW p \in RunType, Followed(p), p.step = "settle", NEW q, q = settled(p)
  PROVE  q \in RunType /\ q.step = "report" /\ q.pass = p.pass /\ sameReads(p, q) /\ Followed(q)
         /\ q.started = p.started /\ p.started
  <1>1. /\ ended(p) /\ observed(p) /\ ~p.declined /\ ~p.persisted /\ p.wrote /\ p.started
        /\ p.result = class(p)
    BY DEF Followed, Renewed
  <1>2. /\ q \in RunType /\ q.pass = p.pass /\ q.step = "report" /\ sameReads(p, q)
        /\ q.attempt = p.attempt /\ q.nativeErr = p.nativeErr /\ q.left = p.left
        /\ q.started = p.started /\ q.calls = p.calls /\ q.declined = p.declined
        /\ q.relation = p.relation /\ q.observeErr = p.observeErr
        /\ ~q.persistErr /\ q.persisted /\ q.wrote = p.wrote
        /\ q.result = p.result
    <2>1. q \in RunType
      BY DEF RunType, settled, Steps
    <2>2. /\ q.pass = p.pass /\ q.step = "report" /\ sameReads(p, q)
          /\ q.attempt = p.attempt /\ q.left = p.left /\ q.calls = p.calls
          /\ q.relation = p.relation /\ q.result = p.result
      BY DEF RunType, settled, sameReads
    <2>3. /\ q.nativeErr = p.nativeErr /\ q.started = p.started /\ q.declined = p.declined
          /\ q.observeErr = p.observeErr /\ q.wrote = p.wrote
      BY DEF RunType, settled
    <2>4. ~q.persistErr /\ q.persisted
      BY DEF RunType, settled
    <2> QED BY <2>1, <2>2, <2>3, <2>4
  <1>3. ended(q) /\ observed(q) /\ class(q) = class(p)
    BY <1>1, <1>2 DEF ended, observed, class, succeeded
  <1> QED BY <1>1, <1>2, <1>3 DEF Followed, Renewed

LEMMA StoryReported ==
  ASSUME NEW p \in RunType, Followed(p), p.step = "report",
         NEW q, q = resulted(p, "cleanup", reported(p))
  PROVE  q \in RunType /\ q.step = "cleanup" /\ q.pass = p.pass /\ sameReads(p, q) /\ Followed(q)
         /\ q.started = p.started
  <1>1. /\ ended(p) /\ observed(p) /\ ~p.declined /\ p.result = class(p)
        /\ (p.persisted => p.wrote) /\ (p.started => (p.persisted <=> ~p.persistErr))
        /\ (p.persistErr => p.started)
    BY DEF Followed, Renewed
  <1>2. reported(p) \in Results
    BY <1>1, ClassOf DEF reported, Results
  <1>3. /\ q \in RunType /\ q.pass = p.pass /\ q.step = "cleanup" /\ sameReads(p, q)
        /\ q.attempt = p.attempt /\ q.nativeErr = p.nativeErr /\ q.left = p.left
        /\ q.started = p.started /\ q.calls = p.calls /\ q.declined = p.declined
        /\ q.relation = p.relation /\ q.persisted = p.persisted /\ q.wrote = p.wrote
        /\ q.result = reported(p)
    BY <1>2 DEF RunType, resulted, sameReads, Steps
  <1>4. /\ p.attempt = "ok" <=> (p.started /\ p.attempt = "ok")
        /\ p.left => p.nativeErr
        /\ profile.observed => (p.observeErr <=> p.relation = "unknown")
        /\ ~profile.observed => p.relation = "unknown"
    BY <1>1 DEF ended, observed, NotStarted
  <1>5. told(q)
    BY <1>1, <1>3, <1>4, ClassOf DEF told, reported
  <1> QED BY <1>1, <1>3, <1>5 DEF Followed, Renewed

-----------------------------------------------------------------------------
(* A step of one run beside the others. *)

LEMMA PrimedFollowed ==
  ASSUME NEW r \in Runs, profile' = profile
  PROVE  Followed(run[r])' <=> Followed(run'[r])
  BY DEF Followed, observed, told, class, succeeded, ended, fresh, blank, Renewed

(* What a step of run r leaves alone, and what it may change of the disk with the leases. *)
Beside(r) ==
    /\ profile' = profile /\ used'["edit"] = used["edit"]
    /\ \A o \in Runs \ {r} :
          /\ token'[o] = token[o] /\ witness'[o] = witness[o]
          /\ o \in edited' <=> o \in edited
          /\ o \in hurt' <=> o \in hurt
    /\ lease' = lease \/ (lease = None /\ lease' = r) \/ (lease = r /\ lease' = None)
    /\ \/ disk' = disk
       \/ /\ lease = r /\ disk'.root = disk.root
          /\ used["edit"] = 0 => disk.state.rows \subseteq disk'.state.rows

LEMMA HoldsBeside ==
  ASSUME Inv, NEW r \in Runs, NEW o \in Runs, o # r, Beside(r), run'[o] = run[o]
  PROVE  Holds(o)'
  <1>1. Holds(o)
    BY DEF Inv
  <1>2. /\ token'[o] = token[o] /\ witness'[o] = witness[o] /\ profile' = profile
        /\ o \in edited' <=> o \in edited
        /\ o \in hurt' <=> o \in hurt
        /\ used'["edit"] = used["edit"]
        /\ lease' = o <=> lease = o
    BY NoneAssumption DEF Beside
  <1>3. disk' = disk \/ (lease # o /\ disk'.root = disk.root /\
                        (used["edit"] = 0 => disk.state.rows \subseteq disk'.state.rows))
    BY DEF Beside
  <1>4. Placed(o)'
    BY <1>1, <1>2 DEF Holds, Placed, planning, leased, replanning, Held, Renewed, Attempted
  <1>5. Followed(run[o])'
    BY <1>1, <1>2, PrimedFollowed DEF Holds
  <1>6. lease # o => ~leased(run[o])
    BY <1>1 DEF Holds, Placed
  <1>7. CASE disk' = disk
    <2>1. view' = view
      BY <1>2, <1>7 DEF view
    <2> QED BY <1>1, <1>2, <1>4, <1>5, <1>7, <2>1
            DEF Holds, Looked, Calm, Unhurt, replanning
  <1>8. CASE /\ lease # o /\ disk'.root = disk.root
             /\ used["edit"] = 0 => disk.state.rows \subseteq disk'.state.rows
    <2>1. ~leased(run[o])
      BY <1>6, <1>8
    <2>2. Looked(o)'
      BY <2>1 DEF Looked, leased, replanning, Held, Renewed, Attempted
    <2>3. Calm(o)'
      BY <1>1, <1>2, <1>8, <2>1 DEF Holds, Calm, leased, replanning, Held, Renewed, Attempted
    <2>4. Unhurt(o)'
      BY <1>1, <1>2, <1>8, <2>1 DEF Holds, Unhurt, leased, Held, Attempted
    <2> QED BY <1>4, <1>5, <2>2, <2>3, <2>4 DEF Holds
  <1> QED BY <1>3, <1>7, <1>8

(* A step that leaves its run without the leases, with nothing that it has to look after. *)
LEMMA Outside ==
  ASSUME NEW r \in Runs, Calm(r), Unhurt(r), ~leased(run'[r]),
         used'["edit"] = used["edit"], hurt \subseteq hurt', disk'.root = disk.root,
         witness'[r].root \in {witness[r].root, disk.root},
         r \in hurt' \/ ~run'[r].started \/ r \in disk'.state.rows
  PROVE  Looked(r)' /\ Calm(r)' /\ Unhurt(r)'
  <1>1. Looked(r)'
    BY DEF Looked, leased, replanning, Held, Renewed, Attempted
  <1>2. Calm(r)'
    BY DEF Calm, leased, replanning, Held, Renewed, Attempted
  <1>3. Unhurt(r)'
    BY DEF Unhurt, leased, replanning, Held, Renewed, Attempted
  <1> QED BY <1>1, <1>2, <1>3

LEMMA RunStep ==
  ASSUME Inv, NEW r \in Runs, NEW q \in RunType, run' = [run EXCEPT ![r] = q], Beside(r),
         /\ disk' \in Disks /\ witness' \in [Runs -> [open : BOOLEAN, root : Nat]]
         /\ token' \in [Runs -> {"none", "unavailable", "ready", "closed", "consumed"}]
         /\ cancelled' \subseteq Runs /\ edited' \subseteq Runs /\ hurt' \subseteq Runs
         /\ used' \in [Events -> Nat],
         Followed(q), Placed(r)', Looked(r)' /\ Calm(r)' /\ Unhurt(r)'
  PROVE  Inv'
  <1>1. run \in [Runs -> RunType]
    BY DEF Inv, TypeOK
  <1>2. run'[r] = q /\ \A o \in Runs : o # r => run'[o] = run[o]
    BY <1>1
  <1>3. TypeOK'
    BY <1>1 DEF Inv, TypeOK, Beside
  <1>4. Followed(run[r])'
    BY <1>2, PrimedFollowed DEF Beside
  <1>5. ASSUME NEW o \in Runs  PROVE  Holds(o)'
    <2>1. CASE o = r
      BY <1>4, <2>1 DEF Holds
    <2>2. CASE o # r
      BY <1>2, <2>2, HoldsBeside
    <2> QED BY <2>1, <2>2
  <1> QED BY <1>3, <1>5 DEF Inv

(* What is known of a run. *)
LEMMA Known ==
  ASSUME Inv, NEW r \in Runs
  PROVE  /\ run \in [Runs -> RunType] /\ run[r] \in RunType /\ run[r].step \in Steps
         /\ Placed(r) /\ Followed(run[r]) /\ Looked(r) /\ Calm(r) /\ Unhurt(r)
         /\ TypeOK /\ disk \in Disks /\ token[r] \in {"none", "unavailable", "ready", "closed", "consumed"}
         /\ witness[r] \in [open : BOOLEAN, root : Nat] /\ run[r].started \in BOOLEAN
         /\ view \in Views /\ disk.state \in States /\ used["edit"] \in Nat
         /\ r # None
  <1>1. TypeOK /\ Holds(r)
    BY DEF Inv
  <1>2. run[r] \in RunType
    BY <1>1 DEF TypeOK
  <1> QED BY <1>1, <1>2, RunFields, ViewType, DiskFields, NoneAssumption DEF TypeOK, Holds, Events

LEMMA Spent ==
  ASSUME TypeOK, NEW e \in Events, Spend(e)
  PROVE  used' \in [Events -> Nat] /\ (e # "edit" => used'["edit"] = used["edit"])
  BY DEF TypeOK, Spend, Events

LEMMA Changed ==
  ASSUME TypeOK, NEW r \in Runs, NEW q, run' = [run EXCEPT ![r] = q]
  PROVE  run'[r] = q
  BY DEF TypeOK

LEMMA NotYet ==
  ASSUME NEW p, Followed(p), p.step \in Quiet
  PROVE  ~p.started
  BY DEF Followed, Quiet, Renewed

(* A plan that cannot be made, ... *)
LEMMA UnplannedKept ==
  ASSUME Inv, NEW r \in Runs, planning(run[r]), Unplanned(r), UNCHANGED <<outside, lease>>
  PROVE  Inv'
  <1> DEFINE p == run[r]
             q == resulted(p, "done", "refused")
  <1>1. run' = [run EXCEPT ![r] = q] /\ q = resulted(p, "done", "refused")
    BY Known DEF Unplanned, resulted
  <1> HIDE DEF q
  <1>2. q \in RunType /\ q.step = "done" /\ Followed(q) /\ q.started = p.started /\ ~p.started
    <2>1. p.step \in Quiet /\ p \in RunType /\ Followed(p)
      BY Known DEF planning, Quiet
    <2>2. "done" \in Steps /\ "refused" \in Results
      BY DEF Steps, Results
    <2>3. q \in RunType /\ q.step = "done" /\ Followed(q) /\ q.started = p.started
      BY <1>1, <2>1, <2>2, GoesWith
    <2> QED BY <2>1, <2>3, NotYet
  <1>3. run'[r] = q
    BY <1>1, Known, Changed
  <1>4. /\ token' = [token EXCEPT ![r] = "unavailable"]
        /\ witness' = [witness EXCEPT ![r].open = FALSE]
        /\ disk' = disk /\ lease' = lease /\ hurt' = hurt /\ edited' = edited /\ used' = used
        /\ cancelled' = cancelled /\ profile' = profile
    BY DEF Unplanned, outside
  <1>5. /\ token' \in [Runs -> {"none", "unavailable", "ready", "closed", "consumed"}]
        /\ witness' \in [Runs -> [open : BOOLEAN, root : Nat]]
        /\ token'[r] = "unavailable" /\ ~witness'[r].open /\ witness'[r].root = witness[r].root
        /\ Beside(r)
    BY <1>4, Known DEF TypeOK, Beside
  <1>6. lease # r
    BY Known DEF planning, Placed, leased, replanning, Held, Renewed, Attempted
  <1>7. Placed(r)'
    BY <1>2, <1>3, <1>4, <1>5, <1>6
       DEF Placed, planning, leased, replanning, Held, Renewed, Attempted
  <1>8. Looked(r)' /\ Calm(r)' /\ Unhurt(r)'
    <2>1. ~leased(q)
      BY <1>2 DEF leased, replanning, Held, Renewed, Attempted
    <2> QED BY <1>2, <1>3, <1>4, <1>5, <2>1, Known, Outside
  <1> QED BY <1>1, <1>2, <1>4, <1>5, <1>7, <1>8, Known, RunStep DEF TypeOK

(* ... or a step before the attempt that does not go on. *)
LEMMA EndsKept ==
  ASSUME Inv, NEW r \in Runs, run[r].step \in Quiet, token[r] = "consumed",
         NEW x \in {"refused", "cancelled"}, Ends(r, x),
         UNCHANGED <<profile, disk, lease, token, witness, cancelled>>,
         edited' \in {edited, edited \ {r}}, hurt' \in {hurt, hurt \cup {r}},
         used' \in [Events -> Nat], used'["edit"] = used["edit"]
  PROVE  Inv'
  <1> DEFINE p == run[r]
             q == resulted(p, "cleanup", x)
  <1>1. run' = [run EXCEPT ![r] = q] /\ q = resulted(p, "cleanup", x)
    BY Known DEF Ends, resulted
  <1> HIDE DEF q
  <1>2. q \in RunType /\ q.step = "cleanup" /\ Followed(q) /\ q.started = p.started /\ ~p.started
    <2>1. p \in RunType /\ Followed(p) /\ "cleanup" \in Steps /\ x \in Results
      BY Known DEF Steps, Results
    <2>2. q \in RunType /\ q.step = "cleanup" /\ Followed(q) /\ q.started = p.started
      BY <1>1, <2>1, GoesWith
    <2> QED BY <2>1, <2>2, NotYet
  <1>3. run'[r] = q
    BY <1>1, Known, Changed
  <1>4. Beside(r) /\ edited' \subseteq Runs /\ hurt' \subseteq Runs /\ hurt \subseteq hurt'
    BY Known DEF TypeOK, Beside
  <1>5. Placed(r)'
    BY <1>2, <1>3, Known
       DEF Placed, planning, leased, replanning, Held, Renewed, Attempted, Quiet
  <1>6. Looked(r)' /\ Calm(r)' /\ Unhurt(r)'
    <2>1. ~leased(q)
      BY <1>2 DEF leased, replanning, Held, Renewed, Attempted
    <2> QED BY <1>2, <1>3, <1>4, <2>1, Known, Outside
  <1> QED BY <1>1, <1>2, <1>4, <1>5, <1>6, Known, RunStep DEF TypeOK

(* A step to another one. *)
LEMMA Gone ==
  ASSUME Inv, NEW r \in Runs, NEW s \in Steps, GoTo(r, s)
  PROVE  \E q \in RunType :
            /\ run' = [run EXCEPT ![r] = q] /\ run'[r] = q
            /\ q.step = s /\ q.pass = run[r].pass
            /\ sameReads(run[r], q) /\ sameStory(run[r], q)
  <1> DEFINE p == run[r]
             q == went(p, s)
  <1>1. run' = [run EXCEPT ![r] = q]
    BY Known DEF GoTo, went
  <1>2. q = went(p, s) /\ p \in RunType
    BY Known
  <1> HIDE DEF q
  <1>3. /\ q \in RunType /\ q.step = s /\ q.pass = p.pass /\ sameReads(p, q) /\ sameStory(p, q)
    BY <1>2, Goes
  <1>4. run'[r] = q
    BY <1>1, Known, Changed
  <1> QED BY <1>1, <1>3, <1>4

LEMMA PlanWriteKept ==
  ASSUME Inv, NEW r \in Runs, PlanWrite(r)
  PROVE  Inv'
  <1>1. CASE disk.journal
    BY <1>1, UnplannedKept DEF PlanWrite, At, planning
  <1>2. CASE ~disk.journal
    <2>1. /\ run[r].step = "idle" /\ GoTo(r, "read") /\ token' = token /\ lease' = lease
          /\ witness' = [witness EXCEPT ![r] = [open |-> TRUE, root |-> disk.root]]
          /\ UNCHANGED <<profile, disk, cancelled, edited, hurt, used>>
      BY <1>2 DEF PlanWrite, At, outside
    <2>2. PICK q \in RunType :
             /\ run' = [run EXCEPT ![r] = q] /\ run'[r] = q
             /\ q.step = "read" /\ q.pass = run[r].pass
             /\ sameReads(run[r], q) /\ sameStory(run[r], q)
      BY <2>1, Gone DEF Steps
    <2>3. /\ witness' \in [Runs -> [open : BOOLEAN, root : Nat]]
          /\ witness'[r].open /\ witness'[r].root = disk.root
          /\ Beside(r)
      BY <2>1, Known DEF TypeOK, Disks, Beside
    <2>4. Followed(q)
      BY <2>1, <2>2, Known, StoryKept DEF Quiet
    <2>5. ~q.started /\ q.pass = "plan"
      BY <2>1, <2>2, <2>4, Known, NotYet DEF Quiet, Placed
    <2>6. Placed(r)'
      BY <2>1, <2>2, <2>3, <2>5, Known
         DEF Placed, planning, leased, replanning, Held, Renewed, Attempted
    <2>7. Looked(r)' /\ Calm(r)' /\ Unhurt(r)'
      <3>1. ~leased(q)
        BY <2>2, <2>5 DEF leased, replanning, Held, Renewed, Attempted
      <3> QED BY <2>1, <2>2, <2>3, <2>5, <3>1, Known, Outside
    <2> QED BY <2>1, <2>2, <2>3, <2>4, <2>6, <2>7, Known, RunStep DEF TypeOK
  <1> QED BY <1>1, <1>2

LEMMA NoPlanKept ==
  ASSUME Inv, NEW r \in Runs, run[r].step \in {"read", "load"}, NoPlan(r), UNCHANGED <<outside, lease>>
  PROVE  Inv'
  <1>1. CASE run[r].pass = "execute"
    <2>1. token[r] = "consumed" /\ run[r].step \in Quiet
      BY <1>1, Known DEF Placed, leased, replanning, Quiet
    <2> QED BY <1>1, <2>1, Known, EndsKept DEF NoPlan, outside, TypeOK
  <1>2. CASE run[r].pass # "execute"
    BY <1>2, UnplannedKept DEF NoPlan, planning
  <1> QED BY <1>1, <1>2

LEMMA ReadStepKept ==
  ASSUME Inv, NEW r \in Runs, Read(r)
  PROVE  Inv'
  <1> DEFINE p == run[r]
  <1>1. CASE disk.journal
    BY <1>1, NoPlanKept DEF Read, At
  <1>2. CASE ~disk.journal
    <2> DEFINE q == readDeclarations(p, disk.decl)
    <2>1. /\ p.step = "read" /\ token' = token /\ lease' = lease /\ witness' = witness
          /\ UNCHANGED <<profile, disk, cancelled, edited, hurt, used>>
      BY <1>2 DEF Read, At, outside
    <2>2. run' = [run EXCEPT ![r] = q] /\ q = readDeclarations(p, disk.decl)
      BY <1>2, Known DEF Read, readDeclarations
    <2> HIDE DEF q
    <2>3. run'[r] = q
      BY <2>2, Known, Changed
    <2>4. disk.decl \in 0..1 /\ p \in RunType
      BY Known, DiskFields
    <2>5. /\ q \in RunType /\ q.step = "load" /\ q.pass = p.pass /\ sameStory(p, q)
          /\ q.first = p.first /\ q.seen.decl = disk.decl
          /\ q.state = p.state /\ q.revisions = p.revisions /\ q.keep = p.keep
      BY <2>2, <2>4, ReadsDeclarations
    <2>6. Followed(q) /\ ~q.started
      BY <2>1, <2>5, Known, StoryKept, NotYet DEF Quiet
    <2>7. Placed(r)'
      BY <2>1, <2>3, <2>5, Known
         DEF Placed, planning, leased, replanning, Held, Renewed, Attempted
    <2>8. Beside(r)
      BY <2>1 DEF Beside
    <2>9. Looked(r)'
      BY <2>1, <2>3, <2>5, Known DEF Looked, replanning, Held, Renewed, Attempted
    <2>10. Calm(r)' /\ Unhurt(r)'
      BY <2>1, <2>3, <2>5, <2>6, Known DEF Calm, Unhurt, replanning, Held, Renewed, Attempted
    <2> QED BY <2>1, <2>2, <2>5, <2>6, <2>7, <2>8, <2>9, <2>10, Known, RunStep DEF TypeOK
  <1> QED BY <1>1, <1>2

LEMMA LoadKept ==
  ASSUME Inv, NEW r \in Runs, Load(r)
  PROVE  Inv'
  <1> DEFINE p == run[r]
             s == after[p.pass]
  <1>1. CASE obstacle
    BY <1>1, NoPlanKept DEF Load, At
  <1>2. CASE ~obstacle
    <2> DEFINE q == readState(p, s, disk.state, view.relation)
    <2>1. /\ p.step = "load" /\ token' = token /\ lease' = lease /\ witness' = witness
          /\ UNCHANGED <<profile, disk, cancelled, edited, hurt, used>>
      BY <1>2 DEF Load, At, outside
    <2>2. run' = [run EXCEPT ![r] = q] /\ q = readState(p, s, disk.state, view.relation)
      BY <1>2, Known DEF Load, readState
    <2>3. /\ \/ p.pass = "plan" /\ s = "capture"
             \/ p.pass = "stabilize" /\ s = "stable"
             \/ p.pass = "execute" /\ s = "compare"
          /\ s \in Steps
      <3>1. p.pass \in {"plan", "stabilize", "execute"}
        BY Known, RunFields
      <3>2. /\ after["plan"] = "capture" /\ after["stabilize"] = "stable"
            /\ after["execute"] = "compare"
        BY DEF after
      <3> QED BY <3>1, <3>2 DEF Steps
    <2> HIDE DEF q, s
    <2>4. run'[r] = q
      BY <2>2, Known, Changed
    <2>5. disk.state \in States /\ view.relation \in Relations /\ p \in RunType
      BY Known, ViewFields
    <2>6. /\ q \in RunType /\ q.step = s /\ q.pass = p.pass /\ sameStory(p, q)
          /\ q.first = p.first /\ q.seen.decl = p.seen.decl
          /\ q.state = disk.state /\ q.revisions = p.revisions /\ q.keep = p.keep
      BY <2>2, <2>3, <2>5, ReadsState
    <2>7. Followed(q) /\ ~q.started
      BY <2>1, <2>3, <2>6, Known, StoryKept, NotYet DEF Quiet
    <2>8. Placed(r)'
      BY <2>1, <2>3, <2>4, <2>6, Known
         DEF Placed, planning, leased, replanning, Held, Renewed, Attempted
    <2>9. Beside(r)
      BY <2>1 DEF Beside
    <2>10. since(disk.state, disk.state) /\ ~disk.pending
      BY <1>2, <2>5, SinceSelf DEF obstacle
    <2>11. Looked(r)'
      BY <2>1, <2>3, <2>4, <2>6, <2>10, Known DEF Looked, replanning, Held, Renewed, Attempted
    <2>12. Calm(r)' /\ Unhurt(r)'
      BY <2>1, <2>3, <2>4, <2>6, <2>7, Known DEF Calm, Unhurt, replanning, Held, Renewed, Attempted
    <2> QED BY <2>1, <2>2, <2>6, <2>7, <2>8, <2>9, <2>11, <2>12, Known, RunStep DEF TypeOK
  <1> QED BY <1>1, <1>2

LEMMA CaptureKept ==
  ASSUME Inv, NEW r \in Runs, Capture(r)
  PROVE  Inv'
  <1> DEFINE p == run[r]
             q == readRevisions(p, view, "stabilize")
  <1>1. /\ p.step = "capture" /\ token' = token /\ lease' = lease /\ witness' = witness
        /\ UNCHANGED <<profile, disk, cancelled, edited, hurt, used>>
    BY DEF Capture, At, outside
  <1>2. run' = [run EXCEPT ![r] = q] /\ q = readRevisions(p, view, "stabilize")
    BY Known DEF Capture, readRevisions
  <1> HIDE DEF q
  <1>3. run'[r] = q
    BY <1>2, Known, Changed
  <1>4. q \in RunType /\ q.step = "read" /\ q.pass = "stabilize" /\ sameStory(p, q)
    BY <1>2, Known, ReadsRevisions
  <1>5. Followed(q) /\ ~q.started
    BY <1>1, <1>4, Known, StoryKept, NotYet DEF Quiet
  <1>6. Placed(r)'
    BY <1>1, <1>3, <1>4, Known DEF Placed, planning, leased, replanning, Held, Renewed, Attempted
  <1>7. Beside(r)
    BY <1>1 DEF Beside
  <1>8. Looked(r)' /\ Calm(r)' /\ Unhurt(r)'
    <2>1. ~leased(q)
      BY <1>4 DEF leased, replanning, Held, Renewed, Attempted
    <2> QED BY <1>1, <1>3, <1>5, <2>1, Known, Outside
  <1> QED BY <1>1, <1>2, <1>4, <1>5, <1>6, <1>7, <1>8, Known, RunStep DEF TypeOK

LEMMA StabilizeKept ==
  ASSUME Inv, NEW r \in Runs, Stabilize(r)
  PROVE  Inv'
  <1> DEFINE p == run[r]
             ok == p.seen = p.first /\ rooted(r) /\ view = p.revisions
  <1>1. CASE ~ok
    BY <1>1, UnplannedKept DEF Stabilize, At, planning
  <1>2. CASE ok
    <2>1. /\ p.step = "stable" /\ GoTo(r, "ready") /\ token' = [token EXCEPT ![r] = "ready"]
          /\ lease' = lease /\ witness' = witness
          /\ UNCHANGED <<profile, disk, cancelled, edited, hurt, used>>
      BY <1>2 DEF Stabilize, At, outside
    <2>2. PICK q \in RunType :
             /\ run' = [run EXCEPT ![r] = q] /\ run'[r] = q
             /\ q.step = "ready" /\ q.pass = p.pass
             /\ sameReads(p, q) /\ sameStory(p, q)
      BY <2>1, Gone DEF Steps
    <2>3. /\ token' \in [Runs -> {"none", "unavailable", "ready", "closed", "consumed"}]
          /\ token'[r] = "ready" /\ Beside(r)
      BY <2>1, Known DEF TypeOK, Beside
    <2>4. Followed(q) /\ ~q.started
      BY <2>1, <2>2, Known, StoryKept, NotYet DEF Quiet
    <2>5. Placed(r)'
      BY <2>1, <2>2, <2>3, Known
         DEF Placed, planning, leased, replanning, Held, Renewed, Attempted
    <2>6. Looked(r)' /\ Calm(r)' /\ Unhurt(r)'
      <3>1. ~leased(q)
        BY <2>2 DEF leased, replanning, Held, Renewed, Attempted
      <3> QED BY <2>1, <2>2, <2>4, <3>1, Known, Outside
    <2> QED BY <2>1, <2>2, <2>3, <2>4, <2>5, <2>6, Known, RunStep DEF TypeOK
  <1> QED BY <1>1, <1>2

(* From one quiet step to another. *)
LEMMA QuietGo ==
  ASSUME Inv, NEW r \in Runs, NEW s \in Quiet, run[r].step \in Quiet, GoTo(r, s),
         UNCHANGED <<profile, disk, cancelled, hurt, used>>, edited' \in {edited, edited \ {r}},
         token' \in [Runs -> {"none", "unavailable", "ready", "closed", "consumed"}],
         \A o \in Runs \ {r} : token'[o] = token[o], witness' = witness,
         lease' = lease \/ (lease = None /\ lease' = r)
  PROVE  /\ run'[r].step = s /\ run'[r].pass = run[r].pass /\ sameReads(run[r], run'[r])
         /\ Placed(r)' /\ Looked(r)' /\ Calm(r)' => Inv'
         /\ Placed(r)' /\ ~leased(run'[r]) => Inv'
         /\ view' = view
  <1>1. s \in Steps
    BY DEF Quiet, Renewed, Steps
  <1>2. PICK q \in RunType :
           /\ run' = [run EXCEPT ![r] = q] /\ run'[r] = q
           /\ q.step = s /\ q.pass = run[r].pass
           /\ sameReads(run[r], q) /\ sameStory(run[r], q)
    BY <1>1, Gone
  <1>3. Followed(q) /\ ~q.started
    BY <1>2, Known, StoryKept, NotYet
  <1>4. Beside(r)
    BY DEF Beside
  <1>5. Unhurt(r)'
    BY <1>2, <1>3, Known DEF Unhurt, Quiet, Renewed, Attempted
  <1>6. Placed(r)' /\ Looked(r)' /\ Calm(r)' => Inv'
    BY <1>2, <1>3, <1>4, <1>5, Known, RunStep DEF TypeOK
  <1>7. Placed(r)' /\ ~leased(run'[r]) => Inv'
    BY <1>2, <1>3, <1>6, Known, Outside
  <1>8. view' = view
    BY DEF view
  <1> QED BY <1>2, <1>6, <1>7, <1>8

LEMMA BeginKept ==
  ASSUME Inv, NEW r \in Runs, Begin(r)
  PROVE  Inv'
  <1>1. /\ run[r].step = "ready" /\ token' = [token EXCEPT ![r] = "consumed"]
        /\ GoTo(r, "check") /\ lease' = lease /\ witness' = witness
        /\ UNCHANGED <<profile, disk, cancelled, edited, hurt, used>>
    BY Known DEF Begin, outside, Placed
  <1>2. /\ token' \in [Runs -> {"none", "unavailable", "ready", "closed", "consumed"}]
        /\ token'[r] = "consumed" /\ \A o \in Runs \ {r} : token'[o] = token[o]
    BY <1>1, Known DEF TypeOK
  <1>3. /\ run'[r].step = "check" /\ run'[r].pass = run[r].pass
        /\ Placed(r)' /\ ~leased(run'[r]) => Inv'
    <2>1. run[r].step \in Quiet /\ "check" \in Quiet
      BY <1>1 DEF Quiet
    <2>2. /\ edited' \in {edited, edited \ {r}}
          /\ lease' = lease \/ (lease = None /\ lease' = r)
      BY <1>1
    <2> QED BY <1>1, <1>2, <2>1, <2>2, QuietGo
  <1>4. Placed(r)'
    BY <1>1, <1>2, <1>3, Known
       DEF Placed, planning, leased, replanning, Held, Renewed, Attempted
  <1> QED BY <1>3, <1>4 DEF leased, replanning, Held, Renewed, Attempted

(* The prepared command is closed, with or without a refusal. *)
LEMMA CloseKept ==
  ASSUME Inv, NEW r \in Runs, Close(r) \/ Cancel(r)
  PROVE  Inv'
  <1> DEFINE p == run[r]
  <1>1. /\ p.step = "ready" /\ token' = [token EXCEPT ![r] = "closed"]
        /\ witness' = [witness EXCEPT ![r].open = FALSE] /\ lease' = lease
        /\ UNCHANGED <<profile, disk, cancelled, edited, hurt, used>>
    BY Known DEF Close, Cancel, outside, Placed
  <1>2. PICK q \in RunType :
           /\ run' = [run EXCEPT ![r] = q]
           /\ q.step = "done" /\ q.pass = p.pass /\ Followed(q) /\ ~q.started
    <2>1. CASE Close(r)
      <3>1. GoTo(r, "done") /\ "done" \in Steps
        BY <2>1 DEF Close, Steps
      <3>2. PICK q \in RunType :
               /\ run' = [run EXCEPT ![r] = q] /\ run'[r] = q
               /\ q.step = "done" /\ q.pass = p.pass
               /\ sameReads(p, q) /\ sameStory(p, q)
        BY <3>1, Gone
      <3>3. Followed(q) /\ ~q.started
        BY <1>1, <3>2, Known, StoryKept, NotYet DEF Quiet, sameStory
      <3> QED BY <3>2, <3>3
    <2>2. CASE Cancel(r)
      <3> DEFINE q == declines(p)
      <3>1. run' = [run EXCEPT ![r] = q] /\ q = declines(p)
        BY <2>2, Known DEF Cancel, declines
      <3> HIDE DEF q
      <3>2. /\ q \in RunType /\ q.step = "done" /\ q.pass = p.pass /\ Followed(q)
            /\ q.started = p.started
        BY <1>1, <3>1, Known, StoryDeclined
      <3>3. ~p.started
        BY <1>1, Known, NotYet DEF Quiet
      <3> QED BY <3>1, <3>2, <3>3
    <2> QED BY <2>1, <2>2
  <1>3. run'[r] = q
    BY <1>2, Known, Changed
  <1>4. /\ token' \in [Runs -> {"none", "unavailable", "ready", "closed", "consumed"}]
        /\ witness' \in [Runs -> [open : BOOLEAN, root : Nat]]
        /\ token'[r] = "closed" /\ ~witness'[r].open /\ witness'[r].root = witness[r].root
        /\ Beside(r)
    BY <1>1, Known DEF TypeOK, Beside
  <1>5. Placed(r)'
    BY <1>1, <1>2, <1>3, <1>4, Known
       DEF Placed, planning, leased, replanning, Held, Renewed, Attempted
  <1>6. Looked(r)' /\ Calm(r)' /\ Unhurt(r)'
    <2>1. ~leased(q)
      BY <1>2 DEF leased, replanning, Held, Renewed, Attempted
    <2> QED BY <1>1, <1>2, <1>3, <1>4, <2>1, Known, Outside
  <1> QED BY <1>1, <1>2, <1>4, <1>5, <1>6, Known, RunStep DEF TypeOK

LEMMA AcquireKept ==
  ASSUME Inv, NEW r \in Runs, Acquire(r)
  PROVE  Inv'
  <1>1. /\ run[r].step = "acquire" /\ lease = None /\ lease' = r
        /\ GoTo(r, "recheck") /\ token' = token /\ witness' = witness
        /\ UNCHANGED <<profile, disk, cancelled, edited, hurt, used>>
    BY DEF Acquire, At, outside
  <1>2. /\ run'[r].step = "recheck" /\ run'[r].pass = run[r].pass
        /\ Placed(r)' /\ Looked(r)' /\ Calm(r)' => Inv'
    BY <1>1, Known, QuietGo DEF Quiet, TypeOK
  <1>3. Placed(r)'
    BY <1>1, <1>2, Known DEF Placed, planning, leased, replanning, Held, Renewed, Attempted
  <1>4. Looked(r)' /\ Calm(r)'
    BY <1>1, <1>2, Known DEF Looked, Calm, replanning, Held, Renewed, Attempted
  <1> QED BY <1>2, <1>3, <1>4

LEMMA CheckKept ==
  ASSUME Inv, NEW r \in Runs, Check(r)
  PROVE  Inv'
  <1> DEFINE ok == asPlanned(r)
  <1>1. /\ run[r].step = "check" /\ token' = token /\ lease' = lease /\ witness' = witness
        /\ UNCHANGED <<profile, disk, cancelled, hurt, used>>
        /\ edited' = edited
        /\ IF ok THEN GoTo(r, "acquire") ELSE Ends(r, "refused")
    BY DEF Check, Confirmed, At
  <1>2. /\ token[r] = "consumed" /\ run[r].step \in Quiet /\ "acquire" \in Quiet
    BY <1>1, Known DEF Placed, leased, Held, Renewed, Quiet
  <1>3. CASE ~ok
    BY <1>1, <1>2, <1>3, Known, EndsKept DEF TypeOK
  <1>4. CASE ok
    <2>1. /\ run'[r].step = "acquire" /\ run'[r].pass = run[r].pass /\ sameReads(run[r], run'[r])
          /\ Placed(r)' /\ Looked(r)' /\ Calm(r)' => Inv'
          /\ Placed(r)' /\ ~leased(run'[r]) => Inv'
          /\ view' = view
      BY <1>1, <1>2, <1>4, Known, QuietGo DEF TypeOK
    <2>2. Placed(r)'
      BY <1>1, <2>1, Known DEF Placed, planning, leased, replanning, Held, Renewed, Attempted
    <2> QED BY <2>1, <2>2 DEF leased, replanning, Held, Renewed, Attempted
  <1> QED BY <1>3, <1>4

LEMMA RecheckKept ==
  ASSUME Inv, NEW r \in Runs, Recheck(r)
  PROVE  Inv'
  <1> DEFINE ok == asPlanned(r)
  <1>1. /\ run[r].step = "recheck" /\ token' = token /\ lease' = lease /\ witness' = witness
        /\ UNCHANGED <<profile, disk, cancelled, hurt, used>>
        /\ edited' = edited
        /\ IF ok THEN GoTo(r, "recapture") ELSE Ends(r, "refused")
    BY DEF Recheck, Confirmed, At
  <1>2. /\ token[r] = "consumed" /\ run[r].step \in Quiet /\ "recapture" \in Quiet
    BY <1>1, Known DEF Placed, leased, Held, Renewed, Quiet
  <1>3. CASE ~ok
    BY <1>1, <1>2, <1>3, Known, EndsKept DEF TypeOK
  <1>4. CASE ok
    <2>1. /\ run'[r].step = "recapture" /\ run'[r].pass = run[r].pass /\ sameReads(run[r], run'[r])
          /\ Placed(r)' /\ Looked(r)' /\ Calm(r)' => Inv'
          /\ Placed(r)' /\ ~leased(run'[r]) => Inv'
          /\ view' = view
      BY <1>1, <1>2, <1>4, Known, QuietGo DEF TypeOK
    <2>2. Placed(r)'
      BY <1>1, <2>1, Known DEF Placed, planning, leased, replanning, Held, Renewed, Attempted
    <2>3. Looked(r)'
      BY <1>1, <1>4, <2>1, Known DEF Looked, sameReads, replanning, Held, Renewed, Attempted
    <2>4. Calm(r)'
      BY <1>1, <2>1, Known DEF Calm, sameReads, replanning, Held, Renewed, Attempted
    <2> QED BY <2>1, <2>2, <2>3, <2>4
  <1> QED BY <1>3, <1>4

LEMMA CompareKept ==
  ASSUME Inv, NEW r \in Runs, Compare(r)
  PROVE  Inv'
  <1> DEFINE ok == run[r].seen = run[r].first /\ asPlanned(r)
  <1>1. /\ run[r].step = "compare" /\ token' = token /\ lease' = lease /\ witness' = witness
        /\ UNCHANGED <<profile, disk, cancelled, hurt, used>>
        /\ edited' = edited
        /\ IF ok THEN GoTo(r, "native") ELSE Ends(r, "refused")
    BY DEF Compare, Confirmed, At
  <1>2. /\ token[r] = "consumed" /\ run[r].step \in Quiet /\ "native" \in Quiet
    BY <1>1, Known DEF Placed, leased, Held, Renewed, Quiet
  <1>3. CASE ~ok
    BY <1>1, <1>2, <1>3, Known, EndsKept DEF TypeOK
  <1>4. CASE ok
    <2>1. /\ run'[r].step = "native" /\ run'[r].pass = run[r].pass /\ sameReads(run[r], run'[r])
          /\ Placed(r)' /\ Looked(r)' /\ Calm(r)' => Inv'
          /\ Placed(r)' /\ ~leased(run'[r]) => Inv'
          /\ view' = view
      BY <1>1, <1>2, <1>4, Known, QuietGo DEF TypeOK
    <2>2. Placed(r)'
      BY <1>1, <2>1, Known DEF Placed, planning, leased, replanning, Held, Renewed, Attempted
    <2>3. Looked(r)'
      <3>1. view = run[r].revisions
        BY <1>4 DEF asPlanned
      <3>2. disk.state = run[r].revisions.state
        BY <3>1, Known, ViewType
      <3>3. run[r].state = run[r].revisions.state
        <4>1. since(run[r].revisions.state, run[r].state) /\ since(run[r].state, disk.state)
          BY <1>1, Known DEF Looked
        <4>2. run[r].state \in States /\ run[r].revisions.state \in States
          BY Known, RunFields, ViewFields
        <4> QED BY <3>2, <4>1, <4>2, Known, SameState, StateFields DEF since
      <3> QED BY <1>1, <1>4, <2>1, <3>2, <3>3, Known
              DEF Looked, sameReads, replanning, Held, Renewed, Attempted
    <2>4. Calm(r)'
      BY <1>1, <2>1, Known DEF Calm, sameReads, replanning, Held, Renewed, Attempted
    <2> QED BY <2>1, <2>2, <2>3, <2>4
  <1> QED BY <1>3, <1>4

LEMMA PrepareNativeKept ==
  ASSUME Inv, NEW r \in Runs, PrepareNative(r)
  PROVE  Inv'
  <1> DEFINE ok == (profile.native => ~disk.pending)
  <1>1. /\ run[r].step = "native" /\ token' = token /\ lease' = lease /\ witness' = witness
        /\ UNCHANGED <<profile, disk, cancelled, hurt, used>>
        /\ edited' = edited
        /\ IF ok THEN GoTo(r, "keep") ELSE Ends(r, "refused")
    BY DEF PrepareNative, Confirmed, At
  <1>2. /\ token[r] = "consumed" /\ run[r].step \in Quiet /\ "keep" \in Quiet
    BY <1>1, Known DEF Placed, leased, Held, Renewed, Quiet
  <1>3. CASE ~ok
    BY <1>1, <1>2, <1>3, Known, EndsKept DEF TypeOK
  <1>4. CASE ok
    <2>1. /\ run'[r].step = "keep" /\ run'[r].pass = run[r].pass /\ sameReads(run[r], run'[r])
          /\ Placed(r)' /\ Looked(r)' /\ Calm(r)' => Inv'
          /\ Placed(r)' /\ ~leased(run'[r]) => Inv'
          /\ view' = view
      BY <1>1, <1>2, <1>4, Known, QuietGo DEF TypeOK
    <2>2. Placed(r)'
      BY <1>1, <2>1, Known DEF Placed, planning, leased, replanning, Held, Renewed, Attempted
    <2>3. Looked(r)'
      BY <1>1, <1>4, <2>1, Known DEF Looked, sameReads, replanning, Held, Renewed, Attempted
    <2>4. Calm(r)'
      BY <1>1, <2>1, Known DEF Calm, sameReads, replanning, Held, Renewed, Attempted
    <2> QED BY <2>1, <2>2, <2>3, <2>4
  <1> QED BY <1>3, <1>4

LEMMA PeerKept ==
  ASSUME Inv, NEW r \in Runs, Peer(r)
  PROVE  Inv'
  <1> DEFINE ok == asPlanned(r)
  <1>1. /\ run[r].step = "peer" /\ token' = token /\ lease' = lease /\ witness' = witness
        /\ UNCHANGED <<profile, disk, cancelled, hurt, used>>
        /\ edited' = edited \ {r}
        /\ IF ok THEN GoTo(r, "barrier") ELSE Ends(r, "refused")
    BY DEF Peer, Confirmed, At
  <1>2. /\ token[r] = "consumed" /\ run[r].step \in Quiet /\ "barrier" \in Quiet
    BY <1>1, Known DEF Placed, leased, Held, Renewed, Quiet
  <1>3. CASE ~ok
    BY <1>1, <1>2, <1>3, Known, EndsKept DEF TypeOK
  <1>4. CASE ok
    <2>1. /\ run'[r].step = "barrier" /\ run'[r].pass = run[r].pass /\ sameReads(run[r], run'[r])
          /\ Placed(r)' /\ Looked(r)' /\ Calm(r)' => Inv'
          /\ Placed(r)' /\ ~leased(run'[r]) => Inv'
          /\ view' = view
      BY <1>1, <1>2, <1>4, Known, QuietGo DEF TypeOK
    <2>2. Placed(r)'
      BY <1>1, <2>1, Known DEF Placed, planning, leased, replanning, Held, Renewed, Attempted
    <2>3. Looked(r)'
      <3>1. view = run[r].revisions
        BY <1>4 DEF asPlanned
      <3>2. disk.state = run[r].revisions.state
        BY <3>1, Known, ViewType
      <3>3. run[r].keep.state = run[r].state
        <4>1. /\ since(run[r].state, run[r].keep.state) /\ since(run[r].keep.state, disk.state)
              /\ run[r].state = run[r].revisions.state
          BY <1>1, Known DEF Looked, Renewed
        <4>2. run[r].state \in States /\ run[r].keep.state \in States
          BY Known, RunFields, ViewFields
        <4> QED BY <3>2, <4>1, <4>2, Known, SameState, StateFields DEF since
      <3> QED BY <1>1, <1>4, <2>1, <3>1, <3>3, Known
              DEF Looked, sameReads, replanning, Held, Renewed, Attempted
    <2>4. Calm(r)'
      BY <1>1, <2>1, Known DEF Calm, sameReads, replanning, Held, Renewed, Attempted
    <2> QED BY <2>1, <2>2, <2>3, <2>4
  <1> QED BY <1>3, <1>4

LEMMA PreAttemptBarrierKept ==
  ASSUME Inv, NEW r \in Runs, PreAttemptBarrier(r)
  PROVE  Inv'
  <1> DEFINE ok == ~disk.journal
  <1>1. /\ run[r].step = "barrier" /\ token' = token /\ lease' = lease /\ witness' = witness
        /\ UNCHANGED <<profile, disk, cancelled, hurt, used>>
        /\ edited' = edited
        /\ IF ok THEN GoTo(r, "invoke") ELSE Ends(r, "refused")
    BY DEF PreAttemptBarrier, Confirmed, At
  <1>2. /\ token[r] = "consumed" /\ run[r].step \in Quiet /\ "invoke" \in Quiet
    BY <1>1, Known DEF Placed, leased, Held, Renewed, Quiet
  <1>3. CASE ~ok
    BY <1>1, <1>2, <1>3, Known, EndsKept DEF TypeOK
  <1>4. CASE ok
    <2>1. /\ run'[r].step = "invoke" /\ run'[r].pass = run[r].pass /\ sameReads(run[r], run'[r])
          /\ Placed(r)' /\ Looked(r)' /\ Calm(r)' => Inv'
          /\ Placed(r)' /\ ~leased(run'[r]) => Inv'
          /\ view' = view
      BY <1>1, <1>2, <1>4, Known, QuietGo DEF TypeOK
    <2>2. Placed(r)'
      BY <1>1, <2>1, Known DEF Placed, planning, leased, replanning, Held, Renewed, Attempted
    <2>3. Looked(r)'
      BY <1>1, <1>4, <2>1, Known DEF Looked, sameReads, replanning, Held, Renewed, Attempted
    <2>4. Calm(r)'
      BY <1>1, <2>1, Known DEF Calm, sameReads, replanning, Held, Renewed, Attempted
    <2> QED BY <2>1, <2>2, <2>3, <2>4
  <1> QED BY <1>3, <1>4

LEMMA RecaptureKept ==
  ASSUME Inv, NEW r \in Runs, Recapture(r)
  PROVE  Inv'
  <1> DEFINE p == run[r]
             q == readRevisions(p, view, "execute")
  <1>1. /\ p.step = "recapture" /\ token' = token /\ lease' = lease /\ witness' = witness
        /\ UNCHANGED <<profile, disk, cancelled, edited, hurt, used>>
    BY DEF Recapture, At, outside
  <1>2. run' = [run EXCEPT ![r] = q] /\ q = readRevisions(p, view, "execute")
    BY Known DEF Recapture, readRevisions
  <1> HIDE DEF q
  <1>3. run'[r] = q
    BY <1>2, Known, Changed
  <1>4. /\ q \in RunType /\ q.step = "read" /\ q.pass = "execute" /\ sameStory(p, q)
        /\ q.revisions = view
    BY <1>2, Known, ReadsRevisions
  <1>5. Followed(q) /\ ~q.started
    BY <1>1, <1>4, Known, StoryKept, NotYet DEF Quiet
  <1>6. Placed(r)'
    BY <1>1, <1>3, <1>4, Known DEF Placed, planning, leased, replanning, Held, Renewed, Attempted
  <1>7. Beside(r)
    BY <1>1 DEF Beside
  <1>8. q.revisions.state = disk.state /\ q.revisions.decl = disk.decl
    BY <1>4, Known, ViewType
  <1>9. since(q.revisions.state, disk.state)
    BY <1>8, Known, SinceSelf
  <1>10. Looked(r)'
    BY <1>1, <1>3, <1>4, <1>8, <1>9 DEF Looked, replanning, Held, Renewed, Attempted
  <1>11. Calm(r)' /\ Unhurt(r)'
    BY <1>1, <1>3, <1>4, <1>5, <1>8, Known DEF Calm, Unhurt, replanning, Held, Renewed, Attempted
  <1> QED BY <1>1, <1>2, <1>4, <1>5, <1>6, <1>7, <1>10, <1>11, Known, RunStep DEF TypeOK

LEMMA KeepKept ==
  ASSUME Inv, NEW r \in Runs, Keep(r)
  PROVE  Inv'
  <1> DEFINE p == run[r]
             q == readKept(p, view)
  <1>1. /\ p.step = "keep" /\ token' = token /\ lease' = lease /\ witness' = witness
        /\ UNCHANGED <<profile, disk, cancelled, edited, hurt, used>>
    BY DEF Keep, At, outside
  <1>2. run' = [run EXCEPT ![r] = q] /\ q = readKept(p, view)
    BY Known DEF Keep, readKept
  <1> HIDE DEF q
  <1>3. run'[r] = q
    BY <1>2, Known, Changed
  <1>4. /\ q \in RunType /\ q.step = "peer" /\ q.pass = p.pass /\ sameStory(p, q)
        /\ q.first = p.first /\ q.seen = p.seen
        /\ q.state = p.state /\ q.revisions = p.revisions /\ q.keep = view
    BY <1>2, Known, ReadsKept
  <1>5. Followed(q) /\ ~q.started
    BY <1>1, <1>4, Known, StoryKept, NotYet DEF Quiet, Renewed
  <1>6. Placed(r)'
    BY <1>1, <1>3, <1>4, Known DEF Placed, planning, leased, replanning, Held, Renewed, Attempted
  <1>7. Beside(r)
    BY <1>1 DEF Beside
  <1>8. q.keep.state = disk.state /\ q.keep.decl = disk.decl
    BY <1>4, Known, ViewType
  <1>9. since(q.keep.state, disk.state)
    BY <1>8, Known, SinceSelf
  <1>10. Looked(r)'
    BY <1>1, <1>3, <1>4, <1>8, <1>9, Known DEF Looked, replanning, Held, Renewed, Attempted
  <1>11. Calm(r)' /\ Unhurt(r)'
    BY <1>1, <1>3, <1>4, <1>5, <1>8, Known DEF Calm, Unhurt, replanning, Held, Renewed, Attempted
  <1> QED BY <1>1, <1>2, <1>4, <1>5, <1>6, <1>7, <1>10, <1>11, Known, RunStep DEF TypeOK

LEMMA StoppedKept ==
  ASSUME Inv, NEW r \in Runs, Stopped(r)
  PROVE  Inv'
  <1>1. /\ run[r].step \in Quiet
        /\ UNCHANGED <<profile, disk, lease, token, witness, cancelled, edited>>
        /\ run[r].pass = "execute" \/ token[r] = "consumed"
    BY DEF Stopped, BeforeStart, Quiet, Renewed
  <1>2. token[r] = "consumed"
    BY <1>1, Known DEF Stopped, BeforeStart, Placed, leased, replanning, Held, Renewed
  <1>3. \/ Ends(r, "cancelled") /\ hurt' = hurt /\ used' = used
        \/ Ends(r, "refused") /\ hurt' = hurt \cup {r} /\ Spend("fault")
    BY DEF Stopped
  <1>4. used' \in [Events -> Nat] /\ used'["edit"] = used["edit"]
    BY <1>3, Known, Spent DEF TypeOK, Events
  <1> QED BY <1>1, <1>2, <1>3, <1>4, EndsKept

(* The attempt. *)
LEMMA LeavesPending ==
  ASSUME disk \in Disks, NEW left \in BOOLEAN, disk' = [disk EXCEPT !.pending = @ \/ left]
  PROVE  /\ disk' \in Disks /\ disk'.decl = disk.decl /\ disk'.state = disk.state
         /\ disk'.relation = disk.relation /\ disk'.root = disk.root
         /\ disk'.journal = disk.journal
  <1> DEFINE b == disk.pending \/ left
  <1>1. b \in BOOLEAN /\ disk' = [disk EXCEPT !.pending = b]
    BY DEF Disks
  <1> HIDE DEF b
  <1> QED BY <1>1 DEF Disks

LEMMA NotStartedNativeKept ==
  ASSUME Inv, NEW r \in Runs, NotStartedNative(r)
  PROVE  Inv'
  <1> DEFINE p == run[r]
  <1>1. PICK left \in BOOLEAN :
           /\ disk' = [disk EXCEPT !.pending = @ \/ left]
           /\ run' = [run EXCEPT ![r] = unstarted(p, left)]
    BY Known DEF NotStartedNative, unstarted
  <1>2. /\ p.step = "invoke" /\ hurt' = hurt \cup {r} /\ Spend("fault")
        /\ UNCHANGED <<profile, lease, token, witness, cancelled, edited>>
    BY DEF NotStartedNative, At
  <1>3. PICK q : q = unstarted(p, left)
    OBVIOUS
  <1>4. /\ q \in RunType /\ q.step = "cleanup" /\ q.pass = p.pass /\ Followed(q)
        /\ q.started = p.started
    BY <1>2, <1>3, Known, StoryNotStarted
  <1>5. run' = [run EXCEPT ![r] = q] /\ run'[r] = q
    BY <1>1, <1>3, Known, Changed
  <1>6. used' \in [Events -> Nat] /\ used'["edit"] = used["edit"]
    BY <1>2, Known, Spent DEF Events
  <1>7. /\ disk' \in Disks /\ disk'.state = disk.state /\ disk'.root = disk.root
        /\ lease = r
    BY <1>1, <1>2, Known, LeavesPending DEF Placed, leased, Held, Renewed
  <1>8. Beside(r)
    BY <1>2, <1>6, <1>7 DEF Beside
  <1>9. Placed(r)'
    BY <1>2, <1>4, <1>5, Known DEF Placed, planning, leased, replanning, Held, Renewed, Attempted
  <1>10. Looked(r)' /\ Calm(r)' /\ Unhurt(r)'
    <2>1. ~leased(q) /\ hurt \subseteq hurt' /\ r \in hurt'
      BY <1>2, <1>4 DEF leased, replanning, Held, Renewed, Attempted
    <2> QED BY <1>2, <1>5, <1>6, <1>7, <2>1, Known, Outside
  <1> QED BY <1>2, <1>4, <1>5, <1>6, <1>7, <1>8, <1>9, <1>10, Known, RunStep DEF TypeOK

(* Each way in which the command ends before it is looked at. *)
LEMMA NativeKept ==
  ASSUME Inv, NEW r \in Runs, NEW attempt \in Attempts, NEW s, Native(r, attempt, s),
         Ways(run[r], attempt, s),
         UNCHANGED <<profile, lease, token, witness, cancelled, edited, hurt, used>>
  PROVE  Inv'
  <1> DEFINE p == run[r]
  <1>1. PICK err \in BOOLEAN, left \in BOOLEAN :
           /\ left => err
           /\ disk' = [disk EXCEPT !.pending = @ \/ left]
           /\ run' = [run EXCEPT ![r] = attempted(p, attempt, err, left, s)]
    <2>1. PICK err \in BOOLEAN, left \in BOOLEAN :
             /\ left => err
             /\ disk' = [disk EXCEPT !.pending = @ \/ left]
             /\ run' = [run EXCEPT ![r].attempt = attempt, ![r].nativeErr = err, ![r].left = left,
                                   ![r].step = s]
      BY Zenon DEF Native
    <2>2. run' = [run EXCEPT ![r] = attempted(p, attempt, err, left, s)]
      <3>1. run \in [Runs -> RunType]
        BY Known
      <3> QED BY <2>1, <3>1 DEF attempted
    <2> QED BY <2>1, <2>2, Zenon
  <1>2. PICK q : q = attempted(p, attempt, err, left, s)
    OBVIOUS
  <1>3. /\ q \in RunType /\ q.step = s /\ q.pass = p.pass /\ sameReads(p, q) /\ Followed(q)
        /\ ~q.persistErr /\ q.started = p.started
    <2>1. p \in RunType /\ Followed(p)
      BY Known
    <2> HIDE DEF p
    <2>2. p = run[r]
      BY DEF p
    <2>3. Ways(p, attempt, s)
      BY <2>2
    <2>4. /\ q \in RunType /\ q.step = s /\ q.pass = p.pass /\ sameReads(p, q)
          /\ q.left = left /\ q.nativeErr = err
          /\ (q.left => q.nativeErr) => Followed(q)
          /\ ~q.persistErr /\ q.started = p.started
      BY <1>2, <2>1, <2>3, StoryNative
    <2> QED BY <1>1, <2>4
  <1>4. run' = [run EXCEPT ![r] = q] /\ run'[r] = q
    BY <1>1, <1>2, Known, Changed
  <1>5. /\ disk' \in Disks /\ disk'.decl = disk.decl /\ disk'.state = disk.state
        /\ disk'.root = disk.root /\ disk'.journal = disk.journal /\ lease = r
    BY <1>1, Known, LeavesPending DEF Placed, leased, Held, Renewed, Attempted, Ways
  <1>6. Beside(r)
    BY <1>5 DEF Beside
  <1>7. Placed(r)'
    BY <1>3, <1>4, Known DEF Placed, planning, leased, replanning, Held, Renewed, Attempted, Ways
  <1>8. Looked(r)'
    BY <1>3, <1>4, <1>5, Known DEF Looked, sameReads, replanning, Held, Renewed, Attempted, Ways
  <1>9. Calm(r)'
    BY <1>3, <1>4, <1>5, Known DEF Calm, sameReads, replanning, Held, Renewed, Attempted, Ways
  <1>10. Unhurt(r)'
    BY <1>3, <1>4, <1>5, Known DEF Unhurt, Attempted, Ways
  <1> QED BY <1>3, <1>4, <1>5, <1>6, <1>7, <1>8, <1>9, <1>10, Known, RunStep DEF TypeOK

LEMMA FailsKept ==
  ASSUME Inv, NEW r \in Runs, Fails(r)
  PROVE  Inv'
  <1>1. PICK attempt \in NotStarted : Native(r, attempt, "observe")
    BY DEF Fails
  <1>2. /\ run[r].step = "invoke" /\ attempt \in Attempts
        /\ UNCHANGED <<profile, lease, token, witness, cancelled, edited, hurt, used>>
    BY DEF Fails, At, Attempts
  <1> QED BY <1>1, <1>2, NativeKept DEF Ways

LEMMA EndKept ==
  ASSUME Inv, NEW r \in Runs, End(r)
  PROVE  Inv'
  <1>1. PICK attempt \in ends(r) :
           Native(r, IF rooted(r) THEN attempt ELSE "lost directory", "post barrier")
    BY DEF End
  <1>2. PICK a : a = IF rooted(r) THEN attempt ELSE "lost directory"
    OBVIOUS
  <1>3. a \in Interrupted \cup {"ok", "failed", "lost directory"} /\ a \in Attempts
    BY <1>1, <1>2 DEF ends, Interrupted, Attempts
  <1>4. /\ run[r].step = "running" /\ Native(r, a, "post barrier")
        /\ UNCHANGED <<profile, lease, token, witness, cancelled, edited, hurt, used>>
    BY <1>1, <1>2 DEF End, At
  <1> QED BY <1>3, <1>4, NativeKept DEF Ways

(* From the attempt on, with nothing changed but the run. *)
LEMMA Onward ==
  ASSUME Inv, NEW r \in Runs, NEW q \in RunType, run' = [run EXCEPT ![r] = q],
         Followed(q), q.pass = run[r].pass, sameReads(run[r], q),
         run[r].step \in {"invoke", "settle"} \cup Attempted,
         \/ q.step \in Attempted /\ run[r].step # "settle"
         \/ q.step = "report",
         q.step = "publish" => disk.state = run[r].keep.state,
         r \notin hurt' => /\ q.step \in Attempted => ~q.persistErr
                           /\ q.started /\ q.step = "report" => r \in disk.state.rows,
         UNCHANGED <<profile, disk, lease, token, witness, cancelled>>,
         used' \in [Events -> Nat], used'["edit"] = used["edit"],
         hurt' \in {hurt, hurt \cup {r}}, edited' \in {edited, edited \ {r}}
  PROVE  Inv'
  <1> DEFINE p == run[r]
  <1>1. run'[r] = q
    BY Known, Changed
  <1>2. Beside(r)
    BY DEF Beside
  <1>3. Placed(r)'
    BY <1>1, Known DEF Placed, planning, leased, replanning, Held, Renewed, Attempted
  <1>4. Looked(r)'
    BY <1>1, Known DEF Looked, sameReads, replanning, Held, Renewed, Attempted
  <1>5. Calm(r)'
    BY <1>1, Known DEF Calm, sameReads, replanning, Held, Renewed, Attempted
  <1>6. Unhurt(r)'
    BY <1>1, Known DEF Unhurt, Attempted
  <1> QED BY <1>2, <1>3, <1>4, <1>5, <1>6, Known, RunStep DEF TypeOK

LEMMA StartKept ==
  ASSUME Inv, NEW r \in Runs, Start(r)
  PROVE  Inv'
  <1> DEFINE p == run[r]
  <1>1. /\ p.step = "invoke"
        /\ UNCHANGED <<profile, disk, lease, token, witness, cancelled, edited, hurt, used>>
    BY DEF Start, At, outside
  <1>2. PICK q : q = begun(p)
    OBVIOUS
  <1>3. run' = [run EXCEPT ![r] = q]
    BY <1>2, Known DEF Start, begun
  <1>4. /\ q \in RunType /\ q.step = "running" /\ q.pass = p.pass /\ sameReads(p, q)
        /\ Followed(q) /\ ~q.persistErr
    BY <1>1, <1>2, Known, StoryStarted
  <1> QED BY <1>1, <1>3, <1>4, Known, Onward DEF Attempted, TypeOK

LEMMA PostAttemptBarrierKept ==
  ASSUME Inv, NEW r \in Runs, PostAttemptBarrier(r)
  PROVE  Inv'
  <1> DEFINE p == run[r]
  <1>1. /\ p.step = "post barrier" /\ disk.journal = FALSE
        /\ UNCHANGED <<profile, disk, lease, token, witness, cancelled, edited, hurt, used>>
    BY Known, DiskFields DEF PostAttemptBarrier, At, outside, Looked, Attempted
  <1>2. PICK q : q = barred(p, FALSE)
    OBVIOUS
  <1>3. run' = [run EXCEPT ![r] = q]
    BY <1>1, <1>2, Known DEF PostAttemptBarrier, barred
  <1>4. /\ q \in RunType /\ q.step = "observe" /\ q.pass = p.pass /\ sameReads(p, q)
        /\ Followed(q) /\ q.persistErr = FALSE
    BY <1>1, <1>2, Known, StoryBarrier
  <1> QED BY <1>1, <1>3, <1>4, Known, Onward DEF Attempted, TypeOK

LEMMA ObserveKept ==
  ASSUME Inv, NEW r \in Runs, Observe(r)
  PROVE  Inv'
  <1> DEFINE p == run[r]
  <1>1. /\ p.step = "observe"
        /\ UNCHANGED <<profile, disk, lease, token, witness, cancelled, edited, hurt, used>>
    BY DEF Observe, At, outside
  <1>2. PICK q :
           /\ run' = [run EXCEPT ![r] = q]
           /\ \/ ~profile.observed /\ q = went(p, "classify")
              \/ profile.observed /\ \E x \in Relations : q = saw(p, x)
              \/ profile.observed /\ q = unobserved(p)
    <2>1. CASE ~profile.observed /\ GoTo(r, "classify")
      BY <2>1, Known DEF GoTo, went
    <2>2. CASE profile.observed /\ run' = [run EXCEPT ![r].relation = disk.relation, ![r].step = "classify"]
      <3>1. run' = [run EXCEPT ![r] = saw(p, disk.relation)] /\ disk.relation \in Relations
        BY <2>2, Known, DiskFields DEF saw
      <3> QED BY <2>2, <3>1
    <2>3. CASE profile.observed /\ run' = [run EXCEPT ![r].observeErr = TRUE, ![r].step = "classify"]
      BY <2>3, Known DEF unobserved
    <2> QED BY <2>1, <2>2, <2>3 DEF Observe
  <1>3. /\ q \in RunType /\ q.step = "classify" /\ q.pass = p.pass /\ sameReads(p, q)
        /\ Followed(q) /\ q.persistErr = p.persistErr
    BY <1>1, <1>2, Known, StoryObserved
  <1>4. r \notin hurt => ~q.persistErr
    BY <1>1, <1>3, Known DEF Unhurt, Attempted
  <1> QED BY <1>1, <1>2, <1>3, <1>4, Known, Onward DEF Attempted, TypeOK

LEMMA ClassifyKept ==
  ASSUME Inv, NEW r \in Runs, Classify(r)
  PROVE  Inv'
  <1> DEFINE p == run[r]
  <1>1. /\ p.step = "classify"
        /\ UNCHANGED <<profile, disk, lease, token, witness, cancelled, edited, hurt, used>>
    BY DEF Classify, At, outside
  <1>2. PICK q : q = resulted(p, IF p.started THEN "persist" ELSE "report", class(p))
    OBVIOUS
  <1>3. run' = [run EXCEPT ![r] = q]
    BY <1>2, Known DEF Classify, resulted
  <1>4. /\ q \in RunType /\ q.step = (IF p.started THEN "persist" ELSE "report") /\ q.pass = p.pass
        /\ sameReads(p, q) /\ Followed(q) /\ q.persistErr = p.persistErr /\ q.started = p.started
    BY <1>1, <1>2, Known, StoryClassified
  <1>5. r \notin hurt => ~q.persistErr
    BY <1>1, <1>4, Known DEF Unhurt, Attempted
  <1> QED BY <1>1, <1>3, <1>4, <1>5, Known, Onward DEF Attempted, TypeOK

LEMMA EstablishKept ==
  ASSUME Inv, NEW r \in Runs, Establish(r)
  PROVE  Inv'
  <1> DEFINE p == run[r]
             bad == p.persistErr \/ disk.journal \/ ~kept(r)
  <1>1. /\ p.step = "persist" /\ edited' = edited \ {r}
        /\ UNCHANGED <<profile, disk, lease, token, witness, cancelled, hurt, used>>
    BY DEF Establish, At
  <1>2. CASE bad
    <2>1. r \in hurt
      <3>1. SUFFICES ASSUME r \notin hurt  PROVE  FALSE
        OBVIOUS
      <3>2. ~p.persistErr /\ used["edit"] = 0 /\ ~disk.journal
        BY <1>1, <3>1, Known DEF Unhurt, Looked, Attempted
      <3>3. /\ rooted(r) /\ disk.decl = p.keep.decl /\ disk.state = p.keep.state
        BY <1>1, <3>2, Known DEF Calm, Looked, Attempted, rooted
      <3> QED BY <1>2, <3>2, <3>3 DEF kept
    <2>2. PICK q : q = unpersisted(p)
      OBVIOUS
    <2>3. run' = [run EXCEPT ![r] = q]
      BY <1>2, <2>2, Known DEF Establish, Unpersisted, unpersisted
    <2>4. q \in RunType /\ q.step = "report" /\ q.pass = p.pass /\ sameReads(p, q) /\ Followed(q)
      BY <1>1, <2>2, Known, StoryUnpersisted
    <2> QED BY <1>1, <2>1, <2>3, <2>4, Known, Onward DEF Attempted, TypeOK
  <1>3. CASE ~bad
    <2>1. PICK q : q = went(p, "publish")
      OBVIOUS
    <2>2. run' = [run EXCEPT ![r] = q]
      BY <1>3, <2>1, Known DEF Establish, GoTo, went
    <2>3. ~p.persistErr /\ disk.state = p.keep.state
      BY <1>3 DEF kept
    <2>4. /\ q \in RunType /\ q.step = "publish" /\ q.pass = p.pass /\ sameReads(p, q)
          /\ Followed(q) /\ q.persistErr = p.persistErr
      BY <1>1, <2>1, <2>3, Known, StoryPublished
    <2> QED BY <1>1, <2>2, <2>3, <2>4, Known, Onward DEF Attempted, TypeOK
  <1> QED BY <1>2, <1>3

LEMMA SettleKept ==
  ASSUME Inv, NEW r \in Runs, Settle(r)
  PROVE  Inv'
  <1> DEFINE p == run[r]
  <1>1. /\ p.step = "settle" /\ disk.journal = FALSE
        /\ UNCHANGED <<profile, disk, lease, token, witness, cancelled, edited, hurt, used>>
    BY Known, DiskFields DEF Settle, At, outside, Looked
  <1>2. PICK q : q = settled(p)
    OBVIOUS
  <1>3. run' = [run EXCEPT ![r] = q]
    BY <1>1, <1>2, Known DEF Settle, settled
  <1>4. /\ q \in RunType /\ q.step = "report" /\ q.pass = p.pass /\ sameReads(p, q)
        /\ Followed(q) /\ q.started = p.started /\ p.started
    BY <1>1, <1>2, Known, StorySettled
  <1>5. r \notin hurt => r \in disk.state.rows
    BY <1>1, <1>4, Known DEF Unhurt
  <1> QED BY <1>1, <1>3, <1>4, <1>5, Known, Onward DEF Attempted, TypeOK

(* A run that comes to its end, with a result. *)
LEMMA EndedKept ==
  ASSUME Inv, NEW r \in Runs, NEW q \in RunType, run' = [run EXCEPT ![r] = q],
         run[r].step \in {"report", "classify"}, q.step = "cleanup", Followed(q), q.pass = run[r].pass,
         q.started = run[r].started, run[r].step = "report" \/ r \in hurt',
         UNCHANGED <<profile, disk, lease, token, witness, cancelled, edited>>,
         used' \in [Events -> Nat], used'["edit"] = used["edit"],
         hurt' \in {hurt, hurt \cup {r}}
  PROVE  Inv'
  <1>1. run'[r] = q
    BY Known, Changed
  <1>2. Beside(r)
    BY DEF Beside
  <1>3. Placed(r)'
    BY <1>1, Known DEF Placed, planning, leased, replanning, Held, Renewed, Attempted
  <1>4. Looked(r)' /\ Calm(r)' /\ Unhurt(r)'
    <2>1. ~leased(q) /\ hurt \subseteq hurt'
      BY DEF leased, replanning, Held, Renewed, Attempted
    <2>2. r \in hurt' \/ ~q.started \/ r \in disk.state.rows
      BY Known DEF Unhurt
    <2> QED BY <1>1, <2>1, <2>2, Known, Outside
  <1> QED BY <1>2, <1>3, <1>4, Known, RunStep DEF TypeOK

LEMMA ClassifyFailsKept ==
  ASSUME Inv, NEW r \in Runs, ClassifyFails(r)
  PROVE  Inv'
  <1> DEFINE p == run[r]
  <1>1. /\ p.step = "classify" /\ hurt' = hurt \cup {r} /\ Spend("fault")
        /\ UNCHANGED <<profile, disk, lease, token, witness, cancelled, edited>>
    BY DEF ClassifyFails, At
  <1>2. PICK q : q = resulted(p, "cleanup", unclassified(p))
    OBVIOUS
  <1>3. run' = [run EXCEPT ![r] = q]
    BY <1>2, Known DEF ClassifyFails, Ends, resulted
  <1>4. q \in RunType /\ q.step = "cleanup" /\ q.pass = p.pass /\ Followed(q) /\ q.started = p.started
    BY <1>1, <1>2, Known, StoryUnclassified
  <1>5. used' \in [Events -> Nat] /\ used'["edit"] = used["edit"]
    BY <1>1, Known, Spent DEF Events
  <1> QED BY <1>1, <1>3, <1>4, <1>5, EndedKept

LEMMA ReportKept ==
  ASSUME Inv, NEW r \in Runs, Report(r)
  PROVE  Inv'
  <1> DEFINE p == run[r]
  <1>1. /\ p.step = "report"
        /\ UNCHANGED <<profile, disk, lease, token, witness, cancelled, edited, hurt, used>>
    BY DEF Report, At, outside
  <1>2. PICK q : q = resulted(p, "cleanup", reported(p))
    OBVIOUS
  <1>3. run' = [run EXCEPT ![r] = q]
    BY <1>2, Known DEF Report, resulted
  <1>4. q \in RunType /\ q.step = "cleanup" /\ q.pass = p.pass /\ Followed(q) /\ q.started = p.started
    BY <1>1, <1>2, Known, StoryReported
  <1> QED BY <1>1, <1>3, <1>4, Known, EndedKept DEF TypeOK

LEMMA ReleasedBeside ==
  ASSUME Inv, NEW r \in Runs, Released(r)
  PROVE  /\ witness' \in [Runs -> [open : BOOLEAN, root : Nat]]
         /\ ~witness'[r].open /\ witness'[r].root = witness[r].root
         /\ \A o \in Runs \ {r} : witness'[o] = witness[o]
         /\ lease' # r
         /\ lease' = lease \/ (lease = r /\ lease' = None)
  BY Known DEF Released, TypeOK

LEMMA CleanupKept ==
  ASSUME Inv, NEW r \in Runs, Cleanup(r) \/ CleanupFails(r)
  PROVE  Inv'
  <1> DEFINE p == run[r]
  <1>1. /\ p.step = "cleanup" /\ Released(r)
        /\ UNCHANGED <<profile, disk, token, cancelled, edited>>
        /\ hurt' \in {hurt, hurt \cup {r}}
        /\ used' = used \/ Spend("fault")
    BY DEF Cleanup, CleanupFails, At, outside
  <1>2. used' \in [Events -> Nat] /\ used'["edit"] = used["edit"]
    BY <1>1, Known, Spent DEF Events, TypeOK
  <1>3. PICK q \in RunType :
           /\ run' = [run EXCEPT ![r] = q] /\ q.step = "done" /\ q.pass = p.pass
           /\ Followed(q) /\ q.started = p.started
    <2>1. CASE Cleanup(r)
      <3>1. PICK q \in RunType :
               /\ run' = [run EXCEPT ![r] = q] /\ run'[r] = q
               /\ q.step = "done" /\ q.pass = run[r].pass
               /\ sameReads(run[r], q) /\ sameStory(run[r], q)
        BY <2>1, Gone DEF Cleanup, Steps
      <3>2. Followed(q) /\ q.started = p.started
        BY <1>1, <3>1, Known, StoryKept DEF sameStory
      <3> QED BY <3>1, <3>2
    <2>2. CASE CleanupFails(r)
      <3>1. PICK x : x = IF p.started THEN "partial" ELSE "refused"
        OBVIOUS
      <3>2. PICK q : q = resulted(p, "done", x)
        OBVIOUS
      <3>3. run' = [run EXCEPT ![r] = q]
        BY <2>2, <3>1, <3>2, Known DEF CleanupFails, resulted
      <3>4. "done" \in Steps /\ x \in Results
        BY <3>1 DEF Steps, Results
      <3>5. /\ q \in RunType /\ q.step = "done" /\ q.pass = p.pass /\ q.result = x
            /\ q.started = p.started
            /\ Followed(p) /\ "done" \in {"cleanup", "done"} /\ ~p.declined /\ told(q) => Followed(q)
        BY <3>2, <3>4, Known, GoesWith
      <3>6. q.persisted = p.persisted /\ q.wrote = p.wrote
        BY <3>2, Known DEF resulted, RunType
      <3>7. told(p) /\ ~p.declined /\ Followed(p)
        BY <1>1, Known DEF Followed
      <3>8. told(q)
        BY <3>1, <3>5, <3>6, <3>7 DEF told
      <3> QED BY <3>3, <3>5, <3>7, <3>8
    <2> QED BY <1>1, <2>1, <2>2
  <1>4. run'[r] = q
    BY <1>3, Known, Changed
  <1>5. Beside(r)
    BY <1>1, <1>2, ReleasedBeside DEF Beside
  <1>6. Placed(r)'
    BY <1>1, <1>3, <1>4, ReleasedBeside, Known
       DEF Placed, planning, leased, replanning, Held, Renewed, Attempted
  <1>7. Looked(r)' /\ Calm(r)' /\ Unhurt(r)'
    <2>1. ~leased(q) /\ hurt \subseteq hurt'
      BY <1>1, <1>3 DEF leased, replanning, Held, Renewed, Attempted
    <2>2. Looked(r)'
      BY <1>4, <2>1 DEF Looked, leased, replanning, Held, Renewed, Attempted
    <2>3. Calm(r)'
      BY <1>1, <1>2, <1>4, <2>1, ReleasedBeside, Known
         DEF Calm, leased, replanning, Held, Renewed, Attempted
    <2>4. Unhurt(r)'
      BY <1>1, <1>2, <1>3, <1>4, <2>1, Known DEF Unhurt, Attempted
    <2> QED BY <2>2, <2>3, <2>4
  <1> QED BY <1>1, <1>2, <1>3, <1>5, <1>6, <1>7, ReleasedBeside, Known, RunStep DEF TypeOK

LEMMA CrashKept ==
  ASSUME Inv, NEW r \in Runs, Crash(r)
  PROVE  Inv'
  <1> DEFINE p == run[r]
  <1>1. /\ p.step \notin {"idle", "done", "crashed"} /\ Released(r) /\ GoTo(r, "crashed")
        /\ token' = [token EXCEPT ![r] = "unavailable"] /\ Spend("crash")
        /\ UNCHANGED <<profile, disk, cancelled, edited, hurt>>
    BY DEF Crash
  <1>2. used' \in [Events -> Nat] /\ used'["edit"] = used["edit"]
    BY <1>1, Known, Spent DEF Events
  <1>3. PICK q \in RunType :
           /\ run' = [run EXCEPT ![r] = q] /\ run'[r] = q
           /\ q.step = "crashed" /\ q.pass = p.pass
           /\ sameReads(p, q) /\ sameStory(p, q)
    BY <1>1, Gone DEF Steps
  <1>4. Followed(q)
    BY <1>1, <1>3, Known, StoryKept
  <1>5. /\ token' \in [Runs -> {"none", "unavailable", "ready", "closed", "consumed"}]
        /\ token'[r] = "unavailable" /\ \A o \in Runs \ {r} : token'[o] = token[o]
    BY <1>1, Known DEF TypeOK
  <1>6. Beside(r)
    BY <1>1, <1>2, <1>5, ReleasedBeside DEF Beside
  <1>7. Placed(r)'
    BY <1>1, <1>3, <1>5, ReleasedBeside, Known
       DEF Placed, planning, leased, replanning, Held, Renewed, Attempted
  <1>8. Looked(r)'
    BY <1>3 DEF Looked, replanning, Held, Renewed, Attempted
  <1>9. Calm(r)'
    BY <1>1, <1>2, <1>3, ReleasedBeside, Known
       DEF Calm, replanning, Held, Renewed, Attempted
  <1>10. Unhurt(r)'
    BY <1>1, <1>2, <1>3, Known DEF Unhurt, Attempted
  <1> QED BY <1>1, <1>2, <1>3, <1>4, <1>5, <1>6, <1>7, <1>8, <1>9, <1>10,
             ReleasedBeside, Known, RunStep DEF TypeOK

(* The record: what is written is what was read, with a row more. *)
LEMMA WrittenState ==
  ASSUME Inv, NEW r \in Runs, run[r].step = "publish",
         disk' = [disk EXCEPT !.state = [run[r].state EXCEPT !.rows = @ \cup {r}]]
  PROVE  /\ disk' \in Disks /\ disk'.root = disk.root /\ disk'.decl = disk.decl
         /\ disk'.relation = disk.relation /\ disk'.journal = disk.journal
         /\ disk'.pending = disk.pending
         /\ r \in disk'.state.rows
         /\ r \notin edited => disk'.state = [disk.state EXCEPT !.rows = @ \cup {r}]
         /\ used["edit"] = 0 => disk.state.rows \subseteq disk'.state.rows
  <1> DEFINE s == [run[r].state EXCEPT !.rows = @ \cup {r}]
  <1>1. s \in States /\ s.rows = run[r].state.rows \cup {r}
    BY Known, RunFields, StateFields
  <1>2. disk' = [disk EXCEPT !.state = s]
    OBVIOUS
  <1>3. used["edit"] = 0 => run[r].state = disk.state
    BY Known DEF Calm, Looked, Attempted
  <1>4. r \notin edited => s = [disk.state EXCEPT !.rows = @ \cup {r}]
    BY Known DEF Looked
  <1> HIDE DEF s
  <1>5. /\ disk' \in Disks /\ disk'.root = disk.root /\ disk'.decl = disk.decl
        /\ disk'.relation = disk.relation /\ disk'.journal = disk.journal
        /\ disk'.pending = disk.pending /\ disk'.state = s
    BY <1>1, <1>2, Known DEF Disks
  <1> QED BY <1>1, <1>3, <1>4, <1>5

LEMMA WriteKept ==
  ASSUME Inv, NEW r \in Runs, NEW q \in RunType, run' = [run EXCEPT ![r] = q],
         run[r].step = "publish", Followed(q), q.pass = run[r].pass, sameReads(run[r], q),
         q.step \in {"settle", "report"},
         disk' = [disk EXCEPT !.state = [run[r].state EXCEPT !.rows = @ \cup {r}]],
         UNCHANGED <<profile, lease, token, witness, cancelled, edited>>,
         used' \in [Events -> Nat], used'["edit"] = used["edit"],
         hurt' \in {hurt, hurt \cup {r}}
  PROVE  Inv'
  <1>1. run'[r] = q
    BY Known, Changed
  <1>2. Beside(r)
    BY WrittenState, Known DEF Beside, Placed, leased, Held, Attempted
  <1>3. Placed(r)'
    BY <1>1, Known DEF Placed, planning, leased, replanning, Held, Renewed, Attempted
  <1>4. Looked(r)'
    BY <1>1, WrittenState, Known DEF Looked, replanning, Held, Renewed, Attempted
  <1>5. Calm(r)'
    BY <1>1, WrittenState, Known DEF Calm, replanning, Held, Renewed, Attempted
  <1>6. Unhurt(r)'
    BY <1>1, WrittenState, Known DEF Unhurt, Attempted
  <1> QED BY <1>2, <1>3, <1>4, <1>5, <1>6, WrittenState, Known, RunStep DEF TypeOK

LEMMA PublishKept ==
  ASSUME Inv, NEW r \in Runs, Publish(r)
  PROVE  Inv'
  <1> DEFINE p == run[r]
  <1>1. /\ p.step = "publish"
        /\ disk' = [disk EXCEPT !.state = [run[r].state EXCEPT !.rows = @ \cup {r}]]
        /\ UNCHANGED <<profile, lease, token, witness, cancelled, edited, hurt, used>>
    BY DEF Publish, At
  <1>2. PICK q : q = published(p)
    OBVIOUS
  <1>3. run' = [run EXCEPT ![r] = q]
    BY <1>2, Known DEF Publish, published
  <1>4. q \in RunType /\ q.step = "settle" /\ q.pass = p.pass /\ sameReads(p, q) /\ Followed(q)
    BY <1>1, <1>2, Known, StoryPublished
  <1> QED BY <1>1, <1>3, <1>4, Known, WriteKept DEF TypeOK

LEMMA FaultKept ==
  ASSUME Inv, NEW r \in Runs, Fault(r)
  PROVE  Inv'
  <1> DEFINE p == run[r]
  <1>1. /\ hurt' = hurt \cup {r} /\ Spend("fault")
        /\ UNCHANGED <<profile, lease, token, witness, cancelled, edited>>
    BY DEF Fault
  <1>2. used' \in [Events -> Nat] /\ used'["edit"] = used["edit"]
    BY <1>1, Known, Spent DEF Events
  <1>3. CASE At(r, "post barrier") /\ disk' = disk
             /\ run' = [run EXCEPT ![r].persistErr = TRUE, ![r].step = "observe"]
    <2>1. PICK q : q = barred(p, TRUE)
      OBVIOUS
    <2>2. run' = [run EXCEPT ![r] = q] /\ p.step = "post barrier"
      BY <1>3, <2>1, Known DEF At, barred
    <2>3. q \in RunType /\ q.step = "observe" /\ q.pass = p.pass /\ sameReads(p, q) /\ Followed(q)
      <3>1. p \in RunType /\ Followed(p) /\ p.step = "post barrier"
        BY <2>2, Known
      <3> QED BY <2>1, <3>1, StoryBarrier, Zenon
    <2> QED BY <1>1, <1>2, <1>3, <2>2, <2>3, Onward DEF Attempted
  <1>4. CASE At(r, "observe") /\ profile.observed /\ disk' = disk
             /\ run' = [run EXCEPT ![r].observeErr = TRUE, ![r].step = "classify"]
    <2>1. PICK q : q = unobserved(p)
      OBVIOUS
    <2>2. run' = [run EXCEPT ![r] = q] /\ p.step = "observe"
      BY <1>4, <2>1, Known DEF At, unobserved
    <2>3. q \in RunType /\ q.step = "classify" /\ q.pass = p.pass /\ sameReads(p, q) /\ Followed(q)
      BY <1>4, <2>1, <2>2, Known, StoryObserved
    <2> QED BY <1>1, <1>2, <1>4, <2>2, <2>3, Onward DEF Attempted
  <1>5. CASE p.step \in {"persist", "publish", "settle"} /\ Unpersisted(r) /\ disk' = disk
    <2>1. PICK q : q = unpersisted(p)
      OBVIOUS
    <2>2. run' = [run EXCEPT ![r] = q]
      BY <1>5, <2>1, Known DEF Unpersisted, unpersisted
    <2>3. q \in RunType /\ q.step = "report" /\ q.pass = p.pass /\ sameReads(p, q) /\ Followed(q)
      BY <1>5, <2>1, Known, StoryUnpersisted
    <2> QED BY <1>1, <1>2, <1>5, <2>2, <2>3, Onward DEF Attempted
  <1>6. CASE At(r, "publish")
             /\ disk' = [disk EXCEPT !.state = [run[r].state EXCEPT !.rows = @ \cup {r}]]
             /\ run' = [run EXCEPT ![r].wrote = TRUE, ![r].persistErr = TRUE, ![r].step = "report"]
    <2>1. PICK q : q = halfPublished(p)
      OBVIOUS
    <2>2. run' = [run EXCEPT ![r] = q] /\ p.step = "publish"
      BY <1>6, <2>1, Known DEF At, halfPublished
    <2>3. q \in RunType /\ q.step = "report" /\ q.pass = p.pass /\ sameReads(p, q) /\ Followed(q)
      BY <2>1, <2>2, Known, StoryUnpersisted
    <2> QED BY <1>1, <1>2, <1>6, <2>2, <2>3, WriteKept
  <1> QED BY <1>3, <1>4, <1>5, <1>6 DEF Fault

(* The host changes its configuration, or a run's context is cancelled. *)
LEMMA EffectKept ==
  ASSUME Inv, NEW r \in Runs, Effect(r) \/ Interrupt(r)
  PROVE  Inv'
  <1> DEFINE p == run[r]
  <1>1. /\ run' = [run EXCEPT ![r] = p] /\ run'[r] = p
        /\ UNCHANGED <<profile, lease, token, witness, edited, hurt>>
        /\ cancelled' \subseteq Runs
    BY Known DEF Effect, Interrupt, TypeOK
  <1>2. used' \in [Events -> Nat] /\ used'["edit"] = used["edit"]
    <2>1. Spend("effect") \/ Spend("cancel")
      BY DEF Effect, Interrupt
    <2> QED BY <2>1, Known, Spent DEF Events
  <1>3. /\ disk' \in Disks /\ disk'.decl = disk.decl /\ disk'.state = disk.state
        /\ disk'.root = disk.root /\ disk'.journal = disk.journal /\ disk'.pending = disk.pending
        /\ disk' = disk \/ (p.step = "running" /\ lease = r)
    <2>1. CASE Interrupt(r)
      BY <2>1, Known DEF Interrupt
    <2>2. CASE Effect(r)
      <3>1. p.step = "running" /\ lease = r
        BY <2>2, Known DEF Effect, At, Placed, leased, Held, Attempted
      <3>2. disk' = [disk EXCEPT !.relation = "missing"] /\ "missing" \in Relations
        BY <2>2 DEF Effect, Relations
      <3> QED BY <3>1, <3>2, Known DEF Disks
    <2> QED BY <2>1, <2>2
  <1>4. Beside(r)
    BY <1>1, <1>2, <1>3 DEF Beside
  <1>5. Placed(r)'
    BY <1>1, Known DEF Placed, planning, leased, replanning
  <1>6. Looked(r)'
    <2>1. CASE disk' = disk
      <3>1. view' = view
        BY <1>1, <2>1 DEF view
      <3> QED BY <1>1, <1>2, <2>1, <3>1, Known DEF Looked, replanning
    <2>2. CASE p.step = "running"
      BY <1>1, <1>3, <2>2, Known DEF Looked, replanning, Held, Renewed, Attempted
    <2> QED BY <1>3, <2>1, <2>2
  <1>7. Calm(r)' /\ Unhurt(r)'
    BY <1>1, <1>2, <1>3, Known DEF Calm, Unhurt, replanning
  <1> QED BY <1>1, <1>2, <1>3, <1>4, <1>5, <1>6, <1>7, Known, RunStep DEF TypeOK

-----------------------------------------------------------------------------
(* What else happens. *)

LEMMA OtherCommandKept ==
  ASSUME Inv, OtherCommand
  PROVE  Inv'
  <1>1. /\ UNCHANGED <<profile, lease, token, witness, run, cancelled, edited, hurt>>
        /\ lease = None /\ Spend("other")
    BY DEF OtherCommand
  <1>2. TypeOK
    BY DEF Inv
  <1>3. used' \in [Events -> Nat] /\ used'["edit"] = used["edit"]
    BY <1>1, <1>2, Spent DEF Events
  <1>4. disk' \in Disks /\ disk'.state.rows = disk.state.rows /\ disk'.root = disk.root
    <2>1. CASE disk' = [disk EXCEPT !.decl = 1 - @]
      BY <1>2, <2>1 DEF TypeOK, Disks
    <2>2. CASE disk' = [disk EXCEPT !.state.version = @ + 1]
      <3> DEFINE s == [disk.state EXCEPT !.version = @ + 1]
      <3>1. s \in States /\ s.rows = disk.state.rows
        BY <1>2, DiskFields, StateFields DEF TypeOK
      <3>2. disk' = [disk EXCEPT !.state = s]
        BY <1>2, <2>2 DEF TypeOK, Disks
      <3> HIDE DEF s
      <3> QED BY <1>2, <3>1, <3>2 DEF TypeOK, Disks
    <2>3. CASE disk' = [disk EXCEPT !.pending = ~@]
      BY <1>2, <2>3 DEF TypeOK, Disks
    <2>4. CASE disk' = [disk EXCEPT !.journal = ~@]
      BY <1>2, <2>4 DEF TypeOK, Disks
    <2> QED BY <2>1, <2>2, <2>3, <2>4 DEF OtherCommand
  <1>5. TypeOK'
    BY <1>1, <1>2, <1>3, <1>4 DEF TypeOK
  <1>6. ASSUME NEW r \in Runs  PROVE  Holds(r)'
    <2>1. Holds(r) /\ ~leased(run[r])
      BY <1>1, Known DEF Placed, Holds
    <2>2. Placed(r)'
      BY <1>1, <2>1 DEF Holds, Placed, planning, leased, replanning
    <2>3. Followed(run[r])'
      BY <1>1, <2>1, PrimedFollowed DEF Holds
    <2>4. Looked(r)'
      BY <1>1, <2>1 DEF Looked, leased, replanning, Held, Renewed, Attempted
    <2>5. Calm(r)'
      BY <1>1, <1>3, <1>4, <2>1 DEF Holds, Calm, leased, replanning, Held, Renewed, Attempted
    <2>6. Unhurt(r)'
      BY <1>1, <1>3, <1>4, <2>1 DEF Holds, Unhurt, leased, Held, Attempted
    <2> QED BY <2>2, <2>3, <2>4, <2>5, <2>6 DEF Holds
  <1> QED BY <1>5, <1>6 DEF Inv

LEMMA SinceEdited ==
  ASSUME NEW s \in States, NEW t \in States, NEW u \in States, since(s, t),
         u.rows = t.rows, t.version <= u.version
  PROVE  since(s, u)
  BY DEF States, since

LEMMA HandEditKept ==
  ASSUME Inv, HandEdit
  PROVE  Inv'
  <1>1. /\ UNCHANGED <<profile, lease, token, witness, run, cancelled>>
        /\ edited' = Runs /\ hurt' = Runs /\ Spend("edit")
    BY DEF HandEdit
  <1>2. TypeOK
    BY DEF Inv
  <1>3. used' \in [Events -> Nat] /\ used'["edit"] = used["edit"] + 1 /\ used["edit"] \in Nat
    BY <1>1, <1>2 DEF Spend, Events, TypeOK
  <1>4. /\ disk' \in Disks /\ disk'.state.rows = disk.state.rows
        /\ disk.state.version <= disk'.state.version
        /\ disk'.pending = disk.pending /\ disk'.journal = disk.journal
    <2>0. disk \in Disks /\ disk.state \in States /\ disk.state.version \in Nat
      BY <1>2, DiskFields, StateFields DEF TypeOK
    <2>1. CASE disk' = [disk EXCEPT !.decl = 1 - @]
      BY <2>0, <2>1 DEF Disks
    <2>2. CASE disk' = [disk EXCEPT !.state.version = @ + 1]
      <3> DEFINE s == [disk.state EXCEPT !.version = @ + 1]
      <3>1. s \in States /\ s.rows = disk.state.rows /\ s.version = disk.state.version + 1
        BY <2>0, StateFields
      <3>2. disk' = [disk EXCEPT !.state = s]
        BY <2>0, <2>2 DEF Disks
      <3> HIDE DEF s
      <3>3. /\ disk' \in Disks /\ disk'.state = s
            /\ disk'.pending = disk.pending /\ disk'.journal = disk.journal
        BY <2>0, <3>1, <3>2 DEF Disks
      <3> QED BY <2>0, <3>1, <3>3
    <2>3. CASE disk' = [disk EXCEPT !.root = @ + 1]
      BY <2>0, <2>3 DEF Disks
    <2>4. CASE \E s \in Relations : disk' = [disk EXCEPT !.relation = s]
      BY <2>0, <2>4 DEF Disks
    <2> QED BY <2>1, <2>2, <2>3, <2>4 DEF HandEdit
  <1>5. TypeOK'
    BY <1>1, <1>2, <1>3, <1>4 DEF TypeOK
  <1>6. ASSUME NEW r \in Runs  PROVE  Holds(r)'
    <2> DEFINE p == run[r]
    <2>1. Holds(r) /\ disk.state \in States /\ disk'.state \in States
      BY <1>4, Known, DiskFields DEF Holds, Disks
    <2>2. Placed(r)'
      BY <1>1, <2>1 DEF Holds, Placed, planning, leased, replanning
    <2>3. Followed(run[r])'
      BY <1>1, <2>1, PrimedFollowed DEF Holds
    <2>4. Calm(r)' /\ Unhurt(r)'
      BY <1>1, <1>3 DEF Calm, Unhurt
    <2>5. \A s \in States : since(s, disk.state) => since(s, disk'.state)
      BY <1>4, <2>1, SinceEdited
    <2>6. p.state \in States /\ p.revisions.state \in States /\ p.keep.state \in States
      BY Known, RunFields, ViewFields
    <2>7. Looked(r)'
      BY <1>1, <1>3, <1>4, <2>1, <2>5, <2>6 DEF Holds, Looked, replanning
    <2> QED BY <2>2, <2>3, <2>4, <2>7 DEF Holds
  <1> QED BY <1>5, <1>6 DEF Inv

LEMMA NextKept ==
  ASSUME Inv, [Next]_vars
  PROVE  Inv'
  <1>1. CASE UNCHANGED vars
    <2>1. TypeOK'
      BY <1>1 DEF vars, Inv, TypeOK
    <2>2. ASSUME NEW r \in Runs  PROVE  Holds(r)'
      <3>1. Holds(r) /\ view' = view
        BY <1>1 DEF Inv, vars, view
      <3>2. Placed(r)' /\ Looked(r)' /\ Calm(r)' /\ Unhurt(r)'
        BY <1>1, <3>1
           DEF Holds, Placed, Looked, Calm, Unhurt, vars, planning, leased, replanning
      <3>3. Followed(run[r])'
        BY <1>1, <3>1, PrimedFollowed DEF Holds, vars
      <3> QED BY <3>2, <3>3 DEF Holds
    <2> QED BY <2>1, <2>2 DEF Inv
  <1>2. ASSUME NEW r \in Runs, Step(r)  PROVE  Inv'
    BY <1>2, PlanWriteKept, ReadStepKept, LoadKept, CaptureKept, StabilizeKept, CheckKept,
       RecheckKept, RecaptureKept, CompareKept, PrepareNativeKept, KeepKept, PeerKept,
       PreAttemptBarrierKept, FailsKept, StartKept, EndKept, PostAttemptBarrierKept, ObserveKept,
       ClassifyKept, EstablishKept, PublishKept, SettleKept, ReportKept, CleanupKept DEF Step
  <1>3. ASSUME NEW r \in Runs,
               \/ Acquire(r) \/ Begin(r) \/ Close(r) \/ Cancel(r)
               \/ NotStartedNative(r) \/ Effect(r) \/ ClassifyFails(r) \/ CleanupFails(r)
               \/ Stopped(r) \/ Fault(r) \/ Interrupt(r) \/ Crash(r)
        PROVE  Inv'
    BY <1>3, AcquireKept, BeginKept, CloseKept, NotStartedNativeKept, EffectKept, ClassifyFailsKept,
       CleanupKept, StoppedKept, FaultKept, CrashKept
  <1> QED BY <1>1, <1>2, <1>3, OtherCommandKept, HandEditKept DEF Next

-----------------------------------------------------------------------------
(* The theorems. *)

LEMMA InitHolds ==
  ASSUME Init
  PROVE  Inv
  <1> DEFINE s == [version |-> 0, rows |-> {}]
             p == [step |-> "idle", pass |-> "plan", first |-> [decl |-> 0, relation |-> "present"],
                   seen |-> [decl |-> 0, relation |-> "present"], state |-> disk.state,
                   revisions |-> view, keep |-> view, attempt |-> "none", started |-> FALSE,
                   nativeErr |-> FALSE, relation |-> "unknown", observeErr |-> FALSE,
                   persistErr |-> FALSE, persisted |-> FALSE, result |-> "none",
                   calls |-> 0, wrote |-> FALSE, left |-> FALSE, declined |-> FALSE]
  <1>1. run = [r \in Runs |-> p]
    BY DEF Init
  <1>2. disk \in Disks /\ disk.state \in States /\ disk.root = 0
    BY DEF Init, Disks, States, Relations
  <1>3. view \in Views
    BY <1>2 DEF view, Views, Disks, Relations
  <1>4. p \in RunType
    BY <1>2, <1>3 DEF RunType, Steps, Seen, Relations, Attempts, Results
  <1>5. TypeOK
    <2>1. used \in [Events -> Nat] /\ token \in [Runs -> {"none", "unavailable", "ready", "closed", "consumed"}]
      BY DEF Init
    <2> QED BY <1>1, <1>2, <1>4, <2>1 DEF Init, TypeOK
  <1>6. ASSUME NEW r \in Runs  PROVE  Holds(r)
    <2>1. /\ run[r].step = "idle" /\ run[r].pass = "plan" /\ ~run[r].started /\ run[r].calls = 0
          /\ ~run[r].declined /\ blank(run[r])
      BY <1>1 DEF blank, fresh
    <2>2. token[r] = "none" /\ witness[r].root = 0 /\ ~witness[r].open /\ lease # r
      BY NoneAssumption DEF Init
    <2>3. Placed(r)
      BY <2>1, <2>2 DEF Placed, planning, leased, replanning, Held, Renewed, Attempted
    <2>4. Followed(run[r])
      BY <2>1 DEF Followed
    <2>5. Looked(r) /\ Calm(r) /\ Unhurt(r)
      BY <1>2, <2>1, <2>2 DEF Init, Looked, Calm, Unhurt, replanning, Held, Renewed, Attempted, Events
    <2> QED BY <2>3, <2>4, <2>5 DEF Holds
  <1> QED BY <1>5, <1>6 DEF Inv

(* Everything that Refresh.tla claims of its states holds for any number of prepared commands and
   of disturbances (refresh/execute.go, prepared_command.go). *)
THEOREM RefreshInvariant == Spec => []Inv
  <1>1. Init => Inv
    BY InitHolds
  <1>2. Inv /\ [Next]_vars => Inv'
    BY NextKept
  <1> QED BY <1>1, <1>2, PTL DEF Spec

LEMMA InvTold == Inv => RefreshTold
  <1> SUFFICES ASSUME Inv  PROVE  RefreshTold
    OBVIOUS
  <1>1. ASSUME NEW r \in Runs
        PROVE  /\ run[r].calls <= 1
               /\ run[r].declined => run[r].calls = 0
               /\ token[r] = "consumed" /\ run[r].step # "done" => witness[r].open
               /\ run[r].step \in {"done", "crashed"} => ~witness[r].open /\ lease # r
               /\ At(r, "done") => told(run[r])
               /\ (At(r, "done") /\ run[r].started /\ r \notin hurt) => r \in disk.state.rows
    <2>1. Placed(r) /\ Followed(run[r]) /\ Unhurt(r)
      BY Known
    <2>2. run[r].calls <= 1 /\ (run[r].declined => run[r].calls = 0)
      <3>1. /\ run[r].calls = IF run[r].started THEN 1 ELSE 0
            /\ run[r].declined => ~run[r].started
        BY <2>1 DEF Followed
      <3> QED BY <3>1
    <2>3. token[r] = "consumed" /\ run[r].step # "done" => witness[r].open
      BY <2>1 DEF Placed, planning
    <2>4. run[r].step \in {"done", "crashed"} => ~witness[r].open /\ lease # r
      BY <2>1 DEF Placed, leased, replanning, Held, Renewed, Attempted
    <2>5. At(r, "done") => told(run[r])
      BY <2>1 DEF Followed, At
    <2>6. (At(r, "done") /\ run[r].started /\ r \notin hurt) => r \in disk.state.rows
      BY <2>1 DEF Unhurt, At
    <2> QED BY <2>2, <2>3, <2>4, <2>5, <2>6
  <1> QED BY <1>1 DEF Inv, RefreshTold, SingleUse, NeverForgotten, Truthful

(* However often it is executed, cancelled, closed or interrupted, a prepared refresh starts one
   process at most; its root and leases are given back; what it reports is so, and a started
   process of which nothing failed is on record (refresh/execute.go, hostroute/result.go). *)
THEOREM RefreshToldHolds == Spec => []RefreshTold
  BY RefreshInvariant, InvTold, PTL

(* The process is counted when it is started, and the record when it is written. *)
Uncounted == \A o \in Runs : run'[o].calls = run[o].calls

Unwritten == \A o \in Runs : run'[o].wrote = run[o].wrote

LEMMA QuietSteps ==
  ASSUME TypeOK, NEW r \in Runs,
         \/ PlanWrite(r) \/ Read(r) \/ Load(r) \/ Capture(r) \/ Stabilize(r) \/ Check(r)
         \/ Recheck(r) \/ Recapture(r) \/ Compare(r) \/ PrepareNative(r) \/ Keep(r)
         \/ Peer(r) \/ PreAttemptBarrier(r) \/ Fails(r) \/ End(r)
         \/ PostAttemptBarrier(r) \/ Observe(r) \/ Classify(r) \/ Establish(r)
         \/ Settle(r) \/ Report(r) \/ Cleanup(r) \/ Acquire(r) \/ Begin(r) \/ Close(r)
         \/ Cancel(r) \/ NotStartedNative(r) \/ Effect(r) \/ ClassifyFails(r)
         \/ CleanupFails(r) \/ Stopped(r) \/ Interrupt(r) \/ Crash(r)
  PROVE  Uncounted /\ Unwritten
  <1>0. run \in [Runs -> RunType]
    BY DEF TypeOK
  <1>1. CASE PlanWrite(r)
    BY <1>0, <1>1 DEF PlanWrite, GoTo, Unplanned, Uncounted, Unwritten, RunType
  <1>2. CASE Read(r)
    BY <1>0, <1>2 DEF Read, NoPlan, Unplanned, Ends, Uncounted, Unwritten, RunType
  <1>3. CASE Load(r)
    BY <1>0, <1>3 DEF Load, NoPlan, Unplanned, Ends, Uncounted, Unwritten, RunType
  <1>4. CASE Capture(r)
    BY <1>0, <1>4 DEF Capture, Uncounted, Unwritten, RunType
  <1>5. CASE Stabilize(r)
    BY <1>0, <1>5 DEF Stabilize, GoTo, Unplanned, Uncounted, Unwritten, RunType
  <1>6. CASE Check(r)
    BY <1>0, <1>6 DEF Check, Confirmed, GoTo, Ends, Uncounted, Unwritten, RunType
  <1>7. CASE Recheck(r)
    BY <1>0, <1>7 DEF Recheck, Confirmed, GoTo, Ends, Uncounted, Unwritten, RunType
  <1>8. CASE Recapture(r)
    BY <1>0, <1>8 DEF Recapture, Uncounted, Unwritten, RunType
  <1>9. CASE Compare(r)
    BY <1>0, <1>9 DEF Compare, Confirmed, GoTo, Ends, Uncounted, Unwritten, RunType
  <1>10. CASE PrepareNative(r)
    BY <1>0, <1>10 DEF PrepareNative, Confirmed, GoTo, Ends, Uncounted, Unwritten, RunType
  <1>11. CASE Keep(r)
    BY <1>0, <1>11 DEF Keep, Uncounted, Unwritten, RunType
  <1>12. CASE Peer(r)
    BY <1>0, <1>12 DEF Peer, Confirmed, GoTo, Ends, Uncounted, Unwritten, RunType
  <1>13. CASE PreAttemptBarrier(r)
    BY <1>0, <1>13 DEF PreAttemptBarrier, Confirmed, GoTo, Ends, Uncounted, Unwritten, RunType
  <1>14. CASE Fails(r)
    <2>1. PICK x, s : Native(r, x, s)
      BY <1>14, Zenon DEF Fails
    <2>2. PICK err, left :
             run' = [run EXCEPT ![r].attempt = x, ![r].nativeErr = err, ![r].left = left,
                                ![r].step = s]
      BY <2>1, Zenon DEF Native
    <2> QED BY <1>0, <2>2 DEF Uncounted, Unwritten, RunType
  <1>15. CASE End(r)
    <2>1. PICK x, s : Native(r, x, s)
      BY <1>15, Zenon DEF End
    <2>2. PICK err, left :
             run' = [run EXCEPT ![r].attempt = x, ![r].nativeErr = err, ![r].left = left,
                                ![r].step = s]
      BY <2>1, Zenon DEF Native
    <2> QED BY <1>0, <2>2 DEF Uncounted, Unwritten, RunType
  <1>16. CASE PostAttemptBarrier(r)
    <2>1. PICK e : run' = [run EXCEPT ![r].persistErr = e, ![r].step = "observe"]
      BY <1>16, Zenon DEF PostAttemptBarrier
    <2> QED BY <1>0, <2>1 DEF Uncounted, Unwritten, RunType
  <1>17. CASE Observe(r)
    BY <1>0, <1>17 DEF Observe, GoTo, Uncounted, Unwritten, RunType
  <1>18. CASE Classify(r)
    BY <1>0, <1>18 DEF Classify, Uncounted, Unwritten, RunType
  <1>19. CASE Establish(r)
    BY <1>0, <1>19 DEF Establish, Unpersisted, GoTo, Uncounted, Unwritten, RunType
  <1>20. CASE Settle(r)
    BY <1>0, <1>20 DEF Settle, Uncounted, Unwritten, RunType
  <1>21. CASE Report(r)
    BY <1>0, <1>21 DEF Report, Uncounted, Unwritten, RunType
  <1>22. CASE Cleanup(r)
    BY <1>0, <1>22 DEF Cleanup, GoTo, Uncounted, Unwritten, RunType
  <1>23. CASE Acquire(r)
    BY <1>0, <1>23 DEF Acquire, GoTo, Uncounted, Unwritten, RunType
  <1>24. CASE Begin(r)
    BY <1>0, <1>24 DEF Begin, GoTo, Uncounted, Unwritten, RunType
  <1>25. CASE Close(r)
    BY <1>0, <1>25 DEF Close, GoTo, Uncounted, Unwritten, RunType
  <1>26. CASE Cancel(r)
    BY <1>0, <1>26 DEF Cancel, Uncounted, Unwritten, RunType
  <1>27. CASE NotStartedNative(r)
    <2>1. PICK left :
             run' = [run EXCEPT ![r].step = "cleanup", ![r].result = "refused", ![r].left = left]
      BY <1>27, Zenon DEF NotStartedNative
    <2> QED BY <1>0, <2>1 DEF Uncounted, Unwritten, RunType
  <1>28. CASE Effect(r)
    BY <1>0, <1>28 DEF Effect, Uncounted, Unwritten, RunType
  <1>29. CASE ClassifyFails(r)
    BY <1>0, <1>29 DEF ClassifyFails, Ends, Uncounted, Unwritten, RunType
  <1>30. CASE CleanupFails(r)
    BY <1>0, <1>30 DEF CleanupFails, Uncounted, Unwritten, RunType
  <1>31. CASE Stopped(r)
    BY <1>0, <1>31 DEF Stopped, Ends, Uncounted, Unwritten, RunType
  <1>32. CASE Interrupt(r)
    BY <1>0, <1>32 DEF Interrupt, Uncounted, Unwritten, RunType
  <1>33. CASE Crash(r)
    BY <1>0, <1>33 DEF Crash, GoTo, Uncounted, Unwritten, RunType
  <1> QED BY <1>1, <1>2, <1>3, <1>4, <1>5, <1>6, <1>7, <1>8, <1>9, <1>10, <1>11, <1>12, <1>13, <1>14, <1>15, <1>16, <1>17, <1>18, <1>19, <1>20, <1>21, <1>22, <1>23, <1>24, <1>25, <1>26, <1>27, <1>28, <1>29, <1>30, <1>31, <1>32, <1>33

LEMMA StartCounts ==
  ASSUME TypeOK, NEW r \in Runs, Start(r)
  PROVE  Unwritten /\ \A o \in Runs \ {r} : run'[o].calls = run[o].calls
  <1>1. run \in [Runs -> RunType]
    BY DEF TypeOK
  <1>2. PICK n : run' = [run EXCEPT ![r].step = "running", ![r].started = TRUE, ![r].calls = n]
    BY DEF Start
  <1> QED BY <1>1, <1>2 DEF Unwritten, RunType

LEMMA RecordCounts ==
  ASSUME TypeOK, NEW r \in Runs, Publish(r) \/ Fault(r)
  PROVE  /\ Uncounted
         /\ \A o \in Runs : run'[o].wrote # run[o].wrote =>
               /\ o = r /\ run[r].step = "publish"
               /\ disk' = [disk EXCEPT !.state = [run[r].state EXCEPT !.rows = @ \cup {r}]]
  <1>1. run \in [Runs -> RunType]
    BY DEF TypeOK
  <1>2. PICK a, b : \/ run' = [run EXCEPT ![r].persistErr = TRUE, ![r].step = a]
                    \/ run' = [run EXCEPT ![r].observeErr = TRUE, ![r].step = a]
                    \/ /\ \/ run' = [run EXCEPT ![r].wrote = TRUE, ![r].step = a]
                          \/ run' = [run EXCEPT ![r].wrote = TRUE, ![r].persistErr = b, ![r].step = a]
                       /\ run[r].step = "publish"
                       /\ disk' = [disk EXCEPT !.state = [run[r].state EXCEPT !.rows = @ \cup {r}]]
    BY DEF Publish, Fault, Unpersisted, At
  <1>3. CASE run' = [run EXCEPT ![r].persistErr = TRUE, ![r].step = a]
    BY <1>1, <1>3 DEF Uncounted, RunType
  <1>4. CASE run' = [run EXCEPT ![r].observeErr = TRUE, ![r].step = a]
    BY <1>1, <1>4 DEF Uncounted, RunType
  <1>5. CASE /\ \/ run' = [run EXCEPT ![r].wrote = TRUE, ![r].step = a]
                \/ run' = [run EXCEPT ![r].wrote = TRUE, ![r].persistErr = b, ![r].step = a]
             /\ run[r].step = "publish"
             /\ disk' = [disk EXCEPT !.state = [run[r].state EXCEPT !.rows = @ \cup {r}]]
    <2>1. Uncounted /\ \A o \in Runs \ {r} : run'[o].wrote = run[o].wrote
      <3>1. CASE run' = [run EXCEPT ![r].wrote = TRUE, ![r].step = a]
        BY <1>1, <3>1 DEF Uncounted, RunType
      <3>2. CASE run' = [run EXCEPT ![r].wrote = TRUE, ![r].persistErr = b, ![r].step = a]
        BY <1>1, <3>2 DEF Uncounted, RunType
      <3> QED BY <1>5, <3>1, <3>2
    <2> QED BY <1>5, <2>1
  <1> QED BY <1>2, <1>3, <1>4, <1>5

LEMMA StartsDisclosedStep ==
  ASSUME Inv, NEW r \in Runs, Start(r)
  PROVE  /\ run[r].seen = run[r].first
         /\ r \notin edited =>
                /\ run[r].first.decl = disk.decl \/ used["edit"] > 1
                /\ run[r].state = disk.state
                /\ view = run[r].revisions
                /\ ~disk.pending /\ ~disk.journal
  <1>1. run[r].step = "invoke"
    BY DEF Start, At
  <1>2. run[r].seen = run[r].first /\ ~disk.pending /\ ~disk.journal
    BY <1>1, Known DEF Looked, Renewed
  <1>3. ASSUME r \notin edited
        PROVE  /\ view = run[r].revisions /\ run[r].state = disk.state
               /\ run[r].first.decl = disk.decl \/ used["edit"] > 1
    <2>1. view = run[r].revisions /\ run[r].state = run[r].revisions.state
      BY <1>1, <1>3, Known DEF Looked, Renewed
    <2>2. run[r].revisions.decl = disk.decl /\ run[r].revisions.state = disk.state
      BY <2>1, Known, ViewType
    <2>3. run[r].seen.decl # run[r].revisions.decl => used["edit"] >= 2
      BY <1>1, <2>2, Known DEF Looked, Renewed
    <2> QED BY <1>2, <2>1, <2>2, <2>3, Known
  <1> QED BY <1>2, <1>3

LEMMA CurrentStep ==
  ASSUME Inv, [Next]_vars, NEW r \in Runs
  PROVE  /\ run'[r].calls > run[r].calls => Start(r)
         /\ run'[r].wrote /\ ~run[r].wrote =>
               /\ run[r].step = "publish"
               /\ disk' = [disk EXCEPT !.state = [run[r].state EXCEPT !.rows = @ \cup {r}]]
  <1>0. TypeOK /\ \A o \in Runs : run[o].calls \in Nat
    BY Known, RunFields
  <1>1. CASE run' = run
    BY <1>0, <1>1
  <1>2. ASSUME NEW o \in Runs, Start(o)
        PROVE  Unwritten /\ (run'[r].calls > run[r].calls => Start(r))
    <2>1. CASE o = r
      BY <1>0, <1>2, <2>1, StartCounts
    <2>2. CASE o # r
      <3>1. Unwritten /\ run'[r].calls = run[r].calls
        BY <1>0, <1>2, <2>2, StartCounts
      <3> QED BY <1>0, <3>1
    <2> QED BY <2>1, <2>2
  <1>3. ASSUME NEW o \in Runs, Publish(o) \/ Fault(o)
        PROVE  /\ Uncounted
               /\ run'[r].wrote /\ ~run[r].wrote =>
                     /\ run[r].step = "publish"
                     /\ disk' = [disk EXCEPT !.state = [run[r].state EXCEPT !.rows = @ \cup {r}]]
    BY <1>0, <1>3, RecordCounts
  <1>4. \/ run' = run
        \/ Uncounted /\ Unwritten
        \/ \E o \in Runs : Start(o)
        \/ \E o \in Runs : Publish(o) \/ Fault(o)
    BY <1>0, QuietSteps DEF Next, Step, OtherCommand, HandEdit, vars
  <1>5. Uncounted => ~(run'[r].calls > run[r].calls)
    BY <1>0 DEF Uncounted
  <1>6. Unwritten => ~(run'[r].wrote /\ ~run[r].wrote)
    BY DEF Unwritten
  <1>7. CASE \E o \in Runs : Start(o)
    BY <1>2, <1>6, <1>7
  <1>8. CASE \E o \in Runs : Publish(o) \/ Fault(o)
    BY <1>3, <1>5, <1>8
  <1> QED BY <1>1, <1>4, <1>5, <1>6, <1>7, <1>8

(* What is started is what the user was shown, made with what is there; and what is written is the
   statefile that is there with a row more: unless somebody has edited them by hand since the
   run last looked (refresh/execute.go, validateRefreshPeerAuthority). *)
THEOREM RefreshCurrentHolds == Spec => RefreshCurrent
  <1>1. Inv /\ [Next]_vars =>
           [\A r \in Runs : run'[r].calls > run[r].calls =>
              /\ run[r].seen = run[r].first
              /\ r \notin edited =>
                    /\ run[r].first.decl = disk.decl \/ used["edit"] > 1
                    /\ run[r].state = disk.state
                    /\ view = run[r].revisions
                    /\ ~disk.pending /\ ~disk.journal]_vars
    BY CurrentStep, StartsDisclosedStep
  <1>2. Inv /\ [Next]_vars =>
           [\A r \in Runs :
              (run'[r].wrote /\ ~run[r].wrote /\ r \notin edited)
                  => disk'.state = [disk.state EXCEPT !.rows = @ \cup {r}]]_vars
    BY CurrentStep, WrittenState
  <1> QED BY <1>1, <1>2, RefreshInvariant, PTL DEF Spec, RefreshCurrent, StartsDisclosed, NothingOverwritten

-----------------------------------------------------------------------------
(***************************************************************************)
(* Carriers: for any manifests, pins and bounds, what CarrierLife's runs    *)
(* record of a relation and whom they take one from.                        *)
(***************************************************************************)

LEMMA CarrierInit == Carrier!Init => Carrier!Inv
  <1> SUFFICES ASSUME Carrier!Init PROVE Carrier!Inv
    OBVIOUS
  <1>1. Carrier!NoPlan \in Carrier!Plans
    BY CarrierLifeAssumption DEF Carrier!NoPlan, Carrier!Plans, Carrier!Kinds
  <1>2. /\ carrierUsed \in [Carrier!BoundNames -> Nat]
        /\ \A b \in Carrier!BoundNames : carrierUsed[b] <= CarrierLimit[b]
    BY CarrierLifeAssumption DEF Carrier!CarrierAssumption, Carrier!Init
  <1>3. Carrier!TypeOK
    BY <1>1, <1>2, CarrierLifeAssumption
       DEF Carrier!CarrierAssumption, Carrier!Init, Carrier!TypeOK, Carrier!Idle, Carrier!Files
  <1>4. \A o \in Owners : /\ carrierRun[o].pc = "idle" /\ carrierRun[o].plan.kind = "none"
                          /\ by[Carrier!Site(o)] = "nobody"
    BY DEF Carrier!Init, Carrier!Idle, Carrier!NoPlan, Carrier!Sites
  <1>5. \A o \in Owners : Carrier!InPlace(o) /\ Carrier!GivingUp(o) /\ Carrier!TakingUp(o)
    BY <1>4 DEF Carrier!InPlace, Carrier!GivingUp, Carrier!TakingUp, Carrier!Kind,
                Carrier!Running, Carrier!Steps
  <1>6. Carrier!LeaseHeld /\ Carrier!Recorded /\ Carrier!NobodysGap
    BY <1>4, CarrierLifeAssumption
       DEF Carrier!CarrierAssumption, Carrier!Init, Carrier!LeaseHeld, Carrier!Recorded,
           Carrier!NobodysGap, Carrier!Running, Carrier!Steps
  <1>7. Carrier!RemovalBacked /\ Carrier!PinAlone
    BY DEF Carrier!Init, Carrier!RemovalBacked, Carrier!PinAlone
  <1> QED BY <1>3, <1>5, <1>6, <1>7 DEF Carrier!Inv

-----------------------------------------------------------------------------
(* What one owner's step writes, field by field. *)

Progress == [Owners -> [pc : {"idle", "planned"} \cup Carrier!Steps, plan : Carrier!Plans]]

(* Nobody's run but o's goes on. *)
Alone(o) == \A q \in Owners \ {o} : carrierRun'[q] = carrierRun[q]

LEMMA Moved ==
  ASSUME Carrier!TypeOK, NEW o \in Owners, NEW x \in Carrier!Steps, Carrier!Goto(o, x)
  PROVE  /\ carrierRun' \in Progress /\ Alone(o)
         /\ carrierRun'[o].pc = x /\ carrierRun'[o].plan = carrierRun[o].plan
         /\ carrierLease' = carrierLease
  BY DEF Carrier!TypeOK, Carrier!Goto, Progress, Alone

LEMMA Returned ==
  ASSUME Carrier!TypeOK, NEW o \in Owners, Carrier!Return(o)
  PROVE  /\ carrierRun' \in Progress /\ Alone(o)
         /\ carrierRun'[o].pc = "idle" /\ carrierRun'[o].plan.kind = "none"
         /\ carrierLease' = IF carrierLease = o THEN None ELSE carrierLease
  <1>1. Carrier!NoPlan \in Carrier!Plans
    BY DEF Carrier!NoPlan, Carrier!Plans, Carrier!Kinds
  <1> QED BY <1>1 DEF Carrier!TypeOK, Carrier!Return, Carrier!Idle, Carrier!NoPlan, Progress, Alone

(* Statefiles and registry have their types, and those of every owner but o are as they were. *)
OwnRecords(o) ==
  /\ file' \in [Owners -> Carrier!Files]
  /\ \A q \in Globals : file'[q].claim = None
  /\ registry' \in [Globals -> Carrier!Claims \cup {None}]
  /\ \A q \in Owners \ {o} : file'[q] = file[q] /\ Carrier!Claim(q)' = Carrier!Claim(q)
  /\ Carrier!Others(o)' = Carrier!Others(o)

LEMMA Untouched ==
  ASSUME Carrier!TypeOK, NEW o \in Owners, file' = file, registry' = registry
  PROVE  /\ OwnRecords(o) /\ file'[o] = file[o] /\ Carrier!Claim(o)' = Carrier!Claim(o)
         /\ \A q \in Owners : Carrier!Others(q)' = Carrier!Others(q)
  BY DEF Carrier!TypeOK, OwnRecords, Carrier!Claim, Carrier!Others

LEMMA Filed ==
  ASSUME Carrier!TypeOK, NEW o \in Owners, NEW f \in Carrier!Files,
         o \in Globals => f.claim = None,
         file' = [file EXCEPT ![o] = f], registry' = registry
  PROVE  /\ OwnRecords(o) /\ file'[o] = f
         /\ o \notin Globals => Carrier!Claim(o)' = f.claim
         /\ o \in Globals => Carrier!Claim(o)' = Carrier!Claim(o)
         /\ \A q \in Owners : Carrier!Others(q)' = Carrier!Others(q)
  BY DEF Carrier!TypeOK, OwnRecords, Carrier!Claim, Carrier!Others

LEMMA Claimed ==
  ASSUME Carrier!TypeOK, NEW o \in Owners, NEW c \in Carrier!Claims \cup {None},
         Carrier!SetClaim(o, c)
  PROVE  /\ OwnRecords(o) /\ Carrier!Claim(o)' = c
         /\ file'[o].rem = file[o].rem /\ file'[o].inst = file[o].inst
         /\ o \notin Globals => registry' = registry
  <1>1. CASE o \in Globals
    BY <1>1 DEF Carrier!TypeOK, OwnRecords, Carrier!Claim, Carrier!Others, Carrier!SetClaim
  <1>2. CASE o \notin Globals
    <2> DEFINE f == [file[o] EXCEPT !.claim = c]
    <2>1. f \in Carrier!Files /\ f.claim = c /\ f.rem = file[o].rem /\ f.inst = file[o].inst
      BY DEF Carrier!TypeOK, Carrier!Files
    <2>2. file' = [file EXCEPT ![o] = f] /\ registry' = registry
      BY <1>2 DEF Carrier!TypeOK, Carrier!SetClaim
    <2> QED BY <1>2, <2>1, <2>2, Filed
  <1> QED BY <1>1, <1>2

Bounded ==
  /\ carrierUsed \in [Carrier!BoundNames -> Nat]
  /\ \A x \in Carrier!BoundNames : carrierUsed[x] <= CarrierLimit[x]

LEMMA WithinBounds ==
  ASSUME Carrier!TypeOK, NEW b \in Carrier!BoundNames, Carrier!Use(b)
  PROVE  Bounded'
  <1>1. /\ carrierUsed \in [Carrier!BoundNames -> Nat] /\ CarrierLimit \in [Carrier!BoundNames -> Nat]
        /\ \A x \in Carrier!BoundNames : carrierUsed[x] <= CarrierLimit[x]
    BY CarrierLifeAssumption DEF Carrier!TypeOK, Carrier!CarrierAssumption
  <1>2. carrierUsed[b] < CarrierLimit[b] /\ carrierUsed' = [carrierUsed EXCEPT ![b] = @ + 1]
    BY DEF Carrier!Use
  <1>3. carrierUsed[b] \in Nat /\ CarrierLimit[b] \in Nat
    BY <1>1
  <1>4. carrierUsed[b] + 1 \in Nat /\ carrierUsed[b] + 1 <= CarrierLimit[b]
    BY <1>2, <1>3
  <1> QED BY <1>1, <1>2, <1>4 DEF Bounded

LEMMA StillBounded == ASSUME Carrier!TypeOK, carrierUsed' = carrierUsed PROVE Bounded'
  BY DEF Carrier!TypeOK, Bounded

LEMMA SeenThere ==
  ASSUME Carrier!TypeOK, NEW o \in Owners, NEW seen, Carrier!Look(o, seen)
  PROVE  Bounded' /\ (seen = host[Carrier!Site(o)] \/ seen = Unknown)
  <1>1. "blind" \in Carrier!BoundNames
    BY DEF Carrier!BoundNames
  <1> QED BY <1>1, WithinBounds, StillBounded DEF Carrier!Look

LEMMA SitesApart ==
  ASSUME NEW o \in Owners, NEW q \in Owners
  PROVE  /\ Carrier!Site(o) \in Carrier!Sites
         /\ Carrier!Site(o) = Carrier!Site(q) <=> (o = q \/ (o \in Globals /\ q \in Globals))
  BY CarrierLifeAssumption DEF Carrier!CarrierAssumption, Carrier!Site, Carrier!Sites, Carrier!Shared

-----------------------------------------------------------------------------
(* One owner's step: what it leaves alone, and what it must bring about. *)

(* The step changes the shared place and the registry only with the lease, or while nobody
   has it. *)
Apart(o) ==
  /\ OwnRecords(o) /\ Alone(o)
  /\ \A q \in Globals \ {o} : carrierLease' = q <=> carrierLease = q
  /\ \A s \in Carrier!Sites \ {Carrier!Site(o)} : host'[s] = host[s] /\ by'[s] = by[s]
  /\ by'[Carrier!Site(o)] \in {by[Carrier!Site(o)], o, "user", "nobody"}
  /\ \/ host' = host /\ by' = by /\ registry' = registry
     \/ o \notin Globals
     \/ Carrier!Running(o)
     \/ carrierLease = None

Typed ==
  /\ desired' \in [Owners -> Pins \cup {None}]
  /\ host' \in [Carrier!Sites -> Pins \cup {None}]
  /\ by' \in [Carrier!Sites -> Owners \cup {"user", "nobody"}]
  /\ carrierLease' \in Globals \cup {None}
  /\ carrierRun' \in Progress
  /\ Bounded'

Own(o) ==
  /\ file'[o].rem # None => Carrier!Claim(o)' = file'[o].rem
  /\ by'[Carrier!Site(o)] = o => file'[o].inst # None \/ Carrier!Claim(o)' # None
  /\ host'[Carrier!Site(o)] = None => by'[Carrier!Site(o)] = "nobody"
  /\ o \in Globals => (carrierLease' = o <=> Carrier!Running(o)')
  /\ Carrier!InPlace(o)' /\ Carrier!GivingUp(o)' /\ Carrier!TakingUp(o)'

(* The owners whose runs a step leaves alone find what they rely on as it was. *)
Undisturbed(q) ==
  /\ carrierRun'[q] = carrierRun[q] /\ file'[q] = file[q] /\ Carrier!Claim(q)' = Carrier!Claim(q)
  /\ Carrier!Running(q) =>
        /\ Carrier!Others(q)' = Carrier!Others(q)
        /\ host'[Carrier!Site(q)] = host[Carrier!Site(q)]
        /\ by'[Carrier!Site(q)] = by[Carrier!Site(q)]

LEMMA UndisturbedKept ==
  ASSUME NEW q \in Owners, Undisturbed(q),
         Carrier!InPlace(q), Carrier!GivingUp(q), Carrier!TakingUp(q)
  PROVE  Carrier!InPlace(q)' /\ Carrier!GivingUp(q)' /\ Carrier!TakingUp(q)'
  <1>1. Carrier!InPlace(q)'
    BY DEF Undisturbed, Carrier!InPlace, Carrier!Kind, Carrier!Pin
  <1>2. Carrier!Running(q)' = Carrier!Running(q) /\ Carrier!Kind(q)' = Carrier!Kind(q)
        /\ Carrier!Pin(q)' = Carrier!Pin(q)
    BY DEF Undisturbed, Carrier!Running, Carrier!Kind, Carrier!Pin
  <1>3. Carrier!GivingUp(q)'
    BY <1>2 DEF Undisturbed, Carrier!GivingUp, Carrier!Running, Carrier!Stable, Carrier!Steps
  <1>4. Carrier!TakingUp(q)'
    BY <1>2 DEF Undisturbed, Carrier!TakingUp, Carrier!Running, Carrier!Steps
  <1> QED BY <1>1, <1>3, <1>4

LEMMA ApartUndisturbed ==
  ASSUME Carrier!Inv, NEW o \in Owners, Apart(o), NEW q \in Owners \ {o}
  PROVE  Undisturbed(q)
  <1>1. carrierRun'[q] = carrierRun[q] /\ file'[q] = file[q] /\ Carrier!Claim(q)' = Carrier!Claim(q)
    BY DEF Apart, OwnRecords, Alone
  <1>2. Carrier!Site(q) \in Carrier!Sites
    BY SitesApart
  <1>3. CASE host' = host /\ by' = by /\ registry' = registry
    BY <1>1, <1>3 DEF Undisturbed, Carrier!Others
  <1>4. CASE o \notin Globals \/ q \notin Globals
    <2>1. Carrier!Site(q) # Carrier!Site(o)
      BY <1>4, SitesApart
    <2>2. host'[Carrier!Site(q)] = host[Carrier!Site(q)] /\ by'[Carrier!Site(q)] = by[Carrier!Site(q)]
      BY <1>2, <2>1 DEF Apart
    <2>3. Carrier!Others(q)' = Carrier!Others(q)
      <3>1. CASE q \notin Globals
        BY <3>1 DEF Carrier!Others
      <3>2. CASE q \in Globals
        <4>1. \A p \in Globals : registry'[p] = registry[p]
          BY <1>4, <3>2, CarrierLifeAssumption
             DEF Apart, OwnRecords, Carrier!Claim, Carrier!CarrierAssumption
        <4> QED BY <4>1 DEF Carrier!Others
      <3> QED BY <3>1, <3>2
    <2> QED BY <1>1, <2>2, <2>3 DEF Undisturbed
  <1>5. CASE o \in Globals /\ q \in Globals /\ (Carrier!Running(o) \/ carrierLease = None)
    <2>1. ~Carrier!Running(q)
      BY <1>5, CarrierLifeAssumption
         DEF Carrier!Inv, Carrier!LeaseHeld, Carrier!CarrierAssumption
    <2> QED BY <1>1, <2>1 DEF Undisturbed
  <1> QED BY <1>3, <1>4, <1>5 DEF Apart

LEMMA WholeKept ==
  ASSUME Carrier!Inv, NEW o \in Owners, Typed, Apart(o), Own(o), Carrier!PinAlone'
  PROVE  Carrier!Inv'
  <1>1. Carrier!TypeOK'
    BY DEF Typed, Apart, OwnRecords, Progress, Bounded, Carrier!TypeOK
  <1>2. \A q \in Owners \ {o} : Undisturbed(q)
    BY ApartUndisturbed
  <1>3. \A q \in Owners : Carrier!InPlace(q)' /\ Carrier!GivingUp(q)' /\ Carrier!TakingUp(q)'
    BY <1>2, UndisturbedKept DEF Own, Carrier!Inv
  <1>4. Carrier!RemovalBacked'
    BY <1>2 DEF Own, Undisturbed, Carrier!Inv, Carrier!RemovalBacked
  <1>5. Carrier!Recorded'
    <2> SUFFICES ASSUME NEW q \in Owners \ {o}, by'[Carrier!Site(q)] = q
                 PROVE  file'[q].inst # None \/ Carrier!Claim(q)' # None
      BY DEF Own, Carrier!Recorded
    <2>1. by[Carrier!Site(q)] = q
      BY SitesApart, CarrierLifeAssumption DEF Apart, Carrier!CarrierAssumption
    <2> QED BY <1>2, <2>1 DEF Undisturbed, Carrier!Inv, Carrier!Recorded
  <1>6. Carrier!LeaseHeld'
    <2> SUFFICES ASSUME NEW q \in Globals
                 PROVE  carrierLease' = q <=> Carrier!Running(q)'
      BY DEF Carrier!LeaseHeld
    <2>1. CASE q = o
      BY <2>1 DEF Own
    <2>2. CASE q # o
      <3>1. q \in Owners \ {o}
        BY <2>2, CarrierLifeAssumption DEF Carrier!CarrierAssumption
      <3>2. Carrier!Running(q)' <=> Carrier!Running(q)
        BY <1>2, <3>1 DEF Undisturbed, Carrier!Running
      <3>3. carrierLease' = q <=> carrierLease = q
        BY <2>2 DEF Apart
      <3> QED BY <3>2, <3>3 DEF Carrier!Inv, Carrier!LeaseHeld
    <2> QED BY <2>1, <2>2
  <1>7. Carrier!NobodysGap'
    BY DEF Own, Apart, Carrier!Inv, Carrier!NobodysGap
  <1> QED BY <1>1, <1>3, <1>4, <1>5, <1>6, <1>7 DEF Carrier!Inv

LEMMA AloneStays ==
  ASSUME Carrier!PinAlone, registry' = registry
  PROVE  Carrier!PinAlone'
  BY DEF Carrier!PinAlone, Carrier!Others

(* A claim that is given up, one that is stable beside stable ones, and one that nobody else
   shares. *)
LEMMA AloneClaimed ==
  ASSUME Carrier!Inv, NEW o \in Owners, NEW c \in Carrier!Claims \cup {None},
         Carrier!SetClaim(o, c),
         \/ c = None
         \/ c.pend = None /\ \A x \in Carrier!Others(o) : x.pend = None
         \/ Carrier!Others(o) = {}
  PROVE  Carrier!PinAlone'
  <1>1. CASE o \notin Globals
    BY <1>1, AloneStays DEF Carrier!SetClaim, Carrier!Inv
  <1>2. CASE o \in Globals
    <2>1. /\ registry' \in [Globals -> Carrier!Claims \cup {None}]
          /\ registry'[o] = c /\ \A q \in Globals \ {o} : registry'[q] = registry[q]
      BY <1>2 DEF Carrier!Inv, Carrier!TypeOK, Carrier!SetClaim
    <2> SUFFICES ASSUME NEW q \in Globals, registry'[q] # None, registry'[q].pend # None
                 PROVE  {registry'[p] : p \in Globals \ {q}} \ {None} = {}
      BY DEF Carrier!PinAlone, Carrier!Others
    <2>2. CASE q = o
      <3>1. Carrier!Others(o) = {}
        BY <2>1, <2>2
      <3> QED BY <1>2, <2>1, <2>2, <3>1 DEF Carrier!Others
    <2>3. CASE q # o
      <3>1. registry[q] # None /\ registry[q].pend # None
        BY <2>1, <2>3
      <3>2. Carrier!Others(q) = {}
        BY <3>1 DEF Carrier!Inv, Carrier!PinAlone
      <3>3. registry[q] \in Carrier!Others(o)
        BY <1>2, <2>3, <3>1 DEF Carrier!Others
      <3>4. c = None
        BY <3>1, <3>3
      <3> QED BY <2>1, <2>3, <3>2, <3>4 DEF Carrier!Others
    <2> QED BY <2>2, <2>3
  <1> QED BY <1>1, <1>2

-----------------------------------------------------------------------------
(* Steps of a run. *)

(* A step of a run that leaves the host and everybody's declarations alone. *)
LEMMA QuietTyped ==
  ASSUME Carrier!TypeOK, NEW o \in Owners, carrierRun' \in Progress, Bounded',
         UNCHANGED <<desired, host, by>>, carrierLease' \in {carrierLease, None, o},
         o \notin Globals => carrierLease' # o
  PROVE  Typed
  BY DEF Carrier!TypeOK, Typed

LEMMA Plain ==
  ASSUME Carrier!Inv, NEW o \in Owners
  PROVE  /\ Carrier!TypeOK /\ o # "nobody" /\ o # "user" /\ o # None
         /\ Carrier!Site(o) \in Carrier!Sites
         /\ host[Carrier!Site(o)] \in Pins \cup {None}
         /\ host[Carrier!Site(o)] = None => by[Carrier!Site(o)] = "nobody"
         /\ by[Carrier!Site(o)] \in Owners \cup {"user", "nobody"}
         /\ file[o] \in Carrier!Files /\ carrierRun[o].plan \in Carrier!Plans
         /\ o \in Globals => file[o].claim = None
         /\ Carrier!Claim(o) \in Carrier!Claims \cup {None}
         /\ None \notin Pins /\ Unknown \notin Pins /\ None # Unknown /\ None \notin Carrier!Claims
         /\ "user" \notin Owners /\ "nobody" \notin Owners /\ None \notin Owners
         /\ Globals \subseteq Owners
         /\ carrierLease \in Globals \cup {None}
         /\ o \in Globals => (carrierLease = o <=> Carrier!Running(o))
         /\ file[o].rem # None => Carrier!Claim(o) = file[o].rem
         /\ by[Carrier!Site(o)] = o => file[o].inst # None \/ Carrier!Claim(o) # None
         /\ Carrier!InPlace(o) /\ Carrier!GivingUp(o) /\ Carrier!TakingUp(o)
         /\ Carrier!PinAlone
  BY SitesApart, CarrierLifeAssumption
     DEF Carrier!Inv, Carrier!TypeOK, Carrier!CarrierAssumption, Carrier!Claim, Carrier!Files,
         Carrier!LeaseHeld, Carrier!RemovalBacked, Carrier!Recorded, Carrier!NobodysGap

LEMMA MovedApart ==
  ASSUME Carrier!Inv, NEW o \in Owners, OwnRecords(o), Alone(o),
         UNCHANGED <<host, by>>, carrierLease' = carrierLease,
         registry' = registry \/ Carrier!Running(o) \/ o \notin Globals
  PROVE  Apart(o)
  BY Plain DEF Apart

LEMMA ReturnedApart ==
  ASSUME Carrier!Inv, NEW o \in Owners, OwnRecords(o), Alone(o), UNCHANGED <<host, by>>,
         carrierLease' = IF carrierLease = o THEN None ELSE carrierLease,
         registry' = registry \/ Carrier!Running(o) \/ o \notin Globals
  PROVE  Apart(o)
  BY Plain DEF Apart

(* A run that ends asks for nothing more than that its owner's records speak of what it leaves. *)
LEMMA ReturnedKept ==
  ASSUME Carrier!Inv, NEW o \in Owners, Carrier!Return(o), OwnRecords(o), Carrier!PinAlone',
         UNCHANGED <<desired, host, by>>, Bounded',
         registry' = registry \/ Carrier!Running(o) \/ o \notin Globals,
         file'[o].rem # None => Carrier!Claim(o)' = file'[o].rem,
         by[Carrier!Site(o)] = o => file'[o].inst # None \/ Carrier!Claim(o)' # None
  PROVE  Carrier!Inv'
  <1>1. /\ carrierRun' \in Progress /\ Alone(o)
        /\ carrierRun'[o].pc = "idle" /\ carrierRun'[o].plan.kind = "none"
        /\ carrierLease' = IF carrierLease = o THEN None ELSE carrierLease
    BY Returned, Plain
  <1>2. Typed
    BY <1>1, Plain, QuietTyped
  <1>3. Apart(o)
    BY <1>1, ReturnedApart
  <1>4. /\ Carrier!InPlace(o)' /\ Carrier!GivingUp(o)' /\ Carrier!TakingUp(o)'
        /\ ~Carrier!Running(o)'
    BY <1>1 DEF Carrier!InPlace, Carrier!GivingUp, Carrier!TakingUp, Carrier!Kind,
                Carrier!Running, Carrier!Steps
  <1>5. Own(o)
    BY <1>1, <1>4, Plain DEF Own
  <1> QED BY <1>2, <1>3, <1>5, WholeKept

LEMMA MovedKept ==
  ASSUME Carrier!Inv, NEW o \in Owners, NEW x \in Carrier!Steps, Carrier!Goto(o, x),
         Carrier!Running(o), OwnRecords(o), Carrier!PinAlone',
         UNCHANGED <<desired, host, by>>, Bounded',
         file'[o].rem # None => Carrier!Claim(o)' = file'[o].rem,
         by[Carrier!Site(o)] = o => file'[o].inst # None \/ Carrier!Claim(o)' # None,
         Carrier!InPlace(o)', Carrier!GivingUp(o)', Carrier!TakingUp(o)'
  PROVE  Carrier!Inv'
  <1>1. /\ carrierRun' \in Progress /\ Alone(o)
        /\ carrierRun'[o].pc = x /\ carrierLease' = carrierLease
    BY Moved, Plain
  <1>2. Typed
    BY <1>1, Plain, QuietTyped
  <1>3. Apart(o)
    BY <1>1, MovedApart
  <1>4. Carrier!Running(o)'
    BY <1>1 DEF Carrier!Running
  <1>5. Own(o)
    BY <1>1, <1>4, Plain DEF Own
  <1> QED BY <1>2, <1>3, <1>5, WholeKept

(* The last step of a claim that is given up. *)
LEMMA GivenUpKept ==
  ASSUME Carrier!Inv, NEW o \in Owners,
         Carrier!RegRetire(o) \/ Carrier!RemRetire(o)
  PROVE  Carrier!Inv'
  <1>1. /\ Carrier!Running(o) /\ Carrier!SetClaim(o, None) /\ Carrier!Return(o)
        /\ UNCHANGED <<desired, host, by, carrierUsed>>
    BY DEF Carrier!RegRetire, Carrier!RemRetire, Carrier!At, Carrier!Running, Carrier!Steps
  <1>2. file[o].rem = None /\ by[Carrier!Site(o)] # o
    BY Plain, <1>1
       DEF Carrier!RegRetire, Carrier!RemRetire, Carrier!At, Carrier!InPlace, Carrier!GivingUp
  <1>3. /\ OwnRecords(o) /\ Carrier!Claim(o)' = None
        /\ file'[o].rem = None
    BY <1>1, <1>2, Claimed, Plain
  <1>4. Carrier!PinAlone'
    BY <1>1, AloneClaimed
  <1>5. Bounded'
    BY <1>1, StillBounded, Plain
  <1> QED BY <1>1, <1>2, <1>3, <1>4, <1>5, ReturnedKept

LEMMA AdoptKept ==
  ASSUME Carrier!Inv, NEW o \in Owners, Carrier!RegAdopt(o)
  PROVE  Carrier!Inv'
  <1> DEFINE c == Carrier!Adopted(Carrier!Pin(o))
  <1>1. /\ Carrier!Running(o) /\ Carrier!SetClaim(o, c) /\ Carrier!Return(o)
        /\ UNCHANGED <<desired, host, by, carrierUsed>>
        /\ Carrier!NoReservation(o)
    BY DEF Carrier!RegAdopt, Carrier!At, Carrier!Running, Carrier!Steps
  <1>2. file[o].rem = None /\ Carrier!Pin(o) \in Pins
    BY Plain, <1>1
       DEF Carrier!RegAdopt, Carrier!At, Carrier!InPlace, Carrier!TakingUp
  <1>3. c \in Carrier!Claims /\ c.pend = None /\ c # None
    BY <1>2, Plain DEF Carrier!Claims, Carrier!Adopted
  <1> HIDE DEF c
  <1>4. OwnRecords(o) /\ Carrier!Claim(o)' = c /\ file'[o].rem = None
    BY <1>1, <1>2, <1>3, Claimed, Plain
  <1>5. Carrier!PinAlone'
    BY <1>1, <1>3, AloneClaimed DEF Carrier!NoReservation, Carrier!Stable
  <1>6. Bounded'
    BY <1>1, StillBounded, Plain
  <1> QED BY <1>1, <1>2, <1>3, <1>4, <1>5, <1>6, ReturnedKept

LEMMA PinCompleteKept ==
  ASSUME Carrier!Inv, NEW o \in Owners, Carrier!PinComplete(o)
  PROVE  Carrier!Inv'
  <1> DEFINE c == [pin |-> Carrier!Pin(o), pend |-> None, prov |-> "pin"]
  <1>1. /\ Carrier!Running(o) /\ Carrier!SetClaim(o, c) /\ Carrier!Return(o)
        /\ UNCHANGED <<desired, host, by, carrierUsed>>
        /\ Carrier!Claim(o) = [carrierRun[o].plan.claim EXCEPT !.pend = Carrier!Pin(o)]
    BY DEF Carrier!PinComplete, Carrier!At, Carrier!Running, Carrier!Steps
  <1>2. /\ file[o].rem = None /\ Carrier!Pin(o) \in Pins
        /\ carrierRun[o].plan.claim \in Carrier!Claims /\ Carrier!Claim(o) # None
    BY Plain, <1>1
       DEF Carrier!PinComplete, Carrier!At, Carrier!InPlace, Carrier!TakingUp
  <1>3. c \in Carrier!Claims /\ c.pend = None /\ c # None
    BY <1>2, Plain DEF Carrier!Claims
  <1>4. Carrier!Claim(o).pend # None
    BY <1>1, <1>2, Plain DEF Carrier!Claims
  <1> HIDE DEF c
  <1>5. OwnRecords(o) /\ Carrier!Claim(o)' = c /\ file'[o].rem = None
    BY <1>1, <1>2, <1>3, Claimed, Plain
  <1>6. o \in Globals => Carrier!Others(o) = {}
    BY <1>2, <1>4 DEF Carrier!Inv, Carrier!PinAlone, Carrier!Claim
  <1>7. o \notin Globals => Carrier!Others(o) = {}
    BY DEF Carrier!Others
  <1>8. Carrier!PinAlone'
    BY <1>1, <1>3, <1>6, <1>7, AloneClaimed
  <1>9. Bounded'
    BY <1>1, StillBounded, Plain
  <1> QED BY <1>1, <1>2, <1>3, <1>5, <1>8, <1>9, ReturnedKept

LEMMA CutShortKept ==
  ASSUME Carrier!Inv, NEW o \in Owners, Carrier!Refuse(o) \/ Carrier!Stop(o)
  PROVE  Carrier!Inv'
  <1>1. /\ Carrier!Return(o) /\ UNCHANGED <<desired, host, by, file, registry>>
        /\ carrierUsed' = carrierUsed \/ Carrier!Use("stops")
    BY DEF Carrier!Refuse, Carrier!Stop
  <1>2. OwnRecords(o) /\ file'[o] = file[o] /\ Carrier!Claim(o)' = Carrier!Claim(o)
    BY <1>1, Untouched, Plain
  <1>3. Bounded'
    BY <1>1, WithinBounds, StillBounded, Plain DEF Carrier!BoundNames
  <1>4. Carrier!PinAlone'
    BY <1>1, AloneStays, Plain
  <1> QED BY <1>1, <1>2, <1>3, <1>4, Plain, ReturnedKept

LEMMA InstRetireKept ==
  ASSUME Carrier!Inv, NEW o \in Owners, Carrier!InstRetire(o)
  PROVE  Carrier!Inv'
  <1> DEFINE i == IF file[o].inst = Carrier!Pin(o) THEN None ELSE file[o].inst
             f == [file[o] EXCEPT !.inst = i]
  <1>1. /\ Carrier!Return(o) /\ UNCHANGED <<desired, host, by, registry, carrierUsed>>
        /\ file' = [file EXCEPT ![o] = f]
    BY DEF Carrier!InstRetire, Carrier!Inv, Carrier!TypeOK, Carrier!Files
  <1>2. f \in Carrier!Files /\ f.claim = file[o].claim /\ f.rem = file[o].rem
    BY Plain DEF Carrier!Files
  <1>3. by[Carrier!Site(o)] # o \/ Carrier!Claim(o) # None
    BY Plain DEF Carrier!InstRetire, Carrier!At, Carrier!TakingUp
  <1> HIDE DEF f
  <1>4. OwnRecords(o) /\ file'[o] = f /\ Carrier!Claim(o)' = Carrier!Claim(o)
    BY <1>1, <1>2, Filed, Plain DEF Carrier!Claim
  <1>5. Bounded' /\ Carrier!PinAlone'
    BY <1>1, StillBounded, AloneStays, Plain
  <1> QED BY <1>1, <1>2, <1>3, <1>4, <1>5, Plain, ReturnedKept

LEMMA RemPendingKept ==
  ASSUME Carrier!Inv, NEW o \in Owners, Carrier!RemPending(o)
  PROVE  Carrier!Inv'
  <1> DEFINE c == Carrier!Claim(o)
             f == [file[o] EXCEPT !.rem = c]
  <1>1. /\ Carrier!Running(o) /\ Carrier!Goto(o, "remHost") /\ "remHost" \in Carrier!Steps
        /\ UNCHANGED <<desired, host, by, registry, carrierUsed>>
        /\ file' = [file EXCEPT ![o] = f] /\ carrierRun[o].pc = "remPending"
    BY DEF Carrier!RemPending, Carrier!At, Carrier!Running, Carrier!Steps, Carrier!Inv,
           Carrier!TypeOK, Carrier!Files
  <1>2. /\ Carrier!Kind(o) = "remove" /\ c # None
        /\ \A x \in Carrier!Others(o) : x.pin # c.pin
    BY <1>1, Plain DEF Carrier!InPlace, Carrier!GivingUp
  <1>3. f \in Carrier!Files /\ f.claim = file[o].claim /\ f.rem = c
    BY Plain DEF Carrier!Files
  <1> HIDE DEF f
  <1>4. /\ OwnRecords(o) /\ file'[o] = f /\ Carrier!Claim(o)' = c
        /\ Carrier!Others(o)' = Carrier!Others(o)
    BY <1>1, <1>3, Filed, Plain DEF Carrier!Claim
  <1>5. Bounded' /\ Carrier!PinAlone'
    BY <1>1, StillBounded, AloneStays, Plain
  <1>6. carrierRun'[o].pc = "remHost" /\ carrierRun'[o].plan = carrierRun[o].plan
    BY <1>1, Moved, Plain
  <1>7. Carrier!InPlace(o)'
    BY <1>2, <1>6 DEF Carrier!InPlace, Carrier!Kind, Carrier!Pin
  <1>8. Carrier!GivingUp(o)'
    BY <1>2, <1>3, <1>4, <1>6 DEF Carrier!GivingUp, Carrier!Kind
  <1>9. Carrier!TakingUp(o)'
    BY <1>2, <1>6 DEF Carrier!TakingUp, Carrier!Kind
  <1> QED BY <1>1, <1>2, <1>3, <1>4, <1>5, <1>7, <1>8, <1>9, MovedKept

(* The looks that follow a command, and the one that replaces it. *)
LEMMA LookKept ==
  ASSUME Carrier!Inv, NEW o \in Owners, NEW seen,
         Carrier!RemSee(o, seen) \/ Carrier!RemVerify(o, seen) \/ Carrier!PinSee(o, seen)
  PROVE  Carrier!Inv'
  <1>1. /\ Carrier!Running(o) /\ Carrier!Look(o, seen)
        /\ UNCHANGED <<desired, host, by, file, registry>>
    BY DEF Carrier!RemSee, Carrier!RemVerify, Carrier!PinSee, Carrier!At, Carrier!Running,
           Carrier!Steps
  <1>2. /\ OwnRecords(o) /\ file'[o] = file[o] /\ Carrier!Claim(o)' = Carrier!Claim(o)
        /\ Carrier!Others(o)' = Carrier!Others(o)
    BY <1>1, Untouched, Plain
  <1>3. Bounded' /\ Carrier!PinAlone' /\ (seen = host[Carrier!Site(o)] \/ seen = Unknown)
    BY <1>1, SeenThere, AloneStays, Plain
  <1>4. CASE Carrier!Return(o)
    BY <1>1, <1>2, <1>3, <1>4, Plain, ReturnedKept
  <1>5. CASE /\ Carrier!At(o, "remSee") \/ Carrier!At(o, "remVerify")
             /\ seen = None /\ Carrier!Goto(o, "remClear")
    <2>1. "remClear" \in Carrier!Steps
      BY DEF Carrier!Steps
    <2>2. carrierRun'[o].pc = "remClear" /\ carrierRun'[o].plan = carrierRun[o].plan
      BY <1>5, <2>1, Moved, Plain
    <2>3. Carrier!Kind(o) \in {"remove", "verify"}
      BY <1>5, Plain DEF Carrier!InPlace, Carrier!At
    <2>4. by[Carrier!Site(o)] # o
      BY <1>3, <1>5, Plain
    <2>5. Carrier!InPlace(o)'
      BY <2>2, <2>3 DEF Carrier!InPlace, Carrier!Kind, Carrier!Pin
    <2>6. Carrier!GivingUp(o)'
      BY <1>1, <2>2, <2>3, <2>4 DEF Carrier!GivingUp, Carrier!Kind
    <2>7. Carrier!TakingUp(o)'
      BY <2>2, <2>3 DEF Carrier!TakingUp, Carrier!Kind
    <2> QED BY <1>1, <1>2, <1>3, <1>5, <2>1, <2>5, <2>6, <2>7, Plain, MovedKept
  <1>6. CASE Carrier!At(o, "pinSee") /\ seen = Carrier!Pin(o) /\ Carrier!Goto(o, "pinComplete")
    <2>1. "pinComplete" \in Carrier!Steps
      BY DEF Carrier!Steps
    <2>2. carrierRun'[o].pc = "pinComplete" /\ carrierRun'[o].plan = carrierRun[o].plan
      BY <1>6, <2>1, Moved, Plain
    <2>3. /\ Carrier!Kind(o) = "pin" /\ Carrier!Pin(o) \in Pins
          /\ carrierRun[o].plan.claim \in Carrier!Claims
          /\ file[o].rem = None /\ Carrier!Claim(o) # None
      BY <1>1, <1>6, Plain DEF Carrier!InPlace, Carrier!TakingUp, Carrier!At
    <2>4. host[Carrier!Site(o)] = Carrier!Pin(o)
      BY <1>3, <1>6, <2>3, Plain
    <2>5. Carrier!InPlace(o)'
      BY <2>2, <2>3 DEF Carrier!InPlace, Carrier!Kind, Carrier!Pin
    <2>6. Carrier!GivingUp(o)'
      BY <2>2, <2>3 DEF Carrier!GivingUp, Carrier!Kind
    <2>7. Carrier!TakingUp(o)'
      BY <1>1, <1>2, <2>2, <2>3, <2>4 DEF Carrier!TakingUp, Carrier!Kind, Carrier!Pin
    <2> QED BY <1>1, <1>2, <1>3, <1>6, <2>1, <2>5, <2>6, <2>7, Plain, MovedKept
  <1> QED BY <1>4, <1>5, <1>6 DEF Carrier!RemSee, Carrier!RemVerify, Carrier!PinSee

LEMMA RemClearKept ==
  ASSUME Carrier!Inv, NEW o \in Owners, Carrier!RemClear(o)
  PROVE  Carrier!Inv'
  <1>1. /\ Carrier!Running(o) /\ carrierRun[o].pc = "remClear"
        /\ UNCHANGED <<desired, host, by, registry, carrierUsed>>
    BY DEF Carrier!RemClear, Carrier!At, Carrier!Running, Carrier!Steps
  <1>2. by[Carrier!Site(o)] # o /\ Carrier!Kind(o) \in {"remove", "verify"}
    BY <1>1, Plain DEF Carrier!InPlace, Carrier!GivingUp
  <1>3. Bounded' /\ Carrier!PinAlone'
    BY <1>1, StillBounded, AloneStays, Plain
  <1>4. CASE o \in Globals
    <2> DEFINE f == [file[o] EXCEPT !.rem = None]
    <2>1. /\ Carrier!Goto(o, "remRetire") /\ "remRetire" \in Carrier!Steps
          /\ file' = [file EXCEPT ![o] = f]
      BY <1>4 DEF Carrier!RemClear, Carrier!Steps, Carrier!Inv, Carrier!TypeOK, Carrier!Files
    <2>2. f \in Carrier!Files /\ f.claim = file[o].claim /\ f.rem = None
      BY Plain DEF Carrier!Files
    <2> HIDE DEF f
    <2>3. /\ OwnRecords(o) /\ file'[o] = f /\ Carrier!Claim(o)' = Carrier!Claim(o)
      BY <1>1, <1>4, <2>1, <2>2, Filed, Plain
    <2>4. carrierRun'[o].pc = "remRetire" /\ carrierRun'[o].plan = carrierRun[o].plan
      BY <2>1, Moved, Plain
    <2>5. Carrier!InPlace(o)'
      BY <1>2, <1>4, <2>4 DEF Carrier!InPlace, Carrier!Kind, Carrier!Pin
    <2>6. Carrier!GivingUp(o)'
      BY <1>1, <1>2, <2>2, <2>3, <2>4 DEF Carrier!GivingUp, Carrier!Kind
    <2>7. Carrier!TakingUp(o)'
      BY <1>2, <2>4 DEF Carrier!TakingUp, Carrier!Kind
    <2> QED BY <1>1, <1>2, <1>3, <2>1, <2>2, <2>3, <2>5, <2>6, <2>7, MovedKept
  <1>5. CASE o \notin Globals
    <2> DEFINE f == [file[o] EXCEPT !.rem = None, !.claim = None]
    <2>1. /\ Carrier!Return(o) /\ file' = [file EXCEPT ![o] = f]
      BY <1>5 DEF Carrier!RemClear, Carrier!Inv, Carrier!TypeOK, Carrier!Files
    <2>2. f \in Carrier!Files /\ f.rem = None
      BY Plain DEF Carrier!Files
    <2> HIDE DEF f
    <2>3. OwnRecords(o) /\ file'[o] = f
      BY <1>1, <1>5, <2>1, <2>2, Filed, Plain
    <2> QED BY <1>1, <1>2, <1>3, <2>1, <2>2, <2>3, ReturnedKept
  <1> QED BY <1>4, <1>5

LEMMA InstPendingKept ==
  ASSUME Carrier!Inv, NEW o \in Owners, Carrier!InstPending(o)
  PROVE  Carrier!Inv'
  <1> DEFINE f == [file[o] EXCEPT !.inst = Carrier!Pin(o)]
  <1>1. /\ Carrier!Running(o) /\ Carrier!Goto(o, "instHost") /\ "instHost" \in Carrier!Steps
        /\ UNCHANGED <<desired, host, by, registry, carrierUsed>>
        /\ file' = [file EXCEPT ![o] = f] /\ carrierRun[o].pc = "instPending"
    BY DEF Carrier!InstPending, Carrier!At, Carrier!Running, Carrier!Steps, Carrier!Inv,
           Carrier!TypeOK, Carrier!Files
  <1>2. Carrier!Kind(o) = "create" /\ Carrier!Pin(o) \in Pins /\ file[o].rem = None
    BY <1>1, Plain DEF Carrier!InPlace, Carrier!TakingUp
  <1>3. /\ f \in Carrier!Files /\ f.claim = file[o].claim /\ f.rem = file[o].rem
        /\ f.inst # None
    BY <1>2, Plain DEF Carrier!Files
  <1> HIDE DEF f
  <1>4. OwnRecords(o) /\ file'[o] = f
    <2>1. Carrier!TypeOK /\ (o \in Globals => f.claim = None)
      BY <1>3, Plain
    <2> QED BY <1>1, <1>3, <2>1, Filed
  <1>5. Bounded' /\ Carrier!PinAlone'
    BY <1>1, StillBounded, AloneStays, Plain
  <1>6. carrierRun'[o].pc = "instHost" /\ carrierRun'[o].plan = carrierRun[o].plan
    BY <1>1, Moved, Plain
  <1>7. Carrier!InPlace(o)'
    BY <1>2, <1>6 DEF Carrier!InPlace, Carrier!Kind, Carrier!Pin
  <1>8. Carrier!GivingUp(o)'
    BY <1>2, <1>6 DEF Carrier!GivingUp, Carrier!Kind
  <1>9. Carrier!TakingUp(o)'
    BY <1>2, <1>3, <1>4, <1>6 DEF Carrier!TakingUp, Carrier!Kind
  <1> QED BY <1>1, <1>2, <1>3, <1>4, <1>5, <1>7, <1>8, <1>9, MovedKept

(* A command that the host runs. *)
LEMMA HostApart ==
  ASSUME Carrier!Inv, NEW o \in Owners, Carrier!Running(o), OwnRecords(o), Alone(o),
         carrierLease' = carrierLease, NEW p \in Pins \cup {None}, NEW w \in {o, "user", "nobody"},
         host' \in {host, [host EXCEPT ![Carrier!Site(o)] = p]},
         by' \in {by, [by EXCEPT ![Carrier!Site(o)] = w]}
  PROVE  /\ Apart(o)
         /\ host' \in [Carrier!Sites -> Pins \cup {None}]
         /\ by' \in [Carrier!Sites -> Owners \cup {"user", "nobody"}]
  <1>1. /\ host \in [Carrier!Sites -> Pins \cup {None}] /\ Carrier!Site(o) \in Carrier!Sites
        /\ by \in [Carrier!Sites -> Owners \cup {"user", "nobody"}]
    BY Plain DEF Carrier!TypeOK
  <1>2. /\ host' \in [Carrier!Sites -> Pins \cup {None}]
        /\ by' \in [Carrier!Sites -> Owners \cup {"user", "nobody"}]
    BY <1>1
  <1>3. \A s \in Carrier!Sites \ {Carrier!Site(o)} : host'[s] = host[s] /\ by'[s] = by[s]
    BY <1>1
  <1>4. by'[Carrier!Site(o)] \in {by[Carrier!Site(o)], o, "user", "nobody"}
    BY <1>1
  <1> QED BY <1>2, <1>3, <1>4 DEF Apart

LEMMA HostKept ==
  ASSUME Carrier!Inv, NEW o \in Owners, NEW x \in Carrier!Steps, Carrier!Goto(o, x),
         Carrier!Running(o), UNCHANGED <<desired, file, registry>>, Bounded',
         NEW p \in Pins \cup {None}, NEW w \in {o, "user", "nobody"},
         host' \in {host, [host EXCEPT ![Carrier!Site(o)] = p]},
         by' \in {by, [by EXCEPT ![Carrier!Site(o)] = w]},
         by'[Carrier!Site(o)] = o => file[o].inst # None \/ Carrier!Claim(o) # None,
         host'[Carrier!Site(o)] = None => by'[Carrier!Site(o)] = "nobody",
         Carrier!InPlace(o)', Carrier!GivingUp(o)', Carrier!TakingUp(o)'
  PROVE  Carrier!Inv'
  <1>1. /\ carrierRun' \in Progress /\ Alone(o)
        /\ carrierRun'[o].pc = x /\ carrierLease' = carrierLease
    BY Moved, Plain
  <1>2. /\ OwnRecords(o) /\ file'[o] = file[o] /\ Carrier!Claim(o)' = Carrier!Claim(o)
        /\ Carrier!Others(o)' = Carrier!Others(o)
    BY Untouched, Plain
  <1>3. /\ Apart(o)
        /\ host' \in [Carrier!Sites -> Pins \cup {None}]
        /\ by' \in [Carrier!Sites -> Owners \cup {"user", "nobody"}]
    BY <1>1, <1>2, HostApart
  <1>4. Typed
    BY <1>1, <1>3, Plain DEF Typed, Carrier!TypeOK
  <1>5. Carrier!Running(o)'
    BY <1>1 DEF Carrier!Running
  <1>6. file'[o].rem # None => Carrier!Claim(o)' = file'[o].rem
    BY <1>2, Plain
  <1>7. o \in Globals => (carrierLease' = o <=> Carrier!Running(o)')
    BY <1>1, <1>5, Plain
  <1>8. Own(o)
    BY <1>2, <1>6, <1>7 DEF Own
  <1>9. Carrier!PinAlone'
    BY AloneStays, Plain
  <1> QED BY <1>3, <1>4, <1>8, <1>9, WholeKept

LEMMA RemHostKept ==
  ASSUME Carrier!Inv, NEW o \in Owners, Carrier!RemHost(o)
  PROVE  Carrier!Inv'
  <1> DEFINE s == Carrier!Site(o)
  <1>1. /\ Carrier!Running(o) /\ Carrier!Goto(o, "remSee") /\ "remSee" \in Carrier!Steps
        /\ UNCHANGED <<desired, file, registry>> /\ carrierRun[o].pc = "remHost"
        /\ carrierUsed' = carrierUsed \/ Carrier!Use("failures")
        /\ \/ host' = [host EXCEPT ![s] = None] /\ by' = [by EXCEPT ![s] = "nobody"]
           \/ UNCHANGED <<host, by>>
    BY DEF Carrier!RemHost, Carrier!At, Carrier!Running, Carrier!Steps
  <1>2. Carrier!Kind(o) = "remove"
    BY <1>1, Plain DEF Carrier!InPlace
  <1>3. carrierRun'[o].pc = "remSee" /\ carrierRun'[o].plan = carrierRun[o].plan
    BY <1>1, Moved, Plain
  <1>4. Bounded'
    BY <1>1, WithinBounds, StillBounded, Plain DEF Carrier!BoundNames
  <1>5. Carrier!InPlace(o)'
    BY <1>2, <1>3 DEF Carrier!InPlace, Carrier!Kind, Carrier!Pin
  <1>6. Carrier!GivingUp(o)'
    BY <1>2, <1>3 DEF Carrier!GivingUp, Carrier!Kind
  <1>7. Carrier!TakingUp(o)'
    BY <1>2, <1>3 DEF Carrier!TakingUp, Carrier!Kind
  <1>8. /\ by'[s] = o => file[o].inst # None \/ Carrier!Claim(o) # None
        /\ host'[s] = None => by'[s] = "nobody"
    BY <1>1, Plain DEF Carrier!TypeOK
  <1> QED BY <1>1, <1>4, <1>5, <1>6, <1>7, <1>8, HostKept

LEMMA InstallsKept ==
  ASSUME Carrier!Inv, NEW o \in Owners, NEW x \in Carrier!Steps, Carrier!Goto(o, x),
         Carrier!HostInstalls(o),
         Carrier!Running(o), UNCHANGED <<desired, file, registry>>,
         Carrier!Pin(o) \in Pins, file[o].inst # None \/ Carrier!Claim(o) # None,
         Carrier!InPlace(o)', Carrier!GivingUp(o)', Carrier!TakingUp(o)'
  PROVE  Carrier!Inv'
  <1> DEFINE s == Carrier!Site(o)
  <1>1. Bounded'
    BY WithinBounds, StillBounded, Plain DEF Carrier!BoundNames, Carrier!HostInstalls
  <1>2. /\ host' \in {host, [host EXCEPT ![s] = Carrier!Pin(o)]}
        /\ by' \in {by, [by EXCEPT ![s] = o]}
    BY DEF Carrier!HostInstalls
  <1>3. host'[s] = None => by'[s] = "nobody"
    BY Plain DEF Carrier!HostInstalls, Carrier!TypeOK
  <1> QED BY <1>1, <1>2, <1>3, HostKept

LEMMA InstHostKept ==
  ASSUME Carrier!Inv, NEW o \in Owners, Carrier!InstHost(o)
  PROVE  Carrier!Inv'
  <1>1. /\ Carrier!Running(o) /\ Carrier!Goto(o, "instSee") /\ "instSee" \in Carrier!Steps
        /\ UNCHANGED <<desired, file, registry>> /\ carrierRun[o].pc = "instHost"
        /\ Carrier!HostInstalls(o)
    BY DEF Carrier!InstHost, Carrier!At, Carrier!Running, Carrier!Steps
  <1>2. /\ Carrier!Kind(o) = "create" /\ Carrier!Pin(o) \in Pins /\ file[o].inst # None
        /\ file[o].rem = None
    BY <1>1, Plain DEF Carrier!InPlace, Carrier!TakingUp
  <1>3. carrierRun'[o].pc = "instSee" /\ carrierRun'[o].plan = carrierRun[o].plan
    BY <1>1, Moved, Plain
  <1>4. Carrier!InPlace(o)'
    BY <1>2, <1>3 DEF Carrier!InPlace, Carrier!Kind, Carrier!Pin
  <1>5. Carrier!GivingUp(o)'
    BY <1>2, <1>3 DEF Carrier!GivingUp, Carrier!Kind
  <1>6. Carrier!TakingUp(o)'
    BY <1>1, <1>2, <1>3 DEF Carrier!TakingUp, Carrier!Kind
  <1> QED BY <1>1, <1>2, <1>4, <1>5, <1>6, InstallsKept

LEMMA PinHostKept ==
  ASSUME Carrier!Inv, NEW o \in Owners, Carrier!PinHost(o)
  PROVE  Carrier!Inv'
  <1>1. /\ Carrier!Running(o) /\ Carrier!Goto(o, "pinSee") /\ "pinSee" \in Carrier!Steps
        /\ UNCHANGED <<desired, file, registry>> /\ carrierRun[o].pc = "pinHost"
        /\ Carrier!HostInstalls(o)
    BY DEF Carrier!PinHost, Carrier!At, Carrier!Running, Carrier!Steps
  <1>2. /\ Carrier!Kind(o) = "pin" /\ Carrier!Pin(o) \in Pins /\ Carrier!Claim(o) # None
        /\ carrierRun[o].plan.claim \in Carrier!Claims
        /\ file[o].rem = None
    BY <1>1, Plain DEF Carrier!InPlace, Carrier!TakingUp
  <1>3. carrierRun'[o].pc = "pinSee" /\ carrierRun'[o].plan = carrierRun[o].plan
    BY <1>1, Moved, Plain
  <1>4. Carrier!Claim(o)' = Carrier!Claim(o)
    BY <1>1, Untouched, Plain
  <1>5. Carrier!InPlace(o)'
    BY <1>2, <1>3 DEF Carrier!InPlace, Carrier!Kind, Carrier!Pin
  <1>6. Carrier!GivingUp(o)'
    BY <1>2, <1>3 DEF Carrier!GivingUp, Carrier!Kind
  <1>7. Carrier!TakingUp(o)'
    BY <1>1, <1>2, <1>3, <1>4 DEF Carrier!TakingUp, Carrier!Kind
  <1> QED BY <1>1, <1>2, <1>5, <1>6, <1>7, InstallsKept

(* The look that follows an installation: what nobody has seen is nobody's. *)
LEMMA InstSeeKept ==
  ASSUME Carrier!Inv, NEW o \in Owners, NEW seen, Carrier!InstSee(o, seen)
  PROVE  Carrier!Inv'
  <1> DEFINE s == Carrier!Site(o)
             x == IF seen # Carrier!Pin(o) THEN "instRetire"
                  ELSE IF o \in Globals THEN "regPromote" ELSE "filePromote"
  <1>1. /\ Carrier!Running(o) /\ Carrier!Goto(o, x) /\ x \in Carrier!Steps
        /\ UNCHANGED <<desired, host, file, registry>> /\ carrierRun[o].pc = "instSee"
        /\ Carrier!Look(o, seen)
    BY DEF Carrier!InstSee, Carrier!At, Carrier!Running, Carrier!Steps
  <1>2. by' \in {by, [by EXCEPT ![s] = "user"]}
    BY DEF Carrier!InstSee, Carrier!Lapse
  <1>3. /\ x = "instRetire" => by'[s] # o \/ Carrier!Claim(o) # None
        /\ by'[s] = o => by[s] = o
        /\ host[s] = None => by'[s] = "nobody"
    BY Plain DEF Carrier!InstSee, Carrier!Lapse, Carrier!TypeOK
  <1>4. /\ Carrier!Kind(o) = "create" /\ Carrier!Pin(o) \in Pins
        /\ file[o].rem = None
    BY <1>1, Plain DEF Carrier!InPlace, Carrier!TakingUp
  <1>5. carrierRun'[o].pc = x /\ carrierRun'[o].plan = carrierRun[o].plan
    BY <1>1, Moved, Plain
  <1>6. x \in {"instRetire", "regPromote", "filePromote"}
        /\ (x = "regPromote" => o \in Globals) /\ (x = "filePromote" => o \notin Globals)
    OBVIOUS
  <1> HIDE DEF x
  <1>7. Bounded'
    BY <1>1, SeenThere, Plain
  <1>8. Carrier!Claim(o)' = Carrier!Claim(o)
    BY <1>1, Untouched, Plain
  <1>9. Carrier!InPlace(o)'
    BY <1>4, <1>5, <1>6 DEF Carrier!InPlace, Carrier!Kind, Carrier!Pin
  <1>10. Carrier!GivingUp(o)'
    BY <1>4, <1>5, <1>6 DEF Carrier!GivingUp, Carrier!Kind
  <1>11. Carrier!TakingUp(o)'
    BY <1>1, <1>3, <1>4, <1>5, <1>6, <1>8 DEF Carrier!TakingUp, Carrier!Kind
  <1> QED BY <1>1, <1>2, <1>3, <1>7, <1>9, <1>10, <1>11, Plain, HostKept

LEMMA AfterInstall ==
  ASSUME Carrier!Inv, NEW o \in Owners, Carrier!Pin(o) \in Pins
  PROVE  /\ Carrier!ClaimAfterInstall(o) \in Carrier!Claims
         /\ Carrier!ClaimAfterInstall(o) # None
         /\ Carrier!Claim(o) # None => Carrier!ClaimAfterInstall(o) = Carrier!Claim(o)
  <1>1. Carrier!Installed(Carrier!Pin(o)) \in Carrier!Claims
    BY DEF Carrier!Installed, Carrier!Claims
  <1> QED BY <1>1, Plain DEF Carrier!ClaimAfterInstall

LEMMA FilePromoteKept ==
  ASSUME Carrier!Inv, NEW o \in Owners, Carrier!FilePromote(o)
  PROVE  Carrier!Inv'
  <1> DEFINE c == Carrier!ClaimAfterInstall(o)
             f == [file[o] EXCEPT !.inst = None, !.claim = c]
  <1>1. /\ Carrier!Running(o) /\ Carrier!Goto(o, "instRetire") /\ "instRetire" \in Carrier!Steps
        /\ UNCHANGED <<desired, host, by, registry, carrierUsed>>
        /\ file' = [file EXCEPT ![o] = f] /\ carrierRun[o].pc = "filePromote"
    BY DEF Carrier!FilePromote, Carrier!At, Carrier!Running, Carrier!Steps, Carrier!Inv,
           Carrier!TypeOK, Carrier!Files
  <1>2. /\ Carrier!Kind(o) = "create" /\ Carrier!Pin(o) \in Pins /\ file[o].rem = None
        /\ o \notin Globals
    BY <1>1, Plain DEF Carrier!InPlace, Carrier!TakingUp
  <1>3. c \in Carrier!Claims /\ c # None
    BY <1>2, AfterInstall
  <1> HIDE DEF c
  <1>4. f \in Carrier!Files /\ f.claim = c /\ f.rem = None
    BY <1>2, <1>3, Plain DEF Carrier!Files
  <1> HIDE DEF f
  <1>5. OwnRecords(o) /\ file'[o] = f /\ Carrier!Claim(o)' = c
    BY <1>1, <1>2, <1>4, Filed, Plain
  <1>6. Bounded' /\ Carrier!PinAlone'
    BY <1>1, StillBounded, AloneStays, Plain
  <1>7. carrierRun'[o].pc = "instRetire" /\ carrierRun'[o].plan = carrierRun[o].plan
    BY <1>1, Moved, Plain
  <1>8. Carrier!InPlace(o)'
    BY <1>2, <1>7 DEF Carrier!InPlace, Carrier!Kind, Carrier!Pin
  <1>9. Carrier!GivingUp(o)'
    BY <1>2, <1>7 DEF Carrier!GivingUp, Carrier!Kind
  <1>10. Carrier!TakingUp(o)'
    BY <1>2, <1>3, <1>4, <1>5, <1>7 DEF Carrier!TakingUp, Carrier!Kind
  <1> QED BY <1>1, <1>3, <1>4, <1>5, <1>6, <1>8, <1>9, <1>10, MovedKept

LEMMA RegPromoteKept ==
  ASSUME Carrier!Inv, NEW o \in Owners, Carrier!RegPromote(o)
  PROVE  Carrier!Inv'
  <1> DEFINE c == Carrier!ClaimAfterInstall(o)
  <1>1. /\ Carrier!Running(o) /\ Carrier!Goto(o, "converge") /\ "converge" \in Carrier!Steps
        /\ UNCHANGED <<desired, host, by, carrierUsed>>
        /\ Carrier!SetClaim(o, c) /\ carrierRun[o].pc = "regPromote"
        /\ c.pend = None /\ \A x \in Carrier!Others(o) : x.pend = None
    BY DEF Carrier!RegPromote, Carrier!At, Carrier!Running, Carrier!Steps, Carrier!Stable,
           Carrier!NoReservation
  <1>2. /\ Carrier!Kind(o) \in {"create", "promote"} /\ Carrier!Pin(o) \in Pins
        /\ file[o].rem = None /\ o \in Globals
    BY <1>1, Plain DEF Carrier!InPlace, Carrier!TakingUp
  <1>3. c \in Carrier!Claims /\ c # None
    BY <1>2, AfterInstall
  <1> HIDE DEF c
  <1>4. OwnRecords(o) /\ Carrier!Claim(o)' = c /\ file'[o].rem = None
    BY <1>1, <1>2, <1>3, Claimed, Plain
  <1>5. Carrier!PinAlone'
    BY <1>1, <1>3, AloneClaimed
  <1>6. Bounded'
    BY <1>1, StillBounded, Plain
  <1>7. carrierRun'[o].pc = "converge" /\ carrierRun'[o].plan = carrierRun[o].plan
    BY <1>1, Moved, Plain
  <1>8. Carrier!InPlace(o)'
    BY <1>2, <1>7 DEF Carrier!InPlace, Carrier!Kind, Carrier!Pin
  <1>9. Carrier!GivingUp(o)'
    BY <1>2, <1>7 DEF Carrier!GivingUp, Carrier!Kind
  <1>10. Carrier!TakingUp(o)'
    BY <1>2, <1>3, <1>4, <1>7 DEF Carrier!TakingUp, Carrier!Kind
  <1> QED BY <1>1, <1>3, <1>4, <1>5, <1>6, <1>8, <1>9, <1>10, MovedKept

LEMMA PinReserveKept ==
  ASSUME Carrier!Inv, NEW o \in Owners, Carrier!PinReserve(o)
  PROVE  Carrier!Inv'
  <1> DEFINE c == [Carrier!Claim(o) EXCEPT !.pend = Carrier!Pin(o)]
  <1>1. /\ Carrier!Running(o) /\ Carrier!Goto(o, "pinHost") /\ "pinHost" \in Carrier!Steps
        /\ UNCHANGED <<desired, host, by, carrierUsed>>
        /\ Carrier!SetClaim(o, c) /\ carrierRun[o].pc = "pinReserve"
        /\ Carrier!Others(o) = {}
    BY DEF Carrier!PinReserve, Carrier!At, Carrier!Running, Carrier!Steps
  <1>2. /\ Carrier!Kind(o) = "pin" /\ Carrier!Pin(o) \in Pins
        /\ file[o].rem = None /\ Carrier!Claim(o) # None
        /\ carrierRun[o].plan.claim \in Carrier!Claims
    BY <1>1, Plain DEF Carrier!InPlace, Carrier!TakingUp
  <1>3. c \in Carrier!Claims /\ c # None
    BY <1>2, Plain DEF Carrier!Claims
  <1> HIDE DEF c
  <1>4. /\ OwnRecords(o) /\ Carrier!Claim(o)' = c /\ file'[o].rem = None
        /\ Carrier!Others(o)' = {}
    BY <1>1, <1>2, <1>3, Claimed, Plain DEF OwnRecords
  <1>5. Carrier!PinAlone'
    BY <1>1, <1>3, AloneClaimed
  <1>6. Bounded'
    BY <1>1, StillBounded, Plain
  <1>7. carrierRun'[o].pc = "pinHost" /\ carrierRun'[o].plan = carrierRun[o].plan
    BY <1>1, Moved, Plain
  <1>8. Carrier!InPlace(o)'
    BY <1>2, <1>7 DEF Carrier!InPlace, Carrier!Kind, Carrier!Pin
  <1>9. Carrier!GivingUp(o)'
    BY <1>2, <1>7 DEF Carrier!GivingUp, Carrier!Kind
  <1>10. Carrier!TakingUp(o)'
    BY <1>2, <1>3, <1>4, <1>7 DEF Carrier!TakingUp, Carrier!Kind
  <1> QED BY <1>1, <1>3, <1>4, <1>5, <1>6, <1>8, <1>9, <1>10, MovedKept

LEMMA ConvergeKept ==
  ASSUME Carrier!Inv, NEW o \in Owners, Carrier!Converge(o)
  PROVE  Carrier!Inv'
  <1> DEFINE f == [file[o] EXCEPT !.inst = Carrier!Converged(o)]
  <1>1. /\ Carrier!Running(o) /\ carrierRun[o].pc = "converge"
        /\ UNCHANGED <<desired, host, by, registry, carrierUsed>>
        /\ file' = [file EXCEPT ![o] = f]
    BY DEF Carrier!Converge, Carrier!At, Carrier!Running, Carrier!Steps, Carrier!Inv,
           Carrier!TypeOK, Carrier!Files
  <1>2. /\ Carrier!Kind(o) \in {"create", "promote"} /\ Carrier!Pin(o) \in Pins
        /\ file[o].rem = None /\ Carrier!Claim(o) # None /\ o \in Globals
    BY <1>1, Plain DEF Carrier!InPlace, Carrier!TakingUp
  <1>3. f \in Carrier!Files /\ f.claim = file[o].claim /\ f.rem = None
    BY <1>2, Plain DEF Carrier!Files, Carrier!Converged
  <1> HIDE DEF f
  <1>4. OwnRecords(o) /\ file'[o] = f /\ Carrier!Claim(o)' = Carrier!Claim(o)
    BY <1>1, <1>2, <1>3, Filed, Plain
  <1>5. Bounded' /\ Carrier!PinAlone'
    BY <1>1, StillBounded, AloneStays, Plain
  <1>6. CASE Carrier!Return(o)
    BY <1>1, <1>2, <1>3, <1>4, <1>5, <1>6, ReturnedKept
  <1>7. CASE Carrier!Kind(o) = "create" /\ Carrier!Goto(o, "instRetire")
    <2>1. "instRetire" \in Carrier!Steps
      BY DEF Carrier!Steps
    <2>2. carrierRun'[o].pc = "instRetire" /\ carrierRun'[o].plan = carrierRun[o].plan
      BY <1>7, <2>1, Moved, Plain
    <2>3. Carrier!InPlace(o)'
      BY <1>2, <1>7, <2>2 DEF Carrier!InPlace, Carrier!Kind, Carrier!Pin
    <2>4. Carrier!GivingUp(o)'
      BY <1>7, <2>2 DEF Carrier!GivingUp, Carrier!Kind
    <2>5. Carrier!TakingUp(o)'
      BY <1>2, <1>3, <1>4, <1>7, <2>2 DEF Carrier!TakingUp, Carrier!Kind
    <2> QED BY <1>1, <1>2, <1>3, <1>4, <1>5, <1>7, <2>1, <2>3, <2>4, <2>5, MovedKept
  <1> QED BY <1>6, <1>7 DEF Carrier!Converge, Carrier!Kind

(* What the core commit leaves of the statefile and of the claim, for each kind of plan. *)
LEMMA CoreStateFields ==
  ASSUME Carrier!Inv, NEW o \in Owners, carrierRun[o].pc = "core"
  PROVE  /\ Carrier!CoreState(o) \in Carrier!Files
         /\ Carrier!CoreState(o).rem = file[o].rem
         /\ o \in Globals => Carrier!CoreState(o).claim = None
         /\ o \notin Globals =>
               \/ Carrier!Kind(o) = "retire" /\ Carrier!CoreState(o).claim = None
               \/ Carrier!Kind(o) = "promote"
                     /\ Carrier!CoreState(o).claim = Carrier!ClaimAfterInstall(o)
               \/ Carrier!Kind(o) = "adopt"
                     /\ Carrier!CoreState(o).claim = Carrier!Adopted(Carrier!Pin(o))
               \/ Carrier!Kind(o) \notin {"retire", "promote", "adopt"}
                     /\ Carrier!CoreState(o).claim = Carrier!Claim(o)
         /\ \/ Carrier!CoreState(o).inst = file[o].inst
            \/ o \in Globals /\ Carrier!Claim(o) # None
            \/ o \notin Globals /\ Carrier!Kind(o) = "promote"
  <1> DEFINE i == Carrier!Converged(o)
             f == [file[o] EXCEPT !.inst = i]
  <1>1. /\ i \in Pins \cup {None}
        /\ i = file[o].inst \/ (o \in Globals /\ Carrier!Claim(o) # None)
    BY Plain DEF Carrier!Converged, Carrier!Files, Carrier!Claim
  <1>2. file[o] \in Carrier!Files /\ (o \in Globals => file[o].claim = None)
    BY Plain
  <1>3. Carrier!Kind(o) \in {"promote", "adopt"} => Carrier!Pin(o) \in Pins
    BY Plain DEF Carrier!InPlace
  <1>4. Carrier!Kind(o) = "promote" => Carrier!ClaimAfterInstall(o) \in Carrier!Claims
    BY <1>3, AfterInstall
  <1>5. Carrier!Kind(o) = "adopt" => Carrier!Adopted(Carrier!Pin(o)) \in Carrier!Claims
    BY <1>3 DEF Carrier!Adopted, Carrier!Claims
  <1> HIDE DEF i
  <1>6. f \in Carrier!Files /\ f.rem = file[o].rem /\ f.claim = file[o].claim /\ f.inst = i
    BY <1>1, <1>2 DEF Carrier!Files
  <1>7. CASE o \in Globals
    <2>1. Carrier!CoreState(o) = f
      BY <1>7 DEF Carrier!CoreState, i
    <2> QED BY <1>1, <1>2, <1>6, <1>7, <2>1
  <1>8. CASE o \notin Globals /\ Carrier!Kind(o) = "retire"
    <2>1. Carrier!CoreState(o) = [f EXCEPT !.claim = None]
      BY <1>8 DEF Carrier!CoreState, Carrier!Kind, i
    <2> QED BY <1>1, <1>2, <1>6, <1>8, <2>1 DEF Carrier!Files
  <1>9. CASE o \notin Globals /\ Carrier!Kind(o) = "promote"
    <2>1. Carrier!CoreState(o) = [f EXCEPT !.inst = None, !.claim = Carrier!ClaimAfterInstall(o)]
      BY <1>9 DEF Carrier!CoreState, Carrier!Kind, i
    <2> QED BY <1>1, <1>2, <1>4, <1>6, <1>9, <2>1 DEF Carrier!Files
  <1>10. CASE o \notin Globals /\ Carrier!Kind(o) = "adopt"
    <2>1. Carrier!CoreState(o) = [f EXCEPT !.claim = Carrier!Adopted(Carrier!Pin(o))]
      BY <1>10 DEF Carrier!CoreState, Carrier!Kind, i
    <2> QED BY <1>1, <1>2, <1>5, <1>6, <1>10, <2>1 DEF Carrier!Files
  <1>11. CASE o \notin Globals /\ Carrier!Kind(o) \notin {"retire", "promote", "adopt"}
    <2>1. Carrier!CoreState(o) = f
      BY <1>11 DEF Carrier!CoreState, Carrier!Kind, i
    <2>2. f.claim = Carrier!Claim(o)
      BY <1>6, <1>11 DEF Carrier!Claim
    <2> QED BY <1>1, <1>6, <1>11, <2>1, <2>2
  <1> QED BY <1>7, <1>8, <1>9, <1>10, <1>11

LEMMA AfterCorePlaced ==
  ASSUME NEW o \in Owners
  PROVE  LET x == Carrier!AfterCore(o)
             k == Carrier!Kind(o)
         IN \/ x = ""
            \/ x = "remPending" /\ k = "remove"
            \/ x = "remVerify" /\ k = "verify"
            \/ x = "instPending" /\ k = "create"
            \/ x = "pinReserve" /\ k = "pin"
            \/ x = "regRetire" /\ k = "retire" /\ o \in Globals
            \/ x = "regAdopt" /\ k = "adopt" /\ o \in Globals
            \/ x = "regPromote" /\ k = "promote" /\ o \in Globals
  BY DEF Carrier!AfterCore, Carrier!Kind

LEMMA CoreKept ==
  ASSUME Carrier!Inv, NEW o \in Owners, Carrier!Core(o)
  PROVE  Carrier!Inv'
  <1> DEFINE f == Carrier!CoreState(o)
             x == Carrier!AfterCore(o)
             k == Carrier!Kind(o)
  <1>1. /\ Carrier!Running(o) /\ carrierRun[o].pc = "core"
        /\ UNCHANGED <<desired, host, by, registry, carrierUsed>>
        /\ file' = [file EXCEPT ![o] = f]
        /\ IF x = "" THEN Carrier!Return(o) ELSE Carrier!Goto(o, x)
    BY DEF Carrier!Core, Carrier!At, Carrier!Running, Carrier!Steps
  <1>2. /\ f \in Carrier!Files /\ f.rem = file[o].rem
        /\ o \in Globals => f.claim = None
    BY <1>1, CoreStateFields
  <1>3. /\ OwnRecords(o) /\ file'[o] = f /\ Carrier!Others(o)' = Carrier!Others(o)
        /\ Carrier!Claim(o)' = IF o \in Globals THEN Carrier!Claim(o) ELSE f.claim
    BY <1>1, <1>2, Filed, Plain
  <1>4. /\ k \in {"promote", "create", "pin", "adopt"} => Carrier!Pin(o) \in Pins
        /\ k \in {"retire", "promote", "create", "pin", "adopt"} => file[o].rem = None
        /\ k = "retire" => /\ by[Carrier!Site(o)] # o
                           /\ Carrier!Claim(o) # None /\ Carrier!Stable(Carrier!Claim(o))
        /\ k = "remove" => /\ Carrier!Claim(o) # None
                           /\ \A c \in Carrier!Others(o) : c.pin # Carrier!Claim(o).pin
        /\ k = "adopt" => Carrier!Claim(o) = None
        /\ k = "pin" => Carrier!Claim(o) # None /\ carrierRun[o].plan.claim \in Carrier!Claims
    BY <1>1, Plain DEF Carrier!InPlace, Carrier!GivingUp, Carrier!TakingUp
  <1>5. /\ k = "promote" => Carrier!ClaimAfterInstall(o) # None
        /\ k = "adopt" => Carrier!Adopted(Carrier!Pin(o)) # None
    BY <1>4, AfterInstall, Plain DEF Carrier!Adopted, Carrier!Claims
  <1>6. /\ f.rem # None => Carrier!Claim(o)' = f.rem
        /\ by[Carrier!Site(o)] = o => f.inst # None \/ Carrier!Claim(o)' # None
        /\ k \notin {"retire", "promote", "adopt"} => Carrier!Claim(o)' = Carrier!Claim(o)
        /\ o \in Globals => Carrier!Claim(o)' = Carrier!Claim(o)
    <2> HIDE DEF f
    <2> QED BY <1>1, <1>2, <1>3, <1>4, <1>5, CoreStateFields, Plain DEF f
  <1>7. Bounded' /\ Carrier!PinAlone'
    BY <1>1, StillBounded, AloneStays, Plain
  <1> HIDE DEF f
  <1>8. CASE x = ""
    BY <1>1, <1>3, <1>6, <1>7, <1>8, ReturnedKept
  <1>9. CASE x # ""
    <2>1. \/ x = "remPending" /\ k = "remove"
          \/ x = "remVerify" /\ k = "verify"
          \/ x = "instPending" /\ k = "create"
          \/ x = "pinReserve" /\ k = "pin"
          \/ x = "regRetire" /\ k = "retire" /\ o \in Globals
          \/ x = "regAdopt" /\ k = "adopt" /\ o \in Globals
          \/ x = "regPromote" /\ k = "promote" /\ o \in Globals
      BY <1>9, AfterCorePlaced
    <2> HIDE DEF x
    <2>2. x \in Carrier!Steps /\ Carrier!Goto(o, x)
      BY <1>1, <1>9, <2>1 DEF Carrier!Steps
    <2>3. carrierRun'[o].pc = x /\ carrierRun'[o].plan = carrierRun[o].plan
      BY <2>2, Moved, Plain
    <2>4. /\ Carrier!Kind(o)' = k /\ Carrier!Pin(o)' = Carrier!Pin(o)
          /\ Carrier!Running(o)'
      BY <2>2, <2>3 DEF Carrier!Kind, Carrier!Pin, Carrier!Running
    <2> HIDE DEF k
    <2>5. Carrier!InPlace(o)'
      BY <1>4, <2>1, <2>3, <2>4 DEF Carrier!InPlace
    <2>6. Carrier!GivingUp(o)'
      BY <1>1, <1>2, <1>3, <1>4, <1>6, <2>1, <2>3, <2>4 DEF Carrier!GivingUp
    <2>7. Carrier!TakingUp(o)'
      BY <1>1, <1>2, <1>3, <1>4, <1>6, <2>1, <2>3, <2>4 DEF Carrier!TakingUp
    <2> QED BY <1>1, <1>3, <1>6, <1>7, <2>2, <2>5, <2>6, <2>7, MovedKept
  <1> QED BY <1>8, <1>9

-----------------------------------------------------------------------------
(* Planning, and what people do. *)

(* What a view of the host must have shown for a run to have decided on a kind of plan. *)
LEMMA Decided ==
  ASSUME Carrier!Inv, NEW o \in Owners, NEW seen, NEW manage
  PROVE  LET k == Carrier!Decide(o, seen, manage)
         IN /\ k \in {"promote", "create", "pin", "adopt"} =>
                  desired[o] # None /\ file[o].rem = None
            /\ k = "adopt" => Carrier!Claim(o) = None
            /\ k = "pin" => Carrier!Claim(o) # None
            /\ k = "retire" =>
                  /\ file[o].rem = None /\ seen = None
                  /\ Carrier!Claim(o) # None /\ Carrier!Stable(Carrier!Claim(o))
            /\ k = "remove" =>
                  /\ Carrier!Claim(o) # None
                  /\ \A q \in Carrier!Others(o) : q.pin # Carrier!Claim(o).pin
  <1>1. LET k == Carrier!AbsenceDecision(o, seen)
        IN /\ k \notin {"promote", "create", "pin", "adopt"}
           /\ k = "retire" =>
                  /\ file[o].rem = None /\ seen = None
                  /\ Carrier!Claim(o) # None /\ Carrier!Stable(Carrier!Claim(o))
           /\ k = "remove" =>
                  /\ Carrier!Claim(o) # None
                  /\ \A q \in Carrier!Others(o) : q.pin # Carrier!Claim(o).pin
    BY DEF Carrier!AbsenceDecision
  <1>2. Carrier!PinDecision(o, seen) \in {"pin", "block"}
    BY DEF Carrier!PinDecision
  <1>3. LET k == Carrier!RelationDecision(o, seen, manage)
        IN /\ k \in {"block", "none", "create", "promote", "adopt"}
           /\ k = "adopt" => Carrier!Claim(o) = None
    BY DEF Carrier!RelationDecision
  <1> QED BY <1>1, <1>2, <1>3 DEF Carrier!Decide

LEMMA PlanTyped ==
  ASSUME Carrier!Inv, NEW o \in Owners, NEW seen, NEW manage \in BOOLEAN,
         seen = host[Carrier!Site(o)] \/ seen = Unknown,
         Carrier!Decide(o, seen, manage) \in Carrier!Kinds
  PROVE  /\ Carrier!PlanOf(o, seen, manage) \in Carrier!Plans
         /\ Carrier!PlanOf(o, seen, manage).kind = Carrier!Decide(o, seen, manage)
         /\ Carrier!PlanOf(o, seen, manage).declared = desired[o]
         /\ Carrier!PlanOf(o, seen, manage).claim = Carrier!Claim(o)
  <1>1. Carrier!Others(o) \subseteq Carrier!Claims
    BY Plain DEF Carrier!Others, Carrier!TypeOK
  <1>2. desired[o] \in Pins \cup {None} /\ seen \in Pins \cup {None, Unknown}
    BY Plain DEF Carrier!TypeOK
  <1>3. Carrier!Claim(o) \in Carrier!Claims \cup {None}
    BY Plain
  <1> QED BY <1>1, <1>2, <1>3 DEF Carrier!PlanOf, Carrier!Plans

LEMMA PlanKept ==
  ASSUME Carrier!Inv, NEW o \in Owners, NEW seen, NEW manage \in BOOLEAN,
         Carrier!Plan(o, seen, manage)
  PROVE  Carrier!Inv'
  <1> DEFINE p == Carrier!PlanOf(o, seen, manage)
  <1>1. /\ carrierRun[o].pc = "idle" /\ Carrier!Look(o, seen)
        /\ Carrier!Decide(o, seen, manage) \in Carrier!Kinds
        /\ carrierRun' = [carrierRun EXCEPT ![o] = [pc |-> "planned", plan |-> p]]
        /\ UNCHANGED <<desired, host, by, file, registry, carrierLease>>
    BY DEF Carrier!Plan, Carrier!At
  <1>2. Bounded' /\ Carrier!PinAlone' /\ (seen = host[Carrier!Site(o)] \/ seen = Unknown)
    BY <1>1, SeenThere, AloneStays, Plain
  <1>3. /\ p \in Carrier!Plans /\ p.kind = Carrier!Decide(o, seen, manage)
        /\ p.declared = desired[o] /\ p.claim = Carrier!Claim(o)
    BY <1>1, <1>2, PlanTyped
  <1>4. /\ p.kind \in {"promote", "create", "pin", "adopt"} => p.declared \in Pins
        /\ p.kind = "pin" => p.claim \in Carrier!Claims
    BY <1>3, Decided, Plain DEF Carrier!TypeOK
  <1> HIDE DEF p
  <1>5. /\ carrierRun' \in Progress /\ Alone(o)
        /\ carrierRun'[o].pc = "planned" /\ carrierRun'[o].plan = p
    BY <1>1, <1>3, Plain DEF Progress, Alone, Carrier!TypeOK
  <1>6. ~Carrier!Running(o) /\ ~Carrier!Running(o)'
    BY <1>1, <1>5 DEF Carrier!Running, Carrier!Steps
  <1>7. Typed
    BY <1>1, <1>2, <1>5, <1>6, Plain, QuietTyped
  <1>8. /\ OwnRecords(o) /\ file'[o] = file[o] /\ Carrier!Claim(o)' = Carrier!Claim(o)
    BY <1>1, Untouched, Plain
  <1>9. Apart(o)
    BY <1>1, <1>5, <1>8, MovedApart
  <1>10. Carrier!InPlace(o)'
    BY <1>4, <1>5 DEF Carrier!InPlace, Carrier!Kind, Carrier!Pin
  <1>11. Carrier!GivingUp(o)' /\ Carrier!TakingUp(o)'
    BY <1>5, <1>6 DEF Carrier!GivingUp, Carrier!TakingUp
  <1>12. Own(o)
    BY <1>1, <1>6, <1>8, <1>10, <1>11, Plain DEF Own
  <1> QED BY <1>2, <1>7, <1>9, <1>12, WholeKept

LEMMA StartedKept ==
  ASSUME Carrier!Inv, NEW o \in Owners, NEW seen, Carrier!Begin(o, seen)
  PROVE  Carrier!Inv'
  <1> DEFINE p == carrierRun[o].plan
  <1>1. /\ carrierRun[o].pc = "planned" /\ Carrier!Look(o, seen)
        /\ o \in Globals => carrierLease = None
        /\ UNCHANGED <<desired, host, by, file, registry>>
    BY DEF Carrier!Begin, Carrier!At
  <1>2. Bounded' /\ Carrier!PinAlone' /\ (seen = host[Carrier!Site(o)] \/ seen = Unknown)
    BY <1>1, SeenThere, AloneStays, Plain
  <1>3. /\ OwnRecords(o) /\ file'[o] = file[o] /\ Carrier!Claim(o)' = Carrier!Claim(o)
        /\ Carrier!Others(o)' = Carrier!Others(o)
    BY <1>1, Untouched, Plain
  <1>4. ~Carrier!Running(o) /\ carrierLease # o
    BY <1>1, Plain DEF Carrier!Running, Carrier!Steps
  <1>5. CASE carrierRun' = [carrierRun EXCEPT ![o] = Carrier!Idle] /\ UNCHANGED carrierLease
    <2>1. Carrier!Return(o)
      BY <1>4, <1>5 DEF Carrier!Return
    <2> QED BY <1>1, <1>2, <1>3, <2>1, Plain, ReturnedKept
  <1>6. CASE /\ Carrier!PlanOf(o, seen, p.manage) = p
             /\ carrierRun' = [carrierRun EXCEPT ![o].pc = "core"]
             /\ carrierLease' = IF o \in Globals THEN o ELSE carrierLease
    <2>1. /\ carrierRun' \in Progress /\ Alone(o)
          /\ carrierRun'[o].pc = "core" /\ carrierRun'[o].plan = p
      BY <1>6, Plain DEF Progress, Alone, Carrier!TypeOK, Carrier!Steps
    <2>2. /\ p.kind = Carrier!Decide(o, seen, p.manage)
          /\ p.declared = desired[o] /\ p.claim = Carrier!Claim(o)
      BY <1>6 DEF Carrier!PlanOf
    <2>3. /\ Carrier!Kind(o)' = p.kind /\ Carrier!Pin(o)' = p.declared /\ Carrier!Running(o)'
      BY <2>1 DEF Carrier!Kind, Carrier!Pin, Carrier!Running, Carrier!Steps
    <2>4. /\ p.kind \in {"promote", "create", "pin", "adopt"} =>
                p.declared \in Pins /\ file[o].rem = None
          /\ p.kind = "adopt" => Carrier!Claim(o) = None
          /\ p.kind = "pin" => Carrier!Claim(o) # None /\ p.claim \in Carrier!Claims
          /\ p.kind = "retire" =>
                /\ file[o].rem = None /\ seen = None
                /\ Carrier!Claim(o) # None /\ Carrier!Stable(Carrier!Claim(o))
          /\ p.kind = "remove" =>
                /\ Carrier!Claim(o) # None
                /\ \A q \in Carrier!Others(o) : q.pin # Carrier!Claim(o).pin
      BY <2>2, Decided, Plain DEF Carrier!TypeOK
    <2>5. p.kind = "retire" => by[Carrier!Site(o)] # o
      BY <1>2, <2>4, Plain
    <2> HIDE DEF p
    <2>6. Carrier!InPlace(o)'
      BY <2>1, <2>3, <2>4 DEF Carrier!InPlace
    <2>7. Carrier!GivingUp(o)'
      BY <1>1, <1>3, <2>1, <2>3, <2>4, <2>5 DEF Carrier!GivingUp
    <2>8. Carrier!TakingUp(o)'
      BY <1>3, <2>1, <2>3, <2>4 DEF Carrier!TakingUp
    <2>9. Typed
      BY <1>1, <1>2, <1>4, <1>6, <2>1, Plain, QuietTyped
    <2>10. Apart(o)
      BY <1>1, <1>3, <1>6, <2>1, Plain DEF Apart
    <2>11. Own(o)
      BY <1>1, <1>3, <1>6, <2>3, <2>6, <2>7, <2>8, Plain DEF Own
    <2> QED BY <1>2, <2>9, <2>10, <2>11, WholeKept
  <1> QED BY <1>5, <1>6 DEF Carrier!Begin

LEMMA DeclareKept ==
  ASSUME Carrier!Inv, NEW o \in Owners, NEW p \in Pins \cup {None}, Carrier!Declare(o, p)
  PROVE  Carrier!Inv'
  <1>1. /\ UNCHANGED <<host, by, file, registry, carrierLease, carrierRun>>
        /\ desired' = [desired EXCEPT ![o] = p] /\ Carrier!Use("declares")
    BY DEF Carrier!Declare
  <1>2. Bounded'
    BY <1>1, WithinBounds, Plain DEF Carrier!BoundNames
  <1>3. Carrier!TypeOK'
    BY <1>1, <1>2, Plain DEF Carrier!TypeOK, Bounded
  <1>4. \A q \in Owners : /\ Carrier!Claim(q)' = Carrier!Claim(q)
                          /\ Carrier!Others(q)' = Carrier!Others(q)
    BY <1>1 DEF Carrier!Claim, Carrier!Others
  <1>5. \A q \in Owners : Undisturbed(q)
    BY <1>1, <1>4 DEF Undisturbed
  <1>6. \A q \in Owners : Carrier!InPlace(q)' /\ Carrier!GivingUp(q)' /\ Carrier!TakingUp(q)'
    BY <1>5, UndisturbedKept DEF Carrier!Inv
  <1>7. Carrier!RemovalBacked' /\ Carrier!Recorded' /\ Carrier!PinAlone'
    BY <1>1, <1>4, AloneStays
       DEF Carrier!Inv, Carrier!RemovalBacked, Carrier!Recorded
  <1>8. Carrier!LeaseHeld' /\ Carrier!NobodysGap'
    BY <1>1 DEF Carrier!Inv, Carrier!LeaseHeld, Carrier!NobodysGap, Carrier!Running
  <1> QED BY <1>3, <1>6, <1>7, <1>8 DEF Carrier!Inv

LEMMA EditKept ==
  ASSUME Carrier!Inv, NEW s \in Carrier!Sites, NEW p \in Pins \cup {None}, Carrier!Edit(s, p)
  PROVE  Carrier!Inv'
  <1> DEFINE w == IF p = None THEN "nobody" ELSE "user"
  <1>1. /\ UNCHANGED <<desired, file, registry, carrierLease, carrierRun>>
        /\ host' = [host EXCEPT ![s] = p] /\ by' = [by EXCEPT ![s] = w]
        /\ Carrier!Use("edits")
    BY DEF Carrier!Edit
  <1>2. Bounded' /\ Carrier!TypeOK
    BY <1>1, WithinBounds DEF Carrier!BoundNames, Carrier!Inv
  <1>3. Carrier!TypeOK'
    BY <1>1, <1>2 DEF Carrier!TypeOK, Bounded
  <1>4. "user" \notin Owners /\ "nobody" \notin Owners
    BY CarrierLifeAssumption DEF Carrier!CarrierAssumption
  <1>5. \A x \in Carrier!Sites : \/ host'[x] = host[x] /\ by'[x] = by[x]
                                 \/ by'[x] \notin Owners /\ (host'[x] = None => by'[x] = "nobody")
    BY <1>1, <1>2, <1>4 DEF Carrier!TypeOK
  <1>6. \A q \in Owners : /\ Carrier!Claim(q)' = Carrier!Claim(q)
                          /\ Carrier!Others(q)' = Carrier!Others(q)
                          /\ Carrier!Site(q) \in Carrier!Sites
    BY <1>1, SitesApart DEF Carrier!Claim, Carrier!Others
  <1>7. ASSUME NEW q \in Owners
        PROVE  Carrier!InPlace(q)' /\ Carrier!GivingUp(q)' /\ Carrier!TakingUp(q)'
    <2>1. Carrier!InPlace(q) /\ Carrier!GivingUp(q) /\ Carrier!TakingUp(q)
      BY DEF Carrier!Inv
    <2>2. /\ Carrier!Kind(q)' = Carrier!Kind(q) /\ Carrier!Pin(q)' = Carrier!Pin(q)
          /\ Carrier!Running(q)' = Carrier!Running(q)
          /\ carrierRun'[q] = carrierRun[q] /\ file'[q] = file[q]
      BY <1>1 DEF Carrier!Kind, Carrier!Pin, Carrier!Running
    <2>3. \/ host'[Carrier!Site(q)] = host[Carrier!Site(q)] /\ by'[Carrier!Site(q)] = by[Carrier!Site(q)]
          \/ by'[Carrier!Site(q)] \notin Owners
      BY <1>5, <1>6
    <2>4. Carrier!InPlace(q)'
      BY <2>1, <2>2 DEF Carrier!InPlace
    <2>5. Carrier!GivingUp(q)'
      BY <1>6, <2>1, <2>2, <2>3 DEF Carrier!GivingUp, Carrier!Stable
    <2>6. Carrier!TakingUp(q)'
      BY <1>6, <2>1, <2>2, <2>3 DEF Carrier!TakingUp
    <2> QED BY <2>4, <2>5, <2>6
  <1>8. Carrier!RemovalBacked' /\ Carrier!PinAlone'
    BY <1>1, <1>6, AloneStays DEF Carrier!Inv, Carrier!RemovalBacked
  <1>9. Carrier!Recorded'
    <2> SUFFICES ASSUME NEW q \in Owners, by'[Carrier!Site(q)] = q
                 PROVE  file'[q].inst # None \/ Carrier!Claim(q)' # None
      BY DEF Carrier!Recorded
    <2>1. by[Carrier!Site(q)] = q
      BY <1>5, <1>6
    <2> QED BY <1>1, <1>6, <2>1 DEF Carrier!Inv, Carrier!Recorded
  <1>10. Carrier!NobodysGap'
    BY <1>5 DEF Carrier!Inv, Carrier!NobodysGap
  <1>11. Carrier!LeaseHeld'
    BY <1>1 DEF Carrier!Inv, Carrier!LeaseHeld, Carrier!Running
  <1> QED BY <1>3, <1>7, <1>8, <1>9, <1>10, <1>11 DEF Carrier!Inv

LEMMA UnmanageKept ==
  ASSUME Carrier!Inv, NEW o \in Owners, Carrier!Unmanage(o)
  PROVE  Carrier!Inv'
  <1> DEFINE s == Carrier!Site(o)
             f == [inst |-> None, rem |-> None, claim |-> None]
  <1>1. /\ UNCHANGED <<host, carrierLease, carrierRun>> /\ carrierRun[o].pc = "idle"
        /\ o \in Globals => carrierLease = None
        /\ desired' = [desired EXCEPT ![o] = None] /\ file' = [file EXCEPT ![o] = f]
        /\ registry' = IF o \in Globals THEN [registry EXCEPT ![o] = None] ELSE registry
        /\ by' = IF by[s] = o THEN [by EXCEPT ![s] = "user"] ELSE by
        /\ Carrier!Use("unmanages")
    BY DEF Carrier!Unmanage, Carrier!At
  <1>2. Bounded' /\ Carrier!TypeOK
    BY <1>1, WithinBounds, Plain DEF Carrier!BoundNames
  <1>3. /\ by' \in [Carrier!Sites -> Owners \cup {"user", "nobody"}]
        /\ by'[s] # o /\ (host'[s] = None => by'[s] = "nobody")
        /\ by'[s] \in {by[s], "user"}
        /\ \A x \in Carrier!Sites \ {s} : host'[x] = host[x] /\ by'[x] = by[x]
    BY <1>1, <1>2, Plain DEF Carrier!TypeOK
  <1>4. f \in Carrier!Files
    BY DEF Carrier!Files
  <1>5. /\ file' \in [Owners -> Carrier!Files] /\ file'[o] = f
        /\ \A q \in Owners \ {o} : file'[q] = file[q]
    BY <1>1, <1>2, <1>4 DEF Carrier!TypeOK
  <1>6. /\ registry' \in [Globals -> Carrier!Claims \cup {None}]
        /\ \A q \in Globals \ {o} : registry'[q] = registry[q]
        /\ o \in Globals => registry'[o] = None
    BY <1>1, <1>2 DEF Carrier!TypeOK
  <1>7. Carrier!Claim(o)' = None
    BY <1>5, <1>6 DEF Carrier!Claim
  <1>8. OwnRecords(o)
    <2>1. \A q \in Globals : file'[q].claim = None
      BY <1>2, <1>5, Plain DEF Carrier!TypeOK
    <2>2. \A q \in Owners \ {o} : Carrier!Claim(q)' = Carrier!Claim(q)
      BY <1>5, <1>6 DEF Carrier!Claim
    <2>3. Carrier!Others(o)' = Carrier!Others(o)
      BY <1>6 DEF Carrier!Others
    <2> QED BY <1>5, <1>6, <2>1, <2>2, <2>3 DEF OwnRecords
  <1>9. carrierRun' \in Progress /\ Alone(o)
    BY <1>1, <1>2 DEF Progress, Alone, Carrier!TypeOK
  <1>10. Typed
    BY <1>1, <1>2, <1>3, <1>9, Plain DEF Typed, Carrier!TypeOK
  <1>11. Apart(o)
    BY <1>1, <1>3, <1>8, <1>9 DEF Apart
  <1>12. ~Carrier!Running(o) /\ ~Carrier!Running(o)' /\ carrierRun'[o].pc = "idle"
    BY <1>1 DEF Carrier!Running, Carrier!Steps
  <1>13. /\ Carrier!InPlace(o)' /\ Carrier!GivingUp(o)' /\ Carrier!TakingUp(o)'
    <2>1. Carrier!InPlace(o)'
      BY <1>1, Plain DEF Carrier!InPlace, Carrier!Kind, Carrier!Pin
    <2>2. Carrier!GivingUp(o)' /\ Carrier!TakingUp(o)'
      BY <1>12 DEF Carrier!GivingUp, Carrier!TakingUp
    <2> QED BY <2>1, <2>2
  <1>14. o \in Globals => (carrierLease' = o <=> Carrier!Running(o)')
    BY <1>1, <1>12, Plain
  <1>15. Own(o)
    BY <1>3, <1>5, <1>13, <1>14 DEF Own
  <1>16. Carrier!PinAlone'
    <2> SUFFICES ASSUME NEW q \in Globals, registry'[q] # None, registry'[q].pend # None
                 PROVE  {registry'[p] : p \in Globals \ {q}} \ {None} = {}
      BY DEF Carrier!PinAlone, Carrier!Others
    <2>1. CASE o \in Globals
      <3>1. q # o /\ registry[q] # None /\ registry[q].pend # None
        BY <1>6, <2>1
      <3>2. Carrier!Others(q) = {}
        BY <3>1 DEF Carrier!Inv, Carrier!PinAlone
      <3> QED BY <1>6, <2>1, <3>1, <3>2 DEF Carrier!Others
    <2>2. CASE o \notin Globals
      BY <1>1, <2>2 DEF Carrier!Inv, Carrier!PinAlone, Carrier!Others
    <2> QED BY <2>1, <2>2
  <1> QED BY <1>10, <1>11, <1>15, <1>16, WholeKept

-----------------------------------------------------------------------------
(* The inductive invariant. *)

LEMMA StepKept ==
  ASSUME Carrier!Inv, NEW o \in Owners, Carrier!Step(o)
  PROVE  Carrier!Inv'
  <1>1. CASE Carrier!Core(o)
    BY <1>1, CoreKept
  <1>2. CASE Carrier!RegRetire(o) \/ Carrier!RemRetire(o)
    BY <1>2, GivenUpKept
  <1>3. CASE Carrier!RemPending(o) \/ Carrier!RemHost(o) \/ Carrier!RemClear(o)
    BY <1>3, RemPendingKept, RemHostKept, RemClearKept
  <1>4. CASE Carrier!InstPending(o) \/ Carrier!InstHost(o) \/ Carrier!InstRetire(o)
    BY <1>4, InstPendingKept, InstHostKept, InstRetireKept
  <1>5. CASE Carrier!FilePromote(o) \/ Carrier!RegPromote(o) \/ Carrier!Converge(o)
    BY <1>5, FilePromoteKept, RegPromoteKept, ConvergeKept
  <1>6. CASE Carrier!PinReserve(o) \/ Carrier!PinHost(o) \/ Carrier!PinComplete(o)
    BY <1>6, PinReserveKept, PinHostKept, PinCompleteKept
  <1>7. CASE Carrier!RegAdopt(o) \/ Carrier!Refuse(o)
    BY <1>7, AdoptKept, CutShortKept
  <1>8. CASE \E seen \in Carrier!Views(o) :
               Carrier!RemSee(o, seen) \/ Carrier!RemVerify(o, seen) \/ Carrier!PinSee(o, seen)
    BY <1>8, LookKept
  <1>9. CASE \E seen \in Carrier!Views(o) : Carrier!InstSee(o, seen)
    BY <1>9, InstSeeKept
  <1> QED BY <1>1, <1>2, <1>3, <1>4, <1>5, <1>6, <1>7, <1>8, <1>9 DEF Carrier!Step

LEMMA CarrierNextKept ==
  ASSUME Carrier!Inv, [Carrier!Next]_carrierVars
  PROVE  Carrier!Inv'
  <1>1. CASE UNCHANGED carrierVars
    <2>1. \A q \in Owners : /\ Carrier!Claim(q)' = Carrier!Claim(q)
                            /\ Carrier!Others(q)' = Carrier!Others(q)
      BY <1>1 DEF Carrier!Claim, Carrier!Others, carrierVars
    <2>2. \A q \in Owners : Undisturbed(q)
      BY <1>1, <2>1 DEF Undisturbed, carrierVars
    <2>3. \A q \in Owners : Carrier!InPlace(q)' /\ Carrier!GivingUp(q)' /\ Carrier!TakingUp(q)'
      BY <2>2, UndisturbedKept DEF Carrier!Inv
    <2> QED BY <1>1, <2>1, <2>3, AloneStays
            DEF carrierVars, Carrier!Inv, Carrier!TypeOK, Carrier!RemovalBacked, Carrier!Recorded,
                Carrier!LeaseHeld, Carrier!NobodysGap, Carrier!Running
  <1>2. CASE Carrier!Next
    <2>1. ASSUME NEW o \in Owners,
                 \/ \E seen \in Carrier!Views(o), manage \in BOOLEAN : Carrier!Plan(o, seen, manage)
                 \/ \E seen \in Carrier!Views(o) : Carrier!Begin(o, seen)
          PROVE  Carrier!Inv'
      BY <2>1, PlanKept, StartedKept
    <2>2. ASSUME NEW o \in Owners, Carrier!Step(o) \/ Carrier!Stop(o) \/ Carrier!Unmanage(o)
          PROVE  Carrier!Inv'
      BY <2>2, StepKept, CutShortKept, UnmanageKept
    <2>3. ASSUME NEW o \in Owners, \E p \in Pins \cup {None} : Carrier!Declare(o, p)
          PROVE  Carrier!Inv'
      BY <2>3, DeclareKept
    <2> QED BY <1>2, <2>1, <2>2, <2>3, EditKept DEF Carrier!Next
  <1> QED BY <1>1, <1>2

(* At every step of every run the lease is held, the host shows what the records say of it, and
   what the rest of the run relies on still holds. *)
THEOREM CarrierInvariant == Carrier!Spec => []Carrier!Inv
  <1>1. Carrier!Inv /\ [Carrier!Next]_(Carrier!vars) => Carrier!Inv'
    BY CarrierNextKept DEF Carrier!vars, carrierVars
  <1> QED BY <1>1, CarrierInit, PTL DEF Carrier!Spec

(* What daem installed, is about to remove or is about to change the pin of is on record,
   wherever a run stopped (carrier_absence.go, carrierclaim). *)
THEOREM CarrierRecorded == Carrier!Spec => []RelationsRecorded
  <1>1. Carrier!Inv => RelationsRecorded
    BY DEF Carrier!Inv, RelationsRecorded
  <1> QED BY <1>1, CarrierInvariant, PTL

-----------------------------------------------------------------------------
(* What a step takes away. *)

LEMMA HostMoves ==
  ASSUME [Carrier!Next]_carrierVars
  PROVE  \/ host' = host
         \/ carrierRun' = carrierRun
         \/ \E q \in Owners : Carrier!RemHost(q) \/ Carrier!InstHost(q) \/ Carrier!PinHost(q)
  <1>1. ASSUME NEW q \in Owners, Carrier!Step(q)
        PROVE  host' = host \/ Carrier!RemHost(q) \/ Carrier!InstHost(q) \/ Carrier!PinHost(q)
    <2>1. CASE Carrier!Core(q) \/ Carrier!RegRetire(q) \/ Carrier!RemPending(q)
                 \/ Carrier!RemClear(q) \/ Carrier!RemRetire(q)
      BY <2>1 DEF Carrier!Core, Carrier!RegRetire, Carrier!RemPending, Carrier!RemClear,
                  Carrier!RemRetire
    <2>2. CASE Carrier!InstPending(q) \/ Carrier!FilePromote(q) \/ Carrier!RegPromote(q)
                 \/ Carrier!Converge(q) \/ Carrier!InstRetire(q)
      BY <2>2 DEF Carrier!InstPending, Carrier!FilePromote, Carrier!RegPromote,
                  Carrier!Converge, Carrier!InstRetire
    <2>3. CASE Carrier!PinReserve(q) \/ Carrier!PinComplete(q) \/ Carrier!RegAdopt(q)
                 \/ Carrier!Refuse(q)
      BY <2>3 DEF Carrier!PinReserve, Carrier!PinComplete, Carrier!RegAdopt, Carrier!Refuse
    <2>4. CASE \E seen \in Carrier!Views(q) :
                 Carrier!RemSee(q, seen) \/ Carrier!RemVerify(q, seen)
                   \/ Carrier!InstSee(q, seen) \/ Carrier!PinSee(q, seen)
      BY <2>4 DEF Carrier!RemSee, Carrier!RemVerify, Carrier!InstSee, Carrier!PinSee
    <2> QED BY <1>1, <2>1, <2>2, <2>3, <2>4 DEF Carrier!Step
  <1>2. ASSUME NEW q \in Owners,
               \/ \E seen \in Carrier!Views(q), manage \in BOOLEAN : Carrier!Plan(q, seen, manage)
               \/ \E seen \in Carrier!Views(q) : Carrier!Begin(q, seen)
               \/ Carrier!Stop(q) \/ Carrier!Unmanage(q)
               \/ \E p \in Pins \cup {None} : Carrier!Declare(q, p)
        PROVE  host' = host
    BY <1>2 DEF Carrier!Plan, Carrier!Begin, Carrier!Stop, Carrier!Unmanage, Carrier!Declare
  <1>3. ASSUME NEW s \in Carrier!Sites, NEW p \in Pins \cup {None}, Carrier!Edit(s, p)
        PROVE  carrierRun' = carrierRun
    BY <1>3 DEF Carrier!Edit
  <1> QED BY <1>1, <1>2, <1>3 DEF Carrier!Next, carrierVars

(* The removal was backed by a claim at the pin that is there, and nobody else's was; a pin is
   only moved for somebody who has the relation to himself. *)
LEMMA SharedStep ==
  ASSUME Carrier!Inv, [Carrier!Next]_carrierVars, NEW o \in Owners,
         carrierRun[o].pc \in {"remHost", "pinHost"}, carrierRun'[o].pc # carrierRun[o].pc,
         host'[Carrier!Site(o)] # host[Carrier!Site(o)],
         NEW c \in Carrier!Others(o)
  PROVE  c.pin # host[Carrier!Site(o)]
  <1>1. PICK q \in Owners : Carrier!RemHost(q) \/ Carrier!InstHost(q) \/ Carrier!PinHost(q)
    BY HostMoves
  <1>2. carrierRun' = [carrierRun EXCEPT ![q].pc = carrierRun'[q].pc]
    BY <1>1 DEF Carrier!RemHost, Carrier!InstHost, Carrier!PinHost, Carrier!Goto, Carrier!Inv,
                Carrier!TypeOK
  <1>3. q = o
    BY <1>2 DEF Carrier!Inv, Carrier!TypeOK
  <1>4. CASE Carrier!RemHost(o)
    <2>1. host[Carrier!Site(o)] = file[o].rem.pin /\ carrierRun[o].pc = "remHost"
      BY <1>4 DEF Carrier!RemHost, Carrier!At
    <2>2. /\ file[o].rem # None /\ Carrier!Claim(o) = file[o].rem
          /\ \A x \in Carrier!Others(o) : x.pin # Carrier!Claim(o).pin
      BY <2>1, Plain DEF Carrier!GivingUp
    <2> QED BY <2>1, <2>2
  <1>5. CASE Carrier!PinHost(o)
    BY <1>5, Plain DEF Carrier!PinHost, Carrier!At, Carrier!TakingUp
  <1>6. CASE Carrier!InstHost(o)
    BY <1>6 DEF Carrier!InstHost, Carrier!At
  <1> QED BY <1>1, <1>3, <1>4, <1>5, <1>6

(* The reserved pin is there, unless its user has changed it since. *)
Completed(o) ==
  /\ Carrier!Claim(o)' = [pin |-> Carrier!Claim(o).pend, pend |-> None, prov |-> "pin"]
  /\ host[Carrier!Site(o)] = Carrier!Claim(o).pend \/ by[Carrier!Site(o)] \notin Owners

Reserved(o) == Carrier!Claim(o) # None /\ Carrier!Claim(o).pend # None

LEMMA ClaimSet ==
  ASSUME Carrier!Inv, NEW q \in Owners, Reserved(q),
         \/ Carrier!RegRetire(q) \/ Carrier!RemRetire(q) \/ Carrier!RegAdopt(q)
         \/ Carrier!RegPromote(q) \/ Carrier!PinReserve(q) \/ Carrier!PinComplete(q)
  PROVE  Carrier!Claim(q)' = Carrier!Claim(q) \/ Completed(q)
  <1>1. CASE Carrier!RegRetire(q) \/ Carrier!RemRetire(q)
    BY <1>1 DEF Carrier!RegRetire, Carrier!RemRetire, Carrier!Stable, Reserved
  <1>2. CASE Carrier!RegAdopt(q)
    BY <1>2, Plain DEF Carrier!RegAdopt, Carrier!At, Carrier!InPlace, Carrier!TakingUp,
                       Carrier!Running, Carrier!Steps, Reserved
  <1>3. CASE Carrier!RegPromote(q)
    <2>1. Carrier!Pin(q) \in Pins
      BY <1>3, Plain DEF Carrier!RegPromote, Carrier!At, Carrier!InPlace
    <2>2. Carrier!SetClaim(q, Carrier!Claim(q))
      BY <1>3, <2>1, AfterInstall DEF Carrier!RegPromote, Reserved
    <2> QED BY <2>2, Claimed, Plain
  <1>4. CASE Carrier!PinReserve(q)
    <2>1. Carrier!Pin(q) \in Pins /\ Carrier!Claim(q) \in Carrier!Claims
      BY <1>4, Plain DEF Carrier!PinReserve, Carrier!At, Carrier!InPlace, Reserved
    <2>2. [Carrier!Claim(q) EXCEPT !.pend = Carrier!Pin(q)] = Carrier!Claim(q)
      BY <1>4, <2>1 DEF Carrier!PinReserve, Reserved, Carrier!Claims
    <2>3. Carrier!SetClaim(q, Carrier!Claim(q))
      BY <1>4, <2>2 DEF Carrier!PinReserve
    <2> QED BY <2>3, Claimed, Plain
  <1>5. CASE Carrier!PinComplete(q)
    <2> DEFINE c == [pin |-> Carrier!Pin(q), pend |-> None, prov |-> "pin"]
    <2>1. /\ Carrier!SetClaim(q, c)
          /\ Carrier!Claim(q) = [carrierRun[q].plan.claim EXCEPT !.pend = Carrier!Pin(q)]
          /\ carrierRun[q].pc = "pinComplete"
      BY <1>5 DEF Carrier!PinComplete, Carrier!At
    <2>2. /\ Carrier!Pin(q) \in Pins /\ carrierRun[q].plan.claim \in Carrier!Claims
          /\ host[Carrier!Site(q)] = Carrier!Pin(q) \/ by[Carrier!Site(q)] \notin Owners
      BY <2>1, Plain DEF Carrier!InPlace, Carrier!TakingUp
    <2>3. Carrier!Claim(q).pend = Carrier!Pin(q)
      BY <2>1, <2>2 DEF Carrier!Claims
    <2>4. c \in Carrier!Claims
      BY <2>2 DEF Carrier!Claims
    <2>5. Carrier!Claim(q)' = c
      BY <2>1, <2>4, Claimed, Plain
    <2> QED BY <2>2, <2>3, <2>5 DEF Completed
  <1> QED BY <1>1, <1>2, <1>3, <1>4, <1>5

LEMMA ClaimFiled ==
  ASSUME Carrier!Inv, NEW q \in Owners, Reserved(q),
         \/ Carrier!Core(q) \/ Carrier!RemClear(q) \/ Carrier!FilePromote(q)
         \/ Carrier!RemPending(q) \/ Carrier!InstPending(q) \/ Carrier!Converge(q)
         \/ Carrier!InstRetire(q) \/ Carrier!Unmanage(q)
  PROVE  Carrier!Claim(q)' = Carrier!Claim(q)
  <1>1. CASE Carrier!Core(q)
    <2>1. /\ file' = [file EXCEPT ![q] = Carrier!CoreState(q)] /\ registry' = registry
          /\ carrierRun[q].pc = "core"
      BY <1>1 DEF Carrier!Core, Carrier!At
    <2>2. q \in Globals => Carrier!Claim(q)' = Carrier!Claim(q)
      BY <2>1 DEF Carrier!Claim
    <2>3. q \notin Globals => Carrier!Claim(q)' = Carrier!CoreState(q).claim
      BY <2>1 DEF Carrier!Claim, Carrier!Inv, Carrier!TypeOK
    <2>4. /\ Carrier!Kind(q) \notin {"retire", "adopt"}
          /\ Carrier!Kind(q) = "promote" => Carrier!Pin(q) \in Pins
      BY <2>1, Plain DEF Carrier!InPlace, Carrier!GivingUp, Carrier!TakingUp, Carrier!Running,
                         Carrier!Steps, Reserved, Carrier!Stable
    <2>5. Carrier!Kind(q) = "promote" => Carrier!ClaimAfterInstall(q) = Carrier!Claim(q)
      BY <2>4, AfterInstall DEF Reserved
    <2> QED BY <2>1, <2>2, <2>3, <2>4, <2>5, CoreStateFields
  <1>2. CASE Carrier!RemClear(q) \/ Carrier!Unmanage(q)
    BY <1>2 DEF Carrier!RemClear, Carrier!Unmanage, Carrier!Stable, Reserved, Carrier!Claim,
                Carrier!Inv, Carrier!TypeOK
  <1>3. CASE Carrier!FilePromote(q)
    <2>1. Carrier!Pin(q) \in Pins /\ q \notin Globals
      BY <1>3, Plain DEF Carrier!FilePromote, Carrier!At, Carrier!InPlace
    <2>2. Carrier!ClaimAfterInstall(q) = Carrier!Claim(q)
      BY <2>1, AfterInstall DEF Reserved
    <2> QED BY <1>3, <2>1, <2>2 DEF Carrier!FilePromote, Carrier!Claim, Carrier!Inv,
                                    Carrier!TypeOK, Carrier!Files
  <1>4. CASE Carrier!RemPending(q)
    BY <1>4 DEF Carrier!RemPending, Carrier!Claim, Carrier!Inv, Carrier!TypeOK, Carrier!Files
  <1>5. CASE Carrier!InstPending(q)
    BY <1>5 DEF Carrier!InstPending, Carrier!Claim, Carrier!Inv, Carrier!TypeOK, Carrier!Files
  <1>6. CASE Carrier!Converge(q)
    BY <1>6 DEF Carrier!Converge, Carrier!Claim, Carrier!Inv, Carrier!TypeOK, Carrier!Files
  <1>7. CASE Carrier!InstRetire(q)
    BY <1>7 DEF Carrier!InstRetire, Carrier!Claim, Carrier!Inv, Carrier!TypeOK, Carrier!Files
  <1> QED BY <1>1, <1>2, <1>3, <1>4, <1>5, <1>6, <1>7

(* Who writes claims, and that everybody writes only his own. *)
Writes(q) ==
  \/ Carrier!RegRetire(q) \/ Carrier!RemRetire(q) \/ Carrier!RegAdopt(q)
  \/ Carrier!RegPromote(q) \/ Carrier!PinReserve(q) \/ Carrier!PinComplete(q)

Files(q) ==
  \/ Carrier!Core(q) \/ Carrier!RemClear(q) \/ Carrier!FilePromote(q)
  \/ Carrier!RemPending(q) \/ Carrier!InstPending(q) \/ Carrier!Converge(q)
  \/ Carrier!InstRetire(q) \/ Carrier!Unmanage(q)

LEMMA RecordMoves ==
  ASSUME [Carrier!Next]_carrierVars
  PROVE  \/ file' = file /\ registry' = registry
         \/ \E q \in Owners : Writes(q) \/ Files(q)
  <1>1. ASSUME NEW q \in Owners, Carrier!Step(q), ~Writes(q), ~Files(q)
        PROVE  file' = file /\ registry' = registry
    <2>1. \/ Carrier!RemHost(q) \/ Carrier!InstHost(q) \/ Carrier!PinHost(q) \/ Carrier!Refuse(q)
          \/ \E seen \in Carrier!Views(q) :
                Carrier!RemSee(q, seen) \/ Carrier!RemVerify(q, seen)
                  \/ Carrier!InstSee(q, seen) \/ Carrier!PinSee(q, seen)
      BY <1>1 DEF Carrier!Step, Writes, Files
    <2>2. CASE Carrier!RemHost(q) \/ Carrier!InstHost(q) \/ Carrier!PinHost(q) \/ Carrier!Refuse(q)
      BY <2>2 DEF Carrier!RemHost, Carrier!InstHost, Carrier!PinHost, Carrier!Refuse
    <2>3. CASE \E seen \in Carrier!Views(q) :
                 Carrier!RemSee(q, seen) \/ Carrier!RemVerify(q, seen)
                   \/ Carrier!InstSee(q, seen) \/ Carrier!PinSee(q, seen)
      BY <2>3 DEF Carrier!RemSee, Carrier!RemVerify, Carrier!InstSee, Carrier!PinSee
    <2> QED BY <2>1, <2>2, <2>3
  <1>2. ASSUME NEW q \in Owners,
               \/ \E seen \in Carrier!Views(q), manage \in BOOLEAN : Carrier!Plan(q, seen, manage)
               \/ \E seen \in Carrier!Views(q) : Carrier!Begin(q, seen)
               \/ Carrier!Stop(q)
               \/ \E p \in Pins \cup {None} : Carrier!Declare(q, p)
        PROVE  file' = file /\ registry' = registry
    BY <1>2 DEF Carrier!Plan, Carrier!Begin, Carrier!Stop, Carrier!Declare
  <1>3. ASSUME NEW s \in Carrier!Sites, NEW p \in Pins \cup {None}, Carrier!Edit(s, p)
        PROVE  file' = file /\ registry' = registry
    BY <1>3 DEF Carrier!Edit
  <1> QED BY <1>1, <1>2, <1>3 DEF Carrier!Next, carrierVars, Files

LEMMA OwnClaimOnly ==
  ASSUME Carrier!Inv, NEW q \in Owners, Writes(q) \/ Files(q), NEW o \in Owners \ {q}
  PROVE  Carrier!Claim(o)' = Carrier!Claim(o)
  <1>1. CASE Writes(q)
    <2>1. PICK c : Carrier!SetClaim(q, c)
      BY <1>1 DEF Writes, Carrier!RegRetire, Carrier!RemRetire, Carrier!RegAdopt,
                  Carrier!RegPromote, Carrier!PinReserve, Carrier!PinComplete
    <2> QED BY <2>1 DEF Carrier!SetClaim, Carrier!Claim, Carrier!Inv, Carrier!TypeOK
  <1>2. CASE Files(q)
    <2>1. /\ file'[o] = file[o]
          /\ o \in Globals => registry'[o] = registry[o]
      <3>1. CASE Carrier!Unmanage(q)
        BY <3>1 DEF Carrier!Unmanage, Carrier!Inv, Carrier!TypeOK
      <3>2. CASE Carrier!Core(q) \/ Carrier!RemClear(q) \/ Carrier!FilePromote(q)
        BY <3>2 DEF Carrier!Core, Carrier!RemClear, Carrier!FilePromote, Carrier!Inv,
                    Carrier!TypeOK
      <3>3. CASE Carrier!RemPending(q) \/ Carrier!InstPending(q) \/ Carrier!Converge(q)
                   \/ Carrier!InstRetire(q)
        BY <3>3 DEF Carrier!RemPending, Carrier!InstPending, Carrier!Converge,
                    Carrier!InstRetire, Carrier!Inv, Carrier!TypeOK
      <3> QED BY <1>2, <3>1, <3>2, <3>3 DEF Files
    <2> QED BY <2>1 DEF Carrier!Claim
  <1> QED BY <1>1, <1>2

LEMMA PinStep ==
  ASSUME Carrier!Inv, [Carrier!Next]_carrierVars, NEW o \in Owners, Reserved(o)
  PROVE  Carrier!Claim(o)' = Carrier!Claim(o) \/ Completed(o)
  <1>1. CASE file' = file /\ registry' = registry
    BY <1>1 DEF Carrier!Claim
  <1>2. ASSUME NEW q \in Owners, Writes(q) \/ Files(q)
        PROVE  Carrier!Claim(o)' = Carrier!Claim(o) \/ Completed(o)
    <2>1. CASE o # q
      BY <1>2, <2>1, OwnClaimOnly
    <2>2. CASE o = q
      BY <1>2, <2>2, ClaimSet, ClaimFiled DEF Writes, Files
    <2> QED BY <2>1, <2>2
  <1> QED BY <1>1, <1>2, RecordMoves

(* A command never takes a relation away from another manifest that claims it at the pin it is
   at, and a reserved change of pin ends only in the pin it was reserved for. *)
THEOREM CarrierKept == Carrier!Spec => RelationsKept
  <1>1. Carrier!Inv /\ [Carrier!Next]_(Carrier!vars) =>
          [\A o \in Owners :
             carrierRun[o].pc \in {"remHost", "pinHost"} /\ carrierRun'[o].pc # carrierRun[o].pc
               /\ host'[Carrier!Site(o)] # host[Carrier!Site(o)]
             => \A c \in Carrier!Others(o) : c.pin # host[Carrier!Site(o)]]_(Carrier!vars)
    BY SharedStep DEF Carrier!vars, carrierVars
  <1>2. Carrier!Inv /\ [Carrier!Next]_(Carrier!vars) =>
          [\A o \in Owners :
             Carrier!Claim(o) # None /\ ~Carrier!Stable(Carrier!Claim(o))
               /\ Carrier!Claim(o)' # Carrier!Claim(o)
             => /\ Carrier!Claim(o)' = [pin |-> Carrier!Claim(o).pend, pend |-> None, prov |-> "pin"]
                /\ host[Carrier!Site(o)] = Carrier!Claim(o).pend \/ by[Carrier!Site(o)] \notin Owners]_(Carrier!vars)
    BY PinStep DEF Carrier!vars, carrierVars, Reserved, Completed, Carrier!Stable
  <1> QED BY <1>1, <1>2, CarrierInvariant, PTL
          DEF Carrier!Spec, RelationsKept, Carrier!SharedKept, Carrier!PinKept

-----------------------------------------------------------------------------
(* What TLC explores of the two workflows, side by side, is what the theorems are about. *)
THEOREM WorkflowsProved == WorkflowsSpec => Spec /\ Carrier!Spec
  <1>1. WorkflowsInit => Init /\ Carrier!Init
    BY DEF WorkflowsInit
  <1>2. [WorkflowsNext]_<<part, carrierVars, vars>> => [Next]_vars
    BY DEF WorkflowsNext, SharedNext, ProjectNext, AloneNext, PairNext
  <1>3. [WorkflowsNext]_<<part, carrierVars, vars>> => [Carrier!Next]_(Carrier!vars)
    BY DEF WorkflowsNext, SharedNext, ProjectNext, AloneNext, PairNext, carrierVars, Carrier!vars
  <1> QED BY <1>1, <1>2, <1>3, PTL DEF WorkflowsSpec, Spec, Carrier!Spec
=============================================================================
