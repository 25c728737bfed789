---------------------------- MODULE AtomicFileSet ----------------------------
(***************************************************************************)
(* What a file-set transaction promises: the files of one request change   *)
(* in one step, all of them or none.  Other programs may edit any file at  *)
(* any time; an edited file (`dirty') is theirs, the transaction leaves it  *)
(* out, and all the transaction may do to it is to take it back.            *)
(***************************************************************************)
CONSTANTS Paths, Contents

VARIABLES
    files,    \* what every path is taken to hold
    request,  \* the files to change and their images, empty between requests
    dirty     \* paths edited by others

NoRequest == [targets |-> {}, images |-> [p \in {} |-> 0]]

Requests == UNION {[targets : {T}, images : [T -> Contents]] : T \in SUBSET Paths}

Init ==
    /\ files \in [Paths -> Contents]
    /\ request = NoRequest
    /\ dirty = {}

Start ==
    /\ request = NoRequest
    /\ request' \in Requests
    /\ UNCHANGED <<files, dirty>>

Commit ==
    /\ files' = [p \in Paths |-> IF p \in request.targets \ dirty
                                 THEN request.images[p] ELSE files[p]]
    /\ request' = NoRequest
    /\ UNCHANGED dirty

Abort ==
    /\ request' = NoRequest
    /\ UNCHANGED <<files, dirty>>

(* Another program writes a file. *)
Edit ==
    /\ \E p \in Paths :
         /\ \A q \in Paths \ {p} : files'[q] = files[q]
         /\ dirty' = dirty \cup {p}
    /\ files' \in [Paths -> Contents]
    /\ UNCHANGED request

(* An edited file is looked at again and taken as it is, or overwritten. *)
Reclaim ==
    /\ \E p \in dirty :
         /\ \A q \in Paths \ {p} : files'[q] = files[q]
         /\ dirty' = dirty \ {p}
    /\ files' \in [Paths -> Contents]
    /\ UNCHANGED request

Next == Start \/ Commit \/ Abort \/ Edit \/ Reclaim

Spec == Init /\ [][Next]_<<files, request, dirty>>
=============================================================================
