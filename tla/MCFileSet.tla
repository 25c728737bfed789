----------------------------- MODULE MCFileSet -----------------------------
(* Instances of FileSet for TLC. *)
EXTENDS FileSet, TLC

CONSTANTS p1, p2, b1, b2, m600

MCPaths == {p1, p2}
MCRank == (p1 :> 1) @@ (p2 :> 2)
MCBytes == {b1, b2}

To(b) == [p \in MCPaths |-> b]

(* A commit point that sorts first; a fresh commit with a retained target; and a set of
   one target, whose evidence the first may recover but not conversely. *)
MCPlans ==
    { [version |-> 4, fresh |-> FALSE, targets |-> {p1, p2}, writes |-> {p1, p2},
       commitPoint |-> p1, after |-> To(b1)],
      [version |-> 4, fresh |-> TRUE, targets |-> {p1, p2}, writes |-> {p1},
       commitPoint |-> p1, after |-> To(b2)],
      [version |-> 3, fresh |-> FALSE, targets |-> {p2}, writes |-> {p2},
       commitPoint |-> NoPath, after |-> To(b1)] }

(* One commit, disturbed by everything once. *)
MCLimit == [commit |-> 1, crash |-> 1, fault |-> 1, edit |-> 1, cancel |-> 1, damage |-> 1]
=============================================================================
