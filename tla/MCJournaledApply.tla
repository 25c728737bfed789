--------------------------- MODULE MCJournaledApply ---------------------------
(* Two projects that share two global outputs, one of them at a name whose entry
   is known only once it exists and which the projects spell differently. *)
EXTENDS JournaledApply, TLC

CONSTANTS a, b

MCRank == (a :> 1) @@ (b :> 2)

limit(apply, crash, fault, edit) ==
    [apply |-> apply, crash |-> crash, fault |-> fault, edit |-> edit]

(* Two applies, disturbed by everything once. *)
MCLimit == limit(2, 1, 1, 1)

LivenessLimit == limit(2, 1, 1, 0)

(* The shortest histories of the findings: a failing apply; a file that is deleted
   and created again; an interrupted release and the next apply. *)
RollbackLimit == limit(1, 0, 1, 0)
LapseLimit == limit(1, 1, 0, 2)
ReleaseLimit == limit(2, 1, 0, 0)

Symmetry == Permutations(Projects) \cup Permutations(Contents)

=============================================================================
