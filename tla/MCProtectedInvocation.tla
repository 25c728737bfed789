------------------------- MODULE MCProtectedInvocation -------------------------
(* Two processes and two commands that have a document in common. *)
EXTENDS ProtectedInvocation, TLC

CONSTANTS p1, p2, i1, i2, a, b

limit(begin, write, refuse, fault, user, crash, reboot) ==
    [begin |-> begin, write |-> write, refuse |-> refuse, fault |-> fault, user |-> user,
     crash |-> crash, reboot |-> reboot]

(* The second command covers less than the first. *)
MCCovers == [i \in Invocations |-> IF i = i1 THEN {a, b} ELSE {b}]

MCLimit == limit(2, 1, 1, 1, 1, 1, 1)

LivenessLimit == limit(2, 1, 0, 1, 0, 1, 1)

Symmetry == Permutations({p1, p2})

=============================================================================
