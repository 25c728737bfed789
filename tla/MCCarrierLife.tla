--------------------------- MODULE MCCarrierLife ---------------------------
(* The instances that MCWorkflows does not have: the finding, and liveness. *)
EXTENDS CarrierLife

CONSTANTS o1, o2, p1, p2

TwoOwners == {o1, o2}
OneOwner == {o1}
OnePin == {p1}

Bounds(s, f, b, e, d, u) ==
  [stops |-> s, failures |-> f, blind |-> b, edits |-> e, declares |-> d, unmanages |-> u]

\* Two manifests that share a relation, for liveness.
FairLimit == Bounds(1, 1, 0, 1, 3, 0)
\* The shortest history of the finding.
HandLimit == Bounds(1, 0, 0, 1, 2, 0)
============================================================================
