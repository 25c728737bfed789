------------------------------- MODULE PlanShapes -------------------------------
(* Small plans of every shape, and the plan of a change of a host pin as the code builds
   it (internal/operationplan/pin_change_structure.go). *)
EXTENDS EffectPlan

Outcome == Choice(<<Step("noop"), Step("terminal")>>)
Checked(kind) == EffectSequence(<<Step(kind), Outcome>>)

Leaves == {Step(k) : k \in {"forward", "barrier", "publish", "terminal"}}

Composed(S, few) ==
    {EffectSequence(<<a, b>>) : a \in S, b \in few} \cup {Choice(<<a, b>>) : a \in S, b \in few}
      \cup {Repeat(2, a) : a \in S} \cup {ForwardPhase(a) : a \in S}
      \cup {Trigger("t", a) : a \in S} \cup {Conditional("t", a) : a \in S}

Small == Leaves \cup Composed(Leaves, Leaves)

(* Small plans composed once more with a leaf, and triggers with their follow-up before,
   after and between them. *)
ShapePlans ==
    {p \in Composed(Small, Leaves)
        \cup {ForwardPhase(EffectSequence(<<a, Choice(<<b, Trigger("t", Step("forward"))>>), Conditional("t", c)>>)) :
                 a \in Small, b \in Leaves, c \in Leaves}
        \cup {ForwardPhase(Repeat(2, EffectSequence(<<Choice(<<a, Trigger("t", b)>>), c>>))) :
                 a \in Leaves, b \in Leaves, c \in Leaves}
      : valid(p)}

(* PinChangeEffectNode, with one observation where the code plans several in a row. *)
PinValidation == Repeat(1, Checked("validate"))
PinPublication == Repeat(1, Checked("publish"))
PinRegistry ==
    EffectSequence(<<Checked("observation"), PinValidation, Checked("external"), PinValidation,
                     Checked("observation")>>)

PinChangeEffectNode(global) ==
    LET reservation == IF global THEN PinRegistry ELSE PinPublication
        completion == IF global THEN PinRegistry ELSE EffectSequence(<<PinValidation, PinPublication>>)
    IN  EffectSequence(<<
            Checked("forward"),
            EffectSequence(<<Choice(<<Step("bind"), Step("validate")>>), Outcome>>),
            Checked("observation"), reservation, PinValidation, Step("external"), PinValidation,
            Checked("observation"),
            Choice(<<completion, Step("noop")>>),
            PinValidation, PinPublication, PinValidation, Checked("observation")>>)

PinPlans == {ForwardPhase(PinChangeEffectNode(global)) : global \in BOOLEAN}

(* Plans in which branches exclude each other, effects repeat, and a phase follows another. *)
BranchPlans ==
    {ForwardPhase(EffectSequence(<<
         Checked("forward"),
         Choice(<<Step("barrier"), EffectSequence(<<Checked("bind"), Repeat(2, Checked("validate")), Checked("publish")>>)>>),
         Step("external")>>)),
     EffectSequence(<<ForwardPhase(Repeat(2, Checked("forward"))), Step("barrier"),
                      ForwardPhase(Checked("forward"))>>),
     EffectSequence(<<Step("barrier"), Step("stateDir"), Step("establish"), Step("external")>>),
     ForwardPhase(EffectSequence(<<
         Choice(<<Step("noop"), Trigger("t", Checked("forward"))>>),
         Step("external"), Conditional("t", Checked("forward")), Step("barrier")>>)),
     EffectSequence(<<Conditional("t", Step("external")), Choice(<<Step("noop"), Trigger("t", Step("barrier"))>>)>>)}

OperationPlans == PinPlans \cup BranchPlans

=============================================================================
