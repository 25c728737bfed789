------------------------------- MODULE EffectPlan -------------------------------
(***************************************************************************)
(* The plan of an operation (internal/operationplan): a tree of the steps     *)
(* that it may take, with sequences, closed choices, repetitions, phases of    *)
(* forward effects, and follow-ups that are due once a trigger was reached.    *)
(* A cursor walks along it and admits one step after the other, while the      *)
(* demand of the plan, what it can need at most, is computed beforehand by     *)
(* a traversal of its own.                                                  *)
(*                                                                         *)
(* Steps of one plan have unique identities, by which the cursor refuses what  *)
(* is not the next one; here a step is the place in the tree where it stands.  *)
(***************************************************************************)
EXTENDS Naturals, Sequences, SequencesExt

StateSteps == {"establish", "barrier", "stateDir", "forward"}
DescendantSteps == {"bind", "validate", "publish"}
OwnerSteps == {"external", "observation", "noop", "terminal"}

StepKinds == StateSteps \cup DescendantSteps \cup OwnerSteps

(* Mutant: to establish the state directory is not an effect. *)
startsEffectOutside(kind) == kind \in {"forward", "publish", "external"}

(* startsEffect; `external' stands for what an owner does to the host or to its records,
   compensation, cleanup and retirement included. *)
startsEffect(kind) == kind \in {"establish", "forward", "publish", "external"}

-----------------------------------------------------------------------------
(* EffectNode *)

Node(kind, step, children, count, id) ==
    [kind |-> kind, step |-> step, children |-> children, count |-> count, id |-> id]

Empty == Node("empty", "", <<>>, 0, "")
Step(kind) == Node("step", kind, <<>>, 0, "")
EffectSequence(children) == IF children = <<>> THEN Empty ELSE Node("sequence", "", children, 0, "")
Choice(children) == Node("choice", "", children, 0, "")
Repeat(count, body) == IF count = 0 THEN Empty ELSE Node("repeat", "", <<body>>, count, "")
ForwardPhase(body) == Node("phase", "", <<body>>, 0, "")
Trigger(id, body) == Node("trigger", "", <<body>>, 0, id)
Conditional(id, body) == Node("conditional", "", <<body>>, 0, id)

RECURSIVE nodes(_)
(* All nodes of a plan, in order, with repetition. *)
nodes(node) == <<node>> \o FoldLeft(LAMBDA all, child : all \o nodes(child), <<>>, node.children)

RECURSIVE validPhases(_, _)
validPhases(node, inside) ==
    /\ node.kind = "phase" => ~inside
    /\ (node.kind = "step" /\ node.step = "forward") => inside
    /\ \A i \in DOMAIN node.children : validPhases(node.children[i], inside \/ node.kind = "phase")

(* compileEffectStructure, validateEffectNode *)
valid(plan) ==
    LET all == nodes(plan)
        of(kind) == {i \in DOMAIN all : all[i].kind = kind}
        ids(kind) == {all[i].id : i \in of(kind)}
    IN  /\ validPhases(plan, FALSE)
        /\ ids("trigger") = ids("conditional")
        /\ \A i, j \in of("conditional") : all[i].id = all[j].id => i = j
        /\ \A i \in of("choice") : Len(all[i].children) >= 2

-----------------------------------------------------------------------------
(* Demand *)

Dimensions == {"forward", "establish", "barrier", "stateDir", "bind", "validate", "publish"}

NoDemand == [d \in Dimensions |-> 0]

(* effectStepDemand *)
stepDemand(kind) == [d \in Dimensions |-> IF d = kind THEN 1 ELSE 0]

add(a, b) == [d \in Dimensions |-> a[d] + b[d]]
multiply(a, n) == [d \in Dimensions |-> a[d] * n]
maximum(a, b) == [d \in Dimensions |-> IF a[d] >= b[d] THEN a[d] ELSE b[d]]
dominates(a, b) == \A d \in Dimensions : a[d] >= b[d]

(* The first forward effect of a phase establishes the state directory, later ones
   validate it. *)
lowered(demand) ==
    IF demand["forward"] = 0 THEN demand
    ELSE [demand EXCEPT !["forward"] = 0, !["establish"] = @ + 1,
                        !["stateDir"] = @ + demand["forward"] - 1]

RECURSIVE legacyUpperBound(_)
(* legacyUpperBoundDemand: a bound without regard to choices that exclude each other. *)
legacyUpperBound(node) ==
    LET of(i) == legacyUpperBound(node.children[i])
        sum == FoldLeft(LAMBDA acc, child : add(acc, legacyUpperBound(child)), NoDemand, node.children)
    IN  CASE node.kind = "empty"    -> NoDemand
          [] node.kind = "step"     -> stepDemand(node.step)
          [] node.kind = "sequence" -> sum
          [] node.kind = "choice"   ->
                FoldLeft(LAMBDA acc, child : maximum(acc, legacyUpperBound(child)), NoDemand, node.children)
          [] node.kind = "repeat"   -> multiply(of(1), node.count)
          [] node.kind = "phase"    -> lowered(of(1))
          [] OTHER                  -> of(1)

deterministic(node) ==
    LET all == nodes(node)
    IN  \A i \in DOMAIN all : all[i].kind \notin {"choice", "trigger", "conditional"}

containsTerminal(node) ==
    LET all == nodes(node) IN \E i \in DOMAIN all : all[i].step = "terminal"

(* An alternative: the demand so far, the triggers and follow-ups that it has passed, and
   whether it has ended.  Alternatives that another one of the same kind dominates are
   dropped (pruneEffectDemandAlternatives). *)
prune(alternatives) ==
    {a \in alternatives :
        \A b \in alternatives :
            (/\ [b EXCEPT !.demand = a.demand] = a
             /\ dominates(b.demand, a.demand)) => a = b}

more(alternatives, demand) == {[a EXCEPT !.demand = add(@, demand)] : a \in alternatives}

(* Mutant: what comes after a terminal step is not left out. *)
activeAll(alternatives) == alternatives

active(alternatives) == {a \in alternatives : ~a.terminated}

RECURSIVE advance(_, _)
advanceActive(node, input) ==
    LET body == node.children[1]
        iterate(all) == FoldLeft(LAMBDA acc, i : advance(body, acc), all, [i \in 1 .. node.count |-> i])
    IN  CASE node.kind = "empty" -> input
          [] node.kind = "step" ->
                {[a EXCEPT !.terminated = (node.step = "terminal")] : a \in more(input, stepDemand(node.step))}
          [] node.kind = "sequence" -> FoldLeft(LAMBDA acc, child : advance(child, acc), input, node.children)
          [] node.kind = "choice" -> UNION {advance(node.children[i], input) : i \in DOMAIN node.children}
          [] node.kind = "repeat" ->
                IF ~deterministic(body) THEN iterate(input)
                ELSE IF containsTerminal(body) THEN advance(body, input)
                ELSE more(input, multiply(legacyUpperBound(body), node.count))
          [] node.kind = "phase" -> {[a EXCEPT !.demand = lowered(@)] : a \in advance(body, input)}
          [] node.kind = "trigger" ->
                advance(body, {[a EXCEPT !.triggered = @ \cup {node.id}] :
                                  a \in {x \in input : node.id \notin x.conditionals}})
          [] node.kind = "conditional" ->
                LET reached == {[a EXCEPT !.conditionals = @ \cup {node.id}] : a \in input}
                    due == {a \in reached : node.id \in a.triggered}
                IN  (reached \ due) \cup UNION {advance(body, {a}) : a \in due}

advance(node, input) ==
    IF active(input) = {} THEN input
    ELSE prune(advanceActive(node, active(input)) \cup (input \ active(input)))

(* DemandAlternatives: the demands that are not dominated, of the runs that can end. *)
DemandAlternatives(plan) ==
    LET all == advance(plan, {[demand |-> NoDemand, triggered |-> {}, conditionals |-> {},
                               terminated |-> FALSE]})
        reachable == {a \in all : a.terminated \/ a.triggered \subseteq a.conditionals}
    IN  {a.demand : a \in prune({[a EXCEPT !.triggered = {}, !.conditionals = {}, !.terminated = FALSE] :
                                    a \in reachable})}

-----------------------------------------------------------------------------
(* EffectCursor *)

Frame(node) == [node |-> node, next |-> 0, selected |-> 0, forwards |-> 0]

Begin(plan) ==
    [stack |-> <<Frame(plan)>>, triggers |-> {}, conditionals |-> {}, stuck |-> FALSE,
     started |-> FALSE, terminated |-> FALSE]

top(cursor) == Last(cursor.stack)
pop(cursor) == [cursor EXCEPT !.stack = Front(@)]
push(cursor, node) ==
    [cursor EXCEPT !.stack = Append([@ EXCEPT ![Len(@)].next = @ + 1], Frame(node))]

RECURSIVE next(_)
(* EffectCursor.next: down to a step or to a choice that is not made yet, or to the end,
   or to a trigger whose follow-up has passed. *)
next(cursor) ==
    IF cursor.stack = <<>> \/ cursor.stuck THEN cursor
    ELSE
    LET frame == top(cursor)
        node == frame.node
        children == node.children
        once(c) == IF frame.next # 0 THEN next(pop(cursor)) ELSE next(push(c, children[1]))
    IN  CASE node.kind = "empty" -> next(pop(cursor))
          [] node.kind = "step" -> cursor
          [] node.kind = "sequence" ->
                IF frame.next = Len(children) THEN next(pop(cursor))
                ELSE next(push(cursor, children[frame.next + 1]))
          [] node.kind = "choice" ->
                IF frame.selected = 0 THEN cursor
                ELSE IF frame.next # 0 THEN next(pop(cursor))
                ELSE next(push(cursor, children[frame.selected]))
          [] node.kind = "repeat" ->
                IF frame.next = node.count THEN next(pop(cursor)) ELSE next(push(cursor, children[1]))
          [] node.kind = "phase" -> once(cursor)
          [] node.kind = "trigger" ->
                IF frame.next = 0 /\ node.id \in cursor.conditionals
                THEN [cursor EXCEPT !.stuck = TRUE]
                ELSE once([cursor EXCEPT !.triggers = @ \cup {node.id}])
          [] node.kind = "conditional" ->
                LET reached == [cursor EXCEPT !.conditionals = @ \cup {node.id}]
                IN  IF frame.next = 0 /\ node.id \notin cursor.triggers THEN next(pop(reached))
                    ELSE once(reached)

atEnd(cursor) == cursor.stack = <<>>
atStep(cursor) == ~atEnd(cursor) /\ ~cursor.stuck /\ top(cursor).node.kind = "step"
atChoice(cursor) == ~atEnd(cursor) /\ ~cursor.stuck /\ top(cursor).node.kind = "choice"

SelectAlternative(cursor, i) == next([cursor EXCEPT !.stack[Len(cursor.stack)].selected = i])

phases(cursor) == {i \in DOMAIN cursor.stack : cursor.stack[i].node.kind = "phase"}

(* Mutant: every forward effect validates a directory that is taken to be there. *)
neverEstablishes(cursor) == FALSE

(* The forward effect at hand is the first one of its phase. *)
establishes(cursor) == \E i \in phases(cursor) : cursor.stack[i].forwards = 0

Consume(cursor) ==
    LET kind == top(cursor).node.step
        counted == [cursor EXCEPT !.started = @ \/ startsEffect(kind),
                                  !.stack = [i \in DOMAIN @ |->
                                                IF kind = "forward" /\ i \in phases(cursor)
                                                THEN [@[i] EXCEPT !.forwards = @ + 1] ELSE @[i]]]
    IN  IF kind = "terminal" THEN [counted EXCEPT !.stack = <<>>, !.terminated = TRUE]
        ELSE next(pop(counted))

(* FinishSuccess *)
canFinish(cursor) == atEnd(cursor) /\ (cursor.terminated \/ cursor.triggers \subseteq cursor.conditionals)

(* AbortBeforeEffect *)
canAbort(cursor) == ~cursor.terminated /\ ~cursor.started

(* What the step at hand needs. *)
needs(cursor) ==
    LET kind == top(cursor).node.step
    IN  stepDemand(IF kind = "forward" THEN IF establishes(cursor) THEN "establish" ELSE "stateDir"
                   ELSE kind)

RECURSIVE runs(_, _)
(* The demands of all the ways in which a cursor can come to a successful end. *)
runs(cursor, sofar) ==
    CASE atStep(cursor)   -> runs(Consume(cursor), add(sofar, needs(cursor)))
      [] atChoice(cursor) -> UNION {runs(SelectAlternative(cursor, i), sofar) :
                                       i \in DOMAIN top(cursor).node.children}
      [] OTHER            -> IF canFinish(cursor) THEN {sofar} ELSE {}

completable(cursor) == runs(cursor, NoDemand) # {}

maximal(demands) == {a \in demands : \A b \in demands : dominates(b, a) => a = b}

=============================================================================
