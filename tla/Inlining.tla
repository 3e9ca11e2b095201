------------------------------ MODULE Inlining ------------------------------
(***************************************************************************)
(* What lower.rs does about recursive shapes.  Without --lenient the cycles*)
(* of recursive_references are errors; with it the shapes on these cycles  *)
(* are remembered, and a rule whose lowering meets one becomes unsupported *)
(* instead of inlining the shape.  Every rule is lowered by two functions  *)
(* that call themselves and each other: conforms inlines a shape, details  *)
(* explains why it fails.                                                  *)
(*                                                                         *)
(* Every shape is targeted and every value is a node.  sh:node stands for  *)
(* sh:and, sh:or and sh:xone too.  Constraints are taken in a fixed order, *)
(* and a call that is made twice in a row counts as one.                   *)
(***************************************************************************)
EXTENDS RecursiveShapes

CONSTANTS
    ShapeGraphs,    \* sets of references <<from, via, to>>
    MaxDeactivated  \* bound of the model

\* References come from shapes: references to shapes that do not exist are left out.
ASSUME InliningAssumption == \A g \in ShapeGraphs : \A e \in g : e \in Shape \X {e[2]} \X Shape

VARIABLES
    edges,        \* the references, with the parameters that carry them
    disjoint,     \* shapes with sh:qualifiedValueShapesDisjoint
    deactivated,  \* shapes with sh:deactivated
    lenient,      \* --lenient, "yes" or "no"
    phase,        \* "finding", "refused", "lowering", "lowered" or "overflow"
    recursive,    \* shapes that are not inlined
    rule,         \* the rule being lowered, <<>> if none yet
    inlining,     \* calls: the constraint's, then those of conforms and details
    unsupported,  \* the flag of the rule, "set" or "clear"
    status        \* rule statuses, "none" before the rule is lowered

lowerVars == <<recursive, rule, inlining, unsupported, status>>
inputVars == <<edges, disjoint, deactivated, lenient>>
allVars == <<vars, inputVars, phase, lowerVars>>

Properties(v) == {p \in Shape : <<v, "sh:property", p>> \in edges}
Qualified(v) == {w \in Shape : <<v, "sh:qualifiedValueShape", w>> \in edges}
Constraints(v) == {e \in edges : e[1] = v /\ e[2] # "sh:property"}

\* A rule: a targeted shape with a constraint of its own or of a property of it.
Rules == {r \in Shape \X edges : r[2] \in UNION {Constraints(d) : d \in {r[1]} \cup Properties(r[1])}}

InitLowering ==
    /\ edges \in ShapeGraphs
    /\ references = {<<e[1], e[3]>> : e \in edges}
    /\ NothingFound
    /\ disjoint \in SUBSET {v \in Shape : Qualified(v) # {}}
    /\ deactivated \in {S \in SUBSET Shape : Cardinality(S) <= MaxDeactivated}
    /\ lenient \in {"yes", "no"}
    /\ phase = "finding"
    /\ recursive = {}
    /\ rule = <<>>
    /\ inlining = <<>>
    /\ unsupported = "clear"
    /\ status = [r \in Rules |-> "none"]

-----------------------------------------------------------------------------
(* Who calls whom.                                                         *)

SiblingQualifiedShapes(v, target) ==
    UNION {Qualified(p) : p \in {p \in Shape \ {v} :
        \E parent \in Shape : {v, p} \subseteq Properties(parent)}} \ {target}

ConstraintCalls(e) ==
    {<<"conforms", e[3]>>}
    \cup (IF e[2] = "sh:node" THEN {<<"details", e[3]>>} ELSE {})
    \cup (IF e[2] = "sh:qualifiedValueShape" /\ e[1] \in disjoint
          THEN {"conforms"} \X SiblingQualifiedShapes(e[1], e[3]) ELSE {})

ShapeCalls(v) == UNION {ConstraintCalls(e) : e \in Constraints(v)}

ConformsCalls(v) == ShapeCalls(v) \cup ({"conforms"} \X Properties(v))

DetailsCalls(v) == ShapeCalls(v) \cup UNION {ShapeCalls(p) : p \in Properties(v) \ deactivated}

CallsOf(c) == IF c[1] = "conforms" THEN ConformsCalls(c[2]) ELSE DetailsCalls(c[2])

-----------------------------------------------------------------------------
FindRecursion ==
    /\ phase = "finding"
    /\ Next
    /\ UNCHANGED <<inputVars, phase, lowerVars>>

Refuse ==
    /\ phase = "finding"
    /\ pc = "reported"
    /\ lenient = "no"
    /\ cycles # <<>>
    /\ phase' = "refused"
    /\ UNCHANGED <<vars, inputVars, lowerVars>>

BeginLowering ==
    /\ phase = "finding"
    /\ pc = "reported"
    /\ lenient = "yes" \/ cycles = <<>>
    /\ phase' = "lowering"
    /\ recursive' = UNION {ToSet(cycles[i]) : i \in DOMAIN cycles}
    /\ UNCHANGED <<vars, inputVars, rule, inlining, unsupported, status>>

Open == {r \in Rules : status[r] = "none"}

BeginRule ==
    /\ phase = "lowering"
    /\ inlining = <<>>
    /\ Open # {}
    /\ rule' = CHOOSE r \in Open : TRUE
    /\ inlining' = <<[call |-> <<"constraint", rule'[1]>>, todo |-> ConstraintCalls(rule'[2])]>>
    /\ unsupported' = "clear"
    /\ UNCHANGED <<vars, inputVars, phase, recursive, status>>

Current == Last(inlining)
Calling == phase = "lowering" /\ inlining # <<>> /\ Current.todo # {}
NextCall == CHOOSE c \in Current.todo : TRUE
Called == [inlining EXCEPT ![Len(inlining)].todo = @ \ {NextCall}]

\* conforms of a deactivated shape is true, and it has no details.
PassDeactivated ==
    /\ Calling
    /\ NextCall[2] \in deactivated
    /\ inlining' = Called
    /\ UNCHANGED <<vars, inputVars, phase, recursive, rule, unsupported, status>>

\* Mutant: conforms of a recursive shape is true and nobody is told.
PassRecursive ==
    /\ Calling
    /\ NextCall \in {"conforms"} \X (recursive \ deactivated)
    /\ inlining' = Called
    /\ UNCHANGED <<vars, inputVars, phase, recursive, rule, unsupported, status>>

\* conforms of a recursive shape is true too, and the rule is flagged.
FlagRecursive ==
    /\ Calling
    /\ NextCall \in {"conforms"} \X (recursive \ deactivated)
    /\ inlining' = Called
    /\ unsupported' = "set"
    /\ UNCHANGED <<vars, inputVars, phase, recursive, rule, status>>

LeaveUnexplained ==
    /\ Calling
    /\ NextCall \in {"details"} \X (recursive \ deactivated)
    /\ inlining' = Called
    /\ UNCHANGED <<vars, inputVars, phase, recursive, rule, unsupported, status>>

Inlined == {inlining[i].call : i \in DOMAIN inlining}
CanInline == Calling /\ NextCall[2] \notin deactivated \cup recursive

Inline ==
    /\ CanInline
    /\ NextCall \notin Inlined
    /\ inlining' = Append(Called, [call |-> NextCall, todo |-> CallsOf(NextCall)])
    /\ UNCHANGED <<vars, inputVars, phase, recursive, rule, unsupported, status>>

\* What a call does depends only on its shape: inside itself it goes on until the
\* call stack overflows.
Overflow ==
    /\ CanInline
    /\ NextCall \in Inlined
    /\ phase' = "overflow"
    /\ UNCHANGED <<vars, inputVars, lowerVars>>

CallReturns ==
    /\ phase = "lowering"
    /\ Len(inlining) > 1
    /\ Current.todo = {}
    /\ inlining' = Front(inlining)
    /\ UNCHANGED <<vars, inputVars, phase, recursive, rule, unsupported, status>>

\* The constraint is the targeted shape's or that of a property; either is deactivated.
EndRule ==
    /\ phase = "lowering"
    /\ Len(inlining) = 1
    /\ Current.todo = {}
    /\ inlining' = <<>>
    /\ status' = [status EXCEPT ![rule] =
                     IF {rule[1], rule[2][1]} \cap deactivated # {} THEN "deactivated"
                     ELSE IF unsupported = "set" THEN "unsupported"
                     ELSE "compiled"]
    /\ UNCHANGED <<vars, inputVars, phase, recursive, rule, unsupported>>

EndLowering ==
    /\ phase = "lowering"
    /\ inlining = <<>>
    /\ Open = {}
    /\ phase' = "lowered"
    /\ UNCHANGED <<vars, inputVars, lowerVars>>

NextLowering ==
    \/ FindRecursion \/ Refuse \/ BeginLowering \/ BeginRule \/ PassDeactivated
    \/ FlagRecursive \/ LeaveUnexplained \/ Inline \/ Overflow
    \/ CallReturns \/ EndRule \/ EndLowering

\* One thread that keeps going.
LoweringSpec ==
    InitLowering /\ [][NextLowering]_allVars /\ WF_allVars(NextLowering)

-----------------------------------------------------------------------------
(* Properties.                                                             *)

\* A shape is recursive exactly if it reaches the first shape of a cycle reported and
\* is reached from it, and no two cycles are about the same shapes: every group of
\* mutually recursive shapes is reported once, a shape that refers to itself included.
EveryGroupReportedOnce ==
    phase = "finding" /\ pc = "reported" =>
        \A v \in Shape :
            Cardinality({i \in DOMAIN cycles :
                            v \in ReachedFrom(cycles[i][1]) /\ cycles[i][1] \in ReachedFrom(v)})
              = IF v \in RecursiveShape THEN 1 ELSE 0

\* What is reported is a cycle that starts from the least shape of its group, no
\* shorter one leads through that shape, and the cycles come in the order of these
\* shapes.
CyclesAreShortest ==
    phase = "finding" /\ pc = "reported" =>
        /\ \A i \in DOMAIN cycles :
              LET least == cycles[i][1]
              IN  /\ IsCycle(cycles[i])
                  /\ \A k \in 1 .. Len(cycles[i]) - 2 : ~ Leads(least, k, least)
                  /\ \A v \in ReachedFrom(least) : least \in ReachedFrom(v) => least <= v
        /\ \A i, j \in DOMAIN cycles : i < j => cycles[i][1] < cycles[j][1]

ConformsCalledBy(calls_) == {c[2] : c \in {c \in calls_ : c[1] = "conforms"}} \ deactivated

\* Shapes whose expression is part of what the calls make, as a least fixed point.
Needed(calls_) ==
    {w \in Shape : \A S \in SUBSET Shape :
        /\ ConformsCalledBy(calls_) \subseteq S
        /\ \A x \in S : ConformsCalledBy(ConformsCalls(x)) \subseteq S
        => w \in S}

NeedsItself(v) == v \notin deactivated /\ v \in Needed(ConformsCalls(v))

\* A rule that is compiled stands for a finite expression: no shape it needs needs
\* itself, so that no reference was replaced by true behind its back.  And a rule is
\* given up as unsupported only if it needs a shape that recursive_references finds.
RecursionIsRecorded ==
    \A r \in Rules :
        /\ status[r] = "compiled" =>
              \A v \in Needed(ConstraintCalls(r[2])) : ~ NeedsItself(v)
        /\ status[r] = "unsupported" =>
              \E v \in Needed(ConstraintCalls(r[2])) : v \in RecursiveShape

\* Without --lenient lowering ends, with an error or with every rule lowered, if no
\* shape needs itself through the disjoint siblings of a qualified shape, which
\* recursive_references does not look at.
StrictLoweringEnds ==
    lenient = "no" =>
        <>(\/ phase \in {"refused", "lowered"}
           \/ disjoint # {} /\ \E v \in Shape : NeedsItself(v))

\* "or with `--lenient` SHALL record them as `status: unsupported` in the manifest"
\* (constraint-compilation/spec.md:40, of recursive shape references, which are compile
\* errors otherwise): either way no shape is inlined inside itself.
RecursionIsRejectedOrRecorded == phase # "overflow"
=============================================================================
