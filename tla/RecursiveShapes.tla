-------------------------- MODULE RecursiveShapes --------------------------
(***************************************************************************)
(* The search of cycles.rs for shapes that refer to themselves, which      *)
(* cannot be compiled by inlining: Tarjan's algorithm gives the strongly   *)
(* connected components, and a breadth-first search in every component     *)
(* that is recursive gives the cycle that is reported.                     *)
(*                                                                         *)
(* A shape is its index in the order of the shape ids.  Several references *)
(* from a shape to another count as one: they differ in how the cycle is   *)
(* described, and are taken in the order of their targets.                 *)
(***************************************************************************)
EXTENDS Integers, Sequences, FiniteSets, SequencesExt

CONSTANT ShapeCount

ASSUME RecursiveShapesAssumption == ShapeCount \in Nat

Shape == 1 .. ShapeCount

VARIABLES
    references,  \* who refers to whom; references to shapes that do not exist are left out
    pc,          \* "components", "groups", "search", "way" or "reported"
    calls,       \* calls of visit, with the references the loop has still to take
    order,       \* the number visit gave a shape, 0 for none yet
    low,         \* the least number known to be reached from a shape
    next,        \* the next number
    stack,       \* shapes whose component is not complete
    on_stack,    \* the same, as marks
    components,  \* components completed
    groups,      \* components not looked at yet
    start,       \* the shape whose cycle is searched
    members,     \* the component it is in
    queue,       \* shapes to look at
    previous,    \* how the shapes visited were reached
    way,         \* the cycle found, walked back from its end
    cycles       \* cycles found, in the end sorted

tarjanVars == <<calls, order, low, next, stack, on_stack, components>>
searchVars == <<groups, start, members, queue, previous, way, cycles>>
vars == <<references, pc, tarjanVars, searchVars>>

Targets(v) == {w \in Shape : <<v, w>> \in references}

NothingFound ==
    /\ pc = "components"
    /\ calls = <<>>
    /\ order = [v \in Shape |-> 0]
    /\ low = [v \in Shape |-> 0]
    /\ next = 1
    /\ stack = <<>>
    /\ on_stack = {}
    /\ components = <<>>
    /\ groups = <<>>
    /\ start = 0
    /\ members = {}
    /\ queue = <<>>
    /\ previous = <<>>
    /\ way = <<>>
    /\ cycles = <<>>

-----------------------------------------------------------------------------
(* strongly_connected_components.                                          *)

Call(v) == [shape |-> v, todo |-> Targets(v)]
Caller == Last(calls)
Proceed(w) == [calls EXCEPT ![Len(calls)].todo = @ \ {w}]
FirstTodo(w) == w \in Caller.todo /\ \A x \in Caller.todo : w <= x

Smaller(i, j) == IF i < j THEN i ELSE j

\* What visit does first.
Enter(v) ==
    /\ order' = [order EXCEPT ![v] = next]
    /\ low' = [low EXCEPT ![v] = next]
    /\ next' = next + 1
    /\ stack' = Append(stack, v)
    /\ on_stack' = on_stack \cup {v}

VisitNext ==
    /\ pc = "components"
    /\ calls = <<>>
    /\ \E v \in Shape :
          /\ order[v] = 0
          /\ \A w \in 1 .. v - 1 : order[w] # 0
          /\ Enter(v)
          /\ calls' = <<Call(v)>>
    /\ UNCHANGED <<references, pc, components, searchVars>>

Descend ==
    /\ pc = "components"
    /\ calls # <<>>
    /\ \E w \in Shape :
          /\ FirstTodo(w)
          /\ order[w] = 0
          /\ Enter(w)
          /\ calls' = Append(Proceed(w), Call(w))
    /\ UNCHANGED <<references, pc, components, searchVars>>

MeetOnStack ==
    /\ pc = "components"
    /\ calls # <<>>
    /\ \E w \in on_stack :
          /\ FirstTodo(w)
          /\ low' = [low EXCEPT ![Caller.shape] = Smaller(@, order[w])]
          /\ calls' = Proceed(w)
    /\ UNCHANGED <<references, pc, order, next, stack, on_stack, components, searchVars>>

MeetComplete ==
    /\ pc = "components"
    /\ calls # <<>>
    /\ \E w \in Shape :
          /\ FirstTodo(w)
          /\ order[w] # 0
          /\ w \notin on_stack
          /\ calls' = Proceed(w)
    /\ UNCHANGED <<references, pc, order, low, next, stack, on_stack, components,
                   searchVars>>

\* Back in the caller, which takes over how far the call reached.
Return ==
    /\ calls' = Front(calls)
    /\ IF Len(calls) = 1
       THEN UNCHANGED low
       ELSE LET v == calls[Len(calls) - 1].shape
            IN  low' = [low EXCEPT ![v] = Smaller(@, low[Caller.shape])]

\* The shapes from v up on the stack are a component.
CompleteComponent ==
    /\ pc = "components"
    /\ calls # <<>>
    /\ Caller.todo = {}
    /\ low[Caller.shape] = order[Caller.shape]
    /\ \E i \in DOMAIN stack :
          /\ stack[i] = Caller.shape
          /\ LET component == {stack[j] : j \in i .. Len(stack)}
             IN  /\ components' = Append(components, component)
                 /\ on_stack' = on_stack \ component
          /\ stack' = SubSeq(stack, 1, i - 1)
    /\ Return
    /\ UNCHANGED <<references, pc, order, next, searchVars>>

LeaveOnStack ==
    /\ pc = "components"
    /\ calls # <<>>
    /\ Caller.todo = {}
    /\ low[Caller.shape] # order[Caller.shape]
    /\ Return
    /\ UNCHANGED <<references, pc, order, next, stack, on_stack, components, searchVars>>

-----------------------------------------------------------------------------
(* recursive_references and shortest_cycle.                                *)

\* Mutant: a shape that refers to itself is taken for harmless.
IsRecursiveGroup(component) == Cardinality(component) > 1

IsRecursive(component) ==
    Cardinality(component) > 1 \/ \E v \in component : v \in Targets(v)

ComponentsKnown ==
    /\ pc = "components"
    /\ calls = <<>>
    /\ \A v \in Shape : order[v] # 0
    /\ pc' = "groups"
    /\ groups' = components
    /\ UNCHANGED <<references, tarjanVars, start, members, queue, previous, way, cycles>>

SkipGroup ==
    /\ pc = "groups"
    /\ groups # <<>>
    /\ ~ IsRecursive(Head(groups))
    /\ groups' = Tail(groups)
    /\ UNCHANGED <<references, pc, tarjanVars, start, members, queue, previous, way, cycles>>

StartOf(component) == CHOOSE v \in component : \A w \in component : v <= w

BeginSearch ==
    /\ pc = "groups"
    /\ groups # <<>>
    /\ IsRecursive(Head(groups))
    /\ pc' = "search"
    /\ members' = Head(groups)
    /\ start' = StartOf(members')
    /\ queue' = <<start'>>
    /\ previous' = [v \in {start'} |-> 0]
    /\ groups' = Tail(groups)
    /\ UNCHANGED <<references, tarjanVars, way, cycles>>

MeetStart ==
    /\ pc = "search"
    /\ queue # <<>>
    /\ start \in Targets(Head(queue))
    /\ pc' = "way"
    /\ way' = <<Head(queue), start>>
    /\ UNCHANGED <<references, tarjanVars, groups, start, members, queue, previous, cycles>>

WalkBack ==
    /\ pc = "way"
    /\ Head(way) # start
    /\ way' = <<previous[Head(way)]>> \o way
    /\ UNCHANGED <<references, pc, tarjanVars, groups, start, members, queue, previous, cycles>>

CloseCycle ==
    /\ pc = "way"
    /\ Head(way) = start
    /\ cycles' = Append(cycles, way)
    /\ pc' = "groups"
    /\ UNCHANGED <<references, tarjanVars, groups, start, members, queue, previous, way>>

Unvisited(v) == (Targets(v) \cap members) \ DOMAIN previous

Reach(new, v) == previous' = [w \in DOMAIN previous \cup new |->
                                 IF w \in new THEN v ELSE previous[w]]

\* A set of shapes in the order of the shape ids.
InOrder(S) ==
    [k \in 1 .. Cardinality(S) |-> CHOOSE x \in S : Cardinality({y \in S : y < x}) = k - 1]

\* Mutant: shapes found last are looked at first.
LookDeeper ==
    /\ pc = "search"
    /\ queue # <<>>
    /\ LET v == Head(queue)
       IN  /\ start \notin Targets(v)
           /\ queue' = InOrder(Unvisited(v)) \o Tail(queue)
           /\ Reach(Unvisited(v), v)
    /\ UNCHANGED <<references, pc, tarjanVars, groups, start, members, way, cycles>>

Look ==
    /\ pc = "search"
    /\ queue # <<>>
    /\ LET v == Head(queue)
       IN  /\ start \notin Targets(v)
           /\ queue' = Tail(queue) \o InOrder(Unvisited(v))
           /\ Reach(Unvisited(v), v)
    /\ UNCHANGED <<references, pc, tarjanVars, groups, start, members, way, cycles>>

\* A stable sort: cycle j comes before cycle i.
Before(j, i) == cycles[j][1] < cycles[i][1] \/ (cycles[j][1] = cycles[i][1] /\ j < i)

Report ==
    /\ pc = "groups"
    /\ groups = <<>>
    /\ pc' = "reported"
    /\ cycles' = [k \in DOMAIN cycles |->
                     cycles[CHOOSE i \in DOMAIN cycles :
                               Cardinality({j \in DOMAIN cycles : Before(j, i)}) = k - 1]]
    /\ UNCHANGED <<references, tarjanVars, groups, start, members, queue, previous, way>>

-----------------------------------------------------------------------------
Next ==
    \/ VisitNext \/ Descend \/ MeetOnStack \/ MeetComplete
    \/ CompleteComponent \/ LeaveOnStack
    \/ ComponentsKnown \/ SkipGroup \/ BeginSearch \/ Look
    \/ MeetStart \/ WalkBack \/ CloseCycle \/ Report

-----------------------------------------------------------------------------
(* For the properties (see Inlining).                                      *)

ClosedUnder(S) == \A v \in S : Targets(v) \subseteq S

\* Shapes that are reached from v over one reference or more.
ReachedFrom(v) ==
    {w \in Shape : \A S \in SUBSET Shape : Targets(v) \subseteq S /\ ClosedUnder(S) => w \in S}

RecursiveShape == {v \in Shape : v \in ReachedFrom(v)}

IsCycle(c) ==
    /\ Len(c) >= 2
    /\ c[1] = c[Len(c)]
    /\ \A i \in 1 .. Len(c) - 1 : c[i + 1] \in Targets(c[i])

\* Shapes follow one another from v to w over exactly k references.
Leads(v, k, w) ==
    \E p \in [0 .. k -> Shape] :
        /\ p[0] = v
        /\ p[k] = w
        /\ \A i \in 0 .. k - 1 : p[i + 1] \in Targets(p[i])
=============================================================================
