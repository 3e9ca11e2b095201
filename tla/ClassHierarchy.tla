--------------------------- MODULE ClassHierarchy ---------------------------
(***************************************************************************)
(* The rdfs:subClassOf hierarchy of hierarchy.rs: build rejects a          *)
(* hierarchy with a cycle, which it finds by a depth-first search, and     *)
(* expand later gives a class and all its subclasses, which it collects    *)
(* with a stack of classes to look at.                                     *)
(*                                                                         *)
(* A class is a number, in the order of the IRIs.                          *)
(***************************************************************************)
EXTENDS Integers, Sequences, FiniteSets, Functions

CONSTANT ClassCount

ASSUME ClassHierarchyAssumption == ClassCount \in Nat

Classes == 1 .. ClassCount

\* A statement that a class is a subclass of itself is left out.
Hierarchy == {h \in [Classes -> SUBSET Classes] : \A c \in Classes : c \notin h[c]}

VARIABLES
    subclasses,  \* direct subclasses of every class
    pc,          \* "search", "cyclic", "built", "expanding" or "expanded"
    visit,       \* how far the search is with a class
    stack,       \* calls of visit, with the subclasses the loop has still to take
    cycle,       \* the cycle found
    rank,        \* history: the order in which visit was done with the classes
    class,       \* the class expanded
    policy,      \* and the label policy
    pending,     \* classes with_subclasses has still to look at
    seen         \* classes collected

searchVars == <<visit, stack, cycle, rank>>
expandVars == <<class, policy, pending, seen>>
vars == <<subclasses, pc, searchVars, expandVars>>

NoClass == 0

Init ==
    /\ subclasses \in Hierarchy
    /\ pc = "search"
    /\ visit = [c \in Classes |-> "new"]
    /\ stack = <<>>
    /\ cycle = <<>>
    /\ rank = [c \in Classes |-> 0]
    /\ class = NoClass
    /\ policy = "explicit"
    /\ pending = <<>>
    /\ seen = {}

-----------------------------------------------------------------------------
(* find_cycle and visit.                                                   *)

Call(c) == [class |-> c, todo |-> subclasses[c]]
Caller == stack[Len(stack)]

\* Callers below the current one, which goes on with its loop without c.
Proceed(c) == [stack EXCEPT ![Len(stack)].todo = @ \ {c}]

FirstTodo(c) == c \in Caller.todo /\ \A d \in Caller.todo : c <= d

\* find_cycle starts at every class that has subclasses, in IRI order.
Roots == {c \in Classes : subclasses[c] # {} /\ visit[c] = "new"}

StartAt ==
    /\ pc = "search"
    /\ stack = <<>>
    /\ \E c \in Roots :
          /\ \A d \in Roots : c <= d
          /\ visit' = [visit EXCEPT ![c] = "in progress"]
          /\ stack' = <<Call(c)>>
    /\ UNCHANGED <<subclasses, pc, cycle, rank, expandVars>>

Descend ==
    /\ pc = "search"
    /\ stack # <<>>
    /\ \E c \in Caller.todo :
          /\ FirstTodo(c)
          /\ visit[c] = "new"
          /\ visit' = [visit EXCEPT ![c] = "in progress"]
          /\ stack' = Append(Proceed(c), Call(c))
    /\ UNCHANGED <<subclasses, pc, cycle, rank, expandVars>>

\* Mutant: a class on the stack is taken for one that is done.
SkipVisited ==
    /\ pc = "search"
    /\ stack # <<>>
    /\ \E c \in Caller.todo :
          /\ FirstTodo(c)
          /\ visit[c] # "new"
          /\ stack' = Proceed(c)
    /\ UNCHANGED <<subclasses, pc, visit, cycle, rank, expandVars>>

SkipDone ==
    /\ pc = "search"
    /\ stack # <<>>
    /\ \E c \in Caller.todo :
          /\ FirstTodo(c)
          /\ visit[c] = "done"
          /\ stack' = Proceed(c)
    /\ UNCHANGED <<subclasses, pc, visit, cycle, rank, expandVars>>

\* The cycle is the stack from the class met again, and that class once more.
FindCycle ==
    /\ pc = "search"
    /\ stack # <<>>
    /\ \E c \in Caller.todo, i \in DOMAIN stack :
          /\ FirstTodo(c)
          /\ visit[c] = "in progress"
          /\ stack[i].class = c
          /\ \A j \in 1 .. i - 1 : stack[j].class # c
          /\ cycle' = [j \in 1 .. Len(stack) - i + 2 |->
                          IF j <= Len(stack) - i + 1 THEN stack[i + j - 1].class ELSE c]
    /\ pc' = "cyclic"
    /\ UNCHANGED <<subclasses, visit, stack, rank, expandVars>>

Leave ==
    /\ pc = "search"
    /\ stack # <<>>
    /\ Caller.todo = {}
    /\ stack' = SubSeq(stack, 1, Len(stack) - 1)
    /\ visit' = [visit EXCEPT ![Caller.class] = "done"]
    /\ rank' = [rank EXCEPT ![Caller.class] =
                    1 + Cardinality({c \in Classes : visit[c] = "done"})]
    /\ UNCHANGED <<subclasses, pc, cycle, expandVars>>

Built ==
    /\ pc = "search"
    /\ stack = <<>>
    /\ Roots = {}
    /\ pc' = "built"
    /\ UNCHANGED <<subclasses, searchVars, expandVars>>

-----------------------------------------------------------------------------
(* expand and with_subclasses.                                             *)

Expand ==
    /\ pc = "built"
    /\ class' \in Classes
    /\ policy' \in {"explicit", "inherited"}
    /\ pending' = IF policy' = "explicit" THEN <<class'>> ELSE <<>>
    /\ seen' = IF policy' = "explicit" THEN {} ELSE {class'}
    /\ pc' = "expanding"
    /\ UNCHANGED <<subclasses, searchVars>>

\* The classes of a set in IRI order, the order of its iterator: there is one such
\* sequence.
InOrder(S) == {q \in [1 .. Cardinality(S) -> S] :
                  /\ Range(q) = S
                  /\ \A i, j \in DOMAIN q : i < j => q[i] < q[j]}

\* Mutant: only the direct subclasses are collected.
CollectDirect ==
    /\ pc = "expanding"
    /\ pending # <<>>
    /\ LET current == pending[Len(pending)]
       IN  /\ pending' = SubSeq(pending, 1, Len(pending) - 1)
           /\ seen' = seen \cup {current} \cup subclasses[current]
    /\ UNCHANGED <<subclasses, pc, searchVars, class, policy>>

\* Mutant: the class looked at is not taken from pending.
CollectLast ==
    /\ pc = "expanding"
    /\ pending # <<>>
    /\ LET current == pending[Len(pending)]
       IN  /\ \E found \in InOrder(subclasses[current] \ seen) :
                 pending' = pending \o found
           /\ seen' = seen \cup {current}
    /\ UNCHANGED <<subclasses, pc, searchVars, class, policy>>

Collect ==
    /\ pc = "expanding"
    /\ pending # <<>>
    /\ LET current == pending[Len(pending)]
       IN  /\ \E found \in InOrder(subclasses[current] \ seen) :
                 pending' = SubSeq(pending, 1, Len(pending) - 1) \o found
           /\ seen' = seen \cup {current}
    /\ UNCHANGED <<subclasses, pc, searchVars, class, policy>>

Expanded ==
    /\ pc = "expanding"
    /\ pending = <<>>
    /\ pc' = "expanded"
    /\ UNCHANGED <<subclasses, searchVars, expandVars>>

-----------------------------------------------------------------------------
Next ==
    \/ StartAt \/ Descend \/ SkipDone \/ FindCycle \/ Leave \/ Built
    \/ Expand \/ Collect \/ Expanded

SafeSpec == Init /\ [][Next]_vars

\* One thread that keeps going.
Spec == SafeSpec /\ WF_vars(Next)

-----------------------------------------------------------------------------
(* Properties.                                                             *)

Calls == [class : Classes, todo : SUBSET Classes]

\* Every variable keeps its type.
TypeOK ==
    /\ subclasses \in Hierarchy
    /\ pc \in {"search", "cyclic", "built", "expanding", "expanded"}
    /\ visit \in [Classes -> {"new", "in progress", "done"}]
    /\ stack \in Seq(Calls)
    /\ cycle \in Seq(Classes)
    /\ rank \in [Classes -> Nat]
    /\ class \in Classes \cup {NoClass}
    /\ policy \in {"explicit", "inherited"}
    /\ pending \in Seq(Classes)
    /\ seen \in SUBSET Classes

\* What build reports as a cycle is one: each class is a direct superclass of the
\* next, and it ends where it began.  (The message looks every step up in the
\* statements read, and would panic at one that is not there.)
CycleIsReal ==
    pc = "cyclic" =>
        /\ Len(cycle) >= 3
        /\ cycle[1] = cycle[Len(cycle)]
        /\ \A i \in 1 .. Len(cycle) - 1 : cycle[i + 1] \in subclasses[cycle[i]]

\* What build accepts has no cycle: the classes can be ranked so that every
\* subclass is below its superclasses.
BuiltIsAcyclic ==
    pc \in {"built", "expanding", "expanded"} =>
        \E height \in [Classes -> 0 .. ClassCount] :
            \A c \in Classes : \A s \in subclasses[c] : height[s] < height[c]

\* build rejects the hierarchies with a cycle, with a cycle that is one, and no others.
RejectsExactlyCycles == CycleIsReal /\ BuiltIsAcyclic

ClosedUnderSubclasses(S) == \A c \in S : subclasses[c] \subseteq S

\* Under the explicit policy expand gives the least set of classes that has the
\* class and is closed under subclasses: a target misses no subclass, and catches no
\* class that is not one.
ExpansionIsClosure ==
    pc = "expanded" =>
        IF policy = "inherited" THEN seen = {class}
        ELSE /\ class \in seen
             /\ ClosedUnderSubclasses(seen)
             /\ \A S \in SUBSET Classes :
                   class \in S /\ ClosedUnderSubclasses(S) => seen \subseteq S

\* The search and the expansion end, on cyclic hierarchies too, and although a class
\* may wait in pending more than once.
BothSearchesEnd ==
    /\ <>(pc \in {"cyclic", "built"})
    /\ pc = "expanding" ~> pc = "expanded"
=============================================================================
