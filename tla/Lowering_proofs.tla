--------------------------- MODULE Lowering_proofs ---------------------------
(***************************************************************************)
(* Proofs about Inlining, for every number of shapes and all references    *)
(* between them: the search for recursive shapes finds every group of them,*)
(* once and by a shortest cycle, and lowering never compiles a rule whose  *)
(* expression would not be finite.  And about PathMapping, for paths of    *)
(* every shape and depth, every question asked of the resolver and every   *)
(* graph: what a rule queries for a path is what SHACL means by it.        *)
(***************************************************************************)
EXTENDS Inlining, PathMapping, FiniteSetTheorems, NaturalsInduction,
        WellFoundedInduction, TLAPS

-----------------------------------------------------------------------------
(* Numbers.                                                                *)

LEMMA LeastNat ==
    ASSUME NEW T, T \subseteq Nat, T # {}
    PROVE  \E m \in T : \A k \in T : m <= k
<1> DEFINE R == {ss \in Nat \X Nat : ss[1] < ss[2]}
<1>1. IsWellFoundedOn(R, Nat)
    BY NatLessThanWellFounded DEF OpToRel
<1> HIDE DEF R
<1>2. PICK m \in T : \A k \in T : ~ (<<k, m>> \in R)
    BY <1>1, WFMin
<1>3. \A k \in T : ~ (k < m)
    BY <1>2 DEF R
<1> QED
    BY <1>3

-----------------------------------------------------------------------------
(* Ways along references.                                                  *)

Reaches(v, w) == v = w \/ w \in ReachedFrom(v)

\* The shapes that reach v and are reached from it, v included.
Mutual(v) == {w \in Shape : Reaches(v, w) /\ Reaches(w, v)}

\* A group of mutually recursive shapes, or a shape by itself.
IsGroup(S) == S # {} /\ \A u \in S : Mutual(u) = S

LEMMA TargetsReached ==
    ASSUME NEW v PROVE Targets(v) \subseteq ReachedFrom(v)
BY DEF ReachedFrom, Targets

LEMMA ReachedStep ==
    ASSUME NEW v, NEW w \in ReachedFrom(v) PROVE Targets(w) \subseteq ReachedFrom(v)
BY DEF ReachedFrom, Targets, ClosedUnder

LEMMA ReachedWithin ==
    ASSUME NEW v, NEW S \in SUBSET Shape, Targets(v) \subseteq S, ClosedUnder(S)
    PROVE  ReachedFrom(v) \subseteq S
BY DEF ReachedFrom

LEMMA ReachedShapes == ASSUME NEW v PROVE ReachedFrom(v) \subseteq Shape
BY DEF ReachedFrom

LEMMA ReachedTransitive ==
    ASSUME NEW v, NEW w \in ReachedFrom(v), NEW x \in ReachedFrom(w)
    PROVE  x \in ReachedFrom(v)
<1>1. Targets(w) \subseteq ReachedFrom(v)
    BY ReachedStep
<1>2. ClosedUnder(ReachedFrom(v))
    BY ReachedStep DEF ClosedUnder
<1> QED
    BY <1>1, <1>2, ReachedWithin, ReachedShapes

LEMMA ReachesTransitive ==
    ASSUME NEW v, NEW w, NEW x, Reaches(v, w), Reaches(w, x) PROVE Reaches(v, x)
BY ReachedTransitive DEF Reaches

LEMMA ReachesTargets ==
    ASSUME NEW v, NEW w, NEW x \in Targets(w), Reaches(v, w) PROVE x \in ReachedFrom(v)
BY ReachedStep, TargetsReached DEF Reaches

\* What is reached from v is reached from a target of v.
LEMMA ReachedByTarget ==
    ASSUME NEW v, NEW w \in ReachedFrom(v) PROVE \E t \in Targets(v) : Reaches(t, w)
<1> DEFINE S == {x \in Shape : \E t \in Targets(v) : Reaches(t, x)}
<1>1. Targets(v) \subseteq S
    BY DEF Targets, Reaches
<1>2. ClosedUnder(S)
    <2> SUFFICES ASSUME NEW x \in S, NEW y \in Targets(x) PROVE y \in S
        BY DEF ClosedUnder
    <2>1. PICK t \in Targets(v) : Reaches(t, x)
        OBVIOUS
    <2>2. Reaches(t, y)
        BY <2>1, ReachesTargets DEF Reaches
    <2> QED
        BY <2>2 DEF Targets
<1> HIDE DEF S
<1>3. w \in S
    BY <1>1, <1>2, ReachedWithin DEF S
<1> QED
    BY <1>3 DEF S

\* A set that is closed holds what its members reach.
LEMMA ClosedReaches ==
    ASSUME NEW S \in SUBSET Shape, ClosedUnder(S), NEW v \in S, NEW w, Reaches(v, w)
    PROVE  w \in S
BY ReachedWithin DEF Reaches, ClosedUnder

LEMMA MutualSame ==
    ASSUME NEW v \in Shape, NEW w \in Mutual(v) PROVE Mutual(w) = Mutual(v)
BY ReachesTransitive DEF Mutual

LEMMA MutualSelf == ASSUME NEW v \in Shape PROVE v \in Mutual(v)
BY DEF Mutual, Reaches

-----------------------------------------------------------------------------
(* Tarjan's algorithm.  The calls are given as their shapes c and the      *)
(* references t they still have to take, n of them.                        *)

Typed(n, c, t, ord, lo, nx, on, done) ==
    /\ n \in Nat
    /\ c \in [1 .. n -> Shape]
    /\ t \in [1 .. n -> SUBSET Shape]
    /\ ord \in [Shape -> Nat]
    /\ lo \in [Shape -> Nat]
    /\ nx \in Nat \ {0}
    /\ on \in SUBSET Shape
    /\ done \in SUBSET Shape

\* Numbers are given in sequence, to the shapes on the stack or in components.
Numbered(ord, nx, on, done) ==
    /\ \A v \in Shape : ord[v] < nx
    /\ \A v, w \in Shape : ord[v] # 0 /\ ord[v] = ord[w] => v = w
    /\ \A v \in Shape : ord[v] # 0 <=> v \in on \cup done
    /\ on \cap done = {}

\* The calls are about shapes on the stack, every caller before whom it called.
CallsInOrder(n, c, t, ord, on) ==
    /\ \A i \in 1 .. n : c[i] \in on /\ t[i] \subseteq Targets(c[i])
    /\ \A i, j \in 1 .. n : i < j => ord[c[i]] < ord[c[j]]

\* A reference of a numbered shape leads to a numbered shape or is still to be taken.
Followed(n, c, t, ord) ==
    \A u \in Shape : \A x \in Targets(u) :
        ord[u] # 0 => ord[x] # 0 \/ \E i \in 1 .. n : c[i] = u /\ x \in t[i]

\* A call reaches the shapes put on the stack since it began.
ReachUp(n, c, ord, on) ==
    \A i \in 1 .. n : \A u \in on : ord[c[i]] < ord[u] => u \in ReachedFrom(c[i])

\* A shape on the stack is being visited, or reaches an earlier one that is.
ReachDown(n, c, ord, on) ==
    \A u \in on :
        \/ \E i \in 1 .. n : c[i] = u
        \/ \E i \in 1 .. n : ord[c[i]] < ord[u] /\ c[i] \in ReachedFrom(u)

\* The low number of a call is that of a shape on the stack that it reaches.
LowReached(n, c, ord, lo, on) ==
    \A i \in 1 .. n :
        /\ lo[c[i]] <= ord[c[i]]
        /\ \E w \in on : lo[c[i]] = ord[w] /\ Reaches(c[i], w)

\* The last call that began before a shape was put on the stack, or with it.
Owns(n, c, ord, i, u) ==
    /\ ord[c[i]] <= ord[u]
    /\ \A j \in 1 .. n : ord[c[j]] <= ord[u] => ord[c[j]] <= ord[c[i]]

\* The low number of a call is no more than the number of any shape on the stack that
\* the shapes it put there refer to.
LowLeast(n, c, t, ord, lo, on) ==
    \A i \in 1 .. n : \A u \in on : \A x \in Targets(u) \cap on :
        Owns(n, c, ord, i, u) /\ ~ (u = c[i] /\ x \in t[i]) => lo[c[i]] <= ord[x]

Tarjan(n, c, t, ord, lo, nx, on, done) ==
    /\ Typed(n, c, t, ord, lo, nx, on, done)
    /\ Numbered(ord, nx, on, done)
    /\ ClosedUnder(done)
    /\ CallsInOrder(n, c, t, ord, on)
    /\ Followed(n, c, t, ord)
    /\ ReachUp(n, c, ord, on)
    /\ ReachDown(n, c, ord, on)
    /\ LowReached(n, c, ord, lo, on)
    /\ LowLeast(n, c, t, ord, lo, on)

\* When no call is left every shape that has a number is in a component.
LEMMA NoCallsLeft ==
    ASSUME NEW c, NEW t, NEW ord, NEW lo, NEW nx, NEW on, NEW done,
           Tarjan(0, c, t, ord, lo, nx, on, done)
    PROVE  on = {}
BY DEF Tarjan, ReachDown

\* A step from these calls and numbers to those: shape w is entered, from no call or by
\* a reference of the last.
Entering(n, c, t, ord, lo, nx, on, w, m, d, e, ord2, lo2, nx2, on2) ==
    /\ w \in Shape /\ ord[w] = 0
    /\ n > 0 => w \in t[n]
    /\ m = n + 1
    /\ d \in [1 .. m -> Shape] /\ d[m] = w /\ \A i \in 1 .. n : d[i] = c[i]
    /\ e \in [1 .. m -> SUBSET Shape] /\ e[m] = Targets(w)
    /\ \A i \in 1 .. n : e[i] = IF i = n THEN t[i] \ {w} ELSE t[i]
    /\ ord2 = [ord EXCEPT ![w] = nx]
    /\ lo2 = [lo EXCEPT ![w] = nx]
    /\ nx2 = nx + 1
    /\ on2 = on \cup {w}

LEMMA EnterKeeps ==
    ASSUME NEW n, NEW c, NEW t, NEW ord, NEW lo, NEW nx, NEW on, NEW done,
           NEW m, NEW d, NEW e, NEW ord2, NEW lo2, NEW nx2, NEW on2, NEW w,
           Tarjan(n, c, t, ord, lo, nx, on, done),
           Entering(n, c, t, ord, lo, nx, on, w, m, d, e, ord2, lo2, nx2, on2)
    PROVE  Tarjan(m, d, e, ord2, lo2, nx2, on2, done)
<1> USE DEF Entering
<1>t. Typed(n, c, t, ord, lo, nx, on, done)
    BY DEF Tarjan
<1>n. Numbered(ord, nx, on, done)
    BY DEF Tarjan
<1>c. CallsInOrder(n, c, t, ord, on)
    BY DEF Tarjan
<1>k. n \in Nat /\ nx \in Nat /\ nx # 0 /\ \A v \in Shape : ord[v] \in Nat /\ lo[v] \in Nat
    BY <1>t DEF Typed
<1>m. m = n + 1
    BY <1>k
<1>l. \A v \in Shape : ord[v] < nx
    BY <1>n DEF Numbered
<1>o. w \notin on /\ w \notin done
    BY <1>n DEF Numbered
<1>1. \A v \in Shape : ord2[v] = IF v = w THEN nx ELSE ord[v]
    BY <1>t DEF Typed
<1>2. \A v \in Shape : lo2[v] = IF v = w THEN nx ELSE lo[v]
    BY <1>t DEF Typed
<1>3. \A i \in 1 .. n : d[i] = c[i] /\ d[i] # w /\ d[i] \in Shape
    BY <1>t, <1>c, <1>o DEF Typed, CallsInOrder
<1>4. d[m] = w /\ e[m] = Targets(w)
    BY <1>t DEF Typed
<1>5. \A i \in 1 .. n : e[i] = IF i = n THEN t[i] \ {w} ELSE t[i]
    BY <1>t DEF Typed
<1>6. ord2 \in [Shape -> Nat] /\ lo2 \in [Shape -> Nat] /\ on2 \in SUBSET Shape
    BY <1>t DEF Typed
<1>7. 1 .. m = (1 .. n) \cup {m} /\ m \notin 1 .. n /\ m \in 1 .. m
    BY <1>k, <1>m
<1>a. Typed(m, d, e, ord2, lo2, nx2, on2, done)
    BY <1>t, <1>6 DEF Typed, Targets
<1>b. Numbered(ord2, nx2, on2, done)
    <2>1. \A v \in Shape : ord2[v] < nx2
        BY <1>k, <1>l, <1>1
    <2>2. \A v \in Shape : ord[v] # nx
        BY <1>t, <1>n DEF Numbered, Typed
    <2>3. \A v, u \in Shape : ord2[v] # 0 /\ ord2[v] = ord2[u] => v = u
        BY <2>2, <1>n, <1>1 DEF Numbered
    <2>4. \A v \in Shape : ord2[v] # 0 <=> v \in on2 \cup done
        BY <1>t, <1>n, <1>1 DEF Numbered, Typed
    <2>5. on2 \cap done = {}
        BY <1>n, <1>o DEF Numbered
    <2> QED
        BY <2>1, <2>3, <2>4, <2>5 DEF Numbered
<1>c2. CallsInOrder(m, d, e, ord2, on2)
    <2>1. \A i \in 1 .. m : d[i] \in on2 /\ e[i] \subseteq Targets(d[i])
        <3>1. \A i \in 1 .. n : c[i] \in on /\ t[i] \subseteq Targets(c[i])
            BY <1>c DEF CallsInOrder
        <3>2. \A i \in 1 .. n : e[i] \subseteq t[i]
            BY <1>5
        <3> QED
            BY <3>1, <3>2, <1>3, <1>4, <1>7
    <2>2. ASSUME NEW i \in 1 .. m, NEW j \in 1 .. m, i < j
          PROVE  ord2[d[i]] < ord2[d[j]]
        <3>1. i \in 1 .. n
            BY <2>2, <1>t DEF Typed
        <3>2. CASE j \in 1 .. n
            BY <2>2, <3>1, <3>2, <1>c, <1>1, <1>3 DEF CallsInOrder
        <3>3. CASE j = m
            BY <3>1, <3>3, <1>l, <1>1, <1>3, <1>4
        <3> QED
            BY <3>2, <3>3, <1>7
    <2> QED
        BY <2>1, <2>2 DEF CallsInOrder
<1>d. Followed(m, d, e, ord2)
    <2> SUFFICES ASSUME NEW u \in Shape, NEW x \in Targets(u), ord2[u] # 0, ord2[x] = 0
                 PROVE  \E i \in 1 .. m : d[i] = u /\ x \in e[i]
        BY DEF Followed
    <2>1. x \in Shape /\ x # w /\ ord[x] = 0
        BY <1>1, <1>t DEF Targets, Typed
    <2>2. CASE u = w
        BY <2>2, <1>4, <1>7
    <2>3. CASE u # w
        <3>1. \E i \in 1 .. n : c[i] = u /\ x \in t[i]
            BY <2>1, <2>3, <1>1 DEF Tarjan, Followed
        <3> QED
            BY <3>1, <2>1, <1>3, <1>5, <1>7
    <2> QED
        BY <2>2, <2>3
<1>e. ReachUp(m, d, ord2, on2)
    <2> SUFFICES ASSUME NEW i \in 1 .. m, NEW u \in on2, ord2[d[i]] < ord2[u]
                 PROVE  u \in ReachedFrom(d[i])
        BY DEF ReachUp
    <2>u. u \in Shape
        BY <1>6
    <2>1. i \in 1 .. n
        BY <1>1, <1>4, <1>7, <1>n, <1>t, <2>u DEF Numbered, Typed
    <2>2. CASE u # w
        BY <2>1, <2>2, <2>u, <1>1, <1>3 DEF Tarjan, ReachUp
    <2>3. CASE u = w
        <3>1. n \in 1 .. n /\ w \in Targets(c[n])
            BY <2>1, <1>t, <1>c DEF Typed, CallsInOrder
        <3>2. Reaches(c[i], c[n])
            <4>1. CASE i = n
                BY <4>1 DEF Reaches
            <4>2. CASE i # n
                <5>1. ord[c[i]] < ord[c[n]] /\ c[n] \in on
                    BY <4>2, <2>1, <3>1, <1>c, <1>t DEF CallsInOrder, Typed
                <5> QED
                    BY <5>1, <2>1 DEF Tarjan, ReachUp, Reaches
            <4> QED
                BY <4>1, <4>2
        <3> QED
            BY <3>1, <3>2, <2>1, <2>3, <1>3, ReachesTargets
    <2> QED
        BY <2>2, <2>3
<1>f. ReachDown(m, d, ord2, on2)
    <2> SUFFICES ASSUME NEW u \in on2
                 PROVE  \/ \E i \in 1 .. m : d[i] = u
                        \/ \E i \in 1 .. m : ord2[d[i]] < ord2[u] /\ d[i] \in ReachedFrom(u)
        BY DEF ReachDown
    <2>1. CASE u = w
        BY <2>1, <1>4, <1>7
    <2>2. CASE u # w
        <3>1. u \in on /\ u \in Shape
            BY <2>2, <1>6
        <3>2. CASE \E i \in 1 .. n : c[i] = u
            BY <3>2, <1>3, <1>7
        <3>3. CASE \E i \in 1 .. n : ord[c[i]] < ord[u] /\ c[i] \in ReachedFrom(u)
            BY <3>1, <3>3, <2>2, <1>1, <1>3, <1>7
        <3> QED
            BY <3>1, <3>2, <3>3 DEF Tarjan, ReachDown
    <2> QED
        BY <2>1, <2>2
<1>g. LowReached(m, d, ord2, lo2, on2)
    <2> SUFFICES ASSUME NEW i \in 1 .. m
                 PROVE  /\ lo2[d[i]] <= ord2[d[i]]
                        /\ \E x \in on2 : lo2[d[i]] = ord2[x] /\ Reaches(d[i], x)
        BY DEF LowReached
    <2>1. CASE i = m
        BY <2>1, <1>1, <1>2, <1>4, <1>t DEF Reaches, Typed
    <2>2. CASE i \in 1 .. n
        <3>1. lo[c[i]] <= ord[c[i]]
            BY <2>2 DEF Tarjan, LowReached
        <3>2. PICK x \in on : lo[c[i]] = ord[x] /\ Reaches(c[i], x)
            BY <2>2 DEF Tarjan, LowReached
        <3>3. x \in Shape /\ x # w
            BY <1>6, <1>o
        <3> QED
            BY <2>2, <3>1, <3>2, <3>3, <1>1, <1>2, <1>3
    <2> QED
        BY <2>1, <2>2, <1>7
<1>h. LowLeast(m, d, e, ord2, lo2, on2)
    <2> SUFFICES ASSUME NEW i \in 1 .. m, NEW u \in on2, NEW x \in Targets(u) \cap on2,
                        Owns(m, d, ord2, i, u), ~ (u = d[i] /\ x \in e[i])
                 PROVE  lo2[d[i]] <= ord2[x]
        BY DEF LowLeast
    <2>s. u \in Shape /\ x \in Shape
        BY <1>6
    <2>1. u # w
        <3> SUFFICES ASSUME u = w PROVE FALSE
            OBVIOUS
        <3>1. ord2[u] = nx /\ ord2[d[m]] = nx
            BY <1>1, <1>4
        <3>2. ord2[d[m]] <= ord2[d[i]]
            <4>1. m \in 1 .. m /\ nx <= nx
                BY <1>t DEF Typed
            <4> QED
                BY <3>1, <4>1 DEF Owns
        <3>3. i = m
            <4>2. ASSUME i \in 1 .. n PROVE FALSE
                <5>1. d[i] \in Shape /\ ord2[d[i]] = ord[d[i]]
                    BY <4>2, <1>1, <1>3
                <5>2. ord[d[i]] < nx /\ ord[d[i]] \in Nat
                    BY <5>1, <1>k, <1>l
                <5> QED
                    BY <3>1, <3>2, <5>1, <5>2, <1>k
            <4> QED
                BY <4>2, <1>7
        <3> QED
            BY <3>3, <1>4
    <2>2. i \in 1 .. n
        BY <2>1, <2>s, <1>1, <1>4, <1>7, <1>n, <1>t DEF Owns, Numbered, Typed
    <2>3. Owns(n, c, ord, i, u)
        <3>1. \A j \in 1 .. n : j \in 1 .. m /\ ord2[d[j]] = ord[c[j]]
            BY <1>1, <1>3, <1>7
        <3>2. ord2[u] = ord[u]
            BY <2>1, <2>s, <1>1
        <3> HIDE DEF Entering
        <3> QED
            BY <3>1, <3>2, <2>2 DEF Owns
    <2>4. CASE x = w
        <3>1. lo[c[i]] <= ord[c[i]] /\ ord[c[i]] < nx
            BY <2>2, <1>n, <1>3 DEF Tarjan, LowReached, Numbered
        <3> QED
            BY <3>1, <2>2, <2>4, <1>1, <1>2, <1>3, <1>t DEF Typed
    <2>5. CASE x # w
        <3>1. ~ (u = c[i] /\ x \in t[i])
            BY <2>2, <2>5, <1>3, <1>5
        <3>2. u \in on /\ x \in on
            BY <2>1, <2>5
        <3>3. lo[c[i]] <= ord[x]
            BY <2>2, <2>3, <3>1, <3>2 DEF Tarjan, LowLeast
        <3> QED
            BY <3>3, <2>2, <2>5, <2>s, <1>1, <1>2, <1>3
    <2> QED
        BY <2>4, <2>5
<1> QED
    BY <1>a, <1>b, <1>c2, <1>d, <1>e, <1>f, <1>g, <1>h DEF Tarjan

\* The last call takes a reference to shape w, which has a number.
Meeting(n, c, t, ord, lo, on, w, t2, lo2) ==
    /\ n > 0 /\ w \in t[n] /\ ord[w] # 0
    /\ t2 \in [1 .. n -> SUBSET Shape]
    /\ \A i \in 1 .. n : t2[i] = IF i = n THEN t[i] \ {w} ELSE t[i]
    /\ w \in on => lo2 = [lo EXCEPT ![c[n]] = Smaller(@, ord[w])]
    /\ w \notin on => lo2 = lo

LEMMA MeetKeeps ==
    ASSUME NEW n, NEW c, NEW t, NEW ord, NEW lo, NEW nx, NEW on, NEW done,
           NEW w, NEW t2, NEW lo2,
           Tarjan(n, c, t, ord, lo, nx, on, done),
           Meeting(n, c, t, ord, lo, on, w, t2, lo2)
    PROVE  Tarjan(n, c, t2, ord, lo2, nx, on, done)
<1> USE DEF Meeting
<1>t. Typed(n, c, t, ord, lo, nx, on, done)
    BY DEF Tarjan
<1>n. Numbered(ord, nx, on, done)
    BY DEF Tarjan
<1>c. CallsInOrder(n, c, t, ord, on)
    BY DEF Tarjan
<1>k. n \in 1 .. n /\ \A v \in Shape : ord[v] \in Nat /\ lo[v] \in Nat
    BY <1>t DEF Typed
<1>1. \A i \in 1 .. n : t2[i] = IF i = n THEN t[n] \ {w} ELSE t[i]
    OBVIOUS
<1>2. w \in Shape /\ w \in Targets(c[n]) /\ c[n] \in Shape
    BY <1>t, <1>c, <1>k DEF Typed, CallsInOrder
<1>3. \A i \in 1 .. n : c[i] \in Shape /\ (c[i] = c[n] => i = n)
    <2>1. \A i \in 1 .. n : c[i] \in Shape
        BY <1>t DEF Typed
    <2>2. ASSUME NEW i \in 1 .. n, i # n PROVE c[i] # c[n]
        <3>1. i < n
            BY <2>2, <1>t DEF Typed
        <3>2. ord[c[i]] < ord[c[n]]
            BY <3>1, <1>c, <1>k DEF CallsInOrder
        <3> QED
            BY <3>2, <2>1, <1>2, <1>k
    <2> QED
        BY <2>1, <2>2
<1>4. \A v \in Shape : lo2[v] = IF v = c[n] /\ w \in on /\ ord[w] < lo[v] THEN ord[w] ELSE lo[v]
    <2>1. CASE w \in on
        <3>1. \A v \in Shape : lo2[v] = IF v = c[n] THEN Smaller(lo[v], ord[w]) ELSE lo[v]
            BY <2>1, <1>t DEF Typed
        <3> QED
            BY <2>1, <3>1, <1>2, <1>k DEF Smaller
    <2>2. CASE w \notin on
        BY <2>2
    <2> QED
        BY <2>1, <2>2
<1>5. \A v \in Shape : lo2[v] <= lo[v]
    BY <1>2, <1>4, <1>k
<1>6. lo2 \in [Shape -> Nat] /\ t2 \in [1 .. n -> SUBSET Shape]
    <2>1. CASE w \in on
        BY <2>1, <1>t, <1>2, <1>k DEF Typed, Smaller
    <2>2. CASE w \notin on
        BY <2>2, <1>t, <1>2, <1>k DEF Typed
    <2> QED
        BY <2>1, <2>2
<1>a. Typed(n, c, t2, ord, lo2, nx, on, done)
    BY <1>t, <1>6 DEF Typed
<1>b. CallsInOrder(n, c, t2, ord, on)
    BY <1>c, <1>1 DEF CallsInOrder
<1>d. Followed(n, c, t2, ord)
    BY <1>1 DEF Tarjan, Followed
<1>e. ReachUp(n, c, ord, on) /\ ReachDown(n, c, ord, on)
    BY DEF Tarjan
<1>g. LowReached(n, c, ord, lo2, on)
    <2> SUFFICES ASSUME NEW i \in 1 .. n
                 PROVE  /\ lo2[c[i]] <= ord[c[i]]
                        /\ \E x \in on : lo2[c[i]] = ord[x] /\ Reaches(c[i], x)
        BY DEF LowReached
    <2>1. lo[c[i]] <= ord[c[i]]
        BY DEF Tarjan, LowReached
    <2>2. lo2[c[i]] <= ord[c[i]]
        <3>1. lo2[c[i]] \in Nat /\ lo[c[i]] \in Nat /\ ord[c[i]] \in Nat /\ lo2[c[i]] <= lo[c[i]]
            BY <1>3, <1>5, <1>6, <1>k
        <3> QED
            BY <2>1, <3>1
    <2>3. CASE lo2[c[i]] = lo[c[i]]
        BY <2>2, <2>3 DEF Tarjan, LowReached
    <2>4. CASE lo2[c[i]] # lo[c[i]]
        <3>1. c[i] = c[n] /\ w \in on /\ lo2[c[i]] = ord[w]
            BY <2>4, <1>3, <1>4
        <3> QED
            BY <2>2, <3>1, <1>2, TargetsReached DEF Reaches
    <2> QED
        BY <2>3, <2>4
<1>h. LowLeast(n, c, t2, ord, lo2, on)
    <2> SUFFICES ASSUME NEW i \in 1 .. n, NEW u \in on, NEW x \in Targets(u) \cap on,
                        Owns(n, c, ord, i, u), ~ (u = c[i] /\ x \in t2[i])
                 PROVE  lo2[c[i]] <= ord[x]
        BY DEF LowLeast
    <2>s. lo2[c[i]] \in Nat /\ lo[c[i]] \in Nat /\ ord[x] \in Nat /\ lo2[c[i]] <= lo[c[i]]
        BY <1>3, <1>5, <1>6, <1>k DEF Targets
    <2>1. CASE ~ (u = c[i] /\ x \in t[i])
        <3>1. lo[c[i]] <= ord[x]
            BY <2>1 DEF Tarjan, LowLeast
        <3> QED
            BY <3>1, <2>s
    <2>2. CASE u = c[i] /\ x \in t[i]
        <3>1. i = n /\ x = w
            BY <2>2, <1>1
        <3>2. lo2[c[n]] <= ord[w]
            BY <3>1, <1>2, <1>4, <1>k
        <3> QED
            BY <3>1, <3>2
    <2> QED
        BY <2>1, <2>2
<1> QED
    BY <1>a, <1>b, <1>d, <1>e, <1>g, <1>h DEF Tarjan

\* The call before the last reaches the shape of the last.
LEMMA CallerReaches ==
    ASSUME NEW n, NEW c, NEW t, NEW ord, NEW lo, NEW nx, NEW on, NEW done,
           Tarjan(n, c, t, ord, lo, nx, on, done), NEW i \in 1 .. n, NEW j \in 1 .. n, i < j
    PROVE  c[j] \in ReachedFrom(c[i])
BY DEF Tarjan, CallsInOrder, ReachUp

\* The calls are about different shapes.
LEMMA CallsDiffer ==
    ASSUME NEW n, NEW c, NEW t, NEW ord, NEW lo, NEW nx, NEW on, NEW done,
           Tarjan(n, c, t, ord, lo, nx, on, done), NEW i \in 1 .. n, NEW j \in 1 .. n
    PROVE  /\ c[i] \in Shape /\ ord[c[i]] \in Nat /\ lo[c[i]] \in Nat
           /\ ord[c[i]] < ord[c[j]] => i < j
           /\ c[i] = c[j] => i = j
<1>1. n \in Nat /\ c[i] \in Shape /\ c[j] \in Shape
    BY DEF Tarjan, Typed
<1>2. ord[c[i]] \in Nat /\ ord[c[j]] \in Nat /\ lo[c[i]] \in Nat
    BY <1>1 DEF Tarjan, Typed
<1>3. i < j => ord[c[i]] < ord[c[j]]
    BY DEF Tarjan, CallsInOrder
<1>4. j < i => ord[c[j]] < ord[c[i]]
    BY DEF Tarjan, CallsInOrder
<1> QED
    BY <1>1, <1>2, <1>3, <1>4

\* Of the shapes on the stack, the last call owns those put there since it began, and
\* every other call owns what it owned without the last, if that is less recent.
LEMMA OwnersBeforeLast ==
    ASSUME NEW n, NEW c, NEW t, NEW ord, NEW lo, NEW nx, NEW on, NEW done,
           Tarjan(n, c, t, ord, lo, nx, on, done), n > 0,
           NEW m \in Nat, m < n, n <= m + 1,
           NEW u \in on, NEW i \in 1 .. m,
           NEW d, \A j \in 1 .. m : d[j] = c[j], Owns(m, d, ord, i, u)
    PROVE  /\ ord[u] < ord[c[n]] => Owns(n, c, ord, i, u)
           /\ ~ (ord[u] < ord[c[n]]) => i = m /\ Owns(n, c, ord, n, u)
<1>1. n \in 1 .. n /\ 1 .. m = (1 .. n) \ {n} /\ n \in Nat
    BY DEF Tarjan, Typed
<1>2. \A j \in 1 .. n : ord[c[j]] \in Nat /\ ord[c[j]] <= ord[c[n]]
    <2> TAKE j \in 1 .. n
    <2>1. j = n \/ j < n
        BY <1>1
    <2>2. ord[c[j]] \in Nat /\ ord[c[n]] \in Nat
        BY <1>1, CallsDiffer
    <2>3. j < n => ord[c[j]] < ord[c[n]]
        BY <1>1 DEF Tarjan, CallsInOrder
    <2> QED
        BY <2>1, <2>2, <2>3
<1>3. ord[u] \in Nat
    BY DEF Tarjan, Typed
<1>4. CASE ord[u] < ord[c[n]]
    BY <1>1, <1>2, <1>3, <1>4 DEF Owns
<1>5. CASE ~ (ord[u] < ord[c[n]])
    <2>1. Owns(n, c, ord, n, u)
        BY <1>1, <1>2, <1>3, <1>5 DEF Owns
    <2>2. ASSUME i # m PROVE FALSE
        <3>1. i < m /\ m \in 1 .. m /\ m \in 1 .. n /\ i \in 1 .. n
            BY <1>1, <2>2
        <3>2. ord[c[i]] < ord[c[m]]
            BY <3>1 DEF Tarjan, CallsInOrder
        <3>3. ord[c[m]] <= ord[u]
            BY <3>1, <1>1, <1>2, <1>3, <1>5
        <3>4. ord[c[m]] <= ord[c[i]]
            BY <3>1, <3>3 DEF Owns
        <3> QED
            BY <3>1, <3>2, <3>4, <1>2
    <2> QED
        BY <1>5, <2>1, <2>2
<1> QED
    BY <1>4, <1>5

\* The last call has taken its references and returns; its caller takes over what it
\* reached.
Returning(n, c, t, lo, m, d, e, lo2) ==
    /\ n > 0 /\ t[n] = {}
    /\ m \in Nat /\ m < n /\ n <= m + 1
    /\ d \in [1 .. m -> Shape] /\ \A i \in 1 .. m : d[i] = c[i]
    /\ e \in [1 .. m -> SUBSET Shape] /\ \A i \in 1 .. m : e[i] = t[i]
    /\ lo2 = IF n = 1 THEN lo ELSE [lo EXCEPT ![c[m]] = Smaller(@, lo[c[n]])]

\* A call that leaves its shape on the stack has a caller.
LEMMA LeaveKeeps ==
    ASSUME NEW n, NEW c, NEW t, NEW ord, NEW lo, NEW nx, NEW on, NEW done,
           NEW m, NEW d, NEW e, NEW lo2,
           Tarjan(n, c, t, ord, lo, nx, on, done),
           Returning(n, c, t, lo, m, d, e, lo2),
           lo[c[n]] # ord[c[n]]
    PROVE  n > 1 /\ Tarjan(m, d, e, ord, lo2, nx, on, done)
<1> USE DEF Returning
<1>t. Typed(n, c, t, ord, lo, nx, on, done)
    BY DEF Tarjan
<1>c. CallsInOrder(n, c, t, ord, on)
    BY DEF Tarjan
<1>k. n \in 1 .. n /\ n \in Nat /\ \A v \in Shape : ord[v] \in Nat /\ lo[v] \in Nat
    BY <1>t DEF Typed
<1>i. 1 .. m = (1 .. n) \ {n}
    BY <1>k
<1>s. c[n] \in Shape /\ on \subseteq Shape /\ c[n] \in on
    BY <1>t, <1>c, <1>k DEF Typed, CallsInOrder
<1>1. lo[c[n]] < ord[c[n]]
    BY <1>k, <1>s DEF Tarjan, LowReached
<1>2. PICK w \in on : lo[c[n]] = ord[w] /\ Reaches(c[n], w)
    BY <1>k DEF Tarjan, LowReached
<1>3. PICK p \in 1 .. m : ord[c[p]] <= ord[w] /\ Reaches(w, c[p])
    <2>1. CASE \E i \in 1 .. n : c[i] = w
        <3>1. PICK i \in 1 .. n : c[i] = w
            BY <2>1
        <3>2. i # n
            BY <3>1, <1>1, <1>2, <1>k, <1>s
        <3> QED
            BY <3>1, <3>2, <1>i, <1>k, <1>s DEF Reaches
    <2>2. CASE \E i \in 1 .. n : ord[c[i]] < ord[w] /\ c[i] \in ReachedFrom(w)
        <3>1. PICK i \in 1 .. n : ord[c[i]] < ord[w] /\ c[i] \in ReachedFrom(w)
            BY <2>2
        <3>2. ord[c[i]] \in Nat /\ ord[w] \in Nat /\ ord[c[n]] \in Nat
            BY <1>k, <1>s, <1>t DEF Typed
        <3>3. i # n
            BY <3>1, <3>2, <1>1, <1>2
        <3> QED
            BY <3>1, <3>2, <3>3, <1>i DEF Reaches
    <2> QED
        BY <2>1, <2>2 DEF Tarjan, ReachDown
<1>4. ord[c[p]] < ord[c[n]] /\ c[p] \in ReachedFrom(c[n])
    <2>1. p \in 1 .. n /\ p # n
        BY <1>i
    <2>2. c[p] # c[n]
        BY <2>1, <1>k, CallsDiffer
    <2>3. Reaches(c[n], c[p])
        BY <1>2, <1>3, ReachesTransitive
    <2>4. c[p] \in Shape
        BY <2>1, <1>t DEF Typed
    <2> QED
        BY <2>2, <2>3, <2>4, <1>1, <1>2, <1>3, <1>k, <1>s DEF Reaches
<1>5. n > 1 /\ m \in 1 .. n /\ m < n /\ m \in 1 .. m
    BY <1>3, <1>k
<1>6. \A i \in 1 .. m : d[i] = c[i] /\ e[i] = t[i] /\ c[i] \in Shape /\ i \in 1 .. n
    BY <1>t, <1>i DEF Typed
<1>7. c[m] \in Shape /\ c[n] \in ReachedFrom(c[m])
    BY <1>5, <1>6, <1>k, CallerReaches
<1>8. \A v \in Shape : lo2[v] = IF v = c[m] /\ lo[c[n]] < lo[v] THEN lo[c[n]] ELSE lo[v]
    <2>1. \A v \in Shape : lo2[v] = IF v = c[m] THEN Smaller(lo[v], lo[c[n]]) ELSE lo[v]
        BY <1>5, <1>t DEF Typed
    <2> QED
        BY <2>1, <1>7, <1>k, <1>s DEF Smaller
<1>9. lo2 \in [Shape -> Nat] /\ \A v \in Shape : lo2[v] \in Nat /\ lo2[v] <= lo[v]
    <2>1. \A v \in Shape : lo2[v] \in Nat /\ lo2[v] <= lo[v]
        BY <1>8, <1>k, <1>s
    <2>2. lo2 = [lo EXCEPT ![c[m]] = Smaller(@, lo[c[n]])]
        BY <1>5
    <2>3. lo2 = [v \in Shape |-> lo2[v]]
        BY <2>2, <1>t DEF Typed
    <2> QED
        BY <2>1, <2>3
<1>a. Typed(m, d, e, ord, lo2, nx, on, done)
    <2>1. m \in Nat /\ d \in [1 .. m -> Shape] /\ e \in [1 .. m -> SUBSET Shape]
        BY <1>t, <1>i, <1>5 DEF Typed
    <2> QED
        BY <2>1, <1>9, <1>t DEF Typed
<1>b. CallsInOrder(m, d, e, ord, on)
    BY <1>c, <1>6 DEF CallsInOrder
<1>d. Followed(m, d, e, ord)
    <2> SUFFICES ASSUME NEW u \in Shape, NEW x \in Targets(u), ord[u] # 0, ord[x] = 0
                 PROVE  \E i \in 1 .. m : d[i] = u /\ x \in e[i]
        BY DEF Followed
    <2>1. PICK i \in 1 .. n : c[i] = u /\ x \in t[i]
        BY DEF Tarjan, Followed
    <2>2. i # n
        BY <2>1
    <2> QED
        BY <2>1, <2>2, <1>i, <1>6
<1>e. ReachUp(m, d, ord, on)
    <2>1. ReachUp(n, c, ord, on)
        BY DEF Tarjan
    <2> QED
        BY <2>1, <1>6 DEF ReachUp
<1>f. ReachDown(m, d, ord, on)
    <2> SUFFICES ASSUME NEW u \in on
                 PROVE  \/ \E i \in 1 .. m : d[i] = u
                        \/ \E i \in 1 .. m : ord[d[i]] < ord[u] /\ d[i] \in ReachedFrom(u)
        BY DEF ReachDown
    <2>1. CASE u = c[n]
        BY <2>1, <1>4, <1>6
    <2>2. CASE u # c[n] /\ \E i \in 1 .. n : c[i] = u
        BY <2>2, <1>i, <1>6
    <2>3. CASE \E i \in 1 .. n : ord[c[i]] < ord[u] /\ c[i] \in ReachedFrom(u)
        <3>1. PICK i \in 1 .. n : ord[c[i]] < ord[u] /\ c[i] \in ReachedFrom(u)
            BY <2>3
        <3>2. CASE i = n
            <4>1. c[p] \in ReachedFrom(u)
                BY <3>1, <3>2, <1>4, ReachedTransitive
            <4>2. ord[c[p]] \in Nat /\ ord[c[n]] \in Nat /\ ord[u] \in Nat
                BY <1>6, <1>k, <1>s
            <4>3. ord[c[p]] < ord[u]
                BY <3>1, <3>2, <4>2, <1>4
            <4> QED
                BY <4>1, <4>3, <1>6
        <3>3. CASE i # n
            BY <3>1, <3>3, <1>i, <1>6
        <3> QED
            BY <3>2, <3>3
    <2> QED
        BY <2>1, <2>2, <2>3 DEF Tarjan, ReachDown
<1>g. LowReached(m, d, ord, lo2, on)
    <2> SUFFICES ASSUME NEW i \in 1 .. m
                 PROVE  /\ lo2[c[i]] <= ord[c[i]]
                        /\ \E x \in on : lo2[c[i]] = ord[x] /\ Reaches(c[i], x)
        BY <1>6 DEF LowReached
    <2>1. i \in 1 .. n /\ c[i] \in Shape
        BY <1>6
    <2>2. lo[c[i]] <= ord[c[i]]
        BY <2>1 DEF Tarjan, LowReached
    <2>3. lo2[c[i]] <= ord[c[i]]
        BY <2>1, <2>2, <1>9, <1>k
    <2>4. CASE lo2[c[i]] = lo[c[i]]
        BY <2>1, <2>3, <2>4 DEF Tarjan, LowReached
    <2>5. CASE lo2[c[i]] # lo[c[i]]
        <3>1. c[i] = c[m] /\ lo2[c[i]] = ord[w]
            BY <2>1, <2>5, <1>2, <1>8
        <3>2. Reaches(c[i], w)
            BY <3>1, <1>2, <1>7, ReachesTransitive DEF Reaches
        <3> QED
            BY <2>3, <3>1, <3>2
    <2> QED
        BY <2>4, <2>5
<1>h. LowLeast(m, d, e, ord, lo2, on)
    <2> SUFFICES ASSUME NEW i \in 1 .. m, NEW u \in on, NEW x \in Targets(u) \cap on,
                        Owns(m, d, ord, i, u), ~ (u = c[i] /\ x \in t[i])
                 PROVE  lo2[c[i]] <= ord[x]
        BY <1>6 DEF LowLeast
    <2>s. lo2[c[i]] \in Nat /\ lo[c[i]] \in Nat /\ ord[x] \in Nat /\ lo[c[n]] \in Nat
        BY <1>6, <1>9, <1>k, <1>s
    <2>o. /\ ord[u] < ord[c[n]] => Owns(n, c, ord, i, u)
          /\ ~ (ord[u] < ord[c[n]]) => i = m /\ Owns(n, c, ord, n, u)
        BY OwnersBeforeLast
    <2>1. CASE ord[u] < ord[c[n]]
        <3>1. lo[c[i]] <= ord[x]
            BY <2>1, <2>o, <1>6 DEF Tarjan, LowLeast
        <3> QED
            BY <3>1, <2>s, <1>6, <1>9
    <2>2. CASE ~ (ord[u] < ord[c[n]])
        <3>1. lo[c[n]] <= ord[x]
            BY <2>2, <2>o, <1>k DEF Tarjan, LowLeast
        <3>2. lo2[c[i]] <= lo[c[n]]
            BY <2>2, <2>o, <2>s, <1>7, <1>8
        <3> QED
            BY <3>1, <3>2, <2>s
    <2> QED
        BY <2>1, <2>2
<1> QED
    BY <1>5, <1>a, <1>b, <1>d, <1>e, <1>f, <1>g, <1>h DEF Tarjan

\* The shapes put on the stack since the last call began.
Component(n, c, ord, on) == {u \in on : ord[c[n]] <= ord[u]}

\* The shapes that a call put on the stack and leaves to itself are a component: they
\* are mutually recursive, and nothing they refer to is left on the stack.
LEMMA CompleteIsMutual ==
    ASSUME NEW n, NEW c, NEW t, NEW ord, NEW lo, NEW nx, NEW on, NEW done,
           Tarjan(n, c, t, ord, lo, nx, on, done),
           n > 0, t[n] = {}, lo[c[n]] = ord[c[n]]
    PROVE  /\ c[n] \in Component(n, c, ord, on)
           /\ ClosedUnder(done \cup Component(n, c, ord, on))
           /\ IsGroup(Component(n, c, ord, on))
<1> DEFINE S == Component(n, c, ord, on)
<1> USE DEF Component
<1>t. Typed(n, c, t, ord, lo, nx, on, done)
    BY DEF Tarjan
<1>n. Numbered(ord, nx, on, done)
    BY DEF Tarjan
<1>k. n \in 1 .. n /\ \A v \in Shape : ord[v] \in Nat
    BY <1>t DEF Typed
<1>s. c[n] \in on /\ on \subseteq Shape /\ done \subseteq Shape /\ S \subseteq on
    BY <1>t, <1>k DEF Tarjan, Typed, CallsInOrder
<1>1. c[n] \in S
    BY <1>k, <1>s
<1>2. \A i \in 1 .. n : c[i] \in Shape /\ ord[c[i]] <= ord[c[n]] /\ (ord[c[i]] = ord[c[n]] => i = n)
    <2> TAKE i \in 1 .. n
    <2>1. c[i] \in Shape /\ ord[c[i]] \in Nat /\ ord[c[n]] \in Nat
        BY <1>k, CallsDiffer
    <2>2. i = n \/ i < n
        BY <1>t DEF Typed
    <2>3. i < n => ord[c[i]] < ord[c[n]]
        BY <1>k DEF Tarjan, CallsInOrder
    <2> QED
        BY <2>1, <2>2, <2>3
<1>3. ASSUME NEW u \in S, NEW x \in Targets(u) PROVE x \in done \cup S
    <2>1. u \in on /\ u \in Shape /\ x \in Shape /\ ord[c[n]] <= ord[u]
        BY <1>s DEF Targets
    <2>2. ord[u] # 0
        BY <2>1, <1>n DEF Numbered
    <2>3. ASSUME NEW i \in 1 .. n, c[i] = u PROVE x \notin t[i]
        <3>1. ord[c[i]] = ord[c[n]]
            BY <2>1, <2>3, <1>2, <1>k, <1>s
        <3> QED
            BY <3>1, <1>2
    <2>4. ord[x] # 0
        BY <2>1, <2>2, <2>3 DEF Tarjan, Followed
    <2>5. CASE x \in on
        <3>1. Owns(n, c, ord, n, u)
            BY <2>1, <1>2 DEF Owns
        <3>2. ~ (u = c[n] /\ x \in t[n])
            OBVIOUS
        <3>3. lo[c[n]] <= ord[x]
            BY <2>1, <2>5, <3>1, <3>2, <1>k DEF Tarjan, LowLeast
        <3> QED
            BY <2>5, <3>3
    <2>6. CASE x \notin on
        BY <2>1, <2>4, <2>6, <1>n DEF Numbered
    <2> QED
        BY <2>5, <2>6
<1>4. ClosedUnder(done \cup S)
    <2>1. ClosedUnder(done)
        BY DEF Tarjan
    <2> QED
        BY <2>1, <1>3 DEF ClosedUnder
<1>5. ASSUME NEW u \in S PROVE Reaches(c[n], u) /\ Reaches(u, c[n])
    <2>1. u \in on /\ u \in Shape /\ ord[c[n]] <= ord[u]
        BY <1>s
    <2>2. CASE u = c[n]
        BY <2>2 DEF Reaches
    <2>3. CASE u # c[n]
        <3>1. ord[c[n]] < ord[u]
            BY <2>1, <2>3, <1>k, <1>n, <1>s DEF Numbered
        <3>2. Reaches(c[n], u)
            BY <2>1, <3>1, <1>k DEF Tarjan, ReachUp, Reaches
        <3>3. ~ \E i \in 1 .. n : c[i] = u
            BY <2>1, <3>1, <1>2, <1>k, <1>s
        <3>4. PICK i \in 1 .. n : c[i] \in ReachedFrom(u)
            BY <2>1, <3>3 DEF Tarjan, ReachDown
        <3>5. Reaches(c[i], c[n])
            <4>1. i = n \/ i < n
                BY <1>t DEF Typed
            <4> QED
                BY <4>1, <1>k, CallerReaches DEF Reaches
        <3> QED
            BY <3>2, <3>4, <3>5, ReachesTransitive DEF Reaches
    <2> QED
        BY <2>2, <2>3
<1>6. ASSUME NEW u \in S PROVE Mutual(u) = S
    <2>1. S \subseteq Mutual(u)
        BY <1>5, <1>s, ReachesTransitive DEF Mutual
    <2>2. ASSUME NEW w \in Mutual(u), w \notin S PROVE FALSE
        <3>1. w \in done \cup S
            BY <1>4, <1>s, ClosedReaches DEF Mutual
        <3>2. u \in done
            BY <3>1, <2>2, <1>s, ClosedReaches DEF Mutual, Tarjan
        <3> QED
            BY <3>2, <1>n, <1>s DEF Numbered
    <2> QED
        BY <2>1, <2>2
<1> QED
    BY <1>1, <1>4, <1>6 DEF IsGroup

LEMMA CompleteKeeps ==
    ASSUME NEW n, NEW c, NEW t, NEW ord, NEW lo, NEW nx, NEW on, NEW done,
           NEW m, NEW d, NEW e, NEW lo2, NEW S,
           Tarjan(n, c, t, ord, lo, nx, on, done),
           Returning(n, c, t, lo, m, d, e, lo2),
           lo[c[n]] = ord[c[n]],
           S = Component(n, c, ord, on)
    PROVE  Tarjan(m, d, e, ord, lo2, nx, on \ S, done \cup S)
<1>0. n > 0 /\ t[n] = {}
    BY DEF Returning
<1>4. ClosedUnder(done \cup S)
    BY <1>0, CompleteIsMutual
<1> USE DEF Returning, Component
<1> DEFINE on2 == on \ S
<1>t. Typed(n, c, t, ord, lo, nx, on, done)
    BY DEF Tarjan
<1>n. Numbered(ord, nx, on, done)
    BY DEF Tarjan
<1>c. CallsInOrder(n, c, t, ord, on)
    BY DEF Tarjan
<1>k. n \in 1 .. n /\ n \in Nat /\ \A v \in Shape : ord[v] \in Nat /\ lo[v] \in Nat
    BY <1>t DEF Typed
<1>i. 1 .. m = (1 .. n) \ {n} /\ \A i \in 1 .. m : i < n /\ i \in 1 .. n
    BY <1>k
<1>s. c[n] \in Shape /\ on \subseteq Shape /\ S \subseteq on /\ \A u \in on2 : u \in on
    BY <1>t, <1>k DEF Typed
<1>1. \A i \in 1 .. m : ord[c[i]] < ord[c[n]] /\ c[i] \in Shape
    BY <1>c, <1>i, <1>k, <1>t DEF CallsInOrder, Typed
<1>2. \A u \in Shape : u \in on2 <=> u \in on /\ ord[u] < ord[c[n]]
    BY <1>k, <1>s
<1>3. lo2 = lo
    <2>1. CASE n = 1
        BY <2>1
    <2>2. CASE n # 1
        <3>1. m \in 1 .. n /\ m \in 1 .. m
            BY <2>2, <1>k
        <3>2. lo[c[m]] <= ord[c[m]]
            BY <3>1 DEF Tarjan, LowReached
        <3>3. lo[c[m]] <= lo[c[n]]
            <4>1. ord[c[m]] < ord[c[n]] /\ c[m] \in Shape
                BY <3>1, <1>1
            <4> QED
                BY <3>2, <4>1, <1>k, <1>s
        <3>4. Smaller(lo[c[m]], lo[c[n]]) = lo[c[m]]
            <4>1. c[m] \in Shape
                BY <3>1, <1>1
            <4> QED
                BY <3>3, <4>1, <1>k, <1>s DEF Smaller
        <3> QED
            BY <2>2, <3>4, <1>t DEF Typed
    <2> QED
        BY <2>1, <2>2
<1> HIDE DEF on2
<1>a. Typed(m, d, e, ord, lo2, nx, on2, done \cup S)
    <2>1. m \in Nat
        BY <1>k
    <2> QED
        BY <2>1, <1>3, <1>t, <1>s DEF Typed, on2
<1>b. Numbered(ord, nx, on2, done \cup S)
    <2>1. on2 \cup (done \cup S) = on \cup done /\ on2 \cap (done \cup S) = {}
        BY <1>n, <1>s DEF Numbered, on2
    <2> QED
        BY <2>1, <1>n DEF Numbered
<1>d. CallsInOrder(m, d, e, ord, on2)
    <2>1. \A i \in 1 .. m : d[i] \in on2 /\ e[i] \subseteq Targets(d[i])
        BY <1>c, <1>i, <1>1, <1>2 DEF CallsInOrder
    <2>2. \A i, j \in 1 .. m : i < j => ord[d[i]] < ord[d[j]]
        BY <1>c, <1>i DEF CallsInOrder
    <2> QED
        BY <2>1, <2>2 DEF CallsInOrder
<1>e. Followed(m, d, e, ord)
    <2> SUFFICES ASSUME NEW u \in Shape, NEW x \in Targets(u), ord[u] # 0, ord[x] = 0
                 PROVE  \E i \in 1 .. m : d[i] = u /\ x \in e[i]
        BY DEF Followed
    <2>1. PICK i \in 1 .. n : c[i] = u /\ x \in t[i]
        BY DEF Tarjan, Followed
    <2>2. i # n
        BY <2>1
    <2> QED
        BY <2>1, <2>2, <1>i
<1>f. ReachUp(m, d, ord, on2)
    <2>1. ReachUp(n, c, ord, on)
        BY DEF Tarjan
    <2> QED
        BY <2>1, <1>i, <1>s DEF ReachUp
<1>g. ReachDown(m, d, ord, on2)
    <2> SUFFICES ASSUME NEW u \in on2
                 PROVE  \/ \E i \in 1 .. m : d[i] = u
                        \/ \E i \in 1 .. m : ord[d[i]] < ord[u] /\ d[i] \in ReachedFrom(u)
        BY DEF ReachDown
    <2>1. u \in on /\ u \in Shape /\ ord[u] < ord[c[n]]
        BY <1>2, <1>s
    <2>2. CASE \E i \in 1 .. n : c[i] = u
        <3>1. PICK i \in 1 .. n : c[i] = u
            BY <2>2
        <3>2. i # n
            BY <3>1, <2>1, <1>k
        <3> QED
            BY <3>1, <3>2, <1>i
    <2>3. CASE \E i \in 1 .. n : ord[c[i]] < ord[u] /\ c[i] \in ReachedFrom(u)
        <3>1. PICK i \in 1 .. n : ord[c[i]] < ord[u] /\ c[i] \in ReachedFrom(u)
            BY <2>3
        <3>2. i # n
            BY <3>1, <2>1, <1>k, <1>s
        <3> QED
            BY <3>1, <3>2, <1>i
    <2> QED
        BY <2>1, <2>2, <2>3 DEF Tarjan, ReachDown
<1>h. LowReached(m, d, ord, lo2, on2)
    <2> SUFFICES ASSUME NEW i \in 1 .. m
                 PROVE  /\ lo[c[i]] <= ord[c[i]]
                        /\ \E x \in on2 : lo[c[i]] = ord[x] /\ Reaches(c[i], x)
        BY <1>3 DEF LowReached
    <2>1. lo[c[i]] <= ord[c[i]]
        BY <1>i DEF Tarjan, LowReached
    <2>2. PICK x \in on : lo[c[i]] = ord[x] /\ Reaches(c[i], x)
        BY <1>i DEF Tarjan, LowReached
    <2>3. ord[x] < ord[c[n]]
        BY <2>1, <2>2, <1>1, <1>k, <1>s
    <2> QED
        BY <2>1, <2>2, <2>3, <1>2, <1>s
<1>j. LowLeast(m, d, e, ord, lo2, on2)
    <2> SUFFICES ASSUME NEW i \in 1 .. m, NEW u \in on2, NEW x \in Targets(u) \cap on2,
                        Owns(m, d, ord, i, u), ~ (u = c[i] /\ x \in t[i])
                 PROVE  lo[c[i]] <= ord[x]
        BY <1>3 DEF LowLeast
    <2>1. u \in on /\ x \in on /\ ord[u] < ord[c[n]]
        BY <1>2, <1>s
    <2>2. Owns(n, c, ord, i, u)
        BY <2>1, OwnersBeforeLast
    <2> QED
        BY <2>1, <2>2, <1>i DEF Tarjan, LowLeast
<1> QED
    BY <1>4, <1>a, <1>b, <1>d, <1>e, <1>f, <1>g, <1>h, <1>j DEF Tarjan, on2

-----------------------------------------------------------------------------
(* The state of the algorithm.                                             *)

CallShapes == [i \in 1 .. Len(calls) |-> calls[i].shape]
CallTodo == [i \in 1 .. Len(calls) |-> calls[i].todo]
Complete == UNION {components[i] : i \in DOMAIN components}

\* The stack holds the shapes marked, in the order of their numbers.
StackInOrder ==
    /\ stack \in Seq(Shape)
    /\ on_stack = {stack[i] : i \in 1 .. Len(stack)}
    /\ \A i, j \in 1 .. Len(stack) : i < j => order[stack[i]] < order[stack[j]]

\* Groups of mutually recursive shapes, every one once.
Groups(gs) ==
    /\ gs \in Seq(SUBSET Shape)
    /\ \A i \in 1 .. Len(gs) : IsGroup(gs[i])
    /\ \A i, j \in 1 .. Len(gs) : i # j => gs[i] \cap gs[j] = {}

TarjanInv ==
    /\ calls \in Seq([shape : Shape, todo : SUBSET Shape])
    /\ Tarjan(Len(calls), CallShapes, CallTodo, order, low, next, on_stack, Complete)
    /\ StackInOrder
    /\ Groups(components)

LEMMA GraphStays ==
    ASSUME UNCHANGED references
    PROVE  /\ \A v : Targets(v)' = Targets(v)
           /\ \A v : ReachedFrom(v)' = ReachedFrom(v)
           /\ \A v : Mutual(v)' = Mutual(v)
           /\ \A v, w : Reaches(v, w)' <=> Reaches(v, w)
           /\ \A S : ClosedUnder(S)' <=> ClosedUnder(S)
           /\ RecursiveShape' = RecursiveShape
<1>1. \A v : Targets(v)' = Targets(v)
    BY DEF Targets
<1>2. \A S : ClosedUnder(S)' <=> ClosedUnder(S)
    BY <1>1 DEF ClosedUnder
<1>3. \A v : ReachedFrom(v)' = ReachedFrom(v)
    BY <1>1, <1>2 DEF ReachedFrom
<1>4. \A v, w : Reaches(v, w)' <=> Reaches(v, w)
    BY <1>3 DEF Reaches
<1>5. \A v : Mutual(v)' = Mutual(v)
    BY <1>4 DEF Mutual
<1>6. RecursiveShape' = RecursiveShape
    BY <1>3 DEF RecursiveShape
<1> QED
    BY <1>1, <1>2, <1>3, <1>4, <1>5, <1>6

LEMMA TarjanStays ==
    ASSUME UNCHANGED references,
           NEW n, NEW c, NEW t, NEW ord, NEW lo, NEW nx, NEW on, NEW done,
           Tarjan(n, c, t, ord, lo, nx, on, done)
    PROVE  Tarjan(n, c, t, ord, lo, nx, on, done)'
<1>1. Typed(n, c, t, ord, lo, nx, on, done)' /\ Numbered(ord, nx, on, done)'
    BY DEF Tarjan, Typed, Numbered
<1>2. ClosedUnder(done)'
    BY GraphStays DEF Tarjan
<1>3. CallsInOrder(n, c, t, ord, on)' /\ Followed(n, c, t, ord)'
    BY GraphStays DEF Tarjan, CallsInOrder, Followed
<1>4. ReachUp(n, c, ord, on)' /\ ReachDown(n, c, ord, on)'
    BY GraphStays DEF Tarjan, ReachUp, ReachDown
<1>5. LowReached(n, c, ord, lo, on)'
    BY GraphStays DEF Tarjan, LowReached
<1>6. LowLeast(n, c, t, ord, lo, on)'
    BY GraphStays DEF Tarjan, LowLeast, Owns
<1> QED
    BY <1>1, <1>2, <1>3, <1>4, <1>5, <1>6 DEF Tarjan

LEMMA GroupsStay ==
    ASSUME UNCHANGED references, NEW gs, Groups(gs) PROVE Groups(gs)'
BY GraphStays DEF Groups, IsGroup

\* How the state of the algorithm gives the next one.
LEMMA TarjanNext ==
    ASSUME UNCHANGED references,
           NEW n, NEW c, NEW t, NEW ord, NEW lo, NEW nx, NEW on, NEW done,
           Tarjan(n, c, t, ord, lo, nx, on, done),
           n = Len(calls'), c = CallShapes', t = CallTodo', ord = order', lo = low',
           nx = next', on = on_stack', done = Complete'
    PROVE  Tarjan(Len(calls), CallShapes, CallTodo, order, low, next, on_stack, Complete)'
<1>1. Tarjan(n, c, t, ord, lo, nx, on, done)'
    BY TarjanStays
<1> QED
    BY <1>1

LEMMA InitTarjanInv == NothingFound => TarjanInv
<1> SUFFICES ASSUME NothingFound PROVE TarjanInv
    OBVIOUS
<1> USE DEF NothingFound
<1>1. Len(calls) = 0 /\ 1 .. 0 = {} /\ CallShapes \in [1 .. 0 -> Shape]
      /\ CallTodo \in [1 .. 0 -> SUBSET Shape]
    BY DEF CallShapes, CallTodo
<1>2. Complete = {}
    BY DEF Complete
<1>3. Typed(0, CallShapes, CallTodo, order, low, next, on_stack, Complete)
    BY <1>1, <1>2 DEF Typed
<1>4. Numbered(order, next, on_stack, Complete) /\ ClosedUnder(Complete)
    BY <1>2 DEF Numbered, ClosedUnder
<1>5. Tarjan(0, CallShapes, CallTodo, order, low, next, on_stack, Complete)
    BY <1>1, <1>3, <1>4
    DEF Tarjan, CallsInOrder, Followed, ReachUp, ReachDown, LowReached, LowLeast
<1>6. StackInOrder /\ Groups(components)
    BY DEF StackInOrder, Groups
<1> QED
    BY <1>1, <1>5, <1>6 DEF TarjanInv

CallRecord == [shape : Shape, todo : SUBSET Shape]

LEMMA CallsTyped ==
    ASSUME TarjanInv
    PROVE  /\ Len(calls) \in Nat
           /\ \A i \in 1 .. Len(calls) : calls[i] \in CallRecord
           /\ CallShapes \in [1 .. Len(calls) -> Shape]
           /\ CallTodo \in [1 .. Len(calls) -> SUBSET Shape]
           /\ \A i \in 1 .. Len(calls) : CallShapes[i] = calls[i].shape /\ CallTodo[i] = calls[i].todo
           /\ order \in [Shape -> Nat] /\ low \in [Shape -> Nat] /\ next \in Nat \ {0}
           /\ on_stack \in SUBSET Shape /\ Complete \in SUBSET Shape
<1>0. calls \in Seq(CallRecord)
    BY DEF TarjanInv, CallRecord
<1>1. Len(calls) \in Nat /\ \A i \in 1 .. Len(calls) : calls[i] \in CallRecord
    BY <1>0
<1>2. Typed(Len(calls), CallShapes, CallTodo, order, low, next, on_stack, Complete)
    BY DEF TarjanInv, Tarjan
<1> QED
    BY <1>1, <1>2 DEF Typed, CallShapes, CallTodo

\* The caller, when there is a call.
LEMMA CallerIsLast ==
    ASSUME TarjanInv, calls # <<>>
    PROVE  /\ Len(calls) > 0 /\ Len(calls) \in 1 .. Len(calls)
           /\ Caller.shape = CallShapes[Len(calls)] /\ Caller.todo = CallTodo[Len(calls)]
<1>1. Len(calls) \in Nat /\ Len(calls) # 0
    BY DEF TarjanInv
<1>2. Len(calls) \in 1 .. Len(calls)
    BY <1>1
<1>3. Caller = calls[Len(calls)]
    BY DEF Caller, Last
<1> QED
    BY <1>1, <1>2, <1>3, CallsTyped

LEMMA ProceedSays ==
    ASSUME TarjanInv, calls # <<>>, NEW w
    PROVE  /\ Proceed(w) \in Seq(CallRecord) /\ Len(Proceed(w)) = Len(calls)
           /\ \A i \in 1 .. Len(calls) :
                 /\ Proceed(w)[i].shape = CallShapes[i]
                 /\ Proceed(w)[i].todo = IF i = Len(calls) THEN CallTodo[i] \ {w} ELSE CallTodo[i]
<1>1. calls \in Seq(CallRecord) /\ Len(calls) \in 1 .. Len(calls) /\ Len(calls) \in Nat
    BY CallerIsLast DEF TarjanInv, CallRecord
<1>2. \A i \in 1 .. Len(calls) :
          calls[i] \in CallRecord /\ CallShapes[i] = calls[i].shape /\ CallTodo[i] = calls[i].todo
    BY CallsTyped
<1>r. PICK r \in CallRecord : r = calls[Len(calls)]
    BY <1>1, <1>2
<1>3. PICK q : q = [r EXCEPT !.todo = @ \ {w}]
    OBVIOUS
<1>4. /\ q \in CallRecord
      /\ q.shape = CallShapes[Len(calls)] /\ q.todo = CallTodo[Len(calls)] \ {w}
    <2>1. q \in CallRecord
        BY <1>3 DEF CallRecord
    <2>2. q.shape = r.shape
        BY <1>3 DEF CallRecord
    <2>3. q.todo = r.todo \ {w}
        BY <1>3 DEF CallRecord
    <2> QED
        BY <2>1, <2>2, <2>3, <1>r, <1>1, <1>2
<1>5. Proceed(w) = [calls EXCEPT ![Len(calls)] = q]
    BY <1>r, <1>3 DEF Proceed
<1>6. Proceed(w) \in Seq(CallRecord) /\ Len(Proceed(w)) = Len(calls)
    BY <1>1, <1>4, <1>5
<1>7. \A i \in 1 .. Len(calls) : Proceed(w)[i] = IF i = Len(calls) THEN q ELSE calls[i]
    BY <1>1, <1>5
<1>8. ASSUME NEW i \in 1 .. Len(calls)
      PROVE  /\ Proceed(w)[i].shape = CallShapes[i]
             /\ Proceed(w)[i].todo = IF i = Len(calls) THEN CallTodo[i] \ {w} ELSE CallTodo[i]
    <2>1. CASE i = Len(calls)
        BY <2>1, <1>4, <1>7
    <2>2. CASE i # Len(calls)
        BY <2>2, <1>2, <1>7
    <2> QED
        BY <2>1, <2>2
<1> QED
    BY <1>6, <1>8

\* Numbers of the shapes on the stack, when one is entered.
LEMMA EnterStack ==
    ASSUME TarjanInv, NEW w \in Shape, order[w] = 0, Enter(w)
    PROVE  StackInOrder'
<1>1. order \in [Shape -> Nat] /\ on_stack \in SUBSET Shape
    BY CallsTyped
<1>n. Numbered(order, next, on_stack, Complete)
    BY DEF TarjanInv, Tarjan
<1>2. stack \in Seq(Shape) /\ Len(stack) \in Nat /\ stack' = Append(stack, w)
    BY DEF TarjanInv, StackInOrder, Enter
<1>3. stack' \in Seq(Shape) /\ Len(stack') = Len(stack) + 1
      /\ (\A i \in 1 .. Len(stack) : stack'[i] = stack[i]) /\ stack'[Len(stack) + 1] = w
    BY <1>2
<1>4. 1 .. Len(stack) + 1 = (1 .. Len(stack)) \cup {Len(stack) + 1}
    BY <1>2
<1>5. on_stack' = {stack'[i] : i \in 1 .. Len(stack')}
    <2>1. on_stack' = {stack[i] : i \in 1 .. Len(stack)} \cup {w}
        BY DEF TarjanInv, StackInOrder, Enter
    <2> QED
        BY <2>1, <1>3, <1>4
<1>6. w \notin on_stack
    BY <1>n DEF Numbered
<1>7. \A i \in 1 .. Len(stack) : stack[i] \in on_stack /\ stack[i] \in Shape /\ stack[i] # w
    BY <1>1, <1>6 DEF TarjanInv, StackInOrder
<1>8. \A v \in Shape : order'[v] = IF v = w THEN next ELSE order[v]
    BY <1>1 DEF Enter
<1>9. ASSUME NEW i \in 1 .. Len(stack'), NEW j \in 1 .. Len(stack'), i < j
      PROVE  order'[stack'[i]] < order'[stack'[j]]
    <2>1. i \in 1 .. Len(stack)
        BY <1>2, <1>3, <1>9
    <2>2. order'[stack'[i]] = order[stack[i]]
        BY <2>1, <1>3, <1>7, <1>8
    <2>3. CASE j \in 1 .. Len(stack)
        <3>1. order'[stack'[j]] = order[stack[j]]
            BY <2>3, <1>3, <1>7, <1>8
        <3> QED
            BY <2>1, <2>2, <2>3, <3>1, <1>9 DEF TarjanInv, StackInOrder
    <2>4. CASE j = Len(stack) + 1
        <3>1. order'[stack'[j]] = next
            BY <2>4, <1>3, <1>8
        <3> QED
            BY <2>1, <2>2, <3>1, <1>7, <1>n DEF Numbered
    <2> QED
        BY <2>3, <2>4, <1>3, <1>4
<1> QED
    BY <1>3, <1>5, <1>9 DEF StackInOrder

LEMMA StepVisitNext == TarjanInv /\ VisitNext => TarjanInv'
<1> SUFFICES ASSUME TarjanInv, VisitNext PROVE TarjanInv'
    OBVIOUS
<1>1. PICK v \in Shape : order[v] = 0 /\ Enter(v) /\ calls' = <<Call(v)>>
    BY DEF VisitNext
<1>2. UNCHANGED references /\ components' = components /\ calls = <<>>
    BY DEF VisitNext
<1>3. Len(calls) = 0 /\ Complete' = Complete
    BY <1>2 DEF Complete
<1> DEFINE r == Call(v)
<1>4. r \in CallRecord /\ r.shape = v /\ r.todo = Targets(v)
    BY DEF Call, CallRecord, Targets
<1> HIDE DEF r
<1>5. calls' \in Seq(CallRecord) /\ Len(calls') = 1 /\ calls'[1] = r
    BY <1>1, <1>4 DEF r
<1>6. \A i \in 1 .. 1 : i = 1
    OBVIOUS
<1>7. CallShapes' \in [1 .. 1 -> Shape] /\ CallShapes'[1] = v
    BY <1>4, <1>5, <1>6 DEF CallShapes
<1>8. CallTodo' \in [1 .. 1 -> SUBSET Shape] /\ CallTodo'[1] = Targets(v)
    <2>1. Targets(v) \in SUBSET Shape
        BY DEF Targets
    <2>2. CallTodo' = [i \in 1 .. 1 |-> calls'[i].todo]
        BY <1>5 DEF CallTodo
    <2>3. calls'[1].todo = Targets(v)
        BY <1>4, <1>5
    <2> QED
        BY <1>6, <2>1, <2>2, <2>3
<1>9. Tarjan(0, CallShapes, CallTodo, order, low, next, on_stack, Complete)
    BY <1>3 DEF TarjanInv
<1>10. Tarjan(1, CallShapes', CallTodo', order', low', next', on_stack', Complete')
    <2>1. 1 = 0 + 1 /\ ~ (0 > 0) /\ 1 .. 0 = {}
        OBVIOUS
    <2>2. Entering(0, CallShapes, CallTodo, order, low, next, on_stack, v,
                   1, CallShapes', CallTodo', order', low', next', on_stack')
        BY <1>1, <1>7, <1>8, <2>1 DEF Entering, Enter
    <2> QED
        BY <1>3, <1>9, <2>2, EnterKeeps
<1>11. StackInOrder'
    BY <1>1, EnterStack
<1>12. Groups(components)'
    <2>1. PICK gs : gs = components
        OBVIOUS
    <2> QED
        BY <2>1, <1>2, GroupsStay DEF TarjanInv
<1>13. Tarjan(Len(calls), CallShapes, CallTodo, order, low, next, on_stack, Complete)'
    <2>1. Tarjan(Len(calls'), CallShapes', CallTodo', order', low', next', on_stack', Complete')
        BY <1>5, <1>10
    <2> QED
        BY <2>1, <1>2, TarjanNext
<1> QED
    BY <1>5, <1>11, <1>12, <1>13 DEF TarjanInv, CallRecord

LEMMA StepDescend == TarjanInv /\ Descend => TarjanInv'
<1> SUFFICES ASSUME TarjanInv, Descend PROVE TarjanInv'
    OBVIOUS
<1>1. PICK w \in Shape : /\ FirstTodo(w) /\ order[w] = 0 /\ Enter(w)
                         /\ calls' = Append(Proceed(w), Call(w))
    BY DEF Descend
<1>2. UNCHANGED references /\ components' = components /\ calls # <<>>
    BY DEF Descend
<1>3. Complete' = Complete
    BY <1>2 DEF Complete
<1>4. PICK n : n = Len(calls)
    OBVIOUS
<1>5. PICK m : m = n + 1
    OBVIOUS
<1>6. n \in Nat /\ n \in 1 .. n /\ n > 0 /\ n < m /\ m \in Nat /\ m <= n + 1
      /\ 1 .. m = (1 .. n) \cup {m} /\ m \notin 1 .. n /\ m \in 1 .. m
    BY <1>2, <1>4, <1>5, CallsTyped, CallerIsLast
<1> DEFINE r == Call(w)
<1>7. r \in CallRecord /\ r.shape = w /\ r.todo = Targets(w)
    BY DEF Call, CallRecord, Targets
<1> HIDE DEF r
<1>8. PICK cs : cs = Proceed(w)
    OBVIOUS
<1>9. /\ cs \in Seq(CallRecord) /\ Len(cs) = n
      /\ \A i \in 1 .. n : /\ cs[i].shape = CallShapes[i]
                           /\ cs[i].todo = IF i = n THEN CallTodo[i] \ {w} ELSE CallTodo[i]
    <2>1. /\ Proceed(w) \in Seq(CallRecord) /\ Len(Proceed(w)) = Len(calls)
          /\ \A i \in 1 .. Len(calls) :
                /\ Proceed(w)[i].shape = CallShapes[i]
                /\ Proceed(w)[i].todo = IF i = Len(calls) THEN CallTodo[i] \ {w} ELSE CallTodo[i]
        BY <1>2, ProceedSays
    <2> QED
        BY <2>1, <1>4, <1>8
<1>10. calls' = Append(cs, r)
    BY <1>1, <1>8 DEF r
<1>11. calls' \in Seq(CallRecord) /\ Len(calls') = m /\ calls'[m] = r
       /\ \A i \in 1 .. n : calls'[i] = cs[i]
    BY <1>5, <1>6, <1>7, <1>9, <1>10
<1>12. CallShapes' \in [1 .. m -> Shape] /\ CallShapes'[m] = w
       /\ \A i \in 1 .. n : CallShapes'[i] = CallShapes[i]
    <2>1. CallShapes' = [i \in 1 .. m |-> calls'[i].shape]
        BY <1>11 DEF CallShapes
    <2>2. \A i \in 1 .. n : CallShapes[i] \in Shape
        BY <1>4, CallsTyped
    <2>3. \A i \in 1 .. n : CallShapes'[i] = CallShapes[i]
        BY <2>1, <1>6, <1>9, <1>11
    <2>4. CallShapes'[m] = w
        BY <2>1, <1>6, <1>7, <1>11
    <2>5. \A i \in 1 .. m : calls'[i].shape \in Shape
        BY <2>1, <2>2, <2>3, <2>4, <1>6
    <2> QED
        BY <2>1, <2>3, <2>4, <2>5
<1>13. CallTodo' \in [1 .. m -> SUBSET Shape] /\ CallTodo'[m] = Targets(w)
       /\ \A i \in 1 .. n : CallTodo'[i] = IF i = n THEN CallTodo[i] \ {w} ELSE CallTodo[i]
    <2>1. CallTodo' = [i \in 1 .. m |-> calls'[i].todo]
        BY <1>11 DEF CallTodo
    <2>2. \A i \in 1 .. n : CallTodo[i] \in SUBSET Shape
        BY <1>4, CallsTyped
    <2>3. \A i \in 1 .. n : CallTodo'[i] = IF i = n THEN CallTodo[i] \ {w} ELSE CallTodo[i]
        BY <2>1, <1>6, <1>9, <1>11
    <2>4. CallTodo'[m] = Targets(w) /\ Targets(w) \in SUBSET Shape
        BY <2>1, <1>6, <1>7, <1>11 DEF Targets
    <2>5. \A i \in 1 .. m : calls'[i].todo \in SUBSET Shape
        BY <2>1, <2>2, <2>3, <2>4, <1>6
    <2> QED
        BY <2>1, <2>3, <2>4, <2>5
<1>14. Tarjan(m, CallShapes', CallTodo', order', low', next', on_stack', Complete')
    <2>1. Tarjan(n, CallShapes, CallTodo, order, low, next, on_stack, Complete)
        BY <1>4 DEF TarjanInv
    <2>2. w \in CallTodo[n]
        BY <1>1, <1>2, <1>4, CallerIsLast DEF FirstTodo
    <2>3. Entering(n, CallShapes, CallTodo, order, low, next, on_stack, w,
                   m, CallShapes', CallTodo', order', low', next', on_stack')
        BY <1>1, <1>5, <1>12, <1>13, <2>2 DEF Entering, Enter
    <2> QED
        BY <1>3, <2>1, <2>3, EnterKeeps
<1>15. Tarjan(Len(calls), CallShapes, CallTodo, order, low, next, on_stack, Complete)'
    <2>1. Tarjan(Len(calls'), CallShapes', CallTodo', order', low', next', on_stack', Complete')
        BY <1>11, <1>14
    <2> QED
        BY <2>1, <1>2, TarjanNext
<1>16. Groups(components)'
    <2>1. PICK gs : gs = components
        OBVIOUS
    <2> QED
        BY <2>1, <1>2, GroupsStay DEF TarjanInv
<1> QED
    BY <1>1, <1>11, <1>15, <1>16, EnterStack DEF TarjanInv, CallRecord

\* Meeting a shape that has a number, on the stack or not.
LEMMA MeetInv ==
    ASSUME TarjanInv, calls # <<>>, NEW w, FirstTodo(w), order[w] # 0, calls' = Proceed(w),
           w \in on_stack => low' = [low EXCEPT ![Caller.shape] = Smaller(@, order[w])],
           w \notin on_stack => low' = low,
           UNCHANGED <<references, order, next, stack, on_stack, components>>
    PROVE  TarjanInv'
<1>4. PICK n : n = Len(calls)
    OBVIOUS
<1>5. n \in 1 .. n /\ n > 0 /\ Caller.shape = CallShapes[n] /\ w \in CallTodo[n]
    BY <1>4, CallerIsLast DEF FirstTodo
<1>9. /\ calls' \in Seq(CallRecord) /\ Len(calls') = n
      /\ \A i \in 1 .. n : /\ calls'[i].shape = CallShapes[i]
                           /\ calls'[i].todo = IF i = n THEN CallTodo[i] \ {w} ELSE CallTodo[i]
    <2>1. /\ Proceed(w) \in Seq(CallRecord) /\ Len(Proceed(w)) = Len(calls)
          /\ \A i \in 1 .. Len(calls) :
                /\ Proceed(w)[i].shape = CallShapes[i]
                /\ Proceed(w)[i].todo = IF i = Len(calls) THEN CallTodo[i] \ {w} ELSE CallTodo[i]
        BY ProceedSays
    <2> QED
        BY <2>1, <1>4
<1>10. CallShapes' = CallShapes
    <2>1. CallShapes' = [i \in 1 .. n |-> calls'[i].shape]
        BY <1>9 DEF CallShapes
    <2> QED
        BY <2>1, <1>4, <1>9, CallsTyped
<1>11. CallTodo' \in [1 .. n -> SUBSET Shape]
       /\ \A i \in 1 .. n : CallTodo'[i] = IF i = n THEN CallTodo[i] \ {w} ELSE CallTodo[i]
    <2>1. CallTodo' = [i \in 1 .. n |-> calls'[i].todo]
        BY <1>9 DEF CallTodo
    <2>2. \A i \in 1 .. n : CallTodo[i] \in SUBSET Shape
        BY <1>4, CallsTyped
    <2>3. \A i \in 1 .. n : CallTodo'[i] = IF i = n THEN CallTodo[i] \ {w} ELSE CallTodo[i]
        BY <2>1, <1>9
    <2>4. \A i \in 1 .. n : calls'[i].todo \in SUBSET Shape
        BY <2>1, <2>2, <2>3
    <2> QED
        BY <2>1, <2>3, <2>4
<1>12. Tarjan(n, CallShapes, CallTodo', order, low', next, on_stack, Complete)
    <2>1. Tarjan(n, CallShapes, CallTodo, order, low, next, on_stack, Complete)
        BY <1>4 DEF TarjanInv
    <2>2. w \in on_stack => low' = [low EXCEPT ![CallShapes[n]] = Smaller(@, order[w])]
        BY <1>5
    <2>3. Meeting(n, CallShapes, CallTodo, order, low, on_stack, w, CallTodo', low')
        BY <1>5, <1>11, <2>2 DEF Meeting
    <2> QED
        BY <2>1, <2>3, MeetKeeps
<1>13. Complete' = Complete
    BY DEF Complete
<1>14. Tarjan(Len(calls), CallShapes, CallTodo, order, low, next, on_stack, Complete)'
    <2>1. Tarjan(Len(calls'), CallShapes', CallTodo', order', low', next', on_stack', Complete')
        BY <1>9, <1>10, <1>12, <1>13
    <2> QED
        BY <2>1, TarjanNext
<1>15. StackInOrder'
    BY DEF TarjanInv, StackInOrder
<1>16. Groups(components)'
    <2>1. PICK gs : gs = components
        OBVIOUS
    <2> QED
        BY <2>1, GroupsStay DEF TarjanInv
<1> QED
    BY <1>9, <1>14, <1>15, <1>16 DEF TarjanInv, CallRecord

LEMMA StepMeetOnStack == TarjanInv /\ MeetOnStack => TarjanInv'
<1> SUFFICES ASSUME TarjanInv, MeetOnStack PROVE TarjanInv'
    OBVIOUS
<1>1. PICK w \in on_stack : /\ FirstTodo(w)
                            /\ low' = [low EXCEPT ![Caller.shape] = Smaller(@, order[w])]
                            /\ calls' = Proceed(w)
    BY DEF MeetOnStack
<1>2. order[w] # 0
    BY CallsTyped DEF TarjanInv, Tarjan, Numbered
<1>3. calls # <<>> /\ UNCHANGED <<references, order, next, stack, on_stack, components>>
    BY DEF MeetOnStack
<1> QED
    BY <1>1, <1>2, <1>3, MeetInv

LEMMA StepMeetComplete == TarjanInv /\ MeetComplete => TarjanInv'
<1> SUFFICES ASSUME TarjanInv, MeetComplete PROVE TarjanInv'
    OBVIOUS
<1>1. PICK w \in Shape : FirstTodo(w) /\ order[w] # 0 /\ w \notin on_stack /\ calls' = Proceed(w)
    BY DEF MeetComplete
<1>2. calls # <<>> /\ low' = low
      /\ UNCHANGED <<references, order, next, stack, on_stack, components>>
    BY DEF MeetComplete
<1> QED
    BY <1>1, <1>2, MeetInv

LEMMA ReturnSays ==
    ASSUME TarjanInv, calls # <<>>, Caller.todo = {}, Return,
           NEW n, n = Len(calls), NEW m, m = n - 1
    PROVE  /\ calls' \in Seq(CallRecord) /\ Len(calls') = m
           /\ Returning(n, CallShapes, CallTodo, low, m, CallShapes', CallTodo', low')
<1>1. n \in Nat /\ n \in 1 .. n /\ n > 0 /\ CallTodo[n] = {} /\ calls \in Seq(CallRecord)
    BY CallerIsLast, CallsTyped DEF TarjanInv, CallRecord
<1>2. m \in Nat /\ m < n /\ n <= m + 1 /\ \A i \in 1 .. m : i \in 1 .. n
    BY <1>1
<1>3. calls' = SubSeq(calls, 1, n - 1)
    BY DEF Return, Front
<1>4. calls' \in Seq(CallRecord) /\ Len(calls') = m /\ \A i \in 1 .. m : calls'[i] = calls[i]
    BY <1>1, <1>2, <1>3
<1>5. \A i \in 1 .. n : /\ CallShapes[i] \in Shape /\ CallTodo[i] \in SUBSET Shape
                        /\ CallShapes[i] = calls[i].shape /\ CallTodo[i] = calls[i].todo
    BY CallsTyped
<1>6. CallShapes' \in [1 .. m -> Shape] /\ \A i \in 1 .. m : CallShapes'[i] = CallShapes[i]
    <2>1. CallShapes' = [i \in 1 .. m |-> calls'[i].shape]
        BY <1>4 DEF CallShapes
    <2>2. \A i \in 1 .. m : calls'[i].shape = CallShapes[i]
        BY <1>2, <1>4, <1>5
    <2>3. \A i \in 1 .. m : CallShapes[i] \in Shape
        BY <1>2, <1>5
    <2> QED
        BY <2>1, <2>2, <2>3
<1>7. CallTodo' \in [1 .. m -> SUBSET Shape] /\ \A i \in 1 .. m : CallTodo'[i] = CallTodo[i]
    <2>1. CallTodo' = [i \in 1 .. m |-> calls'[i].todo]
        BY <1>4 DEF CallTodo
    <2>2. \A i \in 1 .. m : calls'[i].todo = CallTodo[i]
        BY <1>2, <1>4, <1>5
    <2>3. \A i \in 1 .. m : CallTodo[i] \in SUBSET Shape
        BY <1>2, <1>5
    <2> QED
        BY <2>1, <2>2, <2>3
<1>8. low' = IF n = 1 THEN low
             ELSE [low EXCEPT ![CallShapes[m]] = Smaller(@, low[CallShapes[n]])]
    <2>1. CASE n = 1
        BY <2>1 DEF Return
    <2>2. CASE n # 1
        <3>1. m \in 1 .. n
            BY <2>2, <1>1
        <3>2. calls[n - 1].shape = CallShapes[m] /\ Caller.shape = CallShapes[n]
            BY <3>1, <1>5, CallerIsLast
        <3> QED
            BY <2>2, <3>2 DEF Return
    <2> QED
        BY <2>1, <2>2
<1> QED
    BY <1>1, <1>2, <1>4, <1>6, <1>7, <1>8 DEF Returning

LEMMA StepLeaveOnStack == TarjanInv /\ LeaveOnStack => TarjanInv'
<1> SUFFICES ASSUME TarjanInv, LeaveOnStack PROVE TarjanInv'
    OBVIOUS
<1>1. /\ calls # <<>> /\ Caller.todo = {} /\ low[Caller.shape] # order[Caller.shape] /\ Return
      /\ UNCHANGED <<references, order, next, stack, on_stack, components>>
    BY DEF LeaveOnStack
<1>2. PICK n : n = Len(calls)
    OBVIOUS
<1>3. PICK m : m = n - 1
    OBVIOUS
<1>4. /\ calls' \in Seq(CallRecord) /\ Len(calls') = m
      /\ Returning(n, CallShapes, CallTodo, low, m, CallShapes', CallTodo', low')
    BY <1>1, <1>2, <1>3, ReturnSays
<1>5. low[CallShapes[n]] # order[CallShapes[n]]
    BY <1>1, <1>2, CallerIsLast
<1>6. Tarjan(n, CallShapes, CallTodo, order, low, next, on_stack, Complete)
    BY <1>2 DEF TarjanInv
<1>7. Tarjan(m, CallShapes', CallTodo', order, low', next, on_stack, Complete)
    BY <1>4, <1>5, <1>6, LeaveKeeps
<1>8. Complete' = Complete
    BY <1>1 DEF Complete
<1>9. Tarjan(Len(calls), CallShapes, CallTodo, order, low, next, on_stack, Complete)'
    <2>1. Tarjan(Len(calls'), CallShapes', CallTodo', order', low', next', on_stack', Complete')
        BY <1>1, <1>4, <1>7, <1>8
    <2> QED
        BY <2>1, <1>1, TarjanNext
<1>10. StackInOrder'
    BY <1>1 DEF TarjanInv, StackInOrder
<1>11. Groups(components)'
    <2>1. PICK gs : gs = components
        OBVIOUS
    <2> QED
        BY <2>1, <1>1, GroupsStay DEF TarjanInv
<1> QED
    BY <1>4, <1>9, <1>10, <1>11 DEF TarjanInv, CallRecord

\* The stack from the shape of the last call up.
LEMMA StackSplits ==
    ASSUME StackInOrder, order \in [Shape -> Nat], NEW i \in 1 .. Len(stack),
           NEW S \in SUBSET on_stack,
           \A u \in on_stack : u \in S <=> order[stack[i]] <= order[u]
    PROVE  /\ S = {stack[j] : j \in i .. Len(stack)}
           /\ on_stack \ S = {stack[j] : j \in 1 .. i - 1}
<1>1. Len(stack) \in Nat /\ i \in Nat /\ \A j \in 1 .. Len(stack) : stack[j] \in Shape
    BY DEF StackInOrder
<1>2. \A j \in 1 .. Len(stack) : stack[j] \in on_stack
    BY DEF StackInOrder
<1>3. ASSUME NEW j \in 1 .. Len(stack) PROVE stack[j] \in S <=> i <= j
    <2>1. order[stack[j]] \in Nat /\ order[stack[i]] \in Nat
        BY <1>1
    <2>2. j \in Nat
        BY <1>1
    <2>3. CASE i < j
        <3>1. order[stack[i]] < order[stack[j]]
            BY <2>3 DEF StackInOrder
        <3> QED
            BY <2>1, <2>2, <2>3, <3>1, <1>1, <1>2
    <2>4. CASE i = j
        BY <2>1, <2>2, <2>4, <1>1, <1>2
    <2>5. CASE j < i
        <3>1. order[stack[j]] < order[stack[i]]
            BY <2>5 DEF StackInOrder
        <3> QED
            BY <3>1, <2>1, <2>2, <2>5, <1>1
    <2> QED
        BY <2>2, <2>3, <2>4, <2>5, <1>1
<1>4. ASSUME NEW u \in on_stack PROVE \E j \in 1 .. Len(stack) : u = stack[j]
    BY DEF StackInOrder
<1>5. S \subseteq on_stack
    OBVIOUS
<1>6. i .. Len(stack) = {j \in 1 .. Len(stack) : i <= j}
      /\ 1 .. i - 1 = {j \in 1 .. Len(stack) : ~ (i <= j)}
    BY <1>1
<1>7. S = {stack[j] : j \in i .. Len(stack)}
    <2>1. \A j \in i .. Len(stack) : stack[j] \in S
        BY <1>3, <1>6
    <2>2. \A u \in S : \E j \in i .. Len(stack) : u = stack[j]
        BY <1>3, <1>4, <1>5, <1>6
    <2> QED
        BY <2>1, <2>2
<1>8. on_stack \ S = {stack[j] : j \in 1 .. i - 1}
    <2>1. \A j \in 1 .. i - 1 : stack[j] \in on_stack \ S
        BY <1>2, <1>3, <1>6
    <2>2. \A u \in on_stack \ S : \E j \in 1 .. i - 1 : u = stack[j]
        BY <1>3, <1>4, <1>6
    <2> QED
        BY <2>1, <2>2
<1> QED
    BY <1>7, <1>8

\* A group more, apart from the others.
LEMMA GroupsAppend ==
    ASSUME NEW gs, Groups(gs), NEW S \in SUBSET Shape, IsGroup(S),
           \A i \in 1 .. Len(gs) : gs[i] \cap S = {}
    PROVE  Groups(Append(gs, S))
<1> DEFINE hs == Append(gs, S)
<1>1. gs \in Seq(SUBSET Shape) /\ Len(gs) \in Nat
    BY DEF Groups
<1>2. hs \in Seq(SUBSET Shape) /\ Len(hs) = Len(gs) + 1 /\ hs[Len(gs) + 1] = S
      /\ \A i \in 1 .. Len(gs) : hs[i] = gs[i]
    BY <1>1
<1>3. 1 .. Len(hs) = (1 .. Len(gs)) \cup {Len(gs) + 1}
    BY <1>1, <1>2
<1> HIDE DEF hs
<1>4. \A i \in 1 .. Len(hs) : IsGroup(hs[i])
    BY <1>2, <1>3 DEF Groups
<1>5. \A i, j \in 1 .. Len(hs) : i # j => hs[i] \cap hs[j] = {}
    BY <1>2, <1>3 DEF Groups
<1>6. Groups(hs)
    BY <1>2, <1>4, <1>5 DEF Groups
<1> QED
    BY <1>6 DEF hs

LEMMA StepCompleteComponent == TarjanInv /\ CompleteComponent => TarjanInv'
<1> SUFFICES ASSUME TarjanInv, CompleteComponent PROVE TarjanInv'
    OBVIOUS
<1>1. /\ calls # <<>> /\ Caller.todo = {} /\ low[Caller.shape] = order[Caller.shape] /\ Return
      /\ UNCHANGED <<references, order, next>>
    BY DEF CompleteComponent
<1>2. PICK n : n = Len(calls)
    OBVIOUS
<1>3. PICK m : m = n - 1
    OBVIOUS
<1>4. /\ calls' \in Seq(CallRecord) /\ Len(calls') = m
      /\ Returning(n, CallShapes, CallTodo, low, m, CallShapes', CallTodo', low')
    BY <1>1, <1>2, <1>3, ReturnSays
<1>5. /\ low[CallShapes[n]] = order[CallShapes[n]] /\ Caller.shape = CallShapes[n]
      /\ n > 0 /\ CallTodo[n] = {}
    BY <1>1, <1>2, CallerIsLast
<1>6. Tarjan(n, CallShapes, CallTodo, order, low, next, on_stack, Complete)
    BY <1>2 DEF TarjanInv
<1>7. PICK i \in 1 .. Len(stack) :
          /\ stack[i] = CallShapes[n]
          /\ components' = Append(components, {stack[j] : j \in i .. Len(stack)})
          /\ on_stack' = on_stack \ {stack[j] : j \in i .. Len(stack)}
          /\ stack' = SubSeq(stack, 1, i - 1)
    <2>1. DOMAIN stack = 1 .. Len(stack)
        BY DEF TarjanInv, StackInOrder
    <2> QED
        BY <2>1, <1>5 DEF CompleteComponent
<1>8. PICK S : S = Component(n, CallShapes, order, on_stack)
    OBVIOUS
<1>9. /\ S = {stack[j] : j \in i .. Len(stack)}
      /\ on_stack \ S = {stack[j] : j \in 1 .. i - 1}
    <2>1. S = {u \in on_stack : order[CallShapes[n]] <= order[u]}
        BY <1>8 DEF Component
    <2>3. S \in SUBSET on_stack /\ \A u \in on_stack : u \in S <=> order[stack[i]] <= order[u]
        BY <1>7, <2>1
    <2>2. StackInOrder /\ order \in [Shape -> Nat]
        BY CallsTyped DEF TarjanInv
    <2> QED
        BY <2>2, <2>3, StackSplits
<1>10. components' = Append(components, S) /\ on_stack' = on_stack \ S
    BY <1>7, <1>9
<1>11. IsGroup(S)
    BY <1>5, <1>6, <1>8, CompleteIsMutual
<1>12. S \in SUBSET Shape /\ S \subseteq on_stack
    BY <1>8, CallsTyped DEF Component
<1>13. components \in Seq(SUBSET Shape) /\ Len(components) \in Nat
    BY DEF TarjanInv, Groups
<1>14. Complete' = Complete \cup S
    <2>1. Len(components') = Len(components) + 1 /\ components'[Len(components) + 1] = S
          /\ \A j \in 1 .. Len(components) : components'[j] = components[j]
        BY <1>10, <1>12, <1>13
    <2>2. DOMAIN components' = (1 .. Len(components)) \cup {Len(components) + 1}
        BY <1>10, <1>12, <1>13
    <2>3. DOMAIN components = 1 .. Len(components)
        BY <1>13
    <2> QED
        BY <2>1, <2>2, <2>3 DEF Complete
<1>15. Tarjan(Len(calls), CallShapes, CallTodo, order, low, next, on_stack, Complete)'
    <2>1. Tarjan(m, CallShapes', CallTodo', order, low', next, on_stack \ S, Complete \cup S)
        BY <1>4, <1>5, <1>6, <1>8, CompleteKeeps
    <2>2. Tarjan(Len(calls'), CallShapes', CallTodo', order', low', next', on_stack', Complete')
        BY <2>1, <1>1, <1>4, <1>10, <1>14
    <2> QED
        BY <2>2, <1>1, TarjanNext
<1>16. StackInOrder'
    <2>1. stack \in Seq(Shape) /\ Len(stack) \in Nat
        BY DEF TarjanInv, StackInOrder
    <2>2. stack' \in Seq(Shape) /\ Len(stack') = i - 1 /\ \A j \in 1 .. i - 1 : stack'[j] = stack[j]
        BY <1>7, <2>1
    <2>3. \A j \in 1 .. i - 1 : j \in 1 .. Len(stack)
        BY <2>1
    <2>4. on_stack' = {stack'[j] : j \in 1 .. Len(stack')}
        BY <1>9, <1>10, <2>2
    <2>5. \A j, k \in 1 .. Len(stack') : j < k => order'[stack'[j]] < order'[stack'[k]]
        BY <1>1, <2>2, <2>3 DEF TarjanInv, StackInOrder
    <2> QED
        BY <2>2, <2>4, <2>5 DEF StackInOrder
<1>17. Groups(components)'
    <2>1. \A j \in 1 .. Len(components) : components[j] \cap S = {}
        <3>1. on_stack \cap Complete = {}
            BY <1>6 DEF Tarjan, Numbered
        <3>2. \A j \in 1 .. Len(components) : components[j] \subseteq Complete
            BY <1>13 DEF Complete
        <3> QED
            BY <3>1, <3>2, <1>12
    <2>2. Groups(Append(components, S))
        BY <2>1, <1>11, <1>12, GroupsAppend DEF TarjanInv
    <2>3. PICK gs : gs = Append(components, S)
        OBVIOUS
    <2>4. Groups(gs)'
        BY <2>2, <2>3, <1>1, GroupsStay
    <2> QED
        BY <2>3, <2>4, <1>10
<1> QED
    BY <1>4, <1>15, <1>16, <1>17 DEF TarjanInv, CallRecord

\* What follows leaves the algorithm as it ended.
LEMMA TarjanInvStays ==
    ASSUME TarjanInv, UNCHANGED <<references, tarjanVars>> PROVE TarjanInv'
<1>1. /\ UNCHANGED <<references, calls, order, low, next, stack, on_stack, components>>
    BY DEF tarjanVars
<1>2. CallShapes' = CallShapes /\ CallTodo' = CallTodo /\ Complete' = Complete
    BY <1>1 DEF CallShapes, CallTodo, Complete
<1>3. Tarjan(Len(calls), CallShapes, CallTodo, order, low, next, on_stack, Complete)'
    <2>1. Tarjan(Len(calls'), CallShapes', CallTodo', order', low', next', on_stack', Complete')
        BY <1>1, <1>2 DEF TarjanInv
    <2> QED
        BY <2>1, <1>1, TarjanNext
<1>4. Groups(components)'
    <2>1. PICK gs : gs = components
        OBVIOUS
    <2> QED
        BY <2>1, <1>1, GroupsStay DEF TarjanInv
<1> QED
    BY <1>1, <1>3, <1>4 DEF TarjanInv, StackInOrder

\* The algorithm as a whole.
LEMMA StepTarjan ==
    TarjanInv /\ (VisitNext \/ Descend \/ MeetOnStack \/ MeetComplete
                  \/ CompleteComponent \/ LeaveOnStack) => TarjanInv'
BY StepVisitNext, StepDescend, StepMeetOnStack, StepMeetComplete, StepCompleteComponent,
   StepLeaveOnStack

-----------------------------------------------------------------------------
(* Sorting by rank: how many come before.                                  *)

Earlier(I, R, x) == {y \in I : <<y, x>> \in R}

LEMMA Ranks ==
    ASSUME NEW I, IsFiniteSet(I), NEW R,
           \A x \in I : <<x, x>> \notin R,
           \A x, y, z \in I : <<x, y>> \in R /\ <<y, z>> \in R => <<x, z>> \in R,
           \A x, y \in I : x = y \/ <<x, y>> \in R \/ <<y, x>> \in R
    PROVE  /\ \A x \in I : Cardinality(Earlier(I, R, x)) \in 0 .. Cardinality(I) - 1
           /\ \A x, y \in I : <<x, y>> \in R =>
                 Cardinality(Earlier(I, R, x)) < Cardinality(Earlier(I, R, y))
           /\ \A k \in 1 .. Cardinality(I) : \E x \in I : Cardinality(Earlier(I, R, x)) = k - 1
<1> DEFINE n == Cardinality(I)
           f == [x \in I |-> Cardinality(Earlier(I, R, x))]
<1>1. n \in Nat
    BY FS_CardinalityType
<1>2. \A x \in I : IsFiniteSet(Earlier(I, R, x)) /\ Cardinality(Earlier(I, R, x)) \in Nat
    BY FS_Subset, FS_CardinalityType DEF Earlier
<1>3. ASSUME NEW x \in I PROVE Cardinality(Earlier(I, R, x)) \in 0 .. n - 1
    <2>1. IsFiniteSet(I \ {x}) /\ Cardinality(I \ {x}) = n - 1
        BY FS_RemoveElement
    <2>2. Earlier(I, R, x) \in SUBSET (I \ {x})
        BY DEF Earlier
    <2>3. Cardinality(Earlier(I, R, x)) <= n - 1
        BY <2>1, <2>2, FS_Subset
    <2> QED
        BY <2>3, <1>1, <1>2
<1>4. ASSUME NEW x \in I, NEW y \in I, <<x, y>> \in R
      PROVE  Cardinality(Earlier(I, R, x)) < Cardinality(Earlier(I, R, y))
    <2>1. Earlier(I, R, x) \in SUBSET Earlier(I, R, y) /\ x \in Earlier(I, R, y)
          /\ x \notin Earlier(I, R, x)
        BY <1>4 DEF Earlier
    <2>2. Earlier(I, R, x) # Earlier(I, R, y)
        BY <2>1
    <2>3. /\ Cardinality(Earlier(I, R, x)) <= Cardinality(Earlier(I, R, y))
          /\ Cardinality(Earlier(I, R, x)) # Cardinality(Earlier(I, R, y))
        BY <2>1, <2>2, <1>2, FS_Subset
    <2> QED
        BY <2>3, <1>2
<1>5. f \in [I -> 0 .. n - 1]
    BY <1>3
<1>6. \A x, y \in I : f[x] = f[y] => x = y
    <2> SUFFICES ASSUME NEW x \in I, NEW y \in I, f[x] = f[y], x # y PROVE FALSE
        OBVIOUS
    <2>1. <<x, y>> \in R \/ <<y, x>> \in R
        OBVIOUS
    <2>2. Cardinality(Earlier(I, R, x)) = Cardinality(Earlier(I, R, y))
        OBVIOUS
    <2> QED
        BY <2>1, <2>2, <1>2, <1>4
<1>7. f \in Injection(I, 0 .. n - 1)
    BY <1>5, <1>6 DEF Injection, IsInjective
<1>8. IsFiniteSet(0 .. n - 1) /\ Cardinality(0 .. n - 1) = n
    <2> HIDE DEF n, f
    <2>1. PICK z \in Int : z = n - 1
        BY <1>1
    <2>2. IsFiniteSet(0 .. z)
          /\ Cardinality(0 .. z) = IF 0 > z THEN 0 ELSE z - 0 + 1
        BY FS_Interval
    <2> QED
        BY <2>1, <2>2, <1>1
<1>9. f \in Surjection(I, 0 .. n - 1)
    BY <1>7, <1>8, FS_Injection
<1>10. ASSUME NEW k \in 1 .. n PROVE \E x \in I : Cardinality(Earlier(I, R, x)) = k - 1
    <2>1. k - 1 \in 0 .. n - 1
        BY <1>1
    <2>2. \E x \in I : f[x] = k - 1
        BY <2>1, <1>9 DEF Surjection
    <2> QED
        BY <2>2
<1> QED
    BY <1>3, <1>4, <1>10

LEMMA ShapesFinite ==
    ASSUME NEW S \in SUBSET Shape
    PROVE  S \subseteq Nat /\ IsFiniteSet(S) /\ Cardinality(S) \in Nat
<1>1. IsFiniteSet(Shape)
    BY FS_Interval, RecursiveShapesAssumption DEF Shape
<1>2. IsFiniteSet(S)
    BY <1>1, FS_Subset
<1>3. Cardinality(S) \in Nat
    BY <1>2, FS_CardinalityType
<1>4. S \subseteq Nat
    BY RecursiveShapesAssumption DEF Shape
<1> QED
    BY <1>2, <1>3, <1>4

\* InOrder lists every member of a set of shapes.
LEMMA InOrderLists ==
    ASSUME NEW S \in SUBSET Shape
    PROVE  /\ InOrder(S) \in Seq(S)
           /\ \A x \in S : \E k \in 1 .. Len(InOrder(S)) : InOrder(S)[k] = x
<1> DEFINE R == {e \in S \X S : e[1] < e[2]}
           n == Cardinality(S)
<1>1. S \subseteq Nat /\ IsFiniteSet(S) /\ n \in Nat
    BY ShapesFinite
<1>2. \A x, y \in S : <<x, y>> \in R <=> x < y
    OBVIOUS
<1>3. \A x \in S : Earlier(S, R, x) = {y \in S : y < x}
    BY DEF Earlier
<1> HIDE DEF R
<1>4. /\ \A x \in S : <<x, x>> \notin R
      /\ \A x, y, z \in S : <<x, y>> \in R /\ <<y, z>> \in R => <<x, z>> \in R
      /\ \A x, y \in S : x = y \/ <<x, y>> \in R \/ <<y, x>> \in R
    BY <1>1, <1>2
<1>5. /\ \A x \in S : Cardinality(Earlier(S, R, x)) \in 0 .. n - 1
      /\ \A x, y \in S : <<x, y>> \in R =>
            Cardinality(Earlier(S, R, x)) < Cardinality(Earlier(S, R, y))
      /\ \A k \in 1 .. n : \E x \in S : Cardinality(Earlier(S, R, x)) = k - 1
    BY <1>1, <1>4, Ranks
<1> DEFINE rank(x) == Cardinality({y \in S : y < x})
<1>6. /\ \A x \in S : rank(x) \in 0 .. n - 1
      /\ \A x, y \in S : x < y => rank(x) < rank(y)
      /\ \A k \in 1 .. n : \E x \in S : rank(x) = k - 1
    BY <1>2, <1>3, <1>5
<1>7. InOrder(S) = [k \in 1 .. n |-> CHOOSE x \in S : rank(x) = k - 1]
    BY DEF InOrder
<1> HIDE DEF rank, n
<1>8. \A k \in 1 .. n : InOrder(S)[k] \in S /\ rank(InOrder(S)[k]) = k - 1
    BY <1>6, <1>7
<1>9. InOrder(S) \in [1 .. n -> S]
    BY <1>7, <1>8
<1>10. InOrder(S) \in Seq(S) /\ Len(InOrder(S)) = n
    BY <1>1, <1>9 DEF n
<1>11. ASSUME NEW x \in S PROVE \E k \in 1 .. n : InOrder(S)[k] = x
    <2>1. PICK k \in Nat : k = rank(x) + 1
        BY <1>6, <1>1
    <2>2. k \in 1 .. n /\ rank(x) = k - 1
        BY <2>1, <1>1, <1>6 DEF n
    <2>3. InOrder(S)[k] \in S /\ rank(InOrder(S)[k]) = rank(x)
        BY <2>2, <1>8
    <2>4. ~ (InOrder(S)[k] < x) /\ ~ (x < InOrder(S)[k])
        <3>1. rank(x) \in Nat
            BY <1>6, <1>1
        <3> QED
            BY <2>3, <3>1, <1>6
    <2>5. InOrder(S)[k] \in Nat /\ x \in Nat
        BY <2>3, <1>1
    <2> QED
        BY <2>2, <2>4, <2>5
<1> QED
    BY <1>10, <1>11

-----------------------------------------------------------------------------
(* The search for a cycle in a group.                                      *)

\* Along references every shape reaches those after it.
LEMMA WayReaches ==
    ASSUME NEW k \in Nat, NEW p \in [0 .. k -> Shape],
           \A i \in 0 .. k - 1 : p[i + 1] \in Targets(p[i]),
           NEW a \in 0 .. k, NEW b \in 0 .. k, a <= b
    PROVE  Reaches(p[a], p[b])
<1> DEFINE T == {j \in Nat : j <= k /\ a <= j /\ ~ Reaches(p[a], p[j])}
<1> SUFFICES ASSUME T # {} PROVE FALSE
    BY DEF Reaches
<1>1. PICK m \in T : \A j \in T : m <= j
    BY LeastNat
<1>2. m # a
    BY <1>1 DEF Reaches
<1>3. PICK j \in Nat : m = j + 1
    BY <1>1, <1>2
<1>4. j \in 0 .. k - 1 /\ a <= j /\ j <= k
    BY <1>1, <1>2, <1>3
<1>5. j \notin T
    BY <1>1, <1>3
<1>6. Reaches(p[a], p[j])
    BY <1>4, <1>5
<1>7. p[m] \in Targets(p[j])
    BY <1>3, <1>4
<1>8. Reaches(p[a], p[m])
    BY <1>6, <1>7, ReachesTargets DEF Reaches
<1> QED
    BY <1>1, <1>8

\* The shapes visited were reached from the start, over as many references as d says.
Visited(st, mem, prev, d) ==
    /\ mem \in SUBSET Shape
    /\ DOMAIN prev \in SUBSET mem
    /\ st \in DOMAIN prev
    /\ d \in [DOMAIN prev -> Nat]
    /\ d[st] = 0
    /\ \A w \in DOMAIN prev \ {st} :
          prev[w] \in DOMAIN prev /\ w \in Targets(prev[w]) /\ d[w] = d[prev[w]] + 1

\* A shape was looked at: what it refers to in the group was visited, the start not so.
Looked(st, mem, prev, d, w) ==
    /\ st \notin Targets(w)
    /\ \A x \in Targets(w) \cap mem : x \in DOMAIN prev /\ d[x] <= d[w] + 1

\* The queue holds the shapes still to look at, the closest to the start first.
Searched(st, mem, q, prev, d) ==
    /\ q \in Seq(DOMAIN prev)
    /\ \A i, j \in 1 .. Len(q) : i < j => d[q[i]] <= d[q[j]] /\ d[q[j]] <= d[q[i]] + 1
    /\ \A w \in DOMAIN prev :
          \/ \E i \in 1 .. Len(q) : q[i] = w
          \/ Looked(st, mem, prev, d, w) /\ \A i \in 1 .. Len(q) : d[w] <= d[q[i]]

\* Visiting the shapes of new from v.
Visiting(prev, d, v, new, prev2, d2) ==
    /\ prev2 = [w \in DOMAIN prev \cup new |-> IF w \in new THEN v ELSE prev[w]]
    /\ d2 = [w \in DOMAIN prev \cup new |-> IF w \in new THEN d[v] + 1 ELSE d[w]]

LEMMA VisitedMore ==
    ASSUME NEW st, NEW mem, NEW prev, NEW d, NEW v \in DOMAIN prev, NEW new,
           NEW prev2, NEW d2,
           Visited(st, mem, prev, d), Visiting(prev, d, v, new, prev2, d2),
           new \subseteq (Targets(v) \cap mem) \ DOMAIN prev
    PROVE  Visited(st, mem, prev2, d2)
<1> USE DEF Visiting
<1>1. DOMAIN prev2 = DOMAIN prev \cup new
    OBVIOUS
<1>2. /\ mem \in SUBSET Shape /\ DOMAIN prev2 \in SUBSET mem /\ st \in DOMAIN prev2
      /\ st \notin new
    BY <1>1 DEF Visited
<1>3. d[v] \in Nat /\ \A w \in DOMAIN prev : d[w] \in Nat
    BY DEF Visited
<1>4. d2 \in [DOMAIN prev2 -> Nat]
    BY <1>1, <1>3
<1>5. d2[st] = 0
    BY <1>2 DEF Visited
<1>6. ASSUME NEW w \in DOMAIN prev2 \ {st}
      PROVE prev2[w] \in DOMAIN prev2 /\ w \in Targets(prev2[w]) /\ d2[w] = d2[prev2[w]] + 1
    <2>1. CASE w \in new
        <3>1. prev2[w] = v /\ d2[w] = d[v] + 1
            BY <2>1
        <3>2. v \notin new /\ d2[v] = d[v]
            OBVIOUS
        <3> QED
            BY <2>1, <3>1, <3>2
    <2>2. CASE w \notin new
        <3>1. w \in DOMAIN prev \ {st} /\ prev2[w] = prev[w] /\ d2[w] = d[w]
            BY <2>2
        <3>2. prev[w] \in DOMAIN prev /\ w \in Targets(prev[w]) /\ d[w] = d[prev[w]] + 1
            BY <3>1 DEF Visited
        <3>3. d2[prev[w]] = d[prev[w]]
            BY <3>2
        <3> QED
            BY <3>1, <3>2, <3>3
    <2> QED
        BY <2>1, <2>2
<1> QED
    BY <1>1, <1>2, <1>4, <1>5, <1>6 DEF Visited

\* The queue without its head, and what its head led to behind it.
Requeued(q, new, q2) ==
    \E list \in Seq(new) :
        /\ \A x \in new : \E k \in 1 .. Len(list) : list[k] = x
        /\ q2 = Tail(q) \o list

RequeuedParts(V, q, new, q2) ==
    /\ q2 \in Seq(V \cup new)
    /\ Len(q) \in 1 .. Len(q)
    /\ Len(q2) \in Nat
    /\ \A i \in 1 .. Len(q2) : i < Len(q) => i + 1 \in 2 .. Len(q) /\ q2[i] = q[i + 1]
    /\ \A i \in 1 .. Len(q2) : ~ (i < Len(q)) => q2[i] \in new
    /\ \A i \in 2 .. Len(q) : i - 1 \in 1 .. Len(q2) /\ q2[i - 1] = q[i]
    /\ \A x \in new : \E i \in 1 .. Len(q2) : q2[i] = x

LEMMA RequeuedSays ==
    ASSUME NEW V, NEW q \in Seq(V), q # <<>>, NEW new, NEW q2, Requeued(q, new, q2)
    PROVE  RequeuedParts(V, q, new, q2)
<1>1. PICK list \in Seq(new) : /\ \A x \in new : \E k \in 1 .. Len(list) : list[k] = x
                               /\ q2 = Tail(q) \o list
    BY DEF Requeued
<1>2. Len(q) \in Nat /\ Len(q) > 0 /\ Len(list) \in Nat
    OBVIOUS
<1>3. /\ Tail(q) \in Seq(V) /\ Len(Tail(q)) = Len(q) - 1
      /\ \A i \in 1 .. Len(q) - 1 : Tail(q)[i] = q[i + 1]
    BY <1>2
<1>4. PICK t \in Seq(V) : t = Tail(q)
    BY <1>3
<1>5. /\ Len(q2) = Len(q) - 1 + Len(list)
      /\ \A i \in 1 .. Len(q2) : q2[i] = IF i <= Len(t) THEN t[i] ELSE list[i - Len(t)]
    BY <1>1, <1>2, <1>3, <1>4
<1>6. q2 \in Seq(V \cup new)
    <2>1. t \in Seq(V \cup new) /\ list \in Seq(V \cup new)
        OBVIOUS
    <2> QED
        BY <2>1, <1>1, <1>4
<1>7. ASSUME NEW i \in 1 .. Len(q2), i < Len(q)
      PROVE  i + 1 \in 2 .. Len(q) /\ q2[i] = q[i + 1]
    BY <1>2, <1>3, <1>4, <1>5, <1>7
<1>8. ASSUME NEW i \in 1 .. Len(q2), ~ (i < Len(q))
      PROVE  q2[i] \in new
    <2>1. PICK k \in Nat : k = Len(t)
        OBVIOUS
    <2>2. k = Len(q) - 1
        BY <2>1, <1>3, <1>4
    <2>3. i - k \in 1 .. Len(list) /\ ~ (i <= k)
        BY <2>2, <1>2, <1>5, <1>8
    <2>4. q2[i] = list[i - k]
        BY <2>1, <2>3, <1>5
    <2> QED
        BY <2>3, <2>4
<1>9. ASSUME NEW i \in 2 .. Len(q) PROVE i - 1 \in 1 .. Len(q2) /\ q2[i - 1] = q[i]
    <2>1. i - 1 \in 1 .. Len(q2) /\ i - 1 < Len(q) /\ i - 1 + 1 = i
        BY <1>2, <1>5
    <2> QED
        BY <2>1, <1>7
<1>10. ASSUME NEW x \in new PROVE \E i \in 1 .. Len(q2) : q2[i] = x
    <2>1. PICK k \in 1 .. Len(list) : list[k] = x
        BY <1>1
    <2>2. Len(t) + k \in 1 .. Len(q2) /\ q2[Len(t) + k] = x
        BY <2>1, <1>2, <1>3, <1>4, <1>5
    <2> QED
        BY <2>2
<1> QED
    BY <1>2, <1>5, <1>6, <1>7, <1>8, <1>9, <1>10 DEF RequeuedParts

LEMMA SearchedMore ==
    ASSUME NEW st, NEW mem, NEW q, NEW prev, NEW d, NEW new, NEW q2, NEW prev2, NEW d2,
           Visited(st, mem, prev, d), Searched(st, mem, q, prev, d), q # <<>>,
           st \notin Targets(q[1]),
           \A x : x \in new <=> x \in Targets(q[1]) \cap mem /\ x \notin DOMAIN prev,
           Visiting(prev, d, q[1], new, prev2, d2), Requeued(q, new, q2)
    PROVE  Searched(st, mem, q2, prev2, d2)
<1>0. q \in Seq(DOMAIN prev)
    BY DEF Searched
<1>1. /\ q2 \in Seq(DOMAIN prev \cup new) /\ Len(q) \in 1 .. Len(q) /\ Len(q2) \in Nat
      /\ \A i \in 1 .. Len(q2) : i < Len(q) => i + 1 \in 2 .. Len(q) /\ q2[i] = q[i + 1]
      /\ \A i \in 1 .. Len(q2) : ~ (i < Len(q)) => q2[i] \in new
      /\ \A i \in 2 .. Len(q) : i - 1 \in 1 .. Len(q2) /\ q2[i - 1] = q[i]
      /\ \A x \in new : \E i \in 1 .. Len(q2) : q2[i] = x
    <2>1. RequeuedParts(DOMAIN prev, q, new, q2)
        BY <1>0, RequeuedSays
    <2> QED
        BY <2>1 DEF RequeuedParts
<1>v. PICK v \in DOMAIN prev : v = q[1]
    BY <1>0, <1>1
<1>2. /\ DOMAIN prev2 = DOMAIN prev \cup new
      /\ \A w \in new : d2[w] = d[v] + 1
      /\ \A w \in DOMAIN prev : d2[w] = d[w]
    BY <1>v DEF Visiting
<1>3. \A w \in DOMAIN prev : d[w] \in Nat
    BY DEF Visited
<1>4. \A i, j \in 1 .. Len(q) : i <= j => d[q[i]] <= d[q[j]] /\ d[q[j]] <= d[q[i]] + 1
    <2>1. \A i \in 1 .. Len(q) : d[q[i]] \in Nat
        BY <1>0, <1>3
    <2> QED
        BY <2>1 DEF Searched
<1>5. \A i \in 1 .. Len(q) : q[i] \in DOMAIN prev /\ d[v] <= d[q[i]] /\ d[q[i]] <= d[v] + 1
    BY <1>0, <1>1, <1>v, <1>4
<1>6. ASSUME NEW i \in 1 .. Len(q2) PROVE d2[q2[i]] \in Nat /\ d[v] <= d2[q2[i]] /\ d2[q2[i]] <= d[v] + 1
    <2>1. CASE i < Len(q)
        <3>1. PICK k \in 1 .. Len(q) : q2[i] = q[k]
            BY <2>1, <1>1
        <3> QED
            BY <3>1, <1>2, <1>3, <1>5
    <2>2. CASE ~ (i < Len(q))
        <3>1. q2[i] \in new /\ d[v] \in Nat
            BY <2>2, <1>1, <1>3
        <3> QED
            BY <3>1, <1>2
    <2> QED
        BY <2>1, <2>2
<1>7. ASSUME NEW i \in 1 .. Len(q2), NEW j \in 1 .. Len(q2), i < j
      PROVE  d2[q2[i]] <= d2[q2[j]] /\ d2[q2[j]] <= d2[q2[i]] + 1
    <2>0. d[v] \in Nat /\ d2[q2[i]] \in Nat /\ d2[q2[j]] \in Nat
        BY <1>3, <1>6
    <2>1. d2[q2[j]] <= d2[q2[i]] + 1
        <3>1. d[v] <= d2[q2[i]] /\ d2[q2[j]] <= d[v] + 1
            BY <1>6
        <3> QED
            BY <2>0, <3>1
    <2>2. CASE j < Len(q)
        <3>1. /\ i + 1 \in 1 .. Len(q) /\ j + 1 \in 1 .. Len(q) /\ i + 1 <= j + 1
              /\ q2[i] = q[i + 1] /\ q2[j] = q[j + 1]
            BY <2>2, <1>1, <1>7
        <3>2. d[q[i + 1]] <= d[q[j + 1]]
            BY <3>1, <1>4
        <3>3. d2[q2[i]] = d[q[i + 1]] /\ d2[q2[j]] = d[q[j + 1]]
            BY <3>1, <1>5, <1>2
        <3> QED
            BY <2>1, <3>2, <3>3
    <2>3. CASE ~ (j < Len(q))
        <3>1. d2[q2[j]] = d[v] + 1
            BY <2>3, <1>1, <1>2
        <3>2. d2[q2[i]] <= d[v] + 1
            BY <1>6
        <3> QED
            BY <2>1, <3>1, <3>2
    <2> QED
        BY <2>2, <2>3
<1>8. ASSUME NEW w \in DOMAIN prev2
      PROVE  \/ \E i \in 1 .. Len(q2) : q2[i] = w
             \/ Looked(st, mem, prev2, d2, w) /\ \A i \in 1 .. Len(q2) : d2[w] <= d2[q2[i]]
    <2>1. CASE w \in new
        BY <2>1, <1>1
    <2>2. CASE \E i \in 2 .. Len(q) : q[i] = w
        BY <2>2, <1>1
    <2>3. CASE w = v
        <3>1. \A i \in 1 .. Len(q2) : d2[w] <= d2[q2[i]]
            BY <2>3, <1>2, <1>6
        <3>2. ASSUME NEW x \in Targets(w) \cap mem
              PROVE  x \in DOMAIN prev2 /\ d2[x] <= d2[w] + 1
            <4>1. CASE x \in DOMAIN prev
                <5>1. d[x] <= d[v] + 1
                    <6>1. CASE \E i \in 1 .. Len(q) : q[i] = x
                        BY <6>1, <1>5
                    <6>2. CASE \A i \in 1 .. Len(q) : d[x] <= d[q[i]]
                        <7>1. d[x] <= d[v] /\ d[x] \in Nat /\ d[v] \in Nat
                            BY <6>2, <4>1, <1>1, <1>3, <1>v
                        <7> QED
                            BY <7>1
                    <6> QED
                        BY <6>1, <6>2, <4>1 DEF Searched
                <5> QED
                    BY <4>1, <5>1, <2>3, <1>2
            <4>2. CASE x \notin DOMAIN prev
                <5>1. x \in new
                    BY <4>2, <2>3, <1>v
                <5>2. d2[x] = d[v] + 1 /\ d2[w] = d[v] /\ d[v] \in Nat
                    BY <5>1, <2>3, <1>2, <1>3
                <5> QED
                    BY <5>1, <5>2, <1>2
            <4> QED
                BY <4>1, <4>2
        <3> QED
            BY <3>1, <3>2, <2>3, <1>v DEF Looked
    <2>4. CASE w \in DOMAIN prev /\ ~ \E i \in 1 .. Len(q) : q[i] = w
        <3>1. Looked(st, mem, prev, d, w) /\ \A i \in 1 .. Len(q) : d[w] <= d[q[i]]
            BY <2>4 DEF Searched
        <3>2. Looked(st, mem, prev2, d2, w)
            BY <3>1, <2>4, <1>2 DEF Looked
        <3>3. d[w] <= d[v] /\ d[w] \in Nat /\ d[v] \in Nat /\ d2[w] = d[w]
            BY <3>1, <2>4, <1>1, <1>2, <1>3, <1>v
        <3>4. \A i \in 1 .. Len(q2) : d2[w] <= d2[q2[i]]
            BY <3>3, <1>6
        <3> QED
            BY <3>2, <3>4
    <2>5. \A i \in 1 .. Len(q) : i = 1 \/ i \in 2 .. Len(q)
        BY <1>1
    <2> QED
        BY <2>1, <2>2, <2>3, <2>4, <2>5, <1>2, <1>v
<1>9. q2 \in Seq(DOMAIN prev2)
    BY <1>1, <1>2
<1> QED
    BY <1>7, <1>8, <1>9 DEF Searched

\* When a shape is looked at that refers to the start, every way from the start back to
\* it is longer than the way to that shape.
LEMMA NoShorterWay ==
    ASSUME NEW mem, IsGroup(mem), NEW st \in mem, NEW q, NEW prev, NEW d,
           Visited(st, mem, prev, d), Searched(st, mem, q, prev, d), q # <<>>,
           NEW k \in 1 .. d[q[1]]
    PROVE  ~ Leads(st, k, st)
<1>0. q \in Seq(DOMAIN prev) /\ mem \in SUBSET Shape
    BY DEF Searched, Visited
<1>v. PICK v \in DOMAIN prev : v = q[1]
    BY <1>0
<1>d. d[v] \in Nat /\ \A w \in DOMAIN prev : d[w] \in Nat
    BY DEF Visited
<1> SUFFICES ASSUME Leads(st, k, st) PROVE FALSE
    OBVIOUS
<1>k. k \in Nat /\ k >= 1 /\ k <= d[v] /\ k - 1 \in 0 .. k - 1 /\ k - 1 + 1 = k
    BY <1>v, <1>d
<1>1. PICK p \in [0 .. k -> Shape] :
          /\ p[0] = st
          /\ p[k] = st
          /\ \A i \in 0 .. k - 1 : p[i + 1] \in Targets(p[i])
    BY DEF Leads
<1>2. ASSUME NEW i \in 0 .. k PROVE p[i] \in mem
    <2>1. 0 \in 0 .. k /\ k \in 0 .. k /\ 0 <= i /\ i <= k
        BY <1>k
    <2>2. Reaches(st, p[i]) /\ Reaches(p[i], st)
        BY <2>1, <1>1, <1>k, WayReaches
    <2>3. p[i] \in Mutual(st)
        BY <2>2 DEF Mutual
    <2> QED
        BY <2>3 DEF IsGroup
<1>3. ASSUME NEW w \in DOMAIN prev, d[w] < d[v] PROVE Looked(st, mem, prev, d, w)
    <2>1. ASSUME NEW i \in 1 .. Len(q), q[i] = w PROVE FALSE
        <3>1. d[v] <= d[w]
            <4>1. CASE i = 1
                BY <4>1, <2>1, <1>v, <1>d
            <4>2. CASE i # 1
                <5>1. 1 < i /\ 1 \in 1 .. Len(q)
                    BY <4>2
                <5> QED
                    BY <5>1, <2>1, <1>v DEF Searched
            <4> QED
                BY <4>1, <4>2
        <3> QED
            BY <3>1, <1>3, <1>d
    <2> QED
        BY <2>1 DEF Searched
<1> DEFINE Close(i) == p[i] \in DOMAIN prev /\ d[p[i]] <= i
           T == {i \in Nat : i < k /\ ~ Close(i)}
<1>4. ASSUME NEW i \in 0 .. k - 1, Close(i) PROVE Looked(st, mem, prev, d, p[i])
    <2>1. d[p[i]] < d[v]
        BY <1>4, <1>d, <1>k
    <2> QED
        BY <2>1, <1>3, <1>4
<1>5. T = {}
    <2> SUFFICES ASSUME T # {} PROVE FALSE
        OBVIOUS
    <2>1. PICK m \in T : \A j \in T : m <= j
        BY LeastNat
    <2>2. m # 0
        BY <2>1, <1>1 DEF Visited
    <2>3. PICK j \in Nat : m = j + 1
        BY <2>1, <2>2
    <2>4. j \in 0 .. k - 1 /\ j < k /\ j \notin T /\ m \in 0 .. k
        BY <2>1, <2>3, <1>k
    <2>5. Close(j)
        BY <2>4
    <2>6. Looked(st, mem, prev, d, p[j])
        BY <2>4, <2>5, <1>4
    <2>7. p[m] \in Targets(p[j]) \cap mem
        BY <2>3, <2>4, <1>1, <1>2
    <2>8. p[m] \in DOMAIN prev /\ d[p[m]] <= d[p[j]] + 1
        BY <2>6, <2>7 DEF Looked
    <2>9. Close(m)
        <3>1. d[p[j]] \in Nat /\ d[p[j]] <= j /\ d[p[m]] \in Nat
            BY <2>5, <2>8, <1>d
        <3> QED
            BY <3>1, <2>3, <2>8
    <2> QED
        BY <2>1, <2>9
<1>6. Close(k - 1)
    <2>1. k - 1 \in Nat /\ k - 1 < k /\ k - 1 \notin T
        BY <1>5, <1>k
    <2> QED
        BY <2>1
<1>7. Looked(st, mem, prev, d, p[k - 1])
    BY <1>4, <1>6, <1>k
<1>8. st \in Targets(p[k - 1])
    BY <1>1, <1>k
<1> QED
    BY <1>7, <1>8 DEF Looked

-----------------------------------------------------------------------------
(* What is left to search: groups gs, a group cur that is searched at the  *)
(* moment, and the cycles cs found so far.                                 *)

\* A shortest way from the least shape of a group of recursive shapes back to it.
GoodCycle(c) ==
    /\ c \in Seq(Shape)
    /\ IsCycle(c)
    /\ c[1] \in Shape /\ c[1] \in ReachedFrom(c[1])
    /\ \A i \in 1 .. Len(c) : c[i] \in Mutual(c[1])
    /\ \A v \in Mutual(c[1]) : c[1] <= v
    /\ \A k \in 1 .. Len(c) - 2 : ~ Leads(c[1], k, c[1])

Covered(gs, cur, cs) ==
    \A v \in RecursiveShape :
        \/ \E i \in 1 .. Len(gs) : v \in gs[i]
        \/ v \in cur
        \/ \E i \in 1 .. Len(cs) : cs[i][1] \in Mutual(v)

Apart(gs, cur, cs) ==
    /\ \A i, j \in 1 .. Len(cs) : i # j => cs[j][1] \notin Mutual(cs[i][1])
    /\ \A i \in 1 .. Len(cs), j \in 1 .. Len(gs) : cs[i][1] \notin gs[j]
    /\ \A i \in 1 .. Len(cs) : cs[i][1] \notin cur
    /\ \A j \in 1 .. Len(gs) : gs[j] \cap cur = {}

ToSearch(gs, cur, cs) ==
    /\ Groups(gs)
    /\ cs \in Seq(Seq(Shape))
    /\ \A i \in 1 .. Len(cs) : GoodCycle(cs[i])
    /\ Covered(gs, cur, cs)
    /\ Apart(gs, cur, cs)

\* A cycle is a shape, or several that reach one another.
LEMMA RecursiveGroup ==
    ASSUME NEW S \in SUBSET Shape, IsGroup(S)
    PROVE  /\ IsRecursive(S) => \A v \in S : v \in ReachedFrom(v)
           /\ ~ IsRecursive(S) => \A v \in S : v \notin ReachedFrom(v)
<1>1. \A u, v \in S : Reaches(u, v)
    BY DEF IsGroup, Mutual
<1>2. S # {} /\ IsFiniteSet(S) /\ Cardinality(S) \in Nat
    BY ShapesFinite DEF IsGroup
<1>3. ASSUME NEW v \in S, NEW u \in S, u # v PROVE v \in ReachedFrom(v)
    BY <1>1, <1>3, ReachedTransitive DEF Reaches
<1>4. ASSUME IsRecursive(S), NEW v \in S PROVE v \in ReachedFrom(v)
    <2>1. CASE Cardinality(S) > 1
        <3>1. S # {v}
            BY <2>1, FS_Singleton
        <3>2. PICK u \in S : u # v
            BY <3>1
        <3> QED
            BY <3>2, <1>3
    <2>2. CASE \E u \in S : u \in Targets(u)
        <3>1. PICK u \in S : u \in Targets(u)
            BY <2>2
        <3>2. CASE u = v
            BY <3>1, <3>2, TargetsReached
        <3>3. CASE u # v
            BY <3>3, <1>3
        <3> QED
            BY <3>2, <3>3
    <2> QED
        BY <1>4, <2>1, <2>2 DEF IsRecursive
<1>5. ASSUME ~ IsRecursive(S), NEW v \in S, v \in ReachedFrom(v) PROVE FALSE
    <2>1. ~ (Cardinality(S) > 1) /\ v \notin Targets(v)
        BY <1>5 DEF IsRecursive
    <2>2. PICK t \in Targets(v) : Reaches(t, v)
        BY <1>5, ReachedByTarget
    <2>3. t \in Mutual(v)
        BY <2>2, TargetsReached DEF Mutual, Reaches, Targets
    <2>4. t \in S
        BY <2>3 DEF IsGroup
    <2>5. t # v
        BY <2>1, <2>2
    <2>6. Cardinality(S) # 0 /\ Cardinality(S) # 1
        <3>1. Cardinality(S) # 0
            BY <1>2, FS_EmptySet
        <3>2. ASSUME Cardinality(S) = 1 PROVE FALSE
            <4>1. \E x : S = {x}
                BY <3>2, <1>2, FS_Singleton
            <4> QED
                BY <4>1, <2>4, <2>5
        <3> QED
            BY <3>1, <3>2
    <2> QED
        BY <2>1, <2>6, <1>2
<1> QED
    BY <1>4, <1>5

LEMMA HeadGroup ==
    ASSUME NEW gs, Groups(gs), gs # <<>>
    PROVE  /\ Groups(Tail(gs))
           /\ Head(gs) \in SUBSET Shape /\ IsGroup(Head(gs)) /\ Head(gs) = gs[1]
           /\ Len(gs) \in Nat /\ Len(Tail(gs)) = Len(gs) - 1 /\ Len(gs) > 0
           /\ \A i \in 1 .. Len(gs) - 1 : Tail(gs)[i] = gs[i + 1]
           /\ \A i \in 1 .. Len(gs) - 1 : Tail(gs)[i] \cap Head(gs) = {}
<1>1. gs \in Seq(SUBSET Shape)
    BY DEF Groups
<1>2. /\ Len(gs) \in Nat /\ Len(gs) > 0 /\ Head(gs) = gs[1]
      /\ Tail(gs) \in Seq(SUBSET Shape) /\ Len(Tail(gs)) = Len(gs) - 1
      /\ \A i \in 1 .. Len(gs) - 1 : Tail(gs)[i] = gs[i + 1]
    BY <1>1
<1>3. 1 \in 1 .. Len(gs) /\ \A i \in 1 .. Len(gs) - 1 : i + 1 \in 1 .. Len(gs) /\ i + 1 # 1
    BY <1>2
<1>4. PICK ts : ts = Tail(gs)
    OBVIOUS
<1>5. \A i \in 1 .. Len(ts) : IsGroup(ts[i])
    <2> SUFFICES ASSUME NEW i \in 1 .. Len(ts) PROVE IsGroup(ts[i])
        OBVIOUS
    <2>1. ts[i] = gs[i + 1] /\ i + 1 \in 1 .. Len(gs)
        BY <1>2, <1>3, <1>4
    <2> QED
        BY <2>1 DEF Groups
<1>6. \A i, j \in 1 .. Len(ts) : i # j => ts[i] \cap ts[j] = {}
    <2> SUFFICES ASSUME NEW i \in 1 .. Len(ts), NEW j \in 1 .. Len(ts), i # j
                 PROVE  ts[i] \cap ts[j] = {}
        OBVIOUS
    <2>1. /\ ts[i] = gs[i + 1] /\ i + 1 \in 1 .. Len(gs)
          /\ ts[j] = gs[j + 1] /\ j + 1 \in 1 .. Len(gs) /\ i + 1 # j + 1
        BY <1>2, <1>3, <1>4
    <2> QED
        BY <2>1 DEF Groups
<1>7. Groups(ts)
    BY <1>2, <1>4, <1>5, <1>6 DEF Groups
<1>8. \A i \in 1 .. Len(gs) - 1 : Tail(gs)[i] \cap Head(gs) = {}
    BY <1>2, <1>3 DEF Groups
<1>9. Head(gs) \in SUBSET Shape /\ IsGroup(Head(gs))
    BY <1>1, <1>2, <1>3 DEF Groups
<1> QED
    BY <1>2, <1>4, <1>7, <1>8, <1>9

\* Every component is left to search.
LEMMA NothingSearched ==
    ASSUME NEW gs, Groups(gs), \A v \in Shape : \E i \in DOMAIN gs : v \in gs[i]
    PROVE  ToSearch(gs, {}, <<>>)
<1>1. DOMAIN gs = 1 .. Len(gs)
    BY DEF Groups
<1>2. RecursiveShape \subseteq Shape
    BY DEF RecursiveShape
<1> QED
    BY <1>1, <1>2 DEF ToSearch, Covered, Apart

\* A group is taken up.
LEMMA GroupTaken ==
    ASSUME NEW gs, NEW cs, ToSearch(gs, {}, cs), gs # <<>>
    PROVE  ToSearch(Tail(gs), Head(gs), cs)
<1>1. Groups(gs)
    BY DEF ToSearch
<1>2. /\ Groups(Tail(gs))
      /\ Head(gs) = gs[1] /\ Len(gs) \in Nat /\ Len(Tail(gs)) = Len(gs) - 1 /\ Len(gs) > 0
      /\ \A i \in 1 .. Len(gs) - 1 : Tail(gs)[i] = gs[i + 1]
      /\ \A i \in 1 .. Len(gs) - 1 : Tail(gs)[i] \cap Head(gs) = {}
    BY <1>1, HeadGroup
<1>3. PICK ts, h : ts = Tail(gs) /\ h = Head(gs)
    OBVIOUS
<1>4. /\ Len(ts) = Len(gs) - 1 /\ h = gs[1] /\ 1 \in 1 .. Len(gs)
      /\ \A i \in 1 .. Len(ts) : ts[i] = gs[i + 1] /\ i + 1 \in 1 .. Len(gs)
      /\ \A i \in 1 .. Len(ts) : ts[i] \cap h = {}
    BY <1>2, <1>3
<1>5. Covered(ts, h, cs)
    <2> SUFFICES ASSUME NEW v \in RecursiveShape, NEW i \in 1 .. Len(gs), v \in gs[i]
                 PROVE  (\E k \in 1 .. Len(ts) : v \in ts[k]) \/ v \in h
        BY DEF ToSearch, Covered
    <2>1. CASE i = 1
        BY <2>1, <1>4
    <2>2. CASE i # 1
        <3>1. i - 1 \in 1 .. Len(ts) /\ ts[i - 1] = gs[i]
            BY <2>2, <1>2, <1>4
        <3> QED
            BY <3>1
    <2> QED
        BY <2>1, <2>2
<1>6. Apart(ts, h, cs)
    BY <1>4 DEF ToSearch, Apart
<1> QED
    BY <1>2, <1>3, <1>5, <1>6 DEF ToSearch

\* A group that is not recursive is passed over.
LEMMA GroupSkipped ==
    ASSUME NEW gs, NEW cs, ToSearch(gs, {}, cs), gs # <<>>, ~ IsRecursive(Head(gs))
    PROVE  ToSearch(Tail(gs), {}, cs)
<1>1. Groups(gs)
    BY DEF ToSearch
<1>2. Head(gs) \in SUBSET Shape /\ IsGroup(Head(gs))
    BY <1>1, HeadGroup
<1>3. \A v \in Head(gs) : v \notin RecursiveShape
    BY <1>2, RecursiveGroup DEF RecursiveShape
<1>4. ToSearch(Tail(gs), Head(gs), cs)
    BY GroupTaken
<1>5. Covered(Tail(gs), {}, cs)
    BY <1>3, <1>4 DEF ToSearch, Covered
<1>6. Apart(Tail(gs), {}, cs)
    BY <1>4 DEF ToSearch, Apart
<1> QED
    BY <1>4, <1>5, <1>6 DEF ToSearch

\* The cycle of a group is found.
LEMMA GroupSearched ==
    ASSUME NEW gs, NEW cur, NEW cs, NEW c,
           ToSearch(gs, cur, cs), IsGroup(cur), cur \in SUBSET Shape,
           GoodCycle(c), c[1] \in cur
    PROVE  ToSearch(gs, {}, Append(cs, c))
<1>1. PICK n \in Nat : n = Len(cs)
    BY DEF ToSearch
<1>2. PICK ds : ds = Append(cs, c)
    OBVIOUS
<1>3. cs \in Seq(Seq(Shape)) /\ c \in Seq(Shape)
    BY DEF ToSearch, GoodCycle
<1>4. /\ ds \in Seq(Seq(Shape)) /\ Len(ds) = n + 1
      /\ ds[n + 1] = c /\ \A i \in 1 .. n : ds[i] = cs[i]
    BY <1>1, <1>2, <1>3
<1>5. \A i \in 1 .. n + 1 : i = n + 1 \/ i \in 1 .. n
    BY <1>1
<1>6. Mutual(c[1]) = cur
    BY DEF IsGroup
<1>7. \A i \in 1 .. n + 1 : GoodCycle(ds[i])
    BY <1>1, <1>4, <1>5 DEF ToSearch
<1>8. Covered(gs, {}, ds)
    <2> SUFFICES ASSUME NEW v \in RecursiveShape,
                        v \in cur \/ \E i \in 1 .. Len(cs) : cs[i][1] \in Mutual(v)
                 PROVE  \E i \in 1 .. Len(ds) : ds[i][1] \in Mutual(v)
        BY DEF ToSearch, Covered
    <2>1. CASE v \in cur
        <3>1. c[1] \in Mutual(v)
            BY <2>1 DEF IsGroup
        <3>2. n + 1 \in 1 .. Len(ds)
            BY <1>4
        <3> QED
            BY <3>1, <3>2, <1>4
    <2>2. CASE \E i \in 1 .. Len(cs) : cs[i][1] \in Mutual(v)
        BY <2>2, <1>1, <1>4
    <2> QED
        BY <2>1, <2>2
<1>9. ASSUME NEW i \in 1 .. n + 1, NEW j \in 1 .. n + 1, i # j
      PROVE  ds[j][1] \notin Mutual(ds[i][1])
    <2>1. CASE i \in 1 .. n /\ j \in 1 .. n
        BY <2>1, <1>1, <1>4, <1>9 DEF ToSearch, Apart
    <2>2. CASE i = n + 1 /\ j \in 1 .. n
        BY <2>2, <1>1, <1>4, <1>6 DEF ToSearch, Apart
    <2>3. CASE j = n + 1 /\ i \in 1 .. n
        <3>1. cs[i][1] \notin Mutual(c[1])
            BY <2>3, <1>1, <1>6 DEF ToSearch, Apart
        <3>2. cs[i][1] \in Shape
            BY <2>3, <1>1 DEF ToSearch, GoodCycle
        <3>3. c[1] \notin Mutual(cs[i][1])
            BY <3>1, <3>2 DEF Mutual
        <3> QED
            BY <3>3, <2>3, <1>4
    <2> QED
        BY <2>1, <2>2, <2>3, <1>5, <1>9
<1>10. ASSUME NEW i \in 1 .. n + 1, NEW j \in 1 .. Len(gs) PROVE ds[i][1] \notin gs[j]
    <2>1. CASE i \in 1 .. n
        BY <2>1, <1>1, <1>4 DEF ToSearch, Apart
    <2>2. CASE i = n + 1
        BY <2>2, <1>4 DEF ToSearch, Apart
    <2> QED
        BY <2>1, <2>2, <1>5
<1>11. Apart(gs, {}, ds)
    BY <1>4, <1>9, <1>10 DEF Apart
<1> QED
    BY <1>2, <1>4, <1>7, <1>8, <1>11 DEF ToSearch

-----------------------------------------------------------------------------
(* The states of the search.                                               *)

Started(st, mem) ==
    /\ mem \in SUBSET Shape
    /\ IsGroup(mem)
    /\ st \in mem /\ st \in ReachedFrom(st)
    /\ \A v \in mem : st <= v

\* The way back from the start, as far as it is known.
Walking(st, mem, prev, d, wy) ==
    /\ wy \in Seq(mem)
    /\ Len(wy) >= 2
    /\ wy[Len(wy)] = st
    /\ \A i \in 1 .. Len(wy) - 1 : wy[i + 1] \in Targets(wy[i])
    /\ wy[1] \in DOMAIN prev
    /\ \A k \in 1 .. d[wy[1]] + Len(wy) - 2 : ~ Leads(st, k, st)

Searching == IF pc \in {"search", "way"} THEN members ELSE {}

Sorted(cs) == \A i, j \in DOMAIN cs : i < j => cs[i][1] < cs[j][1]

InQueue(st, mem, q, prev) == \E d : Visited(st, mem, prev, d) /\ Searched(st, mem, q, prev, d)
OnWay(st, mem, prev, wy) == \E d : Visited(st, mem, prev, d) /\ Walking(st, mem, prev, d, wy)

SearchInv ==
    /\ pc \in {"components", "groups", "search", "way", "reported"}
    /\ pc = "components" => groups = <<>> /\ cycles = <<>>
    /\ pc # "components" => ToSearch(groups, Searching, cycles)
    /\ pc \in {"search", "way"} => Started(start, members)
    /\ pc = "search" => InQueue(start, members, queue, previous)
    /\ pc = "way" => OnWay(start, members, previous, way)
    /\ pc = "reported" => groups = <<>> /\ Sorted(cycles)

LEMMA InitSearchInv == NothingFound => SearchInv
BY DEF NothingFound, SearchInv

LEMMA LeadsStays ==
    ASSUME UNCHANGED references, NEW v, NEW k, NEW w PROVE Leads(v, k, w)' <=> Leads(v, k, w)
BY GraphStays DEF Leads

LEMMA ToSearchStays ==
    ASSUME UNCHANGED references, NEW gs, NEW cur, NEW cs, ToSearch(gs, cur, cs)
    PROVE  ToSearch(gs, cur, cs)'
<1>1. Groups(gs)'
    BY GroupsStay DEF ToSearch
<1>2. \A c : GoodCycle(c) => GoodCycle(c)'
    BY GraphStays, LeadsStays DEF GoodCycle, IsCycle
<1>3. Covered(gs, cur, cs)'
    BY GraphStays DEF ToSearch, Covered
<1>4. Apart(gs, cur, cs)'
    <2>1. Apart(gs, cur, cs) /\ \A v : Mutual(v)' = Mutual(v)
        BY GraphStays DEF ToSearch
    <2> QED
        BY <2>1 DEF Apart
<1> QED
    BY <1>1, <1>2, <1>3, <1>4 DEF ToSearch

LEMMA ToSearchNext ==
    ASSUME UNCHANGED references, NEW gs, NEW cur, NEW cs, ToSearch(gs, cur, cs),
           gs = groups', cur = Searching', cs = cycles'
    PROVE  ToSearch(groups, Searching, cycles)'
<1>1. ToSearch(gs, cur, cs)'
    BY ToSearchStays
<1> QED
    BY <1>1

LEMMA StartedNext ==
    ASSUME UNCHANGED references, NEW st, NEW mem, Started(st, mem), st = start', mem = members'
    PROVE  Started(start, members)'
<1>1. Started(st, mem)'
    BY GraphStays DEF Started, IsGroup
<1> QED
    BY <1>1

LEMMA InQueueNext ==
    ASSUME UNCHANGED references, NEW st, NEW mem, NEW q, NEW prev,
           InQueue(st, mem, q, prev), st = start', mem = members', q = queue', prev = previous'
    PROVE  InQueue(start, members, queue, previous)'
<1>1. PICK d : Visited(st, mem, prev, d) /\ Searched(st, mem, q, prev, d)
    BY DEF InQueue
<1>2. Visited(st, mem, prev, d)'
    BY <1>1, GraphStays DEF Visited
<1>3. Searched(st, mem, q, prev, d)'
    BY <1>1, GraphStays DEF Searched, Looked
<1>4. InQueue(st, mem, q, prev)'
    BY <1>2, <1>3 DEF InQueue
<1> QED
    BY <1>4

LEMMA OnWayNext ==
    ASSUME UNCHANGED references, NEW st, NEW mem, NEW prev, NEW wy,
           OnWay(st, mem, prev, wy), st = start', mem = members', prev = previous', wy = way'
    PROVE  OnWay(start, members, previous, way)'
<1>1. PICK d : Visited(st, mem, prev, d) /\ Walking(st, mem, prev, d, wy)
    BY DEF OnWay
<1>2. Visited(st, mem, prev, d)'
    BY <1>1, GraphStays DEF Visited
<1>3. Walking(st, mem, prev, d, wy)'
    BY <1>1, GraphStays, LeadsStays DEF Walking
<1>4. OnWay(st, mem, prev, wy)'
    BY <1>2, <1>3 DEF OnWay
<1> QED
    BY <1>4

\* Nothing of the search changes.
LEMMA SearchStays ==
    ASSUME SearchInv, UNCHANGED <<references, pc, searchVars>> PROVE SearchInv'
<1>1. UNCHANGED <<references, pc, groups, start, members, queue, previous, way, cycles>>
    BY DEF searchVars
<1>2. Searching' = Searching
    BY <1>1 DEF Searching
<1>3. pc # "components" => ToSearch(groups, Searching, cycles)'
    BY <1>1, <1>2, ToSearchNext DEF SearchInv
<1>4. pc \in {"search", "way"} => Started(start, members)'
    BY <1>1, StartedNext DEF SearchInv
<1>5. pc = "search" => InQueue(start, members, queue, previous)'
    BY <1>1, InQueueNext DEF SearchInv
<1>6. pc = "way" => OnWay(start, members, previous, way)'
    BY <1>1, OnWayNext DEF SearchInv
<1>7. Sorted(cycles)' <=> Sorted(cycles)
    BY <1>1 DEF Sorted
<1> QED
    BY <1>1, <1>3, <1>4, <1>5, <1>6, <1>7 DEF SearchInv

LEMMA StepTarjanSearch ==
    ASSUME SearchInv, VisitNext \/ Descend \/ MeetOnStack \/ MeetComplete
                      \/ CompleteComponent \/ LeaveOnStack
    PROVE  SearchInv'
<1>1. UNCHANGED <<references, pc, searchVars>>
    BY DEF VisitNext, Descend, MeetOnStack, MeetComplete, CompleteComponent, LeaveOnStack
<1> QED
    BY <1>1, SearchStays

LEMMA StepComponentsKnown ==
    ASSUME SearchInv, TarjanInv, ComponentsKnown PROVE SearchInv'
<1>1. /\ UNCHANGED <<references, components, cycles>>
      /\ pc = "components" /\ pc' = "groups" /\ groups' = components /\ calls = <<>>
      /\ \A v \in Shape : order[v] # 0
    BY DEF ComponentsKnown, tarjanVars
<1>2. Groups(components)
    BY DEF TarjanInv
<1>3. Len(calls) = 0
    BY <1>1
<1>4. Tarjan(0, CallShapes, CallTodo, order, low, next, on_stack, Complete)
    BY <1>3 DEF TarjanInv
<1>5. on_stack = {}
    BY <1>4, NoCallsLeft
<1>6. \A v \in Shape : v \in Complete
    BY <1>1, <1>4, <1>5 DEF Tarjan, Numbered
<1>7. ToSearch(components, {}, <<>>)
    <2>1. \A v \in Shape : \E i \in DOMAIN components : v \in components[i]
        BY <1>6 DEF Complete
    <2> QED
        BY <2>1, <1>2, NothingSearched
<1>8. Searching' = {} /\ cycles' = <<>>
    BY <1>1 DEF Searching, SearchInv
<1>9. ToSearch(groups, Searching, cycles)'
    BY <1>1, <1>7, <1>8, ToSearchNext
<1> QED
    BY <1>1, <1>9 DEF SearchInv

LEMMA StepSkipGroup ==
    ASSUME SearchInv, SkipGroup PROVE SearchInv'
<1>1. /\ UNCHANGED <<references, pc, cycles>>
      /\ pc = "groups" /\ groups # <<>> /\ ~ IsRecursive(Head(groups)) /\ groups' = Tail(groups)
    BY DEF SkipGroup
<1>2. Searching = {} /\ Searching' = {}
    BY <1>1 DEF Searching
<1>3. ToSearch(groups, {}, cycles)
    BY <1>1, <1>2 DEF SearchInv
<1>4. ToSearch(Tail(groups), {}, cycles)
    BY <1>1, <1>3, GroupSkipped
<1>5. ToSearch(groups, Searching, cycles)'
    BY <1>1, <1>2, <1>4, ToSearchNext
<1> QED
    BY <1>1, <1>5 DEF SearchInv

LEMMA StepBeginSearch ==
    ASSUME SearchInv, BeginSearch PROVE SearchInv'
<1>1. /\ UNCHANGED <<references, cycles>>
      /\ pc = "groups" /\ groups # <<>> /\ IsRecursive(Head(groups)) /\ groups' = Tail(groups)
      /\ pc' = "search" /\ members' = Head(groups) /\ start' = StartOf(members')
      /\ queue' = <<start'>> /\ previous' = [v \in {start'} |-> 0]
    BY DEF BeginSearch
<1>2. Searching = {} /\ Searching' = Head(groups)
    BY <1>1 DEF Searching
<1>3. ToSearch(groups, {}, cycles)
    BY <1>1, <1>2 DEF SearchInv
<1>4. ToSearch(Tail(groups), Head(groups), cycles)
    BY <1>1, <1>3, GroupTaken
<1>5. ToSearch(groups, Searching, cycles)'
    BY <1>1, <1>2, <1>4, ToSearchNext
<1>6. PICK mem : mem = Head(groups)
    OBVIOUS
<1>7. mem \in SUBSET Shape /\ IsGroup(mem)
    <2>1. Groups(groups)
        BY <1>3 DEF ToSearch
    <2> QED
        BY <2>1, <1>1, <1>6, HeadGroup
<1>8. PICK st : st = StartOf(mem)
    OBVIOUS
<1>9. st \in mem /\ \A v \in mem : st <= v
    <2>1. mem \subseteq Nat /\ mem # {}
        BY <1>7, ShapesFinite DEF IsGroup
    <2>2. \E v \in mem : \A w \in mem : v <= w
        BY <2>1, LeastNat
    <2> QED
        BY <2>2, <1>8 DEF StartOf
<1>10. Started(st, mem)
    BY <1>1, <1>6, <1>7, <1>9, RecursiveGroup DEF Started
<1>11. Started(start, members)'
    BY <1>1, <1>6, <1>8, <1>10, StartedNext
<1>12. PICK prev : prev = [v \in {st} |-> 0]
    OBVIOUS
<1>13. PICK d : d = [v \in {st} |-> 0]
    OBVIOUS
<1>14. Visited(st, mem, prev, d)
    BY <1>7, <1>9, <1>12, <1>13 DEF Visited
<1>15. Searched(st, mem, <<st>>, prev, d)
    <2>1. DOMAIN prev = {st} /\ d[st] = 0
        BY <1>12, <1>13
    <2>2. PICK q : q = <<st>>
        OBVIOUS
    <2>3. q \in Seq({st}) /\ Len(q) = 1 /\ q[1] = st /\ 1 \in 1 .. 1
        BY <2>2
    <2>4. \A i \in 1 .. 1 : i = 1
        OBVIOUS
    <2> QED
        BY <2>1, <2>2, <2>3, <2>4 DEF Searched
<1>16. InQueue(st, mem, <<st>>, prev)
    BY <1>14, <1>15 DEF InQueue
<1>17. InQueue(start, members, queue, previous)'
    BY <1>1, <1>6, <1>8, <1>12, <1>16, InQueueNext
<1> QED
    BY <1>1, <1>5, <1>11, <1>17 DEF SearchInv

\* The group that is searched stays the same.
LEMMA SameGroup ==
    ASSUME SearchInv, pc \in {"search", "way"}, pc' \in {"search", "way"},
           UNCHANGED <<references, groups, start, members, cycles>>
    PROVE  ToSearch(groups, Searching, cycles)' /\ Started(start, members)'
<1>1. Searching' = Searching
    BY DEF Searching
<1>2. ToSearch(groups, Searching, cycles) /\ Started(start, members)
    BY DEF SearchInv
<1> QED
    BY <1>1, <1>2, ToSearchNext, StartedNext

LEMMA StepLook ==
    ASSUME SearchInv, Look PROVE SearchInv'
<1>1. /\ UNCHANGED <<references, pc, groups, start, members, cycles>>
      /\ pc = "search" /\ queue # <<>> /\ start \notin Targets(Head(queue))
      /\ queue' = Tail(queue) \o InOrder(Unvisited(Head(queue)))
      /\ Reach(Unvisited(Head(queue)), Head(queue))
    BY DEF Look
<1>2. ToSearch(groups, Searching, cycles)' /\ Started(start, members)'
    BY <1>1, SameGroup
<1>3. PICK d : Visited(start, members, previous, d)
               /\ Searched(start, members, queue, previous, d)
    BY <1>1 DEF SearchInv, InQueue
<1>4. queue \in Seq(DOMAIN previous)
    BY <1>3 DEF Searched
<1>5. Head(queue) = queue[1] /\ queue[1] \in DOMAIN previous
    BY <1>1, <1>4
<1>6. PICK v \in DOMAIN previous : v = queue[1]
    BY <1>5
<1>7. PICK new : new = Unvisited(v)
    OBVIOUS
<1>8. \A x : x \in new <=> x \in Targets(queue[1]) \cap members /\ x \notin DOMAIN previous
    BY <1>6, <1>7 DEF Unvisited
<1>9. new \in SUBSET Shape
    BY <1>8 DEF Targets
<1>10. Requeued(queue, new, queue')
    <2>1. /\ InOrder(new) \in Seq(new)
          /\ \A x \in new : \E k \in 1 .. Len(InOrder(new)) : InOrder(new)[k] = x
        BY <1>9, InOrderLists
    <2>2. queue' = Tail(queue) \o InOrder(new)
        BY <1>1, <1>5, <1>6, <1>7
    <2> QED
        BY <2>1, <2>2 DEF Requeued
<1>11. PICK d2 : d2 = [w \in DOMAIN previous \cup new |-> IF w \in new THEN d[v] + 1 ELSE d[w]]
    OBVIOUS
<1>12. Visiting(previous, d, v, new, previous', d2)
    BY <1>1, <1>5, <1>6, <1>7, <1>11 DEF Visiting, Reach
<1>13. Visited(start, members, previous', d2)
    BY <1>3, <1>6, <1>8, <1>12, VisitedMore
<1>14. Searched(start, members, queue', previous', d2)
    <2>1. start \notin Targets(queue[1]) /\ Visiting(previous, d, queue[1], new, previous', d2)
        BY <1>1, <1>5, <1>6, <1>12
    <2> QED
        BY <2>1, <1>1, <1>3, <1>8, <1>10, SearchedMore
<1>15. InQueue(start, members, queue', previous')
    BY <1>13, <1>14 DEF InQueue
<1>16. InQueue(start, members, queue, previous)'
    BY <1>1, <1>15, InQueueNext
<1> QED
    BY <1>1, <1>2, <1>16 DEF SearchInv

LEMMA StepMeetStart ==
    ASSUME SearchInv, MeetStart PROVE SearchInv'
<1>1. /\ UNCHANGED <<references, groups, start, members, previous, cycles>>
      /\ pc = "search" /\ queue # <<>> /\ start \in Targets(Head(queue))
      /\ pc' = "way" /\ way' = <<Head(queue), start>>
    BY DEF MeetStart
<1>2. ToSearch(groups, Searching, cycles)' /\ Started(start, members)'
    BY <1>1, SameGroup
<1>3. PICK d : Visited(start, members, previous, d)
               /\ Searched(start, members, queue, previous, d)
    BY <1>1 DEF SearchInv, InQueue
<1>4. queue \in Seq(DOMAIN previous)
    BY <1>3 DEF Searched
<1>5. Head(queue) = queue[1] /\ queue[1] \in DOMAIN previous
    BY <1>1, <1>4
<1>6. Started(start, members)
    BY <1>1 DEF SearchInv
<1>7. \A k \in 1 .. d[queue[1]] : ~ Leads(start, k, start)
    BY <1>1, <1>3, <1>6, NoShorterWay DEF Started
<1>8. PICK v \in DOMAIN previous : v = queue[1]
    BY <1>5
<1>9. PICK wy : wy = <<v, start>>
    OBVIOUS
<1>10. v \in members /\ start \in members /\ d[v] \in Nat
    BY <1>3, <1>6 DEF Visited, Started
<1>11. wy \in Seq(members) /\ Len(wy) = 2 /\ wy[1] = v /\ wy[2] = start
    BY <1>9, <1>10
<1>12. start \in Targets(v) /\ d[v] + 2 - 2 = d[v] /\ \A i \in 1 .. 2 - 1 : i = 1
    BY <1>1, <1>5, <1>8, <1>10
<1>13. Walking(start, members, previous, d, wy)
    <2>1. \A k \in 1 .. d[v] + 2 - 2 : ~ Leads(start, k, start)
        BY <1>7, <1>8, <1>12
    <2>2. \A i \in 1 .. 2 - 1 : wy[i + 1] \in Targets(wy[i])
        BY <1>11, <1>12
    <2> QED
        BY <2>1, <2>2, <1>11 DEF Walking
<1>14. OnWay(start, members, previous, wy)
    BY <1>3, <1>13 DEF OnWay
<1>15. OnWay(start, members, previous, way)'
    BY <1>1, <1>5, <1>8, <1>9, <1>14, OnWayNext
<1> QED
    BY <1>1, <1>2, <1>15 DEF SearchInv

LEMMA Prepended ==
    ASSUME NEW V, NEW v \in V, NEW s \in Seq(V)
    PROVE  /\ <<v>> \o s \in Seq(V)
           /\ Len(<<v>> \o s) = Len(s) + 1
           /\ (<<v>> \o s)[1] = v
           /\ \A i \in 1 .. Len(s) : (<<v>> \o s)[i + 1] = s[i]
<1>1. PICK u : u = <<v>>
    OBVIOUS
<1>2. u \in Seq(V) /\ Len(u) = 1 /\ u[1] = v
    BY <1>1
<1>a. u \in Seq(V)
    BY <1>2
<1>3. u \o s \in Seq(V) /\ Len(u \o s) = Len(u) + Len(s) /\ Len(s) \in Nat
    BY <1>a
<1>4. \A i \in 1 .. Len(u) + Len(s) :
          (u \o s)[i] = IF i <= Len(u) THEN u[i] ELSE s[i - Len(u)]
    BY <1>a
<1>5. (u \o s)[1] = v
    BY <1>2, <1>3, <1>4
<1>6. ASSUME NEW i \in 1 .. Len(s) PROVE (u \o s)[i + 1] = s[i]
    <2>1. i + 1 \in 1 .. Len(u) + Len(s) /\ ~ (i + 1 <= Len(u)) /\ i + 1 - Len(u) = i
        BY <1>2, <1>3
    <2> QED
        BY <2>1, <1>4
<1>7. Len(u \o s) = Len(s) + 1
    BY <1>2, <1>3
<1> QED
    BY <1>1, <1>3, <1>5, <1>6, <1>7

LEMMA StepWalkBack ==
    ASSUME SearchInv, WalkBack PROVE SearchInv'
<1>1. /\ UNCHANGED <<references, pc, groups, start, members, previous, cycles>>
      /\ pc = "way" /\ Head(way) # start /\ way' = <<previous[Head(way)]>> \o way
    BY DEF WalkBack
<1>2. ToSearch(groups, Searching, cycles)' /\ Started(start, members)'
    BY <1>1, SameGroup
<1>3. PICK d : Visited(start, members, previous, d)
               /\ Walking(start, members, previous, d, way)
    BY <1>1 DEF SearchInv, OnWay
<1>4. way \in Seq(members) /\ Len(way) >= 2 /\ way # <<>> /\ Head(way) = way[1]
    BY <1>3 DEF Walking
<1>5. PICK w \in DOMAIN previous \ {start} : w = way[1]
    BY <1>1, <1>3, <1>4 DEF Walking
<1>6. PICK v \in DOMAIN previous : v = previous[w]
    BY <1>3 DEF Visited
<1>7. /\ w \in Targets(v) /\ d[w] = d[v] + 1 /\ d[v] \in Nat /\ v \in members
    BY <1>3, <1>6 DEF Visited
<1>8. PICK wy : wy = <<v>> \o way
    OBVIOUS
<1>9. PICK n \in Nat : n = Len(way)
    BY <1>4
<1>10. /\ wy \in Seq(members) /\ Len(wy) = n + 1 /\ wy[1] = v
       /\ \A i \in 1 .. n : wy[i + 1] = way[i]
    BY <1>4, <1>7, <1>8, <1>9, Prepended
<1>11. n >= 2 /\ n + 1 >= 2 /\ n + 1 - 1 = n
       /\ d[v] + (n + 1) - 2 = d[w] + n - 2
    BY <1>4, <1>7, <1>9
<1>12. wy[n + 1] = start
    BY <1>3, <1>9, <1>10, <1>11 DEF Walking
<1>13. \A i \in 1 .. n : wy[i + 1] \in Targets(wy[i])
    <2> SUFFICES ASSUME NEW i \in 1 .. n PROVE wy[i + 1] \in Targets(wy[i])
        OBVIOUS
    <2>1. CASE i = 1
        BY <2>1, <1>5, <1>7, <1>10, <1>11
    <2>2. CASE i # 1
        <3>1. PICK j \in Nat : i = j + 1
            BY <2>2
        <3>2. j \in 1 .. n - 1 /\ j \in 1 .. n
            BY <2>2, <3>1
        <3>3. way[j + 1] \in Targets(way[j])
            BY <3>2, <1>3, <1>9 DEF Walking
        <3>4. wy[i + 1] = way[i] /\ wy[i] = way[j]
            BY <3>1, <3>2, <1>10
        <3> QED
            BY <3>1, <3>3, <3>4
    <2> QED
        BY <2>1, <2>2
<1>14. \A k \in 1 .. d[v] + (n + 1) - 2 : ~ Leads(start, k, start)
    BY <1>3, <1>5, <1>9, <1>11 DEF Walking
<1>15. Walking(start, members, previous, d, wy)
    BY <1>10, <1>11, <1>12, <1>13, <1>14 DEF Walking
<1>16. OnWay(start, members, previous, wy)
    BY <1>3, <1>15 DEF OnWay
<1>17. OnWay(start, members, previous, way)'
    BY <1>1, <1>4, <1>5, <1>6, <1>8, <1>16, OnWayNext
<1> QED
    BY <1>1, <1>2, <1>17 DEF SearchInv

LEMMA StepCloseCycle ==
    ASSUME SearchInv, CloseCycle PROVE SearchInv'
<1>1. /\ UNCHANGED <<references, groups>>
      /\ pc = "way" /\ Head(way) = start /\ cycles' = Append(cycles, way) /\ pc' = "groups"
    BY DEF CloseCycle
<1>2. PICK d : Visited(start, members, previous, d)
               /\ Walking(start, members, previous, d, way)
    BY <1>1 DEF SearchInv, OnWay
<1>3. Started(start, members) /\ ToSearch(groups, members, cycles)
    BY <1>1 DEF SearchInv, Searching
<1>4. way \in Seq(members) /\ Len(way) >= 2 /\ way[1] = start /\ way[Len(way)] = start
    BY <1>1, <1>2 DEF Walking
<1>5. start \in members /\ members \in SUBSET Shape /\ IsGroup(members)
      /\ Mutual(start) = members
    BY <1>3 DEF Started, IsGroup
<1>6. GoodCycle(way)
    <2>1. way \in Seq(Shape) /\ \A i \in 1 .. Len(way) : way[i] \in Mutual(way[1])
        BY <1>4, <1>5
    <2>2. IsCycle(way)
        BY <1>2, <1>4 DEF IsCycle, Walking
    <2>3. way[1] \in Shape /\ way[1] \in ReachedFrom(way[1])
          /\ \A v \in Mutual(way[1]) : way[1] <= v
        BY <1>3, <1>4, <1>5 DEF Started
    <2>4. \A k \in 1 .. Len(way) - 2 : ~ Leads(way[1], k, way[1])
        <3>1. d[way[1]] = 0 /\ 0 + Len(way) - 2 = Len(way) - 2
            BY <1>2, <1>4 DEF Visited
        <3> QED
            BY <3>1, <1>2, <1>4 DEF Walking
    <2> QED
        BY <2>1, <2>2, <2>3, <2>4 DEF GoodCycle
<1>7. ToSearch(groups, {}, Append(cycles, way))
    BY <1>3, <1>4, <1>5, <1>6, GroupSearched
<1>8. Searching' = {}
    BY <1>1 DEF Searching
<1>9. ToSearch(groups, Searching, cycles)'
    BY <1>1, <1>7, <1>8, ToSearchNext
<1> QED
    BY <1>1, <1>9 DEF SearchInv

\* What is reported is the cycles found, from the least start on.
LEMMA StepReport ==
    ASSUME SearchInv, Report PROVE SearchInv'
<1>1. /\ UNCHANGED <<references, groups>>
      /\ pc = "groups" /\ groups = <<>> /\ pc' = "reported"
      /\ cycles' = [k \in DOMAIN cycles |->
                       cycles[CHOOSE i \in DOMAIN cycles :
                                 Cardinality({j \in DOMAIN cycles : Before(j, i)}) = k - 1]]
    BY DEF Report
<1>2. Searching = {} /\ Searching' = {}
    BY <1>1 DEF Searching
<1>3. ToSearch(<<>>, {}, cycles)
    BY <1>1, <1>2 DEF SearchInv
<1>4. PICK cs : cs = cycles
    OBVIOUS
<1>5. PICK n \in Nat : n = Len(cs) /\ DOMAIN cs = 1 .. n
    BY <1>3, <1>4 DEF ToSearch
<1>6. /\ cs \in Seq(Seq(Shape))
      /\ \A i \in 1 .. n : GoodCycle(cs[i])
      /\ Covered(<<>>, {}, cs)
      /\ Apart(<<>>, {}, cs)
    BY <1>3, <1>4, <1>5 DEF ToSearch
<1>7. \A i \in 1 .. n : cs[i][1] \in Nat /\ cs[i][1] \in Mutual(cs[i][1])
    <2>1. \A i \in 1 .. n : cs[i][1] \in Shape
        BY <1>6 DEF GoodCycle
    <2> QED
        BY <2>1, MutualSelf, RecursiveShapesAssumption DEF Shape
<1>8. \A i, j \in 1 .. n : i # j => cs[i][1] # cs[j][1]
    BY <1>5, <1>6, <1>7 DEF Apart
<1> DEFINE R == {e \in (1 .. n) \X (1 .. n) : Before(e[1], e[2])}
           rank(i) == Cardinality({j \in 1 .. n : Before(j, i)})
<1>9. \A i, j \in 1 .. n : Before(j, i) <=> cs[j][1] < cs[i][1]
    BY <1>4, <1>7, <1>8 DEF Before
<1>10. \A x, y \in 1 .. n : <<x, y>> \in R <=> cs[x][1] < cs[y][1]
    BY <1>9
<1>11. \A x \in 1 .. n : Earlier(1 .. n, R, x) = {j \in 1 .. n : Before(j, x)}
    BY DEF Earlier
<1>12. IsFiniteSet(1 .. n) /\ Cardinality(1 .. n) = n
    BY FS_Interval
<1> HIDE DEF R
<1>13. /\ \A x \in 1 .. n : <<x, x>> \notin R
       /\ \A x, y, z \in 1 .. n : <<x, y>> \in R /\ <<y, z>> \in R => <<x, z>> \in R
       /\ \A x, y \in 1 .. n : x = y \/ <<x, y>> \in R \/ <<y, x>> \in R
    BY <1>7, <1>8, <1>10
<1>14. /\ \A x \in 1 .. n : Cardinality(Earlier(1 .. n, R, x)) \in 0 .. Cardinality(1 .. n) - 1
       /\ \A x, y \in 1 .. n : <<x, y>> \in R =>
             Cardinality(Earlier(1 .. n, R, x)) < Cardinality(Earlier(1 .. n, R, y))
       /\ \A k \in 1 .. Cardinality(1 .. n) : \E x \in 1 .. n :
             Cardinality(Earlier(1 .. n, R, x)) = k - 1
    BY <1>12, <1>13, Ranks
<1>15. /\ \A x \in 1 .. n : rank(x) \in 0 .. n - 1
       /\ \A x, y \in 1 .. n : cs[x][1] < cs[y][1] => rank(x) < rank(y)
       /\ \A k \in 1 .. n : \E x \in 1 .. n : rank(x) = k - 1
    BY <1>10, <1>11, <1>12, <1>14
<1> DEFINE pi(k) == CHOOSE i \in 1 .. n : rank(i) = k - 1
<1>16. cycles' = [k \in 1 .. n |-> cs[pi(k)]]
    BY <1>1, <1>4, <1>5
<1> HIDE DEF rank
<1>17. \A k \in 1 .. n : pi(k) \in 1 .. n /\ rank(pi(k)) = k - 1
    BY <1>15
<1> HIDE DEF pi
<1>18. PICK ds : ds = [k \in 1 .. n |-> cs[pi(k)]]
    OBVIOUS
<1>19. ds \in Seq(Seq(Shape)) /\ Len(ds) = n /\ DOMAIN ds = 1 .. n
    <2>1. ds \in [1 .. n -> Seq(Shape)]
        BY <1>6, <1>5, <1>17, <1>18
    <2> QED
        BY <2>1
<1>20. \A k \in 1 .. n : ds[k] = cs[pi(k)]
    BY <1>18
<1>21. \A i \in 1 .. n : \E k \in 1 .. n : pi(k) = i
    <2> SUFFICES ASSUME NEW i \in 1 .. n PROVE \E k \in 1 .. n : pi(k) = i
        OBVIOUS
    <2>1. PICK k \in Nat : k = rank(i) + 1
        BY <1>15
    <2>2. k \in 1 .. n /\ rank(i) = k - 1 /\ rank(i) \in Nat
        BY <2>1, <1>15
    <2>3. pi(k) \in 1 .. n /\ rank(pi(k)) = rank(i)
        BY <2>2, <1>17
    <2>4. ~ (cs[pi(k)][1] < cs[i][1]) /\ ~ (cs[i][1] < cs[pi(k)][1])
        BY <2>2, <2>3, <1>15
    <2>5. cs[pi(k)][1] = cs[i][1]
        BY <2>3, <2>4, <1>7
    <2> QED
        BY <2>2, <2>3, <2>5, <1>8
<1>22. \A k, l \in 1 .. n : k # l => pi(k) # pi(l)
    <2> SUFFICES ASSUME NEW k \in 1 .. n, NEW l \in 1 .. n, pi(k) = pi(l) PROVE k = l
        OBVIOUS
    <2>1. k - 1 = l - 1
        BY <1>17
    <2> QED
        BY <2>1
<1>23. ToSearch(<<>>, {}, ds)
    <2>1. Covered(<<>>, {}, ds)
        <3> SUFFICES ASSUME NEW v \in RecursiveShape
                     PROVE  \E k \in 1 .. n : ds[k][1] \in Mutual(v)
            BY <1>19 DEF Covered
        <3>1. PICK i \in 1 .. n : cs[i][1] \in Mutual(v)
            BY <1>5, <1>6 DEF Covered
        <3> QED
            BY <3>1, <1>20, <1>21
    <2>2. Apart(<<>>, {}, ds)
        <3>1. ASSUME NEW k \in 1 .. n, NEW l \in 1 .. n, k # l
              PROVE  ds[l][1] \notin Mutual(ds[k][1])
            <4>1. \A i, j \in 1 .. n : i # j => cs[j][1] \notin Mutual(cs[i][1])
                BY <1>5, <1>6 DEF Apart
            <4>2. pi(k) \in 1 .. n /\ pi(l) \in 1 .. n /\ pi(k) # pi(l)
                BY <3>1, <1>17, <1>22
            <4> QED
                BY <4>1, <4>2, <1>20
        <3> QED
            BY <3>1, <1>19 DEF Apart
    <2>3. \A k \in 1 .. n : GoodCycle(ds[k])
        BY <1>6, <1>17, <1>20
    <2>4. Groups(<<>>)
        BY <1>3 DEF ToSearch
    <2> QED
        BY <2>1, <2>2, <2>3, <2>4, <1>19 DEF ToSearch
<1>24. Sorted(ds)
    <2> SUFFICES ASSUME NEW k \in 1 .. n, NEW l \in 1 .. n, k < l PROVE ds[k][1] < ds[l][1]
        BY <1>19 DEF Sorted
    <2>1. rank(pi(k)) < rank(pi(l))
        BY <1>17
    <2>2. pi(k) \in 1 .. n /\ pi(l) \in 1 .. n
          /\ rank(pi(k)) \in Nat /\ rank(pi(l)) \in Nat
        BY <1>15, <1>17
    <2>3. ~ (cs[pi(l)][1] < cs[pi(k)][1]) /\ pi(k) # pi(l)
        BY <2>1, <2>2, <1>15
    <2>4. cs[pi(k)][1] \in Nat /\ cs[pi(l)][1] \in Nat /\ cs[pi(k)][1] # cs[pi(l)][1]
        BY <2>2, <2>3, <1>7, <1>8
    <2> QED
        BY <2>3, <2>4, <1>20
<1>25. ToSearch(groups, Searching, cycles)'
    BY <1>1, <1>2, <1>16, <1>18, <1>23, ToSearchNext
<1>26. Sorted(cycles)'
    BY <1>16, <1>18, <1>24 DEF Sorted
<1> QED
    BY <1>1, <1>25, <1>26 DEF SearchInv

-----------------------------------------------------------------------------
(* The whole search.                                                       *)

LEMMA StepSearch ==
    ASSUME TarjanInv, SearchInv, Next PROVE TarjanInv' /\ SearchInv'
<1>1. CASE VisitNext \/ Descend \/ MeetOnStack \/ MeetComplete
           \/ CompleteComponent \/ LeaveOnStack
    BY <1>1, StepTarjan, StepTarjanSearch
<1>2. CASE \/ ComponentsKnown \/ SkipGroup \/ BeginSearch \/ Look
           \/ MeetStart \/ WalkBack \/ CloseCycle \/ Report
    <2>1. UNCHANGED <<references, tarjanVars>>
        BY <1>2 DEF ComponentsKnown, SkipGroup, BeginSearch, Look, MeetStart, WalkBack,
                    CloseCycle, Report
    <2>2. TarjanInv'
        BY <2>1, TarjanInvStays
    <2> QED
        BY <1>2, <2>2, StepComponentsKnown, StepSkipGroup, StepBeginSearch, StepLook,
           StepMeetStart, StepWalkBack, StepCloseCycle, StepReport
<1> QED
    BY <1>1, <1>2 DEF Next

LEMMA SearchKept ==
    ASSUME TarjanInv, SearchInv, UNCHANGED vars PROVE TarjanInv' /\ SearchInv'
<1>1. UNCHANGED <<references, tarjanVars>> /\ UNCHANGED <<references, pc, searchVars>>
    BY DEF vars
<1> QED
    BY <1>1, TarjanInvStays, SearchStays

LEMMA StepLowering ==
    ASSUME TarjanInv, SearchInv, [NextLowering]_allVars PROVE TarjanInv' /\ SearchInv'
<1>1. CASE FindRecursion
    BY <1>1, StepSearch DEF FindRecursion
<1>2. CASE \/ Refuse \/ BeginLowering \/ BeginRule \/ PassDeactivated
           \/ FlagRecursive \/ LeaveUnexplained \/ Inline \/ Overflow
           \/ CallReturns \/ EndRule \/ EndLowering \/ UNCHANGED allVars
    <2>1. UNCHANGED vars
        BY <1>2 DEF Refuse, BeginLowering, BeginRule, PassDeactivated, FlagRecursive,
                    LeaveUnexplained, Inline, Overflow, CallReturns, EndRule, EndLowering,
                    allVars
    <2> QED
        BY <2>1, SearchKept
<1> QED
    BY <1>1, <1>2 DEF NextLowering

\* The invariant of the search, while lowering goes on too.
LEMMA SearchIsSound == LoweringSpec => [](TarjanInv /\ SearchInv)
<1>1. InitLowering => TarjanInv /\ SearchInv
    BY InitTarjanInv, InitSearchInv DEF InitLowering
<1>2. TarjanInv /\ SearchInv /\ [NextLowering]_allVars => (TarjanInv /\ SearchInv)'
    BY StepLowering
<1> QED
    BY <1>1, <1>2, PTL DEF LoweringSpec

LEMMA ReportedOnce ==
    ASSUME ToSearch(<<>>, {}, cycles), NEW v \in Shape
    PROVE  Cardinality({i \in DOMAIN cycles :
                           v \in ReachedFrom(cycles[i][1]) /\ cycles[i][1] \in ReachedFrom(v)})
             = IF v \in RecursiveShape THEN 1 ELSE 0
<1> DEFINE I == {i \in DOMAIN cycles :
                    v \in ReachedFrom(cycles[i][1]) /\ cycles[i][1] \in ReachedFrom(v)}
<1>1. DOMAIN cycles = 1 .. Len(cycles)
    BY DEF ToSearch
<1>2. \A i \in DOMAIN cycles : cycles[i][1] \in Shape /\ cycles[i][1] \in ReachedFrom(cycles[i][1])
    BY <1>1 DEF ToSearch, GoodCycle
<1>3. CASE v \notin RecursiveShape
    <2>1. I = {}
        BY <1>3, ReachedTransitive DEF RecursiveShape
    <2> QED
        BY <1>3, <2>1, FS_EmptySet
<1>4. CASE v \in RecursiveShape
    <2>0. Covered(<<>>, {}, cycles)
        BY DEF ToSearch
    <2>1. PICK i \in DOMAIN cycles : cycles[i][1] \in Mutual(v)
        BY <2>0, <1>1, <1>4 DEF Covered
    <2>2. v \in ReachedFrom(v)
        BY <1>4 DEF RecursiveShape
    <2>3. i \in I
        BY <2>1, <2>2, <1>2 DEF Mutual, Reaches
    <2>4. ASSUME NEW j \in I, j # i PROVE FALSE
        <3>1. cycles[j][1] \in Mutual(v)
            BY <1>2 DEF Mutual, Reaches
        <3>2. Mutual(cycles[i][1]) = Mutual(v)
            BY <2>1, MutualSame
        <3> QED
            BY <3>1, <3>2, <2>4, <1>1 DEF ToSearch, Apart
    <2>5. I = {i}
        BY <2>3, <2>4
    <2> QED
        BY <1>4, <2>5, FS_Singleton
<1> QED
    BY <1>3, <1>4

\* Every group of mutually recursive shapes is reported once, and nothing else is: what
\* strongly_connected_components and shortest_cycle of cycles.rs are for.
THEOREM GroupsAreReportedOnce == LoweringSpec => []EveryGroupReportedOnce
<1>1. SearchInv => EveryGroupReportedOnce
    <2> SUFFICES ASSUME SearchInv, pc = "reported" PROVE EveryGroupReportedOnce
        BY DEF EveryGroupReportedOnce
    <2>1. ToSearch(<<>>, {}, cycles)
        BY DEF SearchInv, Searching
    <2> QED
        BY <2>1, ReportedOnce DEF EveryGroupReportedOnce
<1> QED
    BY <1>1, SearchIsSound, PTL

\* What is reported is a cycle through the least shape of its group that is as short as
\* any through that shape, and the cycles come in the order of the shape ids.
THEOREM ReportedCyclesAreShortest == LoweringSpec => []CyclesAreShortest
<1>1. SearchInv => CyclesAreShortest
    <2> SUFFICES ASSUME SearchInv, pc = "reported" PROVE CyclesAreShortest
        BY DEF CyclesAreShortest
    <2>1. ToSearch(<<>>, {}, cycles) /\ Sorted(cycles)
        BY DEF SearchInv, Searching
    <2>2. ASSUME NEW i \in DOMAIN cycles
          PROVE  /\ IsCycle(cycles[i])
                 /\ \A k \in 1 .. Len(cycles[i]) - 2 : ~ Leads(cycles[i][1], k, cycles[i][1])
                 /\ \A v \in ReachedFrom(cycles[i][1]) :
                       cycles[i][1] \in ReachedFrom(v) => cycles[i][1] <= v
        <3>1. PICK c : c = cycles[i]
            OBVIOUS
        <3>2. GoodCycle(c)
            <4>1. DOMAIN cycles = 1 .. Len(cycles)
                BY <2>1 DEF ToSearch
            <4> QED
                BY <4>1, <2>1, <3>1 DEF ToSearch
        <3>3. \A v \in ReachedFrom(c[1]) : c[1] \in ReachedFrom(v) => v \in Mutual(c[1])
            BY ReachedShapes DEF Mutual, Reaches
        <3> QED
            BY <3>1, <3>2, <3>3 DEF GoodCycle
    <2>3. \A i, j \in DOMAIN cycles : i < j => cycles[i][1] < cycles[j][1]
        BY <2>1 DEF Sorted
    <2> QED
        BY <2>2, <2>3 DEF CyclesAreShortest
<1> QED
    BY <1>1, SearchIsSound, PTL

-----------------------------------------------------------------------------
(* Shapes that are needed, and calls that lower them.                      *)

NeedsMet(C, S) ==
    /\ ConformsCalledBy(C) \subseteq S
    /\ \A x \in S : ConformsCalledBy(ConformsCalls(x)) \subseteq S

LEMMA NeededWithin ==
    ASSUME NEW C, NEW S \in SUBSET Shape, NeedsMet(C, S) PROVE Needed(C) \subseteq S
BY DEF Needed, NeedsMet

\* Nothing but shapes is called.
ShapeCall == {"conforms", "details"} \X Shape

LEMMA EdgesTyped ==
    ASSUME edges \in ShapeGraphs, NEW e \in edges
    PROVE  e[1] \in Shape /\ e[3] \in Shape
<1>1. e \in Shape \X {e[2]} \X Shape
    BY InliningAssumption
<1> QED
    BY <1>1

LEMMA PropertiesAreShapes ==
    ASSUME NEW v PROVE Properties(v) \subseteq Shape /\ Qualified(v) \subseteq Shape
BY DEF Properties, Qualified

\* A shape whose details are asked for is one that has to conform.
LEMMA ConstraintCallsPaired ==
    ASSUME edges \in ShapeGraphs, NEW e \in edges, NEW x \in ConstraintCalls(e)
    PROVE  x \in ShapeCall /\ x[2] \in Shape /\ <<"conforms", x[2]>> \in ConstraintCalls(e)
<1>1. e[3] \in Shape
    BY EdgesTyped
<1>2. CASE x = <<"conforms", e[3]>>
    BY <1>1, <1>2 DEF ShapeCall
<1>3. CASE x = <<"details", e[3]>>
    BY <1>1, <1>3 DEF ShapeCall, ConstraintCalls
<1>4. CASE x \in {"conforms"} \X SiblingQualifiedShapes(e[1], e[3])
    <2>1. SiblingQualifiedShapes(e[1], e[3]) \subseteq Shape
        BY PropertiesAreShapes DEF SiblingQualifiedShapes
    <2>2. PICK s \in SiblingQualifiedShapes(e[1], e[3]) : x = <<"conforms", s>>
        BY <1>4
    <2>3. x[2] = s /\ x = <<"conforms", x[2]>>
        BY <2>2
    <2> QED
        BY <2>1, <2>2, <2>3 DEF ShapeCall
<1> QED
    BY <1>2, <1>3, <1>4 DEF ConstraintCalls

LEMMA ShapeCallsPaired ==
    ASSUME edges \in ShapeGraphs, NEW v, NEW x \in ShapeCalls(v)
    PROVE  x \in ShapeCall /\ x[2] \in Shape /\ <<"conforms", x[2]>> \in ShapeCalls(v)
<1>1. PICK e \in Constraints(v) : x \in ConstraintCalls(e)
    BY DEF ShapeCalls
<1>2. e \in edges
    BY DEF Constraints
<1>3. x \in ShapeCall /\ x[2] \in Shape /\ <<"conforms", x[2]>> \in ConstraintCalls(e)
    BY <1>1, <1>2, ConstraintCallsPaired
<1> QED
    BY <1>3 DEF ShapeCalls

LEMMA ConformsCallsPaired ==
    ASSUME edges \in ShapeGraphs, NEW v, NEW x \in ConformsCalls(v)
    PROVE  x \in ShapeCall /\ x[2] \in Shape /\ <<"conforms", x[2]>> \in ConformsCalls(v)
<1>1. CASE x \in ShapeCalls(v)
    BY <1>1, ShapeCallsPaired DEF ConformsCalls
<1>2. CASE x \in {"conforms"} \X Properties(v)
    <2>1. PICK p \in Properties(v) : x = <<"conforms", p>>
        BY <1>2
    <2>2. x[2] = p /\ x = <<"conforms", x[2]>>
        BY <2>1
    <2> QED
        BY <2>1, <2>2, PropertiesAreShapes DEF ShapeCall, ConformsCalls
<1> QED
    BY <1>1, <1>2 DEF ConformsCalls

LEMMA ConformsPart ==
    ASSUME NEW C, NEW x
    PROVE  x \in ConformsCalledBy(C) <=> x \notin deactivated /\ \E c \in C : c[1] = "conforms" /\ c[2] = x
BY DEF ConformsCalledBy

LEMMA ConformsShapes ==
    ASSUME NEW C, C \subseteq ShapeCall PROVE ConformsCalledBy(C) \subseteq Shape
<1>1. \A c \in C : c[2] \in Shape
    BY DEF ShapeCall
<1> QED
    BY <1>1, ConformsPart

LEMMA ConformsPair ==
    ASSUME NEW C, NEW x, <<"conforms", x>> \in C, x \notin deactivated
    PROVE  x \in ConformsCalledBy(C)
<1>1. PICK c \in C : c = <<"conforms", x>>
    OBVIOUS
<1>2. c[1] = "conforms" /\ c[2] = x
    BY <1>1
<1> QED
    BY <1>2, ConformsPart

LEMMA NeededBase ==
    ASSUME NEW C, C \subseteq ShapeCall PROVE ConformsCalledBy(C) \subseteq Needed(C)
BY ConformsShapes DEF Needed

LEMMA NeededClosed ==
    ASSUME edges \in ShapeGraphs, NEW C, NEW x \in Needed(C)
    PROVE  ConformsCalledBy(ConformsCalls(x)) \subseteq Needed(C)
<1>1. ConformsCalls(x) \subseteq ShapeCall
    BY ConformsCallsPaired
<1>2. ConformsCalledBy(ConformsCalls(x)) \subseteq Shape
    BY <1>1, ConformsShapes
<1> QED
    BY <1>2 DEF Needed

\* What is needed is called, or needed by what is called.
LEMMA NeededThrough ==
    ASSUME edges \in ShapeGraphs, NEW C, C \subseteq ShapeCall, NEW v \in Needed(C)
    PROVE  \E y \in ConformsCalledBy(C) : v = y \/ v \in Needed(ConformsCalls(y))
<1> DEFINE S == {w \in Shape : \E y \in ConformsCalledBy(C) : w = y \/ w \in Needed(ConformsCalls(y))}
<1>1. ConformsCalledBy(C) \subseteq S
    BY ConformsShapes
<1>2. ASSUME NEW x \in S PROVE ConformsCalledBy(ConformsCalls(x)) \subseteq S
    <2>1. PICK y \in ConformsCalledBy(C) : x = y \/ x \in Needed(ConformsCalls(y))
        OBVIOUS
    <2>2. ConformsCalls(x) \subseteq ShapeCall
        BY ConformsCallsPaired
    <2>3. ConformsCalledBy(ConformsCalls(x)) \subseteq Needed(ConformsCalls(y))
        BY <2>1, <2>2, NeededBase, NeededClosed
    <2> QED
        BY <2>2, <2>3, ConformsShapes
<1>3. NeedsMet(C, S)
    BY <1>1, <1>2 DEF NeedsMet
<1> HIDE DEF S
<1>4. v \in S
    BY <1>3, NeededWithin DEF S
<1> QED
    BY <1>4 DEF S

\* Nothing that a shape needs, nor the shape, needs itself.
Finite(x) == ~ NeedsItself(x) /\ \A v \in Needed(ConformsCalls(x)) : ~ NeedsItself(v)

LEMMA FiniteCalls ==
    ASSUME edges \in ShapeGraphs, NEW C, C \subseteq ShapeCall,
           \A y \in ConformsCalledBy(C) : Finite(y)
    PROVE  \A v \in Needed(C) : ~ NeedsItself(v)
BY NeededThrough DEF Finite

LEMMA FiniteShape ==
    ASSUME edges \in ShapeGraphs, NEW x,
           \A y \in ConformsCalledBy(ConformsCalls(x)) : Finite(y)
    PROVE  Finite(x)
<1>1. ConformsCalls(x) \subseteq ShapeCall
    BY ConformsCallsPaired
<1>2. \A v \in Needed(ConformsCalls(x)) : ~ NeedsItself(v)
    BY <1>1, FiniteCalls
<1> QED
    BY <1>2 DEF Finite, NeedsItself

\* The calls that lower constraint e: c, t what they have still to call, n of them.
MadeBy(e, c, i) == IF i = 1 THEN ConstraintCalls(e) ELSE CallsOf(c[i])

CallsDone(n, c, t, e) ==
    \A i \in 1 .. n : \A y \in ConformsCalledBy(MadeBy(e, c, i)) :
        \/ y \in ConformsCalledBy(t[i])
        \/ i < n /\ c[i + 1] = <<"conforms", y>>
        \/ Finite(y)

Frames(n, c, t, e, flag) ==
    /\ n \in Nat \ {0}
    /\ \A i \in 2 .. n : c[i] \in ShapeCall /\ c[i][2] \in Needed(ConstraintCalls(e)) \ deactivated
    /\ \A i \in 1 .. n : t[i] \subseteq MadeBy(e, c, i)
    /\ flag \in {"set", "clear"}
    /\ flag = "set" => \E v \in Needed(ConstraintCalls(e)) : v \in RecursiveShape
    /\ flag = "clear" => CallsDone(n, c, t, e)

LEMMA CallsTaken ==
    ASSUME NEW C, C \subseteq ShapeCall, NEW x \in C, NEW y \in ConformsCalledBy(C),
           y \notin ConformsCalledBy(C \ {x})
    PROVE  x = <<"conforms", y>> /\ y \notin deactivated
<1>1. PICK z \in C : z[1] = "conforms" /\ z[2] = y
    BY ConformsPart
<1>2. z = x
    BY <1>1, ConformsPart
<1>3. x = <<x[1], x[2]>>
    BY DEF ShapeCall
<1> QED
    BY <1>1, <1>2, <1>3, ConformsPart

\* Every shape that is called is needed.
LEMMA CalledIsNeeded ==
    ASSUME edges \in ShapeGraphs, NEW e \in edges,
           NEW n, NEW c, NEW t, NEW flag, Frames(n, c, t, e, flag), NEW i \in 1 .. n,
           NEW x \in MadeBy(e, c, i)
    PROVE  x \in ShapeCall /\ (x[2] \notin deactivated => x[2] \in Needed(ConstraintCalls(e)))
<1>1. CASE i = 1
    <2>1. x \in ConstraintCalls(e)
        BY <1>1 DEF MadeBy
    <2>2. x \in ShapeCall /\ <<"conforms", x[2]>> \in ConstraintCalls(e)
        BY <2>1, ConstraintCallsPaired
    <2>3. ConstraintCalls(e) \subseteq ShapeCall
        BY ConstraintCallsPaired
    <2> QED
        BY <2>2, <2>3, NeededBase, ConformsPair
<1>2. CASE i # 1
    <2>1. i \in 2 .. n
        BY <1>2 DEF Frames
    <2>2. PICK v : v = c[i][2]
        OBVIOUS
    <2>3. v \in Needed(ConstraintCalls(e)) /\ v \notin deactivated
        BY <2>1, <2>2 DEF Frames
    <2>4. x \in ConformsCalls(v) \/ x \in DetailsCalls(v)
        BY <1>2, <2>2 DEF MadeBy, CallsOf
    <2>5. ASSUME NEW w \in Needed(ConstraintCalls(e)), x \in ConformsCalls(w)
          PROVE  x \in ShapeCall
                 /\ (x[2] \notin deactivated => x[2] \in Needed(ConstraintCalls(e)))
        <3>1. x \in ShapeCall /\ <<"conforms", x[2]>> \in ConformsCalls(w)
            BY <2>5, ConformsCallsPaired
        <3> QED
            BY <3>1, NeededClosed, ConformsPair
    <2>6. CASE x \in ConformsCalls(v)
        BY <2>3, <2>5, <2>6
    <2>7. CASE x \in ShapeCalls(v)
        BY <2>3, <2>5, <2>7 DEF ConformsCalls
    <2>8. CASE x \in UNION {ShapeCalls(p) : p \in Properties(v) \ deactivated}
        <3>1. PICK p \in Properties(v) \ deactivated : x \in ShapeCalls(p)
            BY <2>8
        <3>2. <<"conforms", p>> \in ConformsCalls(v)
            BY <3>1 DEF ConformsCalls
        <3>3. p \in Needed(ConstraintCalls(e))
            BY <3>1, <3>2, <2>3, NeededClosed, ConformsPair
        <3>4. x \in ConformsCalls(p)
            BY <3>1 DEF ConformsCalls
        <3> QED
            BY <3>3, <3>4, <2>5
    <2> QED
        BY <2>4, <2>6, <2>7, <2>8 DEF DetailsCalls
<1> QED
    BY <1>1, <1>2

\* A call is taken without inlining the shape.
Taking(n, t, x, u) ==
    /\ x \in t[n]
    /\ \A i \in 1 .. n : u[i] = IF i = n THEN t[i] \ {x} ELSE t[i]

LEMMA TakingKeeps ==
    ASSUME edges \in ShapeGraphs, NEW e \in edges,
           NEW n, NEW c, NEW t, NEW u, NEW flag, NEW flag2, NEW x,
           Frames(n, c, t, e, flag), Taking(n, t, x, u),
           \/ flag2 = flag /\ (x[2] \in deactivated \/ x[1] = "details")
           \/ flag2 = "set" /\ x[2] \in RecursiveShape /\ x[2] \notin deactivated
    PROVE  Frames(n, c, u, e, flag2)
<1>1. n \in Nat \ {0} /\ n \in 1 .. n
    BY DEF Frames
<1>2. x \in MadeBy(e, c, n)
    BY <1>1 DEF Frames, Taking
<1>3. x \in ShapeCall /\ (x[2] \notin deactivated => x[2] \in Needed(ConstraintCalls(e)))
    BY <1>1, <1>2, CalledIsNeeded
<1>4. \A i \in 1 .. n : u[i] \subseteq MadeBy(e, c, i)
    BY DEF Frames, Taking
<1>5. flag2 \in {"set", "clear"}
    BY DEF Frames
<1>6. ASSUME flag2 = "set" PROVE \E v \in Needed(ConstraintCalls(e)) : v \in RecursiveShape
    BY <1>3, <1>6 DEF Frames
<1>7. ASSUME flag2 = "clear" PROVE CallsDone(n, c, u, e)
    <2>1. flag = "clear" /\ (x[2] \in deactivated \/ x[1] = "details")
        BY <1>7
    <2>2. CallsDone(n, c, t, e)
        BY <2>1 DEF Frames
    <2> SUFFICES ASSUME NEW i \in 1 .. n, NEW y \in ConformsCalledBy(MadeBy(e, c, i))
                 PROVE  \/ y \in ConformsCalledBy(u[i])
                        \/ i < n /\ c[i + 1] = <<"conforms", y>>
                        \/ Finite(y)
        BY DEF CallsDone
    <2>3. \/ y \in ConformsCalledBy(t[i])
          \/ i < n /\ c[i + 1] = <<"conforms", y>>
          \/ Finite(y)
        BY <2>2 DEF CallsDone
    <2>4. ASSUME y \in ConformsCalledBy(t[i]) PROVE y \in ConformsCalledBy(u[i])
        <3>1. PICK z \in t[i] : z[1] = "conforms" /\ z[2] = y
            BY <2>4, ConformsPart
        <3>2. y \notin deactivated
            BY <2>4, ConformsPart
        <3>3. z # x
            BY <2>1, <3>1, <3>2
        <3>4. z \in u[i]
            BY <3>3 DEF Taking
        <3> QED
            BY <3>1, <3>2, <3>4, ConformsPart
    <2> QED
        BY <2>3, <2>4
<1> QED
    BY <1>1, <1>4, <1>5, <1>6, <1>7 DEF Frames

\* A shape is inlined.
InliningShape(n, c, t, x, m, d, u) ==
    /\ x \in t[n]
    /\ m = n + 1
    /\ \A i \in 1 .. n : d[i] = c[i]
    /\ d[m] = x
    /\ \A i \in 1 .. n : u[i] = IF i = n THEN t[i] \ {x} ELSE t[i]
    /\ u[m] = CallsOf(x)

LEMMA InliningKeeps ==
    ASSUME edges \in ShapeGraphs, NEW e \in edges,
           NEW n, NEW c, NEW t, NEW m, NEW d, NEW u, NEW flag, NEW x,
           Frames(n, c, t, e, flag), InliningShape(n, c, t, x, m, d, u), x[2] \notin deactivated
    PROVE  Frames(m, d, u, e, flag)
<1>1. n \in Nat \ {0} /\ n \in 1 .. n /\ m = n + 1 /\ m # 1 /\ m \in Nat \ {0}
    BY DEF Frames, InliningShape
<1>2. x \in MadeBy(e, c, n)
    BY <1>1 DEF Frames, InliningShape
<1>3. x \in ShapeCall /\ x[2] \in Needed(ConstraintCalls(e))
    BY <1>1, <1>2, CalledIsNeeded
<1>4. \A i \in 1 .. m : i \in 1 .. n \/ i = m
    BY <1>1
<1>5. \A i \in 1 .. n : MadeBy(e, d, i) = MadeBy(e, c, i)
    BY DEF MadeBy, InliningShape
<1>6. MadeBy(e, d, m) = CallsOf(x)
    BY <1>1 DEF MadeBy, InliningShape
<1>7. \A i \in 2 .. m : d[i] \in ShapeCall /\ d[i][2] \in Needed(ConstraintCalls(e)) \ deactivated
    <2> SUFFICES ASSUME NEW i \in 2 .. m
                 PROVE  d[i] \in ShapeCall /\ d[i][2] \in Needed(ConstraintCalls(e)) \ deactivated
        OBVIOUS
    <2>1. CASE i = m
        BY <2>1, <1>3 DEF InliningShape
    <2>2. CASE i # m
        <3>1. i \in 2 .. n /\ i \in 1 .. n
            BY <2>2, <1>1
        <3> QED
            BY <3>1 DEF Frames, InliningShape
    <2> QED
        BY <2>1, <2>2
<1>8. \A i \in 1 .. m : u[i] \subseteq MadeBy(e, d, i)
    <2> SUFFICES ASSUME NEW i \in 1 .. m PROVE u[i] \subseteq MadeBy(e, d, i)
        OBVIOUS
    <2>1. CASE i = m
        BY <2>1, <1>6 DEF InliningShape
    <2>2. CASE i \in 1 .. n
        <3>1. u[i] \subseteq t[i]
            BY <2>2 DEF InliningShape
        <3> QED
            BY <2>2, <3>1, <1>5 DEF Frames
    <2> QED
        BY <2>1, <2>2, <1>4
<1>9. ASSUME flag = "clear" PROVE CallsDone(m, d, u, e)
    <2>1. CallsDone(n, c, t, e)
        BY <1>9 DEF Frames
    <2> SUFFICES ASSUME NEW i \in 1 .. m, NEW y \in ConformsCalledBy(MadeBy(e, d, i))
                 PROVE  \/ y \in ConformsCalledBy(u[i])
                        \/ i < m /\ d[i + 1] = <<"conforms", y>>
                        \/ Finite(y)
        BY DEF CallsDone
    <2>2. CASE i = m
        BY <2>2, <1>6 DEF InliningShape
    <2>3. CASE i \in 1 .. n
        <3>1. \/ y \in ConformsCalledBy(t[i])
              \/ i < n /\ c[i + 1] = <<"conforms", y>>
              \/ Finite(y)
            BY <2>1, <2>3, <1>5 DEF CallsDone
        <3>2. i < m
            BY <2>3, <1>1
        <3>3. CASE i < n /\ c[i + 1] = <<"conforms", y>>
            <4>1. i + 1 \in 1 .. n
                BY <3>3, <2>3, <1>1
            <4> QED
                BY <4>1, <3>2, <3>3 DEF InliningShape
        <3>4. CASE y \in ConformsCalledBy(t[i])
            <4>1. CASE i # n
                BY <4>1, <3>4, <2>3 DEF InliningShape
            <4>2. CASE i = n
                <5>1. u[i] = t[i] \ {x} /\ x \in t[i]
                    BY <4>2, <2>3 DEF InliningShape
                <5>2. t[i] \subseteq ShapeCall
                    <6>1. \A z \in MadeBy(e, c, i) : z \in ShapeCall
                        BY <2>3, CalledIsNeeded
                    <6> QED
                        BY <6>1, <2>3 DEF Frames
                <5>3. ASSUME y \notin ConformsCalledBy(u[i]) PROVE d[i + 1] = <<"conforms", y>>
                    <6>1. x = <<"conforms", y>>
                        BY <5>1, <5>2, <5>3, <3>4, CallsTaken
                    <6>2. i + 1 = m /\ d[m] = x
                        BY <4>2, <1>1 DEF InliningShape
                    <6> QED
                        BY <6>1, <6>2
                <5> QED
                    BY <5>3, <3>2
            <4> QED
                BY <4>1, <4>2
        <3> QED
            BY <3>1, <3>3, <3>4
    <2> QED
        BY <2>2, <2>3, <1>4
<1>10. /\ flag \in {"set", "clear"}
       /\ flag = "set" => \E v \in Needed(ConstraintCalls(e)) : v \in RecursiveShape
    BY DEF Frames
<1> QED
    BY <1>1, <1>7, <1>8, <1>9, <1>10 DEF Frames

\* A call returns: what it lowered is finite.
LeavingShape(n, c, t, m, d, u) ==
    /\ m \in Nat \ {0}
    /\ n = m + 1
    /\ t[n] = {}
    /\ \A i \in 1 .. m : d[i] = c[i] /\ u[i] = t[i]

LEMMA ReturningKeeps ==
    ASSUME edges \in ShapeGraphs, NEW e \in edges,
           NEW n, NEW c, NEW t, NEW m, NEW d, NEW u, NEW flag,
           Frames(n, c, t, e, flag), LeavingShape(n, c, t, m, d, u)
    PROVE  Frames(m, d, u, e, flag)
<1> USE DEF LeavingShape
<1>1. /\ n \in 1 .. n /\ n # 1 /\ n \in 2 .. n
      /\ \A i \in 1 .. m : i \in 1 .. n /\ i < n
      /\ \A i \in 2 .. m : i \in 2 .. n /\ i \in 1 .. m
    OBVIOUS
<1>2. \A i \in 1 .. m : MadeBy(e, d, i) = MadeBy(e, c, i)
    BY DEF MadeBy
<1>3. \A i \in 2 .. m : d[i] \in ShapeCall /\ d[i][2] \in Needed(ConstraintCalls(e)) \ deactivated
    BY <1>1 DEF Frames
<1>4. \A i \in 1 .. m : u[i] \subseteq MadeBy(e, d, i)
    BY <1>1, <1>2 DEF Frames
<1>5. ASSUME flag = "clear" PROVE CallsDone(m, d, u, e)
    <2>1. CallsDone(n, c, t, e)
        BY <1>5 DEF Frames
    <2> SUFFICES ASSUME NEW i \in 1 .. m, NEW y \in ConformsCalledBy(MadeBy(e, d, i))
                 PROVE  \/ y \in ConformsCalledBy(u[i])
                        \/ i < m /\ d[i + 1] = <<"conforms", y>>
                        \/ Finite(y)
        BY DEF CallsDone
    <2>2. \/ y \in ConformsCalledBy(u[i])
          \/ i < n /\ c[i + 1] = <<"conforms", y>>
          \/ Finite(y)
        BY <2>1, <1>1, <1>2 DEF CallsDone
    <2>3. CASE i < m /\ c[i + 1] = <<"conforms", y>>
        <3>1. i + 1 \in 1 .. m
            BY <2>3
        <3> QED
            BY <2>3, <3>1
    <2>4. CASE ~ (i < m) /\ c[i + 1] = <<"conforms", y>>
        <3>1. i + 1 = n
            BY <2>4
        <3>2. c[n] = <<"conforms", y>>
            BY <2>4, <3>1
        <3>3. MadeBy(e, c, n) = ConformsCalls(y)
            BY <3>2, <1>1 DEF MadeBy, CallsOf
        <3>4. ASSUME NEW z \in ConformsCalledBy(ConformsCalls(y))
              PROVE  z \in ConformsCalledBy(t[n]) \/ Finite(z)
            <4>1. z \in ConformsCalledBy(MadeBy(e, c, n))
                BY <3>3
            <4>2. \/ z \in ConformsCalledBy(t[n])
                  \/ n < n
                  \/ Finite(z)
                BY <4>1, <2>1, <1>1 DEF CallsDone
            <4>3. ~ (n < n)
                OBVIOUS
            <4> QED
                BY <4>2, <4>3
        <3>5. ConformsCalledBy(t[n]) = {}
            BY ConformsPart
        <3> QED
            BY <3>4, <3>5, FiniteShape
    <2> QED
        BY <2>2, <2>3, <2>4
<1>6. /\ flag \in {"set", "clear"}
      /\ flag = "set" => \E v \in Needed(ConstraintCalls(e)) : v \in RecursiveShape
    BY DEF Frames
<1> QED
    BY <1>3, <1>4, <1>5, <1>6 DEF Frames

\* A constraint is lowered.
LEMMA LoweredKeeps ==
    ASSUME edges \in ShapeGraphs, NEW e \in edges, NEW c, NEW t, NEW flag,
           Frames(1, c, t, e, flag), t[1] = {}
    PROVE  /\ flag = "set" => \E v \in Needed(ConstraintCalls(e)) : v \in RecursiveShape
           /\ flag # "set" => \A v \in Needed(ConstraintCalls(e)) : ~ NeedsItself(v)
<1>1. flag = "set" => \E v \in Needed(ConstraintCalls(e)) : v \in RecursiveShape
    BY DEF Frames
<1>2. ASSUME flag # "set" PROVE \A v \in Needed(ConstraintCalls(e)) : ~ NeedsItself(v)
    <2>1. CallsDone(1, c, t, e)
        BY <1>2 DEF Frames
    <2>2. 1 \in 1 .. 1 /\ MadeBy(e, c, 1) = ConstraintCalls(e)
        BY DEF MadeBy
    <2>3. \A y \in ConformsCalledBy(ConstraintCalls(e)) : y \in ConformsCalledBy(t[1]) \/ Finite(y)
        BY <2>1, <2>2 DEF CallsDone
    <2>4. ConformsCalledBy(t[1]) = {}
        BY ConformsPart
    <2>5. ConstraintCalls(e) \subseteq ShapeCall
        BY ConstraintCallsPaired
    <2> QED
        BY <2>3, <2>4, <2>5, FiniteCalls
<1> QED
    BY <1>1, <1>2

-----------------------------------------------------------------------------
(* The states of lowering.                                                 *)

FrameRecord == [call : {"constraint", "conforms", "details"} \X Shape, todo : SUBSET ShapeCall]
FrameCalls == [i \in 1 .. Len(inlining) |-> inlining[i].call]
FrameTodo == [i \in 1 .. Len(inlining) |-> inlining[i].todo]

LowerInv ==
    /\ edges \in ShapeGraphs
    /\ recursive \subseteq RecursiveShape
    /\ DOMAIN status = Rules
    /\ inlining \in Seq(FrameRecord)
    /\ inlining # <<>> =>
          rule \in Rules /\ Frames(Len(inlining), FrameCalls, FrameTodo, rule[2], unsupported)
    /\ RecursionIsRecorded

LEMMA InputStays ==
    ASSUME UNCHANGED <<references, inputVars>>
    PROVE  /\ \A e : ConstraintCalls(e)' = ConstraintCalls(e)
           /\ \A c : CallsOf(c)' = CallsOf(c)
           /\ \A C : ConformsCalledBy(C)' = ConformsCalledBy(C)
           /\ \A C : Needed(C)' = Needed(C)
           /\ \A v : NeedsItself(v)' <=> NeedsItself(v)
           /\ \A v : Finite(v)' <=> Finite(v)
           /\ Rules' = Rules /\ RecursiveShape' = RecursiveShape
           /\ edges' = edges /\ deactivated' = deactivated
<1>1. UNCHANGED <<references, edges, disjoint, deactivated>>
    BY DEF inputVars
<1>2. \A v : Properties(v)' = Properties(v) /\ Qualified(v)' = Qualified(v)
             /\ Constraints(v)' = Constraints(v)
    BY <1>1 DEF Properties, Qualified, Constraints
<1>3. Rules' = Rules
    BY <1>1, <1>2 DEF Rules
<1>4. \A v, w : SiblingQualifiedShapes(v, w)' = SiblingQualifiedShapes(v, w)
    BY <1>2 DEF SiblingQualifiedShapes
<1>5. \A e : ConstraintCalls(e)' = ConstraintCalls(e)
    BY <1>1, <1>4 DEF ConstraintCalls
<1>6. \A v : ShapeCalls(v)' = ShapeCalls(v)
    BY <1>2, <1>5 DEF ShapeCalls
<1>7. \A v : ConformsCalls(v)' = ConformsCalls(v) /\ DetailsCalls(v)' = DetailsCalls(v)
    BY <1>1, <1>2, <1>6 DEF ConformsCalls, DetailsCalls
<1>8. \A c : CallsOf(c)' = CallsOf(c)
    BY <1>7 DEF CallsOf
<1>9. \A C : ConformsCalledBy(C)' = ConformsCalledBy(C)
    BY <1>1 DEF ConformsCalledBy
<1>10. \A C : Needed(C)' = Needed(C)
    BY <1>7, <1>9 DEF Needed
<1>11. \A v : NeedsItself(v)' <=> NeedsItself(v)
    BY <1>1, <1>7, <1>10 DEF NeedsItself
<1>12. \A v : Finite(v)' <=> Finite(v)
    BY <1>7, <1>10, <1>11 DEF Finite
<1>13. RecursiveShape' = RecursiveShape
    BY <1>1, GraphStays
<1> QED
    BY <1>1, <1>3, <1>5, <1>8, <1>9, <1>10, <1>11, <1>12, <1>13

LEMMA FramesNext ==
    ASSUME UNCHANGED <<references, inputVars>>,
           NEW n, NEW c, NEW t, NEW e, NEW flag, Frames(n, c, t, e, flag),
           n = Len(inlining'), c = FrameCalls', t = FrameTodo', e = rule'[2], flag = unsupported'
    PROVE  Frames(Len(inlining), FrameCalls, FrameTodo, rule[2], unsupported)'
<1>1. \A i : MadeBy(e, c, i)' = MadeBy(e, c, i)
    BY InputStays DEF MadeBy
<1>2. CallsDone(n, c, t, e)' <=> CallsDone(n, c, t, e)
    BY <1>1, InputStays DEF CallsDone
<1>3. Frames(n, c, t, e, flag)'
    BY <1>1, <1>2, InputStays DEF Frames
<1> QED
    BY <1>3

LEMMA RulesTyped ==
    ASSUME NEW r \in Rules PROVE r[1] \in Shape /\ r[2] \in edges
BY DEF Rules

LEMMA InitLowerInv == InitLowering => LowerInv
<1> SUFFICES ASSUME InitLowering PROVE LowerInv
    OBVIOUS
<1>1. /\ edges \in ShapeGraphs /\ recursive = {} /\ status = [r \in Rules |-> "none"]
      /\ inlining = <<>>
    BY DEF InitLowering
<1>2. inlining \in Seq(FrameRecord) /\ DOMAIN status = Rules
    BY <1>1
<1>3. RecursionIsRecorded
    BY <1>1 DEF RecursionIsRecorded
<1> QED
    BY <1>1, <1>2, <1>3 DEF LowerInv

\* Nothing of lowering changes but the phase.
LEMMA LowerStays ==
    ASSUME LowerInv, UNCHANGED <<references, inputVars, inlining, status>>,
           recursive' \subseteq RecursiveShape,
           inlining = <<>> \/ UNCHANGED <<rule, unsupported>>
    PROVE  LowerInv'
<1>1. FrameCalls' = FrameCalls /\ FrameTodo' = FrameTodo
    BY DEF FrameCalls, FrameTodo
<1>2. inlining # <<>> =>
          Frames(Len(inlining), FrameCalls, FrameTodo, rule[2], unsupported)'
    BY <1>1, FramesNext DEF LowerInv
<1>3. RecursionIsRecorded'
    BY InputStays DEF LowerInv, RecursionIsRecorded
<1> QED
    BY <1>2, <1>3, InputStays DEF LowerInv

LEMMA StepBeginLowering ==
    ASSUME LowerInv, SearchInv, BeginLowering PROVE LowerInv'
<1>1. /\ UNCHANGED <<vars, inputVars, rule, inlining, unsupported, status>>
      /\ pc = "reported"
      /\ recursive' = UNION {ToSet(cycles[i]) : i \in DOMAIN cycles}
    BY DEF BeginLowering
<1>2. ToSearch(<<>>, {}, cycles)
    BY <1>1 DEF SearchInv, Searching
<1>3. DOMAIN cycles = 1 .. Len(cycles)
    BY <1>2 DEF ToSearch
<1>4. ASSUME NEW i \in DOMAIN cycles, NEW v \in ToSet(cycles[i]) PROVE v \in RecursiveShape
    <2>1. PICK c : c = cycles[i]
        OBVIOUS
    <2>2. GoodCycle(c)
        BY <2>1, <1>2, <1>3 DEF ToSearch
    <2>3. PICK k \in 1 .. Len(c) : v = c[k]
        BY <2>1, <2>2, <1>4 DEF ToSet, GoodCycle
    <2>4. v \in Mutual(c[1]) /\ c[1] \in ReachedFrom(c[1])
        BY <2>2, <2>3 DEF GoodCycle
    <2>5. v \in ReachedFrom(v) /\ v \in Shape
        BY <2>4, ReachedTransitive DEF Mutual, Reaches
    <2> QED
        BY <2>5 DEF RecursiveShape
<1>5. recursive' \subseteq RecursiveShape
    BY <1>1, <1>4
<1>6. UNCHANGED references
    BY <1>1 DEF vars
<1> QED
    BY <1>1, <1>5, <1>6, LowerStays

LEMMA StepBeginRule ==
    ASSUME LowerInv, BeginRule PROVE LowerInv'
<1>1. /\ UNCHANGED <<references, inputVars, recursive, status>>
      /\ Open # {} /\ rule' = CHOOSE r \in Open : TRUE
      /\ inlining' = <<[call |-> <<"constraint", rule'[1]>>, todo |-> ConstraintCalls(rule'[2])]>>
      /\ unsupported' = "clear"
    BY DEF BeginRule, vars
<1>2. PICK r \in Rules : r = rule'
    BY <1>1 DEF Open
<1>3. edges \in ShapeGraphs /\ r[1] \in Shape /\ r[2] \in edges
    BY RulesTyped DEF LowerInv
<1>4. ConstraintCalls(r[2]) \subseteq ShapeCall
    BY <1>3, ConstraintCallsPaired
<1>5. PICK q : q = <<"constraint", r[1]>>
    OBVIOUS
<1>6. q \in {"constraint", "conforms", "details"} \X Shape
    BY <1>3, <1>5
<1>7. PICK f : f = [call |-> q, todo |-> ConstraintCalls(r[2])]
    OBVIOUS
<1>8. f \in FrameRecord /\ f.todo = ConstraintCalls(r[2])
    BY <1>4, <1>6, <1>7 DEF FrameRecord
<1>9. inlining' = <<f>>
    BY <1>1, <1>2, <1>5, <1>7
<1>10. inlining' \in Seq(FrameRecord) /\ Len(inlining') = 1 /\ inlining'[1] = f
    BY <1>8, <1>9
<1>11. FrameTodo'[1] = ConstraintCalls(r[2])
    BY <1>8, <1>10 DEF FrameTodo
<1>12. Frames(1, FrameCalls', FrameTodo', r[2], "clear")
    <2>1. MadeBy(r[2], FrameCalls', 1) = ConstraintCalls(r[2])
        BY DEF MadeBy
    <2>2. CallsDone(1, FrameCalls', FrameTodo', r[2])
        BY <2>1, <1>11 DEF CallsDone
    <2>3. \A i \in 1 .. 1 : i = 1
        OBVIOUS
    <2> QED
        BY <2>1, <2>2, <2>3, <1>11 DEF Frames
<1>13. Frames(Len(inlining), FrameCalls, FrameTodo, rule[2], unsupported)'
    BY <1>1, <1>2, <1>10, <1>12, FramesNext
<1>14. RecursionIsRecorded'
    BY <1>1, InputStays DEF LowerInv, RecursionIsRecorded
<1> QED
    BY <1>1, <1>2, <1>10, <1>13, <1>14, InputStays DEF LowerInv

\* The current call, and the next it makes.
LEMMA CurrentIsLast ==
    ASSUME LowerInv, inlining # <<>>
    PROVE  /\ Len(inlining) \in Nat \ {0} /\ Len(inlining) \in 1 .. Len(inlining)
           /\ \A i \in 1 .. Len(inlining) : inlining[i] \in FrameRecord
           /\ Current = inlining[Len(inlining)]
           /\ Current.todo = FrameTodo[Len(inlining)]
           /\ rule \in Rules /\ rule[2] \in edges /\ edges \in ShapeGraphs
           /\ Frames(Len(inlining), FrameCalls, FrameTodo, rule[2], unsupported)
<1>1. inlining \in Seq(FrameRecord)
    BY DEF LowerInv
<1>2. Len(inlining) \in Nat \ {0} /\ Len(inlining) \in 1 .. Len(inlining)
    BY <1>1
<1>3. Current = inlining[Len(inlining)]
    BY DEF Current, Last
<1>4. Current.todo = FrameTodo[Len(inlining)]
    BY <1>2, <1>3 DEF FrameTodo
<1>5. rule \in Rules /\ edges \in ShapeGraphs
      /\ Frames(Len(inlining), FrameCalls, FrameTodo, rule[2], unsupported)
    BY DEF LowerInv
<1>6. rule[2] \in edges
    BY <1>5, RulesTyped
<1> QED
    BY <1>1, <1>2, <1>3, <1>4, <1>5, <1>6

LEMMA CalledSays ==
    ASSUME LowerInv, Calling
    PROVE  /\ NextCall \in FrameTodo[Len(inlining)]
           /\ Called \in Seq(FrameRecord) /\ Len(Called) = Len(inlining)
           /\ \A i \in 1 .. Len(inlining) :
                 /\ Called[i].call = FrameCalls[i]
                 /\ Called[i].todo =
                       IF i = Len(inlining) THEN FrameTodo[i] \ {NextCall} ELSE FrameTodo[i]
<1>1. inlining # <<>> /\ Current.todo # {}
    BY DEF Calling
<1>2. /\ Len(inlining) \in 1 .. Len(inlining)
      /\ \A i \in 1 .. Len(inlining) : inlining[i] \in FrameRecord
      /\ Current.todo = FrameTodo[Len(inlining)]
    BY <1>1, CurrentIsLast
<1>3. inlining \in Seq(FrameRecord)
    BY DEF LowerInv
<1>4. PICK x : x = NextCall
    OBVIOUS
<1>5. x \in FrameTodo[Len(inlining)]
    BY <1>1, <1>2, <1>4 DEF NextCall
<1>6. PICK r \in FrameRecord : r = inlining[Len(inlining)]
    BY <1>2
<1>7. PICK q : q = [r EXCEPT !.todo = @ \ {x}]
    OBVIOUS
<1>8. q \in FrameRecord
    BY <1>7 DEF FrameRecord
<1>9. q.call = r.call
    BY <1>7 DEF FrameRecord
<1>10. q.todo = r.todo \ {x}
    BY <1>7 DEF FrameRecord
<1>11. Called = [inlining EXCEPT ![Len(inlining)] = q]
    BY <1>4, <1>6, <1>7 DEF Called
<1>12. Called \in Seq(FrameRecord) /\ Len(Called) = Len(inlining)
    BY <1>2, <1>3, <1>8, <1>11
<1>13. \A i \in 1 .. Len(inlining) : Called[i] = IF i = Len(inlining) THEN q ELSE inlining[i]
    BY <1>2, <1>3, <1>11
<1>14. \A i \in 1 .. Len(inlining) :
           FrameCalls[i] = inlining[i].call /\ FrameTodo[i] = inlining[i].todo
    BY DEF FrameCalls, FrameTodo
<1>15. ASSUME NEW i \in 1 .. Len(inlining)
       PROVE  /\ Called[i].call = FrameCalls[i]
              /\ Called[i].todo =
                    IF i = Len(inlining) THEN FrameTodo[i] \ {x} ELSE FrameTodo[i]
    <2>1. CASE i = Len(inlining)
        BY <2>1, <1>6, <1>9, <1>10, <1>13, <1>14
    <2>2. CASE i # Len(inlining)
        BY <2>2, <1>13, <1>14
    <2> QED
        BY <2>1, <2>2
<1> QED
    BY <1>4, <1>5, <1>12, <1>15

\* A call is taken, without inlining its shape.
LEMMA StepTaken ==
    ASSUME LowerInv, Calling, inlining' = Called,
           UNCHANGED <<references, inputVars, recursive, rule, status>>,
           \/ /\ UNCHANGED unsupported
              /\ NextCall[2] \in deactivated \/ NextCall[1] = "details"
           \/ /\ unsupported' = "set"
              /\ NextCall[2] \in RecursiveShape /\ NextCall[2] \notin deactivated
    PROVE  LowerInv'
<1>1. inlining # <<>>
    BY DEF Calling
<1>2. PICK n \in Nat \ {0} : n = Len(inlining)
    BY <1>1, CurrentIsLast
<1>3. /\ rule \in Rules /\ rule[2] \in edges /\ edges \in ShapeGraphs
      /\ Frames(n, FrameCalls, FrameTodo, rule[2], unsupported)
    BY <1>1, <1>2, CurrentIsLast
<1>4. PICK x : x = NextCall
    OBVIOUS
<1>5. /\ x \in FrameTodo[n]
      /\ inlining' \in Seq(FrameRecord) /\ Len(inlining') = n
      /\ \A i \in 1 .. n :
            /\ inlining'[i].call = FrameCalls[i]
            /\ inlining'[i].todo = IF i = n THEN FrameTodo[i] \ {x} ELSE FrameTodo[i]
    BY <1>2, <1>4, CalledSays
<1>6. FrameCalls' = FrameCalls
    BY <1>2, <1>5 DEF FrameCalls
<1>7. \A i \in 1 .. n : FrameTodo'[i] = IF i = n THEN FrameTodo[i] \ {x} ELSE FrameTodo[i]
    BY <1>5 DEF FrameTodo
<1>8. Taking(n, FrameTodo, x, FrameTodo')
    BY <1>5, <1>7 DEF Taking
<1>9. Frames(n, FrameCalls, FrameTodo', rule[2], unsupported')
    BY <1>3, <1>4, <1>8, TakingKeeps
<1>10. Frames(Len(inlining), FrameCalls, FrameTodo, rule[2], unsupported)'
    BY <1>5, <1>6, <1>9, FramesNext
<1>11. RecursionIsRecorded'
    BY InputStays DEF LowerInv, RecursionIsRecorded
<1> QED
    BY <1>3, <1>5, <1>10, <1>11, InputStays DEF LowerInv

LEMMA StepInline ==
    ASSUME LowerInv, Inline PROVE LowerInv'
<1>1. /\ UNCHANGED <<references, inputVars, recursive, rule, unsupported, status>>
      /\ Calling /\ NextCall[2] \notin deactivated
      /\ inlining' = Append(Called, [call |-> NextCall, todo |-> CallsOf(NextCall)])
    BY DEF Inline, CanInline, vars
<1>2. inlining # <<>>
    BY <1>1 DEF Calling
<1>3. PICK n \in Nat \ {0} : n = Len(inlining) /\ n \in 1 .. n
    BY <1>2, CurrentIsLast
<1>4. /\ rule \in Rules /\ rule[2] \in edges /\ edges \in ShapeGraphs
      /\ Frames(n, FrameCalls, FrameTodo, rule[2], unsupported)
    BY <1>2, <1>3, CurrentIsLast
<1>5. PICK x : x = NextCall
    OBVIOUS
<1>6. PICK cs : cs = Called
    OBVIOUS
<1>7. /\ x \in FrameTodo[n]
      /\ cs \in Seq(FrameRecord) /\ Len(cs) = n
      /\ \A i \in 1 .. n :
            /\ cs[i].call = FrameCalls[i]
            /\ cs[i].todo = IF i = n THEN FrameTodo[i] \ {x} ELSE FrameTodo[i]
    BY <1>1, <1>3, <1>5, <1>6, CalledSays
<1>8. x \in ShapeCall
    <2>1. x \in MadeBy(rule[2], FrameCalls, n)
        BY <1>3, <1>4, <1>7 DEF Frames
    <2> QED
        BY <2>1, <1>3, <1>4, CalledIsNeeded
<1>9. CallsOf(x) \subseteq ShapeCall
    <2>1. \A v : ShapeCalls(v) \subseteq ShapeCall /\ ConformsCalls(v) \subseteq ShapeCall
        BY <1>4, ShapeCallsPaired, ConformsCallsPaired
    <2>2. \A v : DetailsCalls(v) \subseteq ShapeCall
        BY <2>1 DEF DetailsCalls
    <2> QED
        BY <2>1, <2>2 DEF CallsOf
<1>10. PICK f : f = [call |-> x, todo |-> CallsOf(x)]
    OBVIOUS
<1>11. f \in FrameRecord /\ f.call = x /\ f.todo = CallsOf(x)
    BY <1>8, <1>9, <1>10 DEF FrameRecord, ShapeCall
<1>12. inlining' = Append(cs, f)
    BY <1>1, <1>5, <1>6, <1>10
<1>13. PICK m \in Nat \ {0} : m = n + 1
    OBVIOUS
<1>14. /\ inlining' \in Seq(FrameRecord) /\ Len(inlining') = m
       /\ inlining'[m] = f /\ \A i \in 1 .. n : inlining'[i] = cs[i]
    BY <1>7, <1>11, <1>12, <1>13
<1>15. m \in 1 .. m /\ \A i \in 1 .. n : i \in 1 .. m
    BY <1>13
<1>16. /\ \A i \in 1 .. n : FrameCalls'[i] = FrameCalls[i]
       /\ FrameCalls'[m] = x
    BY <1>7, <1>11, <1>14, <1>15 DEF FrameCalls
<1>17. /\ \A i \in 1 .. n : FrameTodo'[i] = IF i = n THEN FrameTodo[i] \ {x} ELSE FrameTodo[i]
       /\ FrameTodo'[m] = CallsOf(x)
    <2>1. \A i \in 1 .. m : FrameTodo'[i] = inlining'[i].todo
        BY <1>14 DEF FrameTodo
    <2>2. FrameTodo'[m] = CallsOf(x)
        BY <2>1, <1>11, <1>14, <1>15
    <2>3. ASSUME NEW i \in 1 .. n
          PROVE  FrameTodo'[i] = IF i = n THEN FrameTodo[i] \ {x} ELSE FrameTodo[i]
        BY <2>1, <1>7, <1>14, <1>15
    <2> QED
        BY <2>2, <2>3
<1>18. InliningShape(n, FrameCalls, FrameTodo, x, m, FrameCalls', FrameTodo')
    BY <1>7, <1>13, <1>16, <1>17 DEF InliningShape
<1>19. Frames(m, FrameCalls', FrameTodo', rule[2], unsupported)
    BY <1>1, <1>4, <1>5, <1>18, InliningKeeps
<1>20. Frames(Len(inlining), FrameCalls, FrameTodo, rule[2], unsupported)'
    BY <1>1, <1>14, <1>19, FramesNext
<1>21. RecursionIsRecorded'
    BY <1>1, InputStays DEF LowerInv, RecursionIsRecorded
<1> QED
    BY <1>1, <1>4, <1>14, <1>20, <1>21, InputStays DEF LowerInv

LEMMA StepCallReturns ==
    ASSUME LowerInv, CallReturns PROVE LowerInv'
<1>1. /\ UNCHANGED <<references, inputVars, recursive, rule, unsupported, status>>
      /\ Len(inlining) > 1 /\ Current.todo = {} /\ inlining' = Front(inlining)
    BY DEF CallReturns, vars
<1>2. inlining # <<>> /\ inlining \in Seq(FrameRecord)
    BY <1>1 DEF LowerInv
<1>3. PICK n \in Nat \ {0} : n = Len(inlining)
    BY <1>2, CurrentIsLast
<1>4. /\ rule \in Rules /\ rule[2] \in edges /\ edges \in ShapeGraphs
      /\ Frames(n, FrameCalls, FrameTodo, rule[2], unsupported)
      /\ FrameTodo[n] = {}
    BY <1>1, <1>2, <1>3, CurrentIsLast
<1>5. PICK m \in Nat \ {0} : n = m + 1 /\ m = n - 1
    BY <1>1, <1>3
<1>6. inlining' = SubSeq(inlining, 1, m)
    BY <1>1, <1>3, <1>5 DEF Front
<1>7. /\ inlining' \in Seq(FrameRecord) /\ Len(inlining') = m
      /\ \A i \in 1 .. m : inlining'[i] = inlining[i]
    <2>1. PICK fr \in Seq(FrameRecord) : fr = inlining
        BY <1>2
    <2>2. Len(fr) = m + 1
        BY <2>1, <1>3, <1>5
    <2>3. /\ SubSeq(fr, 1, m) \in Seq(FrameRecord) /\ Len(SubSeq(fr, 1, m)) = m
          /\ \A i \in 1 .. m : SubSeq(fr, 1, m)[i] = fr[i]
        BY <2>2
    <2> QED
        BY <2>1, <2>3, <1>6
<1>8. \A i \in 1 .. m : FrameCalls'[i] = FrameCalls[i] /\ FrameTodo'[i] = FrameTodo[i]
    BY <1>3, <1>5, <1>7 DEF FrameCalls, FrameTodo
<1>9. Frames(m, FrameCalls', FrameTodo', rule[2], unsupported)
    <2>1. LeavingShape(n, FrameCalls, FrameTodo, m, FrameCalls', FrameTodo')
        BY <1>4, <1>5, <1>8 DEF LeavingShape
    <2> QED
        BY <2>1, <1>4, ReturningKeeps
<1>10. Frames(Len(inlining), FrameCalls, FrameTodo, rule[2], unsupported)'
    BY <1>1, <1>7, <1>9, FramesNext
<1>11. RecursionIsRecorded'
    BY <1>1, InputStays DEF LowerInv, RecursionIsRecorded
<1> QED
    BY <1>1, <1>4, <1>7, <1>10, <1>11, InputStays DEF LowerInv

LEMMA StepEndRule ==
    ASSUME LowerInv, EndRule PROVE LowerInv'
<1>1. /\ UNCHANGED <<references, inputVars, recursive, rule, unsupported>>
      /\ Len(inlining) = 1 /\ Current.todo = {} /\ inlining' = <<>>
      /\ status' = [status EXCEPT ![rule] =
                       IF {rule[1], rule[2][1]} \cap deactivated # {} THEN "deactivated"
                       ELSE IF unsupported = "set" THEN "unsupported"
                       ELSE "compiled"]
    BY DEF EndRule, vars
<1>2. inlining # <<>>
    BY <1>1
<1>3. /\ rule \in Rules /\ rule[2] \in edges /\ edges \in ShapeGraphs
      /\ Frames(1, FrameCalls, FrameTodo, rule[2], unsupported)
      /\ FrameTodo[1] = {}
    BY <1>1, <1>2, CurrentIsLast
<1>4. /\ unsupported = "set" => \E v \in Needed(ConstraintCalls(rule[2])) : v \in RecursiveShape
      /\ unsupported # "set" => \A v \in Needed(ConstraintCalls(rule[2])) : ~ NeedsItself(v)
    BY <1>3, LoweredKeeps
<1>5. /\ DOMAIN status = Rules /\ DOMAIN status' = Rules
      /\ status'[rule] = "compiled" => unsupported # "set"
      /\ status'[rule] = "unsupported" => unsupported = "set"
      /\ \A r \in Rules : r # rule => status'[r] = status[r]
    BY <1>1, <1>3 DEF LowerInv
<1>6. RecursionIsRecorded'
    <2> SUFFICES ASSUME NEW r \in Rules
                 PROVE  /\ status'[r] = "compiled" =>
                              \A v \in Needed(ConstraintCalls(r[2])) : ~ NeedsItself(v)
                        /\ status'[r] = "unsupported" =>
                              \E v \in Needed(ConstraintCalls(r[2])) : v \in RecursiveShape
        BY <1>1, InputStays DEF RecursionIsRecorded
    <2>1. CASE r = rule
        BY <2>1, <1>4, <1>5
    <2>2. CASE r # rule
        BY <2>2, <1>5 DEF LowerInv, RecursionIsRecorded
    <2> QED
        BY <2>1, <2>2
<1> QED
    BY <1>1, <1>3, <1>5, <1>6, InputStays DEF LowerInv

LEMMA StepLowerInv ==
    ASSUME TarjanInv, SearchInv, LowerInv, [NextLowering]_allVars PROVE LowerInv'
<1>0. recursive \subseteq RecursiveShape
    BY DEF LowerInv
<1>1. CASE FindRecursion
    <2>1. UNCHANGED <<inputVars, recursive, rule, inlining, unsupported, status>> /\ Next
        BY <1>1 DEF FindRecursion, lowerVars
    <2>2. UNCHANGED references
        BY <2>1 DEF Next, VisitNext, Descend, MeetOnStack, MeetComplete, CompleteComponent,
                    LeaveOnStack, ComponentsKnown, SkipGroup, BeginSearch, Look, MeetStart,
                    WalkBack, CloseCycle, Report
    <2> QED
        BY <2>1, <2>2, <1>0, LowerStays
<1>2. CASE Refuse \/ Overflow \/ EndLowering \/ UNCHANGED allVars
    <2>1. UNCHANGED <<references, inputVars, recursive, rule, inlining, unsupported, status>>
        BY <1>2 DEF Refuse, Overflow, EndLowering, allVars, vars, lowerVars
    <2> QED
        BY <2>1, <1>0, LowerStays
<1>3. CASE PassDeactivated
    BY <1>3, StepTaken DEF PassDeactivated, vars
<1>4. CASE FlagRecursive
    <2>1. NextCall[2] \in recursive /\ NextCall[2] \notin deactivated
        BY <1>4 DEF FlagRecursive
    <2> QED
        BY <2>1, <1>0, <1>4, StepTaken DEF FlagRecursive, vars
<1>5. CASE LeaveUnexplained
    <2>1. NextCall[1] = "details"
        BY <1>5 DEF LeaveUnexplained
    <2> QED
        BY <2>1, <1>5, StepTaken DEF LeaveUnexplained, vars
<1> QED
    BY <1>1, <1>2, <1>3, <1>4, <1>5, StepBeginLowering, StepBeginRule, StepInline,
       StepCallReturns, StepEndRule DEF NextLowering

\* A rule that is compiled stands for a finite expression, and one that is given up
\* needs a recursive shape: what lower.rs does about the cycles of cycles.rs.
THEOREM RecursionNeverCompiled == LoweringSpec => []RecursionIsRecorded
<1>1. InitLowering => TarjanInv /\ SearchInv /\ LowerInv
    BY InitTarjanInv, InitSearchInv, InitLowerInv DEF InitLowering
<1>2. TarjanInv /\ SearchInv /\ LowerInv /\ [NextLowering]_allVars
      => (TarjanInv /\ SearchInv /\ LowerInv)'
    BY StepLowering, StepLowerInv
<1>3. LowerInv => RecursionIsRecorded
    BY DEF LowerInv
<1> QED
    BY <1>1, <1>2, <1>3, PTL DEF LoweringSpec

-----------------------------------------------------------------------------
(* Paths and their parts.                                                  *)

\* Induction on numbers, over a set.
LEMMA EveryNat ==
    ASSUME NEW T, 0 \in T, \A n \in Nat : n \in T => n + 1 \in T
    PROVE  \A n \in Nat : n \in T
<1> DEFINE Left == {n \in Nat : n \notin T}
<1> SUFFICES ASSUME Left # {} PROVE FALSE
    OBVIOUS
<1>1. PICK m \in Left : \A k \in Left : m <= k
    BY LeastNat
<1>2. m # 0 /\ m - 1 \in Nat /\ m = (m - 1) + 1
    BY <1>1
<1>3. m - 1 \in T
    BY <1>1, <1>2
<1> QED
    BY <1>1, <1>2, <1>3

LEMMA Depths == \A p \in Paths : Depth[p] \in Nat /\ Depth[p] <= MaxDepth /\ MaxDepth \in Nat
BY ShaclPathsAssumption

\* The paths less deep than n.
Shallow(n) == {p \in Paths : Depth[p] < n}

LEMMA ShallowPaths ==
    /\ Shallow(0) = {}
    /\ \A n \in Nat : Shallow(n) \subseteq Shallow(n + 1)
    /\ \A n \in Nat : \A p \in Shallow(n + 1) : Shallow(Depth[p]) \subseteq Shallow(n)
    /\ MaxDepth + 1 \in Nat /\ Shallow(MaxDepth + 1) = Paths
<1>1. MaxDepth \in Nat
    BY ShaclPathsAssumption
<1> QED
    BY <1>1, Depths DEF Shallow

\* Induction on the depth of paths.
LEMMA ByDepth ==
    ASSUME NEW T, \A p \in Paths : (\A c \in Paths : Depth[c] < Depth[p] => c \in T) => p \in T
    PROVE  \A p \in Paths : p \in T
<1> DEFINE Left == {Depth[p] : p \in Paths \ T}
<1> SUFFICES ASSUME Left # {} PROVE FALSE
    OBVIOUS
<1>1. Left \subseteq Nat
    BY Depths
<1>2. PICK m \in Left : \A k \in Left : m <= k
    BY <1>1, LeastNat
<1>3. PICK p \in Paths \ T : Depth[p] = m
    BY <1>2
<1>4. ASSUME NEW c \in Paths, Depth[c] < Depth[p] PROVE c \in T
    <2>1. Depth[c] \in Nat /\ Depth[p] \in Nat
        BY Depths
    <2> QED
        BY <1>2, <1>3, <1>4, <2>1
<1> QED
    BY <1>3, <1>4

Unary(p) == p.op \in {"inverse", "zeroOrMore", "oneOrMore", "zeroOrOne"}
Listed(p) == p.op \in {"sequence", "alternative"}

LEMMA PathParts ==
    ASSUME NEW p \in Paths
    PROVE  /\ p.op = "predicate" \/ Unary(p) \/ Listed(p)
           /\ p.op = "predicate" => p.iri \in DOMAIN LocalName
           /\ Unary(p) => p.of \in Paths /\ Depth[p.of] < Depth[p]
           /\ Listed(p) => /\ p.items \in Seq(Paths) /\ Len(p.items) \in Nat \ {0}
                           /\ DOMAIN p.items = 1 .. Len(p.items)
                           /\ \A i \in DOMAIN p.items :
                                 p.items[i] \in Paths /\ Depth[p.items[i]] < Depth[p]
<1>1. IsPath(p)
    BY ShaclPathsAssumption
<1>2. p.op = "predicate" \/ Unary(p) \/ Listed(p)
    BY <1>1 DEF IsPath, Unary, Listed
<1>3. p.op = "predicate" => p.iri \in DOMAIN LocalName
    BY <1>1 DEF IsPath
<1>4. Unary(p) => p.of \in Paths /\ Depth[p.of] < Depth[p]
    BY <1>1 DEF IsPath, Unary
<1>5. ASSUME Listed(p)
      PROVE  /\ p.items \in Seq(Paths) /\ p.items # <<>>
             /\ \A i \in DOMAIN p.items : Depth[p.items[i]] < Depth[p]
    BY <1>1, <1>5 DEF IsPath, Listed
<1>6. ASSUME Listed(p)
      PROVE  /\ Len(p.items) \in Nat \ {0}
             /\ DOMAIN p.items = 1 .. Len(p.items)
             /\ \A i \in DOMAIN p.items : p.items[i] \in Paths
    BY <1>5, <1>6
<1> QED
    BY <1>2, <1>3, <1>4, <1>5, <1>6

\* The items of a sequence, as they are traversed.
LEMMA OrderedItems ==
    ASSUME NEW p \in Paths, Listed(p), NEW inverted \in BOOLEAN
    PROVE  /\ DOMAIN Ordered(p.items, inverted) = DOMAIN p.items
           /\ Ordered(p.items, inverted) \in Seq(Paths)
           /\ Len(Ordered(p.items, inverted)) = Len(p.items)
           /\ \A i \in DOMAIN p.items :
                 /\ Ordered(p.items, inverted)[i] \in Paths
                 /\ Depth[Ordered(p.items, inverted)[i]] < Depth[p]
                 /\ ~ inverted => Ordered(p.items, inverted)[i] = p.items[i]
                 /\ inverted => Ordered(p.items, inverted)[i] = p.items[Len(p.items) + 1 - i]
<1> DEFINE n == Len(p.items)
           o == Ordered(p.items, inverted)
<1>1. n \in Nat \ {0} /\ DOMAIN p.items = 1 .. n
      /\ \A i \in 1 .. n : p.items[i] \in Paths /\ Depth[p.items[i]] < Depth[p]
    BY PathParts
<1>2. o = [i \in 1 .. n |-> IF inverted THEN p.items[n + 1 - i] ELSE p.items[i]]
    BY <1>1 DEF Ordered
<1> HIDE DEF o, n
<1>3. \A i \in 1 .. n : n + 1 - i \in 1 .. n
    BY <1>1
<1>4. \A i \in 1 .. n : /\ o[i] \in Paths /\ Depth[o[i]] < Depth[p]
                        /\ ~ inverted => o[i] = p.items[i]
                        /\ inverted => o[i] = p.items[n + 1 - i]
    BY <1>1, <1>2, <1>3
<1>5. o \in Seq(Paths) /\ Len(o) = n /\ DOMAIN o = 1 .. n
    BY <1>1, <1>2, <1>4
<1> QED
    BY <1>1, <1>4, <1>5 DEF n, o

-----------------------------------------------------------------------------
(* The recursive functions over paths exist.                               *)

\* f and g say the same of the parts of p.
SameBelow(f, g, p) == \A c \in Paths : Depth[c] < Depth[p] => f[c] = g[c]

LEMMA LowerLocal ==
    ASSUME NEW q, NEW p \in Paths, NEW f, NEW g, SameBelow(f, g, p),
           NEW inverted \in BOOLEAN, NEW last \in BOOLEAN
    PROVE  LowerPath(q, f, p, inverted, last) = LowerPath(q, g, p, inverted, last)
<1>1. Unary(p) => f[p.of] = g[p.of]
    BY PathParts DEF SameBelow
<1>2. CASE p.op = "predicate"
    BY <1>2 DEF LowerPath
<1>3. CASE p.op = "inverse"
    BY <1>1, <1>3 DEF LowerPath, Unary
<1>4. CASE p.op = "zeroOrMore"
    BY <1>1, <1>4 DEF LowerPath, Unary
<1>5. CASE p.op = "oneOrMore"
    BY <1>1, <1>5 DEF LowerPath, Unary
<1>6. CASE p.op = "zeroOrOne"
    BY <1>1, <1>6 DEF LowerPath, Unary
<1>7. CASE p.op = "sequence"
    <2> DEFINE items == Ordered(p.items, inverted)
               final(i) == last /\ i = Len(items)
               F == [i \in DOMAIN items |-> f[items[i]][inverted][final(i)]]
               G == [i \in DOMAIN items |-> g[items[i]][inverted][final(i)]]
    <2>1. LowerPath(q, f, p, inverted, last) = LowerSequence(F)
        BY <1>7 DEF LowerPath
    <2>2. LowerPath(q, g, p, inverted, last) = LowerSequence(G)
        BY <1>7 DEF LowerPath
    <2>3. \A i \in DOMAIN items : f[items[i]] = g[items[i]]
        BY <1>7, OrderedItems DEF SameBelow, Listed
    <2>4. F = G
        <3> HIDE DEF items, final
        <3> QED
            BY <2>3
    <2> HIDE DEF F, G
    <2> QED
        BY <2>1, <2>2, <2>4
<1>8. CASE p.op = "alternative"
    <2> DEFINE F == [i \in DOMAIN p.items |-> f[p.items[i]][inverted][last]]
               G == [i \in DOMAIN p.items |-> g[p.items[i]][inverted][last]]
    <2>1. LowerPath(q, f, p, inverted, last) = LowerAlternative(F)
        BY <1>8 DEF LowerPath
    <2>2. LowerPath(q, g, p, inverted, last) = LowerAlternative(G)
        BY <1>8 DEF LowerPath
    <2>3. \A i \in DOMAIN p.items : f[p.items[i]] = g[p.items[i]]
        BY <1>8, PathParts DEF SameBelow, Listed
    <2>4. F = G
        BY <2>3
    <2> HIDE DEF F, G
    <2> QED
        BY <2>1, <2>2, <2>4
<1> QED
    BY <1>2, <1>3, <1>4, <1>5, <1>6, <1>7, <1>8, PathParts DEF Unary, Listed

LowerBody(q, lower, p) ==
    [inverted \in BOOLEAN |-> [last \in BOOLEAN |-> LowerPath(q, lower, p, inverted, last)]]

LEMMA LowerBodyLocal ==
    ASSUME NEW q, NEW p \in Paths, NEW f, NEW g, SameBelow(f, g, p)
    PROVE  LowerBody(q, f, p) = LowerBody(q, g, p)
BY LowerLocal DEF LowerBody

LEMMA LowerExists ==
    ASSUME NEW q
    PROVE  Lower(q) = [p \in Paths |-> LowerBody(q, Lower(q), p)]
<1> DEFINE Rec(f, n) == f = [p \in Shallow(n) |-> LowerBody(q, f, p)]
           T == {n \in Nat : \E f : Rec(f, n)}
<1>1. 0 \in T
    <2>1. Rec([p \in {} |-> p], 0)
        BY ShallowPaths
    <2> QED
        BY <2>1
<1>2. ASSUME NEW n \in Nat, n \in T PROVE n + 1 \in T
    <2>1. PICK f : Rec(f, n)
        BY <1>2
    <2> DEFINE g == [p \in Shallow(n + 1) |-> LowerBody(q, f, p)]
    <2>2. \A p \in Shallow(n) : f[p] = g[p]
        BY <2>1, ShallowPaths
    <2>3. ASSUME NEW p \in Shallow(n + 1) PROVE SameBelow(f, g, p)
        BY <2>2, ShallowPaths DEF SameBelow, Shallow
    <2>4. \A p \in Shallow(n + 1) : LowerBody(q, f, p) = LowerBody(q, g, p)
        BY <2>3, LowerBodyLocal DEF Shallow
    <2>5. Rec(g, n + 1)
        BY <2>4
    <2> HIDE DEF g, Rec
    <2> QED
        BY <2>5
<1> HIDE DEF T
<1>3. MaxDepth + 1 \in T
    BY <1>1, <1>2, EveryNat, ShallowPaths
<1>4. PICK f : Rec(f, MaxDepth + 1)
    BY <1>3 DEF T
<1>5. f = [p \in Paths |-> LowerBody(q, f, p)]
    BY <1>4, ShallowPaths
<1> DEFINE lower == CHOOSE f2 : f2 = [p \in Paths |-> LowerBody(q, f2, p)]
<1>6. Lower(q) = lower
    BY DEF Lower, LowerBody
<1> QED
    BY <1>5, <1>6

LEMMA MeanLocal ==
    ASSUME NEW q, NEW p \in Paths, NEW f, NEW g, SameBelow(f, g, p)
    PROVE  MeanPath(q, f, p) = MeanPath(q, g, p)
<1>1. Unary(p) => f[p.of] = g[p.of]
    BY PathParts DEF SameBelow
<1>2. CASE p.op = "predicate"
    BY <1>2 DEF MeanPath
<1>3. CASE p.op = "inverse"
    BY <1>1, <1>3 DEF MeanPath, Unary
<1>4. CASE p.op = "zeroOrMore"
    BY <1>1, <1>4 DEF MeanPath, Unary
<1>5. CASE p.op = "oneOrMore"
    BY <1>1, <1>5 DEF MeanPath, Unary
<1>6. CASE p.op = "zeroOrOne"
    BY <1>1, <1>6 DEF MeanPath, Unary
<1>7. CASE Listed(p)
    <2> DEFINE F == [i \in DOMAIN p.items |-> f[p.items[i]]]
               G == [i \in DOMAIN p.items |-> g[p.items[i]]]
    <2>1. \A i \in DOMAIN p.items : f[p.items[i]] = g[p.items[i]]
        BY <1>7, PathParts DEF SameBelow
    <2>2. F = G
        BY <2>1
    <2>3. UNION {f[p.items[i]] : i \in DOMAIN p.items} = UNION {g[p.items[i]] : i \in DOMAIN p.items}
        BY <2>1
    <2>4. CASE p.op = "sequence"
        <3>1. MeanPath(q, f, p) = Chain(F) /\ MeanPath(q, g, p) = Chain(G)
            BY <2>4 DEF MeanPath
        <3> HIDE DEF F, G
        <3> QED
            BY <3>1, <2>2
    <2>5. CASE p.op = "alternative"
        BY <2>3, <2>5 DEF MeanPath
    <2> QED
        BY <1>7, <2>4, <2>5 DEF Listed
<1> QED
    BY <1>2, <1>3, <1>4, <1>5, <1>6, <1>7, PathParts DEF Unary

LEMMA PairsExist ==
    ASSUME NEW q
    PROVE  PairsOf(q) = [p \in Paths |-> MeanPath(q, PairsOf(q), p)]
<1> DEFINE Rec(f, n) == f = [p \in Shallow(n) |-> MeanPath(q, f, p)]
           T == {n \in Nat : \E f : Rec(f, n)}
<1>1. 0 \in T
    <2>1. Rec([p \in {} |-> p], 0)
        BY ShallowPaths
    <2> QED
        BY <2>1
<1>2. ASSUME NEW n \in Nat, n \in T PROVE n + 1 \in T
    <2>1. PICK f : Rec(f, n)
        BY <1>2
    <2> DEFINE g == [p \in Shallow(n + 1) |-> MeanPath(q, f, p)]
    <2>2. \A p \in Shallow(n) : f[p] = g[p]
        BY <2>1, ShallowPaths
    <2>3. ASSUME NEW p \in Shallow(n + 1) PROVE SameBelow(f, g, p)
        BY <2>2, ShallowPaths DEF SameBelow, Shallow
    <2>4. \A p \in Shallow(n + 1) : MeanPath(q, f, p) = MeanPath(q, g, p)
        BY <2>3, MeanLocal DEF Shallow
    <2>5. Rec(g, n + 1)
        BY <2>4
    <2> HIDE DEF g, Rec
    <2> QED
        BY <2>5
<1> HIDE DEF T
<1>3. MaxDepth + 1 \in T
    BY <1>1, <1>2, EveryNat, ShallowPaths
<1>4. PICK f : Rec(f, MaxDepth + 1)
    BY <1>3 DEF T
<1>5. f = [p \in Paths |-> MeanPath(q, f, p)]
    BY <1>4, ShallowPaths
<1> DEFINE pairs == CHOOSE f2 : f2 = [p \in Paths |-> MeanPath(q, f2, p)]
<1>6. PairsOf(q) = pairs
    BY DEF PairsOf
<1> QED
    BY <1>5, <1>6

\* What a path is mapped to, in terms of its parts.
LEMMA LowerAt ==
    ASSUME NEW q, NEW p \in Paths, NEW inverted \in BOOLEAN, NEW last \in BOOLEAN
    PROVE  Lower(q)[p][inverted][last] = LowerPath(q, Lower(q), p, inverted, last)
BY LowerExists DEF LowerBody

LEMMA PairsAt ==
    ASSUME NEW q, NEW p \in Paths
    PROVE  PairsOf(q)[p] = MeanPath(q, PairsOf(q), p)
BY PairsExist

-----------------------------------------------------------------------------
(* What the parts of paths are mapped to.                                  *)

LEMMA LowerInverse ==
    ASSUME NEW q, NEW p \in Paths, p.op = "inverse", NEW last \in BOOLEAN,
           NEW inverted \in BOOLEAN, NEW other \in BOOLEAN, other # inverted
    PROVE  Lower(q)[p][inverted][last] = Lower(q)[p.of][other][last]
<1> DEFINE flipped == ~ inverted
<1>1. Lower(q)[p][inverted][last] = LowerPath(q, Lower(q), p, inverted, last)
    BY LowerAt
<1>2. LowerPath(q, Lower(q), p, inverted, last) = Lower(q)[p.of][flipped][last]
    BY DEF LowerPath
<1>3. flipped = other
    OBVIOUS
<1> HIDE DEF flipped
<1> QED
    BY <1>1, <1>2, <1>3

\* The items that a sequence is mapped to: only the last one may end the path.
MappedItems(q, p, inverted, last, items) ==
    LET n == Len(p.items)
        ordered == Ordered(p.items, inverted)
    IN  /\ items = [i \in 1 .. n |-> items[i]]
        /\ \A i \in 1 .. n : i < n => items[i] = Lower(q)[ordered[i]][inverted][FALSE]
        /\ items[n] = Lower(q)[ordered[n]][inverted][last]

LEMMA LowerSequenceAt ==
    ASSUME NEW q, NEW p \in Paths, p.op = "sequence", NEW inverted \in BOOLEAN, NEW last \in BOOLEAN
    PROVE  \E items : /\ MappedItems(q, p, inverted, last, items)
                      /\ Lower(q)[p][inverted][last] = LowerSequence(items)
<1> DEFINE n == Len(p.items)
           ordered == Ordered(p.items, inverted)
           final(i) == last /\ i = Len(ordered)
           lower == Lower(q)
           items == [i \in DOMAIN ordered |-> lower[ordered[i]][inverted][final(i)]]
<1>0. Listed(p)
    BY DEF Listed
<1>1. n \in Nat \ {0} /\ DOMAIN ordered = 1 .. n /\ Len(ordered) = n
    BY <1>0, PathParts, OrderedItems
<1>2. LowerPath(q, lower, p, inverted, last) = LowerSequence(items)
    BY DEF LowerPath
<1>3. Lower(q)[p][inverted][last] = LowerPath(q, lower, p, inverted, last)
    BY LowerAt
<1>4. ASSUME NEW i \in 1 .. n, i < n PROVE items[i] = lower[ordered[i]][inverted][FALSE]
    <2> DEFINE b == final(i)
    <2>1. b = FALSE
        BY <1>1, <1>4
    <2>2. items[i] = lower[ordered[i]][inverted][b]
        BY <1>1
    <2> HIDE DEF b, items, lower, ordered
    <2> QED
        BY <2>1, <2>2
<1>5. items[n] = lower[ordered[n]][inverted][last]
    <2> DEFINE b == final(n)
    <2>1. b = last
        BY <1>1
    <2>2. items[n] = lower[ordered[n]][inverted][b]
        BY <1>1
    <2> HIDE DEF b, items, lower, ordered
    <2> QED
        BY <2>1, <2>2
<1> HIDE DEF final, lower, ordered, n
<1>6. items = [i \in 1 .. n |-> items[i]]
    BY <1>1
<1> HIDE DEF items
<1>7. MappedItems(q, p, inverted, last, items)
    BY <1>4, <1>5, <1>6 DEF MappedItems, lower, ordered, n
<1> QED
    BY <1>2, <1>3, <1>7 DEF lower

\* The options that an alternative is mapped to.
MappedOptions(q, p, inverted, last, items) ==
    /\ items = [i \in 1 .. Len(p.items) |-> items[i]]
    /\ \A i \in 1 .. Len(p.items) : items[i] = Lower(q)[p.items[i]][inverted][last]

LEMMA LowerAlternativeAt ==
    ASSUME NEW q, NEW p \in Paths, p.op = "alternative",
           NEW inverted \in BOOLEAN, NEW last \in BOOLEAN
    PROVE  \E items : /\ MappedOptions(q, p, inverted, last, items)
                      /\ Lower(q)[p][inverted][last] = LowerAlternative(items)
<1> DEFINE lower == Lower(q)
           items == [i \in DOMAIN p.items |-> lower[p.items[i]][inverted][last]]
<1>1. DOMAIN p.items = 1 .. Len(p.items)
    BY PathParts DEF Listed
<1>2. LowerPath(q, lower, p, inverted, last) = LowerAlternative(items)
    BY DEF LowerPath
<1>3. Lower(q)[p][inverted][last] = LowerPath(q, lower, p, inverted, last)
    BY LowerAt
<1> HIDE DEF lower
<1>4. /\ items = [i \in 1 .. Len(p.items) |-> items[i]]
      /\ \A i \in 1 .. Len(p.items) : items[i] = lower[p.items[i]][inverted][last]
    BY <1>1
<1> HIDE DEF items
<1> QED
    BY <1>2, <1>3, <1>4 DEF MappedOptions, lower

\* The bounds of a repetition.
Repetition(p, min, max) ==
    \/ p.op = "zeroOrMore" /\ min = 0 /\ max = Unbounded
    \/ p.op = "oneOrMore" /\ min = 1 /\ max = Unbounded
    \/ p.op = "zeroOrOne" /\ min = 0 /\ max = 1

\* What is repeated is not the end of the path.
Repeated(q, p, inverted) == Lower(q)[p.of][inverted][FALSE]

LEMMA LowerRepeatAt ==
    ASSUME NEW q, NEW p \in Paths, NEW inverted \in BOOLEAN, NEW last \in BOOLEAN,
           NEW min, NEW max, Repetition(p, min, max)
    PROVE  Lower(q)[p][inverted][last] = LowerRepeat(Repeated(q, p, inverted), min, max)
<1>1. Lower(q)[p][inverted][last] = LowerPath(q, Lower(q), p, inverted, last)
    BY LowerAt
<1>2. CASE p.op = "zeroOrMore"
    BY <1>1, <1>2 DEF Repetition, LowerPath, Repeated
<1>3. CASE p.op = "oneOrMore"
    BY <1>1, <1>3 DEF Repetition, LowerPath, Repeated
<1>4. CASE p.op = "zeroOrOne"
    BY <1>1, <1>4 DEF Repetition, LowerPath, Repeated
<1> QED
    BY <1>2, <1>3, <1>4 DEF Repetition

LEMMA PathKinds ==
    ASSUME NEW p \in Paths
    PROVE  \/ p.op = "predicate"
           \/ p.op = "inverse"
           \/ p.op = "sequence"
           \/ p.op = "alternative"
           \/ \E min, max : Repetition(p, min, max)
<1>1. p.op \in {"predicate", "inverse", "zeroOrMore", "oneOrMore", "zeroOrOne", "sequence", "alternative"}
    BY PathParts DEF Unary, Listed
<1> QED
    BY <1>1 DEF Repetition

\* Only a failure makes a sequence fail, and a sequence that does not fail keeps its items.
LEMMA SequenceOrFailure ==
    ASSUME NEW items, NEW n \in Nat \ {0}, DOMAIN items = 1 .. n
    PROVE  \/ LowerSequence(items) = InSequence(items) /\ \A i \in 1 .. n : ~ IsError(items[i])
           \/ IsError(LowerSequence(items)) /\ \E i \in 1 .. n : LowerSequence(items) = items[i]
<1>1. CASE Failed(items) = {}
    BY <1>1 DEF Failed, LowerSequence
<1>2. CASE Failed(items) # {}
    <2>1. Failed(items) \subseteq Nat /\ \A i \in Failed(items) : i \in 1 .. n /\ IsError(items[i])
        BY DEF Failed
    <2>2. \E i \in Failed(items) : \A j \in Failed(items) : i <= j
        BY <1>2, <2>1, LeastNat
    <2> DEFINE i == CHOOSE i \in Failed(items) : \A j \in Failed(items) : i <= j
    <2>3. i \in Failed(items)
        BY <2>2
    <2>4. LowerSequence(items) = items[i]
        BY <1>2 DEF LowerSequence, FirstFailure
    <2> HIDE DEF i
    <2> QED
        BY <2>1, <2>3, <2>4
<1> QED
    BY <1>1, <1>2

LEMMA AlternativeOrFailure ==
    ASSUME NEW items, NEW n \in Nat \ {0}, DOMAIN items = 1 .. n
    PROVE  \/ /\ LowerAlternative(items) = AnyOf(items)
              /\ \A i \in 1 .. n : ~ IsError(items[i]) /\ items[i].nodes = items[1].nodes
           \/ /\ IsError(LowerAlternative(items))
              /\ \/ \E i \in 1 .. n : LowerAlternative(items) = items[i]
                 \/ LowerAlternative(items) = Error("mixed alternative")
<1>1. CASE Failed(items) = {} /\ Homogeneous(items)
    BY <1>1 DEF Failed, Homogeneous, LowerAlternative
<1>2. CASE Failed(items) = {} /\ ~ Homogeneous(items)
    BY <1>2 DEF LowerAlternative, IsError, Error
<1>3. CASE Failed(items) # {}
    <2>1. Failed(items) \subseteq Nat /\ \A i \in Failed(items) : i \in 1 .. n /\ IsError(items[i])
        BY DEF Failed
    <2>2. \E i \in Failed(items) : \A j \in Failed(items) : i <= j
        BY <1>3, <2>1, LeastNat
    <2> DEFINE i == CHOOSE i \in Failed(items) : \A j \in Failed(items) : i <= j
    <2>3. i \in Failed(items)
        BY <2>2
    <2>4. LowerAlternative(items) = items[i]
        BY <1>3 DEF LowerAlternative, FirstFailure
    <2> HIDE DEF i
    <2> QED
        BY <2>1, <2>3, <2>4
<1> QED
    BY <1>1, <1>2, <1>3

-----------------------------------------------------------------------------
(* Resolved paths and their parts.                                         *)

\* The values that paths less deep than n are mapped to.
ResolvedFrom(n) ==
    {Lower(q)[p][inverted][last] :
        q \in Questions, p \in Shallow(n), inverted \in BOOLEAN, last \in BOOLEAN}

\* v is a resolved path of parts in S.
Composite(v, S) ==
    \/ \E items \in Seq(S) : v = InSequence(items) \/ v = AnyOf(items)
    \/ \E inner \in S : \E min \in {0, 1} : \E max \in {1, Unbounded} : v = Repeat(inner, min, max)
Simple(v) == v.op \in {"property", "relationship", "error"}

LEMMA LowerIn ==
    ASSUME NEW n, NEW q \in Questions, NEW p \in Shallow(n),
           NEW inverted \in BOOLEAN, NEW last \in BOOLEAN
    PROVE  Lower(q)[p][inverted][last] \in ResolvedFrom(n)
BY DEF ResolvedFrom

LEMMA LowerResolved ==
    ASSUME NEW q \in Questions, NEW p \in Paths, NEW inverted \in BOOLEAN, NEW last \in BOOLEAN
    PROVE  Lower(q)[p][inverted][last] \in ResolvedPaths
BY DEF ResolvedPaths

LEMMA ResolvedFromGrows ==
    ASSUME NEW n \in Nat PROVE ResolvedFrom(n) \subseteq ResolvedFrom(n + 1)
<1>1. Shallow(n) \subseteq Shallow(n + 1)
    BY ShallowPaths
<1> QED
    BY <1>1 DEF ResolvedFrom

LEMMA ResolvedFromAll ==
    /\ ResolvedFrom(0) = {}
    /\ ResolvedFrom(MaxDepth + 1) = ResolvedPaths
BY ShallowPaths DEF ResolvedFrom, ResolvedPaths

LEMMA CompositeGrows ==
    ASSUME NEW v, NEW S, NEW T, S \subseteq T, Composite(v, S)
    PROVE  Composite(v, T)
<1>1. \A items \in Seq(S) : items \in Seq(T)
    OBVIOUS
<1> QED
    BY <1>1 DEF Composite

LEMMA StepSimple ==
    ASSUME NEW q, NEW iri, NEW inverted \in BOOLEAN, NEW last \in BOOLEAN
    PROVE  Simple(Step(q, iri, inverted, last))
<1>1. \A own : Simple(PropertyStep(q, iri, own))
    BY DEF PropertyStep, CheckStrict, Property, Error, Simple
<1>2. \A own : Simple(RelationshipStep(q, iri, own, inverted))
    BY DEF RelationshipStep, CheckStrict, Relationship, Error, Simple
<1>3. \A why : Simple(Error(why))
    BY DEF Error, Simple
<1> HIDE DEF Simple
<1> QED
    BY <1>1, <1>2, <1>3 DEF Step

LEMMA ErrorSimple == ASSUME NEW v, IsError(v) PROVE Simple(v)
BY DEF IsError, Simple

\* The parts of resolved paths are resolved paths.
LEMMA ResolvedComposite ==
    ASSUME NEW n \in Nat, NEW v \in ResolvedFrom(n + 1)
    PROVE  Simple(v) \/ Composite(v, ResolvedFrom(n))
<1> DEFINE T == {k \in Nat : \A w \in ResolvedFrom(k + 1) : Simple(w) \/ Composite(w, ResolvedFrom(k))}
<1>1. ASSUME NEW k \in Nat, k = 0 \/ (k - 1 \in Nat /\ k - 1 \in T)
      PROVE  k \in T
    <2> SUFFICES ASSUME NEW x \in ResolvedFrom(k + 1)
                 PROVE  Simple(x) \/ Composite(x, ResolvedFrom(k))
        OBVIOUS
    <2>x. PICK q \in Questions, p \in Shallow(k + 1), inverted \in BOOLEAN, last \in BOOLEAN :
              x = Lower(q)[p][inverted][last]
        <3> HIDE DEF T
        <3> QED
            BY DEF ResolvedFrom
    <2> DEFINE w == Lower(q)[p][inverted][last]
    <2> SUFFICES Simple(w) \/ Composite(w, ResolvedFrom(k))
        BY <2>x
    <2>0. p \in Paths /\ Depth[p] < k + 1 /\ Depth[p] \in Nat
        BY Depths DEF Shallow
    <2>1. \A c \in Paths : Depth[c] < Depth[p] => c \in Shallow(k)
        BY <2>0, Depths DEF Shallow
    <2>2. CASE p.op = "predicate"
        <3>1. w = Step(q, p.iri, inverted, last)
            BY <2>0, <2>2, LowerAt DEF LowerPath
        <3> QED
            BY <3>1, StepSimple
    <2>3. CASE p.op = "inverse"
        <3>1. p.of \in Shallow(k)
            BY <2>0, <2>1, <2>3, PathParts DEF Unary
        <3>2. PICK other \in BOOLEAN : other # inverted
            OBVIOUS
        <3>3. w = Lower(q)[p.of][other][last]
            BY <2>0, <2>3, <3>2, LowerInverse
        <3>4. w \in ResolvedFrom(k)
            BY <3>1, <3>3, LowerIn
        <3>5. k # 0
            BY <3>4, ResolvedFromAll
        <3>6. k - 1 \in Nat /\ (k - 1) + 1 = k /\ k - 1 \in T
            BY <1>1, <3>5
        <3> DEFINE S == ResolvedFrom(k - 1)
                   U == ResolvedFrom(k)
        <3>7. Simple(w) \/ Composite(w, S)
            BY <3>4, <3>6
        <3>8. S \subseteq U
            BY <3>6, ResolvedFromGrows
        <3>9. Composite(w, S) => Composite(w, U)
            <4> HIDE DEF w, S, U
            <4> QED
                BY <3>8, CompositeGrows
        <3> QED
            BY <3>7, <3>9
    <2>4. CASE p.op = "sequence"
        <3>0. Listed(p)
            BY <2>4 DEF Listed
        <3> DEFINE m == Len(p.items)
                   ordered == Ordered(p.items, inverted)
        <3>1. PICK items : MappedItems(q, p, inverted, last, items) /\ w = LowerSequence(items)
            BY <2>0, <2>4, LowerSequenceAt
        <3>2. m \in Nat \ {0} /\ items = [i \in 1 .. m |-> items[i]] /\ DOMAIN items = 1 .. m
            BY <2>0, <3>0, <3>1, PathParts DEF MappedItems
        <3>3. \A i \in 1 .. m : ordered[i] \in Shallow(k)
            BY <2>0, <2>1, <3>0, OrderedItems, PathParts
        <3>4. ASSUME NEW i \in 1 .. m PROVE items[i] \in ResolvedFrom(k)
            <4>1. CASE i < m
                <5>1. items[i] = Lower(q)[ordered[i]][inverted][FALSE]
                    BY <3>1, <4>1 DEF MappedItems
                <5> HIDE DEF ordered
                <5> QED
                    BY <3>3, <5>1, LowerIn
            <4>2. CASE i = m
                <5>1. items[i] = Lower(q)[ordered[i]][inverted][last]
                    BY <3>1, <4>2 DEF MappedItems
                <5> HIDE DEF ordered
                <5> QED
                    BY <3>3, <5>1, LowerIn
            <4> QED
                BY <3>2, <4>1, <4>2
        <3> HIDE DEF w
        <3>5. items \in Seq(ResolvedFrom(k))
            <4> HIDE DEF m
            <4> QED
                BY <3>2, <3>4
        <3>6. w = InSequence(items) \/ IsError(w)
            BY <3>1, <3>2, SequenceOrFailure
        <3> QED
            BY <3>5, <3>6, ErrorSimple DEF Composite
    <2>5. CASE p.op = "alternative"
        <3>0. Listed(p)
            BY <2>5 DEF Listed
        <3> DEFINE m == Len(p.items)
        <3>1. PICK items : MappedOptions(q, p, inverted, last, items) /\ w = LowerAlternative(items)
            BY <2>0, <2>5, LowerAlternativeAt
        <3>2. m \in Nat \ {0} /\ items = [i \in 1 .. m |-> items[i]] /\ DOMAIN items = 1 .. m
            BY <2>0, <3>0, <3>1, PathParts DEF MappedOptions
        <3>3. \A i \in 1 .. m : p.items[i] \in Shallow(k)
            BY <2>0, <2>1, <3>0, PathParts
        <3>4. ASSUME NEW i \in 1 .. m PROVE items[i] \in ResolvedFrom(k)
            <4>1. items[i] = Lower(q)[p.items[i]][inverted][last]
                BY <3>1 DEF MappedOptions
            <4> QED
                BY <3>3, <4>1, LowerIn
        <3> HIDE DEF w
        <3>5. items \in Seq(ResolvedFrom(k))
            <4> HIDE DEF m
            <4> QED
                BY <3>2, <3>4
        <3>6. w = AnyOf(items) \/ IsError(w)
            BY <3>1, <3>2, AlternativeOrFailure
        <3> QED
            BY <3>5, <3>6, ErrorSimple DEF Composite
    <2>6. ASSUME NEW min, NEW max, Repetition(p, min, max)
          PROVE  Simple(w) \/ Composite(w, ResolvedFrom(k))
        <3> DEFINE inner == Repeated(q, p, inverted)
        <3>1. p.of \in Shallow(k)
            BY <2>0, <2>1, <2>6, PathParts DEF Unary, Repetition
        <3>2. inner \in ResolvedFrom(k)
            BY <3>1, LowerIn DEF Repeated
        <3>3. w = LowerRepeat(inner, min, max)
            BY <2>0, <2>6, LowerRepeatAt
        <3>4. min \in {0, 1} /\ max \in {1, Unbounded}
            BY <2>6 DEF Repetition
        <3> HIDE DEF w, inner
        <3>5. w = Repeat(inner, min, max) \/ IsError(w)
            BY <3>3 DEF LowerRepeat
        <3> QED
            BY <3>2, <3>4, <3>5, ErrorSimple DEF Composite
    <2> HIDE DEF w
    <2> QED
        BY <2>0, <2>2, <2>3, <2>4, <2>5, <2>6, PathKinds
<1> HIDE DEF T
<1>2. \A k \in Nat : k \in T
    <2>1. 0 \in T
        BY <1>1
    <2>2. \A k \in Nat : k \in T => k + 1 \in T
        <3> TAKE k \in Nat
        <3> HAVE k \in T
        <3>1. k + 1 \in Nat /\ (k + 1) - 1 = k
            OBVIOUS
        <3> QED
            BY <1>1, <3>1
    <2> QED
        BY <2>1, <2>2, EveryNat
<1> QED
    BY <1>2 DEF T

-----------------------------------------------------------------------------
(* Capped paths.                                                           *)

SameOn(f, g, S) == \A w \in S : f[w] = g[w]

LEMMA CompositeFields ==
    ASSUME NEW v, NEW S, Composite(v, S)
    PROVE  /\ ~ Simple(v) /\ v.op \in {"sequence", "alternative", "repeat"}
           /\ v.op = "repeat" =>
                 /\ v.of \in S /\ v.min \in {0, 1} /\ v.max \in {1, Unbounded}
                 /\ v = Repeat(v.of, v.min, v.max)
           /\ v.op # "repeat" =>
                 /\ v.items \in Seq(S)
                 /\ v = [op |-> v.op, nodes |-> v.nodes, items |-> v.items]
BY DEF Composite, Simple, InSequence, AnyOf, Repeat

LEMMA CapLocal ==
    ASSUME NEW v, NEW S, Simple(v) \/ Composite(v, S), NEW f, NEW g, SameOn(f, g, S)
    PROVE  CapPath(f, v) = CapPath(g, v)
<1>1. CASE Simple(v)
    BY <1>1 DEF Simple, CapPath
<1>2. CASE Composite(v, S) /\ v.op = "repeat"
    <2>1. f[v.of] = g[v.of]
        BY <1>2, CompositeFields DEF SameOn
    <2> QED
        BY <1>2, <2>1 DEF CapPath
<1>3. CASE Composite(v, S) /\ v.op # "repeat"
    <2>1. v.op \in {"sequence", "alternative"} /\ v.items \in Seq(S)
        BY <1>3, CompositeFields
    <2>2. \A i \in DOMAIN v.items : f[v.items[i]] = g[v.items[i]]
        BY <2>1 DEF SameOn
    <2> DEFINE a(h) == [i \in DOMAIN v.items |-> h[v.items[i]].path]
               b(h) == \E i \in DOMAIN v.items : h[v.items[i]].capped
               c(h) == [path |-> [v EXCEPT !.items = a(h)], capped |-> b(h)]
    <2>3. a(f) = a(g)
        BY <2>2
    <2>4. b(f) = b(g)
        BY <2>2
    <2>5. CapPath(f, v) = c(f) /\ CapPath(g, v) = c(g)
        BY <2>1 DEF CapPath
    <2>6. c(f) = c(g)
        <3> DEFINE af == a(f)
                   ag == a(g)
                   bf == b(f)
                   bg == b(g)
        <3>1. af = ag /\ bf = bg
            BY <2>3, <2>4
        <3> HIDE DEF af, ag, bf, bg
        <3>2. [path |-> [v EXCEPT !.items = af], capped |-> bf] = [path |-> [v EXCEPT !.items = ag], capped |-> bg]
            BY <3>1
        <3> QED
            BY <3>2 DEF af, ag, bf, bg
    <2> QED
        BY <2>5, <2>6
<1> QED
    BY <1>1, <1>2, <1>3, CompositeFields

LEMMA CapExists == CapRepeats = [v \in ResolvedPaths |-> CapPath(CapRepeats, v)]
<1> DEFINE Rec(f, n) == f = [v \in ResolvedFrom(n) |-> CapPath(f, v)]
           T == {n \in Nat : \E f : Rec(f, n)}
<1>1. 0 \in T
    <2>1. Rec([v \in {} |-> v], 0)
        BY ResolvedFromAll
    <2> QED
        BY <2>1
<1>2. ASSUME NEW n \in Nat, n \in T PROVE n + 1 \in T
    <2>1. PICK f : Rec(f, n)
        BY <1>2
    <2> DEFINE S == ResolvedFrom(n)
               g == [v \in ResolvedFrom(n + 1) |-> CapPath(f, v)]
    <2>2. SameOn(f, g, S)
        BY <2>1, ResolvedFromGrows DEF SameOn
    <2>3. ASSUME NEW v \in ResolvedFrom(n + 1) PROVE CapPath(f, v) = CapPath(g, v)
        <3>1. Simple(v) \/ Composite(v, S)
            BY ResolvedComposite
        <3> HIDE DEF S, g
        <3> QED
            BY <2>2, <3>1, CapLocal
    <2>4. Rec(g, n + 1)
        BY <2>3
    <2> HIDE DEF g, Rec
    <2> QED
        BY <2>4
<1> HIDE DEF T
<1>3. MaxDepth + 1 \in T
    BY <1>1, <1>2, EveryNat, ShallowPaths
<1>4. PICK f : Rec(f, MaxDepth + 1)
    BY <1>3 DEF T
<1>5. f = [v \in ResolvedPaths |-> CapPath(f, v)]
    BY <1>4, ResolvedFromAll
<1> DEFINE cap == CHOOSE f2 : f2 = [v \in ResolvedPaths |-> CapPath(f2, v)]
<1>6. CapRepeats = cap
    BY DEF CapRepeats
<1> QED
    BY <1>5, <1>6

LEMMA CapAt == \A v \in ResolvedPaths : CapRepeats[v] = CapPath(CapRepeats, v)
BY CapExists

\* The path that is made of v, and whether something is cut.
Cut(v) == CapRepeats[v].path
IsCut(v) == CapRepeats[v].capped

LEMMA CutSimple ==
    ASSUME NEW v \in ResolvedPaths, Simple(v)
    PROVE  Cut(v) = v /\ ~ IsCut(v)
<1>1. CapPath(CapRepeats, v) = [path |-> v, capped |-> FALSE]
    BY DEF CapPath, Simple
<1> QED
    BY <1>1, CapAt DEF Cut, IsCut

LEMMA CutItems ==
    ASSUME NEW v \in ResolvedPaths, NEW S, Composite(v, S), v.op # "repeat"
    PROVE  /\ Cut(v) = [op |-> v.op, nodes |-> v.nodes,
                        items |-> [i \in DOMAIN v.items |-> Cut(v.items[i])]]
           /\ \A i \in DOMAIN v.items : IsCut(v.items[i]) => IsCut(v)
<1> DEFINE items == [i \in DOMAIN v.items |-> CapRepeats[v.items[i]].path]
           capped == \E i \in DOMAIN v.items : CapRepeats[v.items[i]].capped
<1>1. v.op \in {"sequence", "alternative"} /\ v = [op |-> v.op, nodes |-> v.nodes, items |-> v.items]
    BY CompositeFields
<1>2. CapRepeats[v] = [path |-> [v EXCEPT !.items = items], capped |-> capped]
    BY <1>1, CapAt DEF CapPath
<1>3. [v EXCEPT !.items = items] = [op |-> v.op, nodes |-> v.nodes, items |-> items]
    <2> HIDE DEF items
    <2> QED
        BY <1>1
<1>4. capped \in BOOLEAN
    OBVIOUS
<1>5. \A i \in DOMAIN v.items : IsCut(v.items[i]) => capped
    BY DEF IsCut
<1>6. Cut(v) = [v EXCEPT !.items = items]
    <2> HIDE DEF items, capped
    <2> QED
        BY <1>2 DEF Cut
<1>7. IsCut(v) = capped
    <2> HIDE DEF items, capped
    <2> QED
        BY <1>2, <1>4 DEF IsCut
<1>8. items = [i \in DOMAIN v.items |-> Cut(v.items[i])]
    BY DEF Cut
<1> HIDE DEF items, capped
<1> QED
    BY <1>3, <1>5, <1>6, <1>7, <1>8

LEMMA CutRepeat ==
    ASSUME NEW v \in ResolvedPaths, NEW S, Composite(v, S), v.op = "repeat"
    PROVE  /\ Cut(v) = Repeat(Cut(v.of), v.min, IF v.max = Unbounded THEN MaxPathDepth ELSE v.max)
           /\ IsCut(v.of) \/ v.max = Unbounded => IsCut(v)
<1> DEFINE inner == CapRepeats[v.of].path
           max == IF v.max = Unbounded THEN MaxPathDepth ELSE v.max
           capped == v.max = Unbounded \/ CapRepeats[v.of].capped
<1>1. v = Repeat(v.of, v.min, v.max)
    BY CompositeFields
<1>2. CapRepeats[v] = [path |-> Repeat(inner, v.min, max), capped |-> capped]
    BY CapAt DEF CapPath
<1>4. capped \in BOOLEAN /\ (IsCut(v.of) \/ v.max = Unbounded => capped)
    BY DEF IsCut
<1>5. Cut(v) = Repeat(inner, v.min, max)
    <2> HIDE DEF inner, max, capped
    <2> QED
        BY <1>2 DEF Cut
<1>6. IsCut(v) = capped
    <2> HIDE DEF inner, max, capped
    <2> QED
        BY <1>2, <1>4 DEF IsCut
<1>7. inner = Cut(v.of)
    BY DEF Cut
<1> HIDE DEF inner, capped
<1> QED
    BY <1>4, <1>5, <1>6, <1>7

LEMMA ResolvedWithin == ASSUME NEW n \in Nat PROVE ResolvedFrom(n) \subseteq ResolvedPaths
BY DEF ResolvedFrom, ResolvedPaths, Shallow

\* What is not cut stays as it is.
LEMMA UncutStays ==
    ASSUME NEW v \in ResolvedPaths, ~ IsCut(v)
    PROVE  Cut(v) = v
<1> DEFINE T == {n \in Nat : \A w \in ResolvedFrom(n) : ~ IsCut(w) => Cut(w) = w}
<1>1. 0 \in T
    BY ResolvedFromAll
<1>2. ASSUME NEW n \in Nat, n \in T PROVE n + 1 \in T
    <2> DEFINE S == ResolvedFrom(n)
    <2> SUFFICES ASSUME NEW w \in ResolvedFrom(n + 1), ~ IsCut(w)
                 PROVE  Cut(w) = w
        OBVIOUS
    <2>1. w \in ResolvedPaths
        BY ResolvedWithin
    <2>2. Simple(w) \/ Composite(w, S)
        BY ResolvedComposite
    <2>3. \A c \in S : ~ IsCut(c) => Cut(c) = c
        BY <1>2
    <2> HIDE DEF S
    <2>4. CASE Simple(w)
        BY <2>1, <2>4, CutSimple
    <2>5. CASE Composite(w, S) /\ w.op = "repeat"
        <3>1. w.of \in S /\ w = Repeat(w.of, w.min, w.max)
            BY <2>5, CompositeFields
        <3>2. ~ IsCut(w.of) /\ w.max # Unbounded
            BY <2>1, <2>5, CutRepeat
        <3>3. Cut(w) = Repeat(Cut(w.of), w.min, w.max)
            BY <2>1, <2>5, <3>2, CutRepeat
        <3>4. Cut(w.of) = w.of
            BY <2>3, <3>1, <3>2
        <3> QED
            BY <3>1, <3>3, <3>4
    <2>6. CASE Composite(w, S) /\ w.op # "repeat"
        <3>1. w.items \in Seq(S) /\ w = [op |-> w.op, nodes |-> w.nodes, items |-> w.items]
            BY <2>6, CompositeFields
        <3>2. \A i \in DOMAIN w.items : ~ IsCut(w.items[i])
            BY <2>1, <2>6, CutItems
        <3>3. \A i \in DOMAIN w.items : Cut(w.items[i]) = w.items[i]
            BY <2>3, <3>1, <3>2
        <3> DEFINE items == [i \in DOMAIN w.items |-> Cut(w.items[i])]
        <3>4. items = w.items
            BY <3>1, <3>3
        <3>5. Cut(w) = [op |-> w.op, nodes |-> w.nodes, items |-> items]
            BY <2>1, <2>6, CutItems
        <3> HIDE DEF items
        <3> QED
            BY <3>1, <3>4, <3>5
    <2> QED
        BY <2>2, <2>4, <2>5, <2>6
<1> HIDE DEF T
<1>3. MaxDepth + 1 \in T
    BY <1>1, <1>2, EveryNat, ShallowPaths
<1> QED
    BY <1>3, ResolvedFromAll DEF T

-----------------------------------------------------------------------------
(* What the paths of rules find.                                           *)

\* The paths of rules, of depth less than n.
RuleFrom(n) == ResolvedFrom(n) \cup {Cut(v) : v \in ResolvedFrom(n)}

RuleParts(v, S) ==
    \/ v.op = "repeat" /\ v.of \in S
    \/ v.op \in {"sequence", "alternative"} /\ \A i \in DOMAIN v.items : v.items[i] \in S

LEMMA RuleFromGrows == ASSUME NEW n \in Nat PROVE RuleFrom(n) \subseteq RuleFrom(n + 1)
BY ResolvedFromGrows DEF RuleFrom

LEMMA RuleFromAll == RuleFrom(0) = {} /\ RuleFrom(MaxDepth + 1) = RulePaths
BY ResolvedFromAll DEF RuleFrom, RulePaths, Cut

LEMMA RulePathParts ==
    ASSUME NEW n \in Nat, NEW v \in RuleFrom(n + 1)
    PROVE  Simple(v) \/ RuleParts(v, RuleFrom(n))
<1> DEFINE S == ResolvedFrom(n)
<1>1. \A w \in S : w \in RuleFrom(n) /\ Cut(w) \in RuleFrom(n)
    BY DEF RuleFrom
<1>2. PICK w \in ResolvedFrom(n + 1) : v = w \/ v = Cut(w)
    BY DEF RuleFrom
<1>3. w \in ResolvedPaths
    BY ResolvedWithin
<1>4. Simple(w) \/ Composite(w, S)
    BY ResolvedComposite
<1> HIDE DEF S
<1>5. CASE Simple(w)
    BY <1>2, <1>3, <1>5, CutSimple
<1>6. CASE Composite(w, S) /\ w.op = "repeat"
    <2>1. w.of \in S
        BY <1>6, CompositeFields
    <2>2. Cut(w).op = "repeat" /\ Cut(w).of = Cut(w.of)
        BY <1>3, <1>6, CutRepeat DEF Repeat
    <2> QED
        BY <1>1, <1>2, <1>6, <2>1, <2>2 DEF RuleParts
<1>7. CASE Composite(w, S) /\ w.op # "repeat"
    <2>1. w.op \in {"sequence", "alternative"} /\ w.items \in Seq(S)
        BY <1>7, CompositeFields
    <2>2. \A i \in DOMAIN w.items : w.items[i] \in S
        BY <2>1
    <2> DEFINE items == [i \in DOMAIN w.items |-> Cut(w.items[i])]
    <2>3. Cut(w) = [op |-> w.op, nodes |-> w.nodes, items |-> items]
        BY <1>3, <1>7, CutItems
    <2>4. Cut(w).op = w.op /\ Cut(w).items = items
        <3> HIDE DEF items
        <3> QED
            BY <2>3
    <2>5. DOMAIN items = DOMAIN w.items /\ \A i \in DOMAIN items : items[i] \in RuleFrom(n)
        BY <1>1, <2>2
    <2> HIDE DEF items
    <2>6. CASE v = w
        BY <1>1, <2>1, <2>2, <2>6 DEF RuleParts
    <2>7. CASE v = Cut(w)
        BY <2>1, <2>4, <2>5, <2>7 DEF RuleParts
    <2> QED
        BY <1>2, <2>6, <2>7
<1> QED
    BY <1>4, <1>5, <1>6, <1>7

LEMMA FindLocal ==
    ASSUME NEW v, NEW S, Simple(v) \/ RuleParts(v, S), NEW f, NEW g, SameOn(f, g, S)
    PROVE  FindPath(f, v) = FindPath(g, v)
<1>1. CASE Simple(v)
    BY <1>1 DEF Simple, FindPath
<1>2. CASE v.op = "repeat" /\ v.of \in S
    <2>1. f[v.of] = g[v.of]
        BY <1>2 DEF SameOn
    <2> QED
        BY <1>2, <2>1 DEF FindPath
<1>3. CASE v.op \in {"sequence", "alternative"} /\ \A i \in DOMAIN v.items : v.items[i] \in S
    <2>1. \A i \in DOMAIN v.items : f[v.items[i]] = g[v.items[i]]
        BY <1>3 DEF SameOn
    <2> DEFINE F == [i \in DOMAIN v.items |-> f[v.items[i]]]
               G == [i \in DOMAIN v.items |-> g[v.items[i]]]
    <2>2. F = G
        BY <2>1
    <2>3. UNION {f[v.items[i]] : i \in DOMAIN v.items} = UNION {g[v.items[i]] : i \in DOMAIN v.items}
        BY <2>1
    <2>4. CASE v.op = "sequence"
        <3>1. FindPath(f, v) = Chain(F) /\ FindPath(g, v) = Chain(G)
            BY <2>4 DEF FindPath
        <3> HIDE DEF F, G
        <3> QED
            BY <3>1, <2>2
    <2>5. CASE v.op = "alternative"
        BY <2>3, <2>5 DEF FindPath
    <2> QED
        BY <1>3, <2>4, <2>5
<1> QED
    BY <1>1, <1>2, <1>3 DEF RuleParts

LEMMA FoundExists == Found = [v \in RulePaths |-> FindPath(Found, v)]
<1> DEFINE Rec(f, n) == f = [v \in RuleFrom(n) |-> FindPath(f, v)]
           T == {n \in Nat : \E f : Rec(f, n)}
<1>1. 0 \in T
    <2>1. Rec([v \in {} |-> v], 0)
        BY RuleFromAll
    <2> QED
        BY <2>1
<1>2. ASSUME NEW n \in Nat, n \in T PROVE n + 1 \in T
    <2>1. PICK f : Rec(f, n)
        BY <1>2
    <2> DEFINE S == RuleFrom(n)
               g == [v \in RuleFrom(n + 1) |-> FindPath(f, v)]
    <2>2. SameOn(f, g, S)
        BY <2>1, RuleFromGrows DEF SameOn
    <2>3. ASSUME NEW v \in RuleFrom(n + 1) PROVE FindPath(f, v) = FindPath(g, v)
        <3>1. Simple(v) \/ RuleParts(v, S)
            BY RulePathParts
        <3> HIDE DEF S, g
        <3> QED
            BY <2>2, <3>1, FindLocal
    <2>4. Rec(g, n + 1)
        BY <2>3
    <2> HIDE DEF g, Rec
    <2> QED
        BY <2>4
<1> HIDE DEF T
<1>3. MaxDepth + 1 \in T
    BY <1>1, <1>2, EveryNat, ShallowPaths
<1>4. PICK f : Rec(f, MaxDepth + 1)
    BY <1>3 DEF T
<1>5. f = [v \in RulePaths |-> FindPath(f, v)]
    BY <1>4, RuleFromAll
<1> DEFINE found == CHOOSE f2 : f2 = [v \in RulePaths |-> FindPath(f2, v)]
<1>6. Found = found
    BY DEF Found
<1> QED
    BY <1>5, <1>6

LEMMA FoundAt == \A v \in RulePaths : Found[v] = FindPath(Found, v)
BY FoundExists

-----------------------------------------------------------------------------
(* Relations, one after the other.                                         *)

\* The steps of a chain.
ChainSteps(steps, relations) ==
    /\ steps[0] = Identity
    /\ Len(relations) > 0 => steps[1] = relations[1]
    /\ \A i \in 2 .. Len(relations) : steps[i] = Composed(steps[i - 1], relations[i])
    /\ Chain(relations) = steps[Len(relations)]

ChainStep(relations, f, i) ==
    IF i = 0 THEN Identity
    ELSE IF i = 1 THEN relations[i] ELSE Composed(f[i - 1], relations[i])

LEMMA ChainStepLocal ==
    ASSUME NEW relations, NEW i \in Nat, NEW f, NEW g, i > 1 => f[i - 1] = g[i - 1]
    PROVE  ChainStep(relations, f, i) = ChainStep(relations, g, i)
BY DEF ChainStep

LEMMA ChainHasSteps ==
    ASSUME NEW relations, Len(relations) \in Nat
    PROVE  \E steps : ChainSteps(steps, relations)
<1> DEFINE n == Len(relations)
           Rec(f, m) == f = [i \in 0 .. m |-> ChainStep(relations, f, i)]
           T == {m \in Nat : \E f : Rec(f, m)}
<1>1. 0 \in T
    <2> DEFINE f == [i \in 0 .. 0 |-> Identity]
    <2>1. Rec(f, 0)
        BY DEF ChainStep
    <2> HIDE DEF f, Rec
    <2> QED
        BY <2>1
<1>2. ASSUME NEW m \in Nat, m \in T PROVE m + 1 \in T
    <2>1. PICK f : Rec(f, m)
        BY <1>2
    <2> DEFINE g == [i \in 0 .. m + 1 |-> ChainStep(relations, f, i)]
    <2>2. \A i \in 0 .. m : f[i] = g[i]
        BY <2>1
    <2>3. ASSUME NEW i \in 0 .. m + 1 PROVE ChainStep(relations, f, i) = ChainStep(relations, g, i)
        <3>1. i > 1 => f[i - 1] = g[i - 1]
            <4> HIDE DEF g
            <4>1. i > 1 => i - 1 \in 0 .. m
                OBVIOUS
            <4> QED
                BY <2>2, <4>1
        <3> HIDE DEF g
        <3> QED
            BY <3>1, ChainStepLocal
    <2>4. Rec(g, m + 1)
        BY <2>3
    <2> HIDE DEF g, Rec
    <2> QED
        BY <2>4
<1> HIDE DEF T
<1>3. n \in T
    BY <1>1, <1>2, EveryNat
<1>4. PICK f : Rec(f, n)
    BY <1>3 DEF T
<1> DEFINE steps == CHOOSE f2 : f2 = [i \in 0 .. n |-> ChainStep(relations, f2, i)]
<1>5. Chain(relations) = steps[n]
    BY DEF Chain, ChainStep
<1>6. steps = [i \in 0 .. n |-> ChainStep(relations, steps, i)]
    BY <1>4
<1> HIDE DEF steps
<1>7. \A i \in 0 .. n : steps[i] = ChainStep(relations, steps, i)
    <2> HIDE DEF n
    <2> QED
        BY <1>6
<1>8. steps[0] = Identity
    BY <1>7 DEF ChainStep
<1>9. n > 0 => steps[1] = relations[1]
    BY <1>7 DEF ChainStep
<1>10. \A i \in 2 .. n : steps[i] = Composed(steps[i - 1], relations[i])
    BY <1>7 DEF ChainStep
<1> QED
    BY <1>5, <1>8, <1>9, <1>10 DEF ChainSteps

LEMMA NodesAreTerms == Nodes \subseteq Terms
BY DEF Terms

LEMMA IdentityIn ==
    ASSUME NEW a \in Terms, NEW t \in Terms PROVE <<a, t>> \in Identity <=> a = t
BY DEF Identity

LEMMA ComposedIn ==
    ASSUME NEW first, NEW second, NEW a \in Terms, NEW t \in Terms
    PROVE  <<a, t>> \in Composed(first, second)
              <=> \E s \in Nodes : <<a, s>> \in first /\ <<s, t>> \in second
BY DEF Composed, Pairs

Composes(third, first, second, From) ==
    \A a \in From : \A t \in Terms :
        <<a, t>> \in third <=> \E s \in Nodes : <<a, s>> \in first /\ <<s, t>> \in second

LEMMA ComposedComposes ==
    ASSUME NEW first, NEW second PROVE Composes(Composed(first, second), first, second, Terms)
BY ComposedIn DEF Composes

LEMMA IdentityComposes ==
    ASSUME NEW second PROVE Composes(second, Identity, second, Nodes)
BY IdentityIn, NodesAreTerms DEF Composes

\* From terms, chains are composed from their first relation on.
LEMMA ChainComposes ==
    ASSUME NEW relations, Len(relations) \in Nat, NEW steps, ChainSteps(steps, relations),
           NEW i \in 2 .. Len(relations)
    PROVE  Composes(steps[i], steps[i - 1], relations[i], Terms)
<1> DEFINE first == steps[i - 1]
           second == relations[i]
           third == steps[i]
<1>1. third = Composed(first, second)
    BY DEF ChainSteps
<1> HIDE DEF first, second, third
<1>2. Composes(third, first, second, Terms)
    BY <1>1, ComposedComposes
<1> QED
    BY <1>2 DEF first, second, third

\* From nodes, they are composed from nothing on.
LEMMA ChainComposesNodes ==
    ASSUME NEW relations, Len(relations) \in Nat, NEW steps, ChainSteps(steps, relations),
           NEW i \in 1 .. Len(relations)
    PROVE  Composes(steps[i], steps[i - 1], relations[i], Nodes)
<1>1. CASE i = 1
    <2> DEFINE second == relations[1]
    <2>1. steps[i] = second /\ relations[i] = second /\ steps[i - 1] = Identity
        BY <1>1 DEF ChainSteps
    <2> HIDE DEF second
    <2> QED
        BY <2>1, IdentityComposes
<1>2. CASE i # 1
    <2> DEFINE first == steps[i - 1]
               second == relations[i]
               third == steps[i]
    <2>1. i \in 2 .. Len(relations)
        BY <1>2
    <2>2. Composes(third, first, second, Terms)
        BY <2>1, ChainComposes
    <2> HIDE DEF first, second, third
    <2>3. Composes(third, first, second, Nodes)
        BY <2>2, NodesAreTerms DEF Composes
    <2> QED
        BY <2>3 DEF first, second, third
<1> QED
    BY <1>1, <1>2

LEMMA TransitiveIn ==
    ASSUME NEW pairs, NEW a \in Terms, NEW t \in Terms
    PROVE  <<a, t>> \in Transitive(pairs)
              <=> \A set \in SUBSET Terms : LeadsInto(pairs, a, set) => t \in set
BY DEF Transitive, Pairs

LEMMA ConverseIn ==
    ASSUME NEW pairs \in SUBSET Pairs, NEW a, NEW t
    PROVE  <<a, t>> \in Converse(pairs) <=> <<t, a>> \in pairs
BY DEF Converse, Pairs

\* From a to t along pairs, or against them.
Along(pairs, inverted, a, t) == IF inverted THEN <<t, a>> \in pairs ELSE <<a, t>> \in pairs

\* found is what pairs are, from nodes on: the nodes that they lead to, or the values.
Means(found, pairs, inverted, nodes) ==
    \A a \in Nodes : \A t \in Terms :
        <<a, t>> \in found <=> Along(pairs, inverted, a, t) /\ (t \in Nodes <=> nodes = TRUE)

LEMMA MeansIdentity ==
    ASSUME NEW inverted \in BOOLEAN PROVE Means(Identity, Identity, inverted, TRUE)
BY NodesAreTerms, IdentityIn DEF Means, Along

LEMMA MeansConverse ==
    ASSUME NEW inverted \in BOOLEAN, NEW other \in BOOLEAN, other # inverted, NEW nodes \in BOOLEAN,
           NEW f, NEW p \in SUBSET Pairs, Means(f, p, other, nodes)
    PROVE  Means(f, Converse(p), inverted, nodes)
BY ConverseIn DEF Means, Along

\* Along a chain, relations that agree may be exchanged.
LEMMA MeansChain ==
    ASSUME NEW f, NEW p, NEW n \in Nat \ {0}, Len(f) = n, Len(p) = n, NEW nodes \in BOOLEAN,
           \A i \in 1 .. n : i < n => Means(f[i], p[i], FALSE, TRUE),
           Means(f[n], p[n], FALSE, nodes)
    PROVE  Means(Chain(f), Chain(p), FALSE, nodes)
<1>1. PICK s : ChainSteps(s, f)
    BY ChainHasSteps
<1>2. PICK r : ChainSteps(r, p)
    BY ChainHasSteps
<1> DEFINE Same(i) == \A a \in Nodes : \A t \in Nodes : <<a, t>> \in s[i] <=> <<a, t>> \in r[i]
           T == {i \in Nat : i < n => Same(i)}
<1>3. 0 \in T
    BY <1>1, <1>2 DEF ChainSteps
<1>4. ASSUME NEW i \in Nat, i \in T PROVE i + 1 \in T
    <2> SUFFICES ASSUME i + 1 < n, NEW a \in Nodes, NEW t \in Nodes
                 PROVE  <<a, t>> \in s[i + 1] <=> <<a, t>> \in r[i + 1]
        OBVIOUS
    <2>1. i + 1 \in 1 .. n /\ (i + 1) - 1 = i /\ i < n
        OBVIOUS
    <2>2. Composes(s[i + 1], s[i], f[i + 1], Nodes) /\ Composes(r[i + 1], r[i], p[i + 1], Nodes)
        BY <1>1, <1>2, <2>1, ChainComposesNodes
    <2>3. Same(i)
        BY <1>4, <2>1
    <2>4. \A m \in Nodes : <<m, t>> \in f[i + 1] <=> <<m, t>> \in p[i + 1]
        BY <2>1, NodesAreTerms DEF Means, Along
    <2>5. a \in Terms /\ t \in Terms
        BY NodesAreTerms
    <2>6. <<a, t>> \in s[i + 1] <=> \E m \in Nodes : <<a, m>> \in s[i] /\ <<m, t>> \in f[i + 1]
        BY ONLY <2>2, <2>5 DEF Composes
    <2>7. <<a, t>> \in r[i + 1] <=> \E m \in Nodes : <<a, m>> \in r[i] /\ <<m, t>> \in p[i + 1]
        BY ONLY <2>2, <2>5 DEF Composes
    <2> QED
        BY <2>3, <2>4, <2>6, <2>7
<1> HIDE DEF T
<1>5. \A i \in Nat : i \in T
    BY <1>3, <1>4, EveryNat
<1>6. Same(n - 1)
    <2>1. n - 1 \in Nat /\ n - 1 < n
        OBVIOUS
    <2> QED
        BY <1>5, <2>1 DEF T
<1>7. /\ Chain(f) = s[n] /\ Composes(s[n], s[n - 1], f[n], Nodes)
      /\ Chain(p) = r[n] /\ Composes(r[n], r[n - 1], p[n], Nodes)
    <2>1. n \in 1 .. n
        OBVIOUS
    <2> QED
        BY <1>1, <1>2, <2>1, ChainComposesNodes DEF ChainSteps
<1> HIDE DEF Same
<1>8. ASSUME NEW a \in Nodes, NEW t \in Terms
      PROVE  <<a, t>> \in Chain(f) <=> <<a, t>> \in Chain(p) /\ (t \in Nodes <=> nodes = TRUE)
    <2>1. a \in Terms
        BY NodesAreTerms
    <2>2. \A m \in Nodes : <<m, t>> \in f[n] <=> <<m, t>> \in p[n] /\ (t \in Nodes <=> nodes = TRUE)
        BY DEF Means, Along
    <2>3. \A m \in Nodes : <<a, m>> \in s[n - 1] <=> <<a, m>> \in r[n - 1]
        BY <1>6 DEF Same
    <2>4. <<a, t>> \in Chain(f) <=> \E m \in Nodes : <<a, m>> \in s[n - 1] /\ <<m, t>> \in f[n]
        BY ONLY <1>7, <2>1, t \in Terms DEF Composes
    <2>5. <<a, t>> \in Chain(p) <=> \E m \in Nodes : <<a, m>> \in r[n - 1] /\ <<m, t>> \in p[n]
        BY ONLY <1>7, <2>1, t \in Terms DEF Composes
    <2> QED
        BY <2>2, <2>3, <2>4, <2>5
<1> QED
    BY <1>8 DEF Means, Along

\* A chain of relations turned round is the chain turned round.
LEMMA MeansChainTurned ==
    ASSUME NEW f, NEW p, NEW n \in Nat \ {0}, Len(f) = n, Len(p) = n, NEW nodes \in BOOLEAN,
           \A i \in 1 .. n : i < n => Means(f[i], p[n + 1 - i], TRUE, TRUE),
           Means(f[n], p[1], TRUE, nodes)
    PROVE  Means(Chain(f), Chain(p), TRUE, nodes)
<1> SUFFICES ASSUME NEW b \in Nodes, NEW a \in Terms
             PROVE  <<b, a>> \in Chain(f) <=> <<a, b>> \in Chain(p) /\ (a \in Nodes <=> nodes = TRUE)
    BY DEF Means, Along
<1>1. PICK s : ChainSteps(s, f)
    BY ChainHasSteps
<1>2. PICK r : ChainSteps(r, p)
    BY ChainHasSteps
<1> DEFINE Meet(i) == \E t \in Nodes : <<a, t>> \in r[n - i] /\ <<b, t>> \in s[i]
           T == {i \in Nat : i < n => (Meet(i) <=> <<a, b>> \in Chain(p))}
<1>3. 0 \in T
    <2>1. \A t \in Nodes : <<b, t>> \in s[0] <=> b = t
        BY <1>1, IdentityIn, NodesAreTerms DEF ChainSteps
    <2>2. Chain(p) = r[n - 0]
        BY <1>2 DEF ChainSteps
    <2> QED
        BY <2>1, <2>2
<1>4. ASSUME NEW i \in Nat, i \in T PROVE i + 1 \in T
    <2> SUFFICES ASSUME i + 1 < n PROVE Meet(i) <=> Meet(i + 1)
        <3>1. i < n => (Meet(i) <=> <<a, b>> \in Chain(p))
            BY <1>4
        <3> HIDE DEF Meet
        <3> QED
            BY <3>1
    <2> DEFINE j == n - i
    <2>1. /\ j \in 2 .. n /\ i + 1 \in 1 .. n /\ (i + 1) - 1 = i
          /\ n + 1 - (i + 1) = j /\ n - (i + 1) = j - 1
        OBVIOUS
    <2>2. Composes(r[j], r[j - 1], p[j], Terms) /\ Composes(s[i + 1], s[i], f[i + 1], Nodes)
        BY <1>1, <1>2, <2>1, ChainComposes, ChainComposesNodes
    <2>3. \A t \in Nodes : \A u \in Nodes : <<t, u>> \in f[i + 1] <=> <<u, t>> \in p[j]
        BY <2>1, NodesAreTerms DEF Means, Along
    <2>4. \A t \in Nodes : <<a, t>> \in r[j] <=> \E u \in Nodes : <<a, u>> \in r[j - 1] /\ <<u, t>> \in p[j]
        BY ONLY a \in Terms, <2>2, NodesAreTerms DEF Composes
    <2>5. \A u \in Nodes : <<b, u>> \in s[i + 1] <=> \E t \in Nodes : <<b, t>> \in s[i] /\ <<t, u>> \in f[i + 1]
        BY ONLY b \in Nodes, <2>2, NodesAreTerms DEF Composes
    <2> HIDE DEF j
    <2>6. (\E t \in Nodes : <<a, t>> \in r[j] /\ <<b, t>> \in s[i])
             <=> (\E u \in Nodes : <<a, u>> \in r[j - 1] /\ <<b, u>> \in s[i + 1])
        BY <2>3, <2>4, <2>5
    <2> QED
        BY <2>1, <2>6 DEF j
<1> HIDE DEF T
<1>5. n - 1 \in T
    BY <1>3, <1>4, EveryNat
<1>6. Meet(n - 1) <=> <<a, b>> \in Chain(p)
    <2> HIDE DEF Meet
    <2>1. n - 1 \in Nat /\ n - 1 < n
        OBVIOUS
    <2> QED
        BY <1>5, <2>1 DEF T
<1>7. Chain(f) = s[n] /\ n - (n - 1) = 1 /\ r[1] = p[1]
    BY <1>1, <1>2 DEF ChainSteps
<1>8. Composes(s[n], s[n - 1], f[n], Nodes)
    <2>1. n \in 1 .. n
        OBVIOUS
    <2> QED
        BY <1>1, <2>1, ChainComposesNodes
<1>9. <<b, a>> \in s[n] <=> \E t \in Nodes : <<b, t>> \in s[n - 1] /\ <<t, a>> \in f[n]
    BY ONLY <1>8, a \in Terms, b \in Nodes DEF Composes
<1>10. \A t \in Nodes : <<t, a>> \in f[n] <=> <<a, t>> \in p[1] /\ (a \in Nodes <=> nodes = TRUE)
    BY DEF Means, Along
<1>11. Meet(n - 1) <=> \E t \in Nodes : <<a, t>> \in p[1] /\ <<b, t>> \in s[n - 1]
    BY <1>7
<1> HIDE DEF Meet
<1> QED
    BY <1>6, <1>7, <1>9, <1>10, <1>11

-----------------------------------------------------------------------------
(* Relations, over and over.                                               *)

\* Steps to nodes only reach the nodes that all steps reach.
LEMMA TransitiveNodes ==
    ASSUME NEW f, NEW g,
           \A a \in Nodes : \A t \in Terms : <<a, t>> \in f <=> <<a, t>> \in g /\ t \in Nodes,
           NEW a \in Nodes, NEW t \in Terms
    PROVE  <<a, t>> \in Transitive(f) <=> <<a, t>> \in Transitive(g) /\ t \in Nodes
<1>0. a \in Terms
    BY NodesAreTerms
<1>1. ASSUME <<a, t>> \in Transitive(f) PROVE t \in Nodes
    <2>1. LeadsInto(f, a, Nodes)
        BY NodesAreTerms DEF LeadsInto
    <2>2. Nodes \in SUBSET Terms
        BY NodesAreTerms
    <2> QED
        BY <1>0, <1>1, <2>1, <2>2, TransitiveIn
<1>2. ASSUME <<a, t>> \in Transitive(f), NEW set \in SUBSET Terms, LeadsInto(g, a, set)
      PROVE  t \in set
    <2>1. LeadsInto(f, a, set)
        BY <1>2 DEF LeadsInto
    <2> QED
        BY <1>0, <1>2, <2>1, TransitiveIn
<1>3. ASSUME <<a, t>> \in Transitive(g), t \in Nodes, NEW set \in SUBSET Terms, LeadsInto(f, a, set)
      PROVE  t \in set
    <2> DEFINE wide == set \cup (Terms \ Nodes)
    <2>1. wide \in SUBSET Terms
        OBVIOUS
    <2>2. LeadsInto(g, a, wide)
        BY <1>3 DEF LeadsInto
    <2> HIDE DEF wide
    <2>3. t \in wide
        BY <1>0, <1>3, <2>1, <2>2, TransitiveIn
    <2> QED
        BY <1>3, <2>3 DEF wide
<1> QED
    BY <1>0, <1>1, <1>2, <1>3, TransitiveIn

\* Relations turned round reach back.
LEMMA TransitiveTurned ==
    ASSUME NEW g, NEW p, \A s \in Terms : \A t \in Terms : <<s, t>> \in g => <<t, s>> \in p,
           NEW a \in Nodes, NEW b \in Nodes, <<a, b>> \in Transitive(g)
    PROVE  <<b, a>> \in Transitive(p)
<1>0. a \in Terms /\ b \in Terms
    BY NodesAreTerms
<1> SUFFICES ASSUME NEW set \in SUBSET Terms, LeadsInto(p, b, set), a \notin set
             PROVE  FALSE
    BY <1>0, TransitiveIn
<1> DEFINE away == Terms \ ({b} \cup (set \cap Nodes))
<1>1. away \in SUBSET Terms
    OBVIOUS
<1>2. \A t \in Terms : <<a, t>> \in g => t \in away
    BY <1>0 DEF LeadsInto
<1>3. \A s \in away \cap Nodes : \A t \in Terms : <<s, t>> \in g => t \in away
    BY DEF LeadsInto
<1>4. LeadsInto(g, a, away)
    BY <1>2, <1>3 DEF LeadsInto
<1> HIDE DEF away
<1>5. b \in away
    BY <1>0, <1>1, <1>4, TransitiveIn
<1> QED
    BY <1>5 DEF away

LEMMA MeansTransitive ==
    ASSUME NEW f, NEW p, NEW inverted \in BOOLEAN, Means(f, p, inverted, TRUE)
    PROVE  Means(Transitive(f), Transitive(p), inverted, TRUE)
<1>1. CASE ~ inverted
    <2>1. \A a \in Nodes : \A t \in Terms : <<a, t>> \in f <=> <<a, t>> \in p /\ t \in Nodes
        BY <1>1 DEF Means, Along
    <2>2. \A a \in Nodes : \A t \in Terms :
             <<a, t>> \in Transitive(f) <=> <<a, t>> \in Transitive(p) /\ t \in Nodes
        BY <2>1, TransitiveNodes
    <2> QED
        BY <1>1, <2>2 DEF Means, Along
<1>2. CASE inverted
    <2> DEFINE g == {pair \in Pairs : <<pair[2], pair[1]>> \in p}
    <2>1. \A s \in Terms : \A t \in Terms : <<s, t>> \in g <=> <<t, s>> \in p
        BY DEF Pairs
    <2> HIDE DEF g
    <2>2. \A a \in Nodes : \A t \in Terms : <<a, t>> \in f <=> <<a, t>> \in g /\ t \in Nodes
        BY <1>2, <2>1, NodesAreTerms DEF Means, Along
    <2>3. \A a \in Nodes : \A t \in Terms :
             <<a, t>> \in Transitive(f) <=> <<a, t>> \in Transitive(g) /\ t \in Nodes
        BY <2>2, TransitiveNodes
    <2>4. \A a \in Nodes : \A b \in Nodes : <<a, b>> \in Transitive(g) => <<b, a>> \in Transitive(p)
        BY <2>1, TransitiveTurned
    <2>5. \A a \in Nodes : \A b \in Nodes : <<b, a>> \in Transitive(p) => <<a, b>> \in Transitive(g)
        BY <2>1, TransitiveTurned
    <2> QED
        BY <1>2, <2>3, <2>4, <2>5 DEF Means, Along
<1> QED
    BY <1>1, <1>2

LEMMA TransitiveGrows ==
    ASSUME NEW f, NEW g, f \subseteq g PROVE Transitive(f) \subseteq Transitive(g)
<1>1. \A a, set : LeadsInto(g, a, set) => LeadsInto(f, a, set)
    BY DEF LeadsInto
<1> QED
    BY <1>1 DEF Transitive

LEMMA ComposedGrows ==
    ASSUME NEW f, NEW g, f \subseteq g, NEW h, NEW k, h \subseteq k
    PROVE  Composed(f, h) \subseteq Composed(g, k)
BY DEF Composed

LEMMA TransitiveSteps ==
    ASSUME NEW f
    PROVE  /\ f \cap Pairs \subseteq Transitive(f)
           /\ Composed(Transitive(f), f) \subseteq Transitive(f)
<1>1. ASSUME NEW pair \in f \cap Pairs PROVE pair \in Transitive(f)
    <2>1. <<pair[1], pair[2]>> \in f /\ pair[2] \in Terms
        BY DEF Pairs
    <2> QED
        BY <2>1 DEF Transitive, LeadsInto
<1>2. ASSUME NEW pair \in Composed(Transitive(f), f) PROVE pair \in Transitive(f)
    <2>1. pair \in Pairs /\ pair[1] \in Terms /\ pair[2] \in Terms
        BY DEF Composed, Pairs
    <2>2. PICK t \in Nodes : <<pair[1], t>> \in Transitive(f) /\ <<t, pair[2]>> \in f
        BY DEF Composed
    <2>3. ASSUME NEW set \in SUBSET Terms, LeadsInto(f, pair[1], set) PROVE pair[2] \in set
        <3>1. t \in set
            BY <2>1, <2>2, <2>3, TransitiveIn, NodesAreTerms
        <3> QED
            BY <2>1, <2>2, <2>3, <3>1 DEF LeadsInto
    <2> QED
        BY <2>1, <2>3 DEF Transitive
<1> QED
    BY <1>1, <1>2

\* Chains grow with their relations.
LEMMA ChainGrows ==
    ASSUME NEW f, NEW g, NEW n \in Nat, Len(f) = n, Len(g) = n, \A i \in 1 .. n : f[i] \subseteq g[i]
    PROVE  Chain(f) \subseteq Chain(g)
<1>1. PICK s : ChainSteps(s, f)
    BY ChainHasSteps
<1>2. PICK r : ChainSteps(r, g)
    BY ChainHasSteps
<1> DEFINE T == {i \in Nat : i <= n => s[i] \subseteq r[i]}
<1>3. 0 \in T
    BY <1>1, <1>2 DEF ChainSteps
<1>4. ASSUME NEW i \in Nat, i \in T PROVE i + 1 \in T
    <2> SUFFICES ASSUME i + 1 <= n PROVE s[i + 1] \subseteq r[i + 1]
        OBVIOUS
    <2>0. CASE i = 0
        <3>1. s[1] = f[1] /\ r[1] = g[1] /\ 1 \in 1 .. n
            BY <1>1, <1>2, <2>0 DEF ChainSteps
        <3> QED
            BY <2>0, <3>1
    <2> SUFFICES ASSUME i # 0 PROVE s[i + 1] \subseteq r[i + 1]
        BY <2>0
    <2>1. i + 1 \in 2 .. n /\ i + 1 \in 1 .. n /\ (i + 1) - 1 = i /\ i <= n
        OBVIOUS
    <2>2. s[i + 1] = Composed(s[i], f[i + 1]) /\ r[i + 1] = Composed(r[i], g[i + 1])
        BY <1>1, <1>2, <2>1 DEF ChainSteps
    <2>3. s[i] \subseteq r[i] /\ f[i + 1] \subseteq g[i + 1]
        BY <1>4, <2>1
    <2> QED
        BY <2>2, <2>3, ComposedGrows
<1> HIDE DEF T
<1>5. n \in T
    BY <1>3, <1>4, EveryNat
<1> QED
    BY <1>1, <1>2, <1>5 DEF T, ChainSteps

LEMMA PowerGrows ==
    ASSUME NEW f, NEW g, f \subseteq g, NEW n \in Nat PROVE Power(f, n) \subseteq Power(g, n)
<1> DEFINE F == [i \in 1 .. n |-> f]
           G == [i \in 1 .. n |-> g]
<1>1. F \in Seq({f}) /\ G \in Seq({g}) /\ Len(F) = n /\ Len(G) = n
    OBVIOUS
<1>2. \A i \in 1 .. n : F[i] \subseteq G[i]
    OBVIOUS
<1> HIDE DEF F, G
<1>3. Chain(F) \subseteq Chain(G)
    BY <1>1, <1>2, ChainGrows
<1> QED
    BY <1>3 DEF Power, F, G

LEMMA Powers ==
    ASSUME NEW f \in SUBSET Pairs
    PROVE  /\ Power(f, 0) = Identity
           /\ Power(f, 1) = f
           /\ \A n \in Nat \ {0} : Power(f, n) \subseteq Transitive(f)
<1>1. ASSUME NEW n \in Nat
      PROVE  \E s : /\ s[0] = Identity /\ Power(f, n) = s[n]
                    /\ n > 0 => s[1] = f
                    /\ \A i \in 2 .. n : s[i] = Composed(s[i - 1], f)
    <2> DEFINE F == [i \in 1 .. n |-> f]
    <2>1. F \in Seq({f}) /\ Len(F) = n
        OBVIOUS
    <2>2. \A i \in 1 .. n : F[i] = f
        OBVIOUS
    <2>3. Power(f, n) = Chain(F)
        BY DEF Power
    <2> HIDE DEF F
    <2>4. PICK s : ChainSteps(s, F)
        BY <2>1, ChainHasSteps
    <2> QED
        BY <2>1, <2>2, <2>3, <2>4 DEF ChainSteps
<1>2. Power(f, 0) = Identity
    BY <1>1
<1>3. Power(f, 1) = f
    BY <1>1
<1>4. ASSUME NEW n \in Nat \ {0} PROVE Power(f, n) \subseteq Transitive(f)
    <2>1. PICK s : /\ s[0] = Identity /\ Power(f, n) = s[n]
                   /\ n > 0 => s[1] = f
                   /\ \A i \in 2 .. n : s[i] = Composed(s[i - 1], f)
        BY <1>1
    <2> DEFINE T == {i \in Nat : i + 1 <= n => s[i + 1] \subseteq Transitive(f)}
    <2>2. 0 \in T
        BY <2>1, TransitiveSteps
    <2>3. ASSUME NEW i \in Nat, i \in T PROVE i + 1 \in T
        <3> SUFFICES ASSUME (i + 1) + 1 <= n PROVE s[(i + 1) + 1] \subseteq Transitive(f)
            OBVIOUS
        <3> DEFINE j == i + 1
        <3>1. j + 1 \in 2 .. n /\ (j + 1) - 1 = j /\ j <= n
            OBVIOUS
        <3>2. s[j + 1] = Composed(s[j], f)
            BY <2>1, <3>1
        <3>3. s[j] \subseteq Transitive(f)
            BY <2>3, <3>1
        <3> HIDE DEF j
        <3>4. Composed(s[j], f) \subseteq Composed(Transitive(f), f)
            BY <3>3 DEF Composed
        <3>5. s[j + 1] \subseteq Transitive(f)
            BY <3>2, <3>4, TransitiveSteps
        <3> QED
            BY <3>5 DEF j
    <2> HIDE DEF T
    <2>4. n - 1 \in T
        BY <2>2, <2>3, EveryNat
    <2>5. (n - 1) + 1 = n
        OBVIOUS
    <2> QED
        BY <2>1, <2>4, <2>5 DEF T
<1> QED
    BY <1>2, <1>3, <1>4

-----------------------------------------------------------------------------
(* Steps.                                                                  *)

TriplesTyped ==
    /\ rels \in SUBSET (Nodes \X RelTypes \X Nodes)
    /\ props \in SUBSET (Nodes \X Keys \X Values)

LEMMA OfTypeIn ==
    ASSUME TriplesTyped, NEW name
    PROVE  \A pair \in OfType(name) : \E a \in Nodes, b \in Nodes : pair = <<a, b>>
BY DEF TriplesTyped, OfType

LEMMA OfKeyIn ==
    ASSUME TriplesTyped, NEW name
    PROVE  \A pair \in OfKey(name) : \E a \in Nodes, b \in Values : pair = <<a, b>>
BY DEF TriplesTyped, OfKey

LEMMA TriplesArePairs ==
    ASSUME TriplesTyped, NEW q, NEW iri, NEW name
    PROVE  /\ OfType(name) \in SUBSET Pairs /\ OfKey(name) \in SUBSET Pairs
           /\ Converse(OfType(name)) \in SUBSET Pairs
           /\ Triples(q, iri) \in SUBSET Pairs
<1>1. \A n : OfType(n) \in SUBSET Pairs
    BY OfTypeIn DEF Pairs, Terms
<1>2. \A n : OfKey(n) \in SUBSET Pairs
    BY OfKeyIn DEF Pairs, Terms
<1>3. \A n : Converse(OfType(n)) \in SUBSET Pairs
    BY <1>1 DEF Converse, Pairs
<1> QED
    BY <1>1, <1>2, <1>3 DEF Triples

Directions == {"", "in", "out"}

\* The relationship type and its direction, or the property key, that a predicate is mapped to.
IsRelationshipStep(q, iri, inverted, v) ==
    \E evidence :
        \E declared \in {"in", "out"} :
            /\ declared = "in" <=> DirectionOf(q, iri) = "in"
            /\ v = Relationship(TypeOf(q, iri), IF inverted THEN Flip(declared) ELSE declared, evidence)

IsPropertyStep(q, iri, v) == \E evidence : v = Property(KeyOf(q, iri), evidence)

LEMMA CheckStrictKeeps ==
    ASSUME NEW q, NEW step, ~ IsError(CheckStrict(q, step)) PROVE CheckStrict(q, step) = step
BY DEF CheckStrict, IsError, Error

LEMMA StepOfRelationship ==
    ASSUME NEW q \in Questions, NEW iri \in DOMAIN LocalName, NEW inverted \in BOOLEAN,
           NEW v, v = RelationshipStep(q, iri, OwnAnnotations(q), inverted), ~ IsError(v)
    PROVE  IsRelationshipStep(q, iri, inverted, v)
<1> DEFINE own == OwnAnnotations(q)
           declared == Given(Given(own.direction, q.annotations[iri].direction), "out")
           direction == IF inverted THEN Flip(declared) ELSE declared
           given == Given(own.relationship, q.annotations[iri].relationship)
<1>1. own.direction \in Directions /\ q.annotations[iri].direction \in Directions
    BY MappingQuestionsAssumption DEF OwnAnnotations, NoAnnotations, Directions
<1>2. declared \in {"in", "out"} /\ (declared = "in" <=> DirectionOf(q, iri) = "in")
    BY <1>1 DEF DirectionOf, Given, Directions
<1>3. ASSUME NEW name, NEW evidence, v = CheckStrict(q, Relationship(name, direction, evidence))
      PROVE  v = Relationship(name, direction, evidence)
    <2> DEFINE step == Relationship(name, direction, evidence)
    <2> HIDE DEF step
    <2> QED
        BY <1>3, CheckStrictKeeps DEF step
<1>4. CASE given # ""
    <2>1. v = CheckStrict(q, Relationship(given, direction, "annotation"))
        BY <1>4 DEF RelationshipStep
    <2>2. TypeOf(q, iri) = given
        BY <1>4 DEF TypeOf, Given
    <2> QED
        BY <1>2, <1>3, <2>1, <2>2 DEF IsRelationshipStep
<1>5. CASE given = ""
    <2>1. LocalName[iri] # ""
        BY <1>5 DEF RelationshipStep, IsError, Error
    <2> DEFINE name == UpperSnake[LocalName[iri]]
               evidence == IF SchemaHasRelationship(q, name) THEN "schema" ELSE "convention"
    <2>2. v = CheckStrict(q, Relationship(name, direction, evidence))
        BY <1>5, <2>1 DEF RelationshipStep
    <2>3. TypeOf(q, iri) = name
        BY <1>5, <2>1 DEF TypeOf, Given, Suggested
    <2> QED
        BY <1>2, <1>3, <2>2, <2>3 DEF IsRelationshipStep
<1> QED
    BY <1>4, <1>5

LEMMA StepOfProperty ==
    ASSUME NEW q \in Questions, NEW iri \in DOMAIN LocalName,
           NEW v, v = PropertyStep(q, iri, OwnAnnotations(q)), ~ IsError(v)
    PROVE  IsPropertyStep(q, iri, v)
<1> DEFINE own == OwnAnnotations(q)
           given == Given(own.property, q.annotations[iri].property)
           evidence == IF SchemaHasProperty(q, LocalName[iri]) THEN "schema" ELSE "convention"
<1>1. ASSUME NEW name, NEW e, v = CheckStrict(q, Property(name, e)) PROVE v = Property(name, e)
    <2> DEFINE step == Property(name, e)
    <2> HIDE DEF step
    <2> QED
        BY <1>1, CheckStrictKeeps DEF step
<1>2. CASE given # ""
    <2>1. v = CheckStrict(q, Property(given, "annotation"))
        BY <1>2 DEF PropertyStep
    <2>2. KeyOf(q, iri) = given
        BY <1>2 DEF KeyOf, Given
    <2> QED
        BY <1>1, <2>1, <2>2 DEF IsPropertyStep
<1>3. CASE given = ""
    <2>1. LocalName[iri] # ""
        BY <1>3 DEF PropertyStep, IsError, Error
    <2>2. v = CheckStrict(q, Property(LocalName[iri], evidence))
        BY <1>3, <2>1 DEF PropertyStep
    <2>3. KeyOf(q, iri) = LocalName[iri]
        BY <1>3 DEF KeyOf, Given
    <2> HIDE DEF evidence
    <2> QED
        BY <1>1, <2>2, <2>3 DEF IsPropertyStep
<1> QED
    BY <1>2, <1>3

\* Annotations of the shape are for the end of a path that is no more than a predicate.
Fits(q, p, last) == IsSimple(q.shape.path) => IsSimple(p) /\ last = TRUE

LEMMA StepIs ==
    ASSUME NEW q \in Questions, NEW iri \in DOMAIN LocalName,
           NEW inverted \in BOOLEAN, NEW last \in BOOLEAN,
           last = TRUE \/ ~ IsSimple(q.shape.path),
           NEW v, v = Step(q, iri, inverted, last), ~ IsError(v)
    PROVE  \/ IsRelationshipStep(q, iri, inverted, v)
           \/ IsPropertyStep(q, iri, v) /\ ~ inverted /\ last = TRUE
<1> DEFINE own == IF last THEN OwnAnnotations(q) ELSE NoAnnotations
<1>1. own = OwnAnnotations(q)
    BY DEF OwnAnnotations
<1>2. \A why : v # Error(why)
    BY DEF IsError, Error
<1>3. \/ v = RelationshipStep(q, iri, own, inverted)
      \/ v = PropertyStep(q, iri, own) /\ ~ inverted /\ last
    <2> HIDE DEF own
    <2> DEFINE kind == IF ExplicitKind(own) = "none"
                       THEN ExplicitKind(q.annotations[iri])
                       ELSE ExplicitKind(own)
               local == LocalName[iri]
               mustBeNode == inverted \/ ~ last
               relationship ==
                   \/ mustBeNode
                   \/ last /\ ImpliesNodeValues(q) /\ ~ SchemaPrefersProperty(q, local)
                   \/ SchemaPrefersRelationship(q, local)
               result ==
                   CASE kind = "conflict" -> Error("conflicting annotations")
                     [] kind = "property" /\ mustBeNode -> Error("needs a relationship")
                     [] kind = "property" /\ ~ mustBeNode -> PropertyStep(q, iri, own)
                     [] kind = "relationship" -> RelationshipStep(q, iri, own, inverted)
                     [] kind = "none" /\ local = "" -> Error("no local name")
                     [] OTHER -> IF relationship
                                 THEN RelationshipStep(q, iri, own, inverted)
                                 ELSE PropertyStep(q, iri, own)
    <2>1. v = result
        BY DEF Step, own
    <2>2. mustBeNode \in BOOLEAN /\ relationship \in BOOLEAN /\ (mustBeNode => relationship)
          /\ (~ mustBeNode => ~ inverted /\ last)
        OBVIOUS
    <2> HIDE DEF kind, local, mustBeNode, relationship
    <2> QED
        BY <1>2, <2>1, <2>2
<1> HIDE DEF own
<1> QED
    BY <1>1, <1>3, StepOfRelationship, StepOfProperty

\* What a resolved step finds is what the predicate relates.
StepAgrees(q, iri, v, inverted, last) ==
    /\ v.nodes \in BOOLEAN
    /\ last # TRUE => v.nodes = TRUE
    /\ Means(FindPath(Found, v), Triples(q, iri), inverted, v.nodes)

LEMMA StepMeans ==
    ASSUME TriplesTyped, NEW q \in Questions, NEW iri \in DOMAIN LocalName,
           NEW inverted \in BOOLEAN, NEW last \in BOOLEAN,
           last = TRUE \/ ~ IsSimple(q.shape.path),
           NEW v, v = Step(q, iri, inverted, last), ~ IsError(v)
    PROVE  StepAgrees(q, iri, v, inverted, last)
<1> DEFINE type == OfType(TypeOf(q, iri))
           key == OfKey(KeyOf(q, iri))
           back == DirectionOf(q, iri) = "in"
<1>1. Triples(q, iri) = (IF back THEN Converse(type) ELSE type) \cup key
    BY DEF Triples
<1>2. \A pair \in type : \E a \in Nodes, b \in Nodes : pair = <<a, b>>
    BY OfTypeIn
<1>3. \A pair \in key : \E a \in Nodes, b \in Values : pair = <<a, b>>
    BY OfKeyIn
<1>4. type \in SUBSET Pairs /\ Converse(type) \in SUBSET Pairs
    BY TriplesArePairs
<1>5. Nodes \cap Values = {} /\ back \in BOOLEAN
    BY TermsAssumption
<1>6. CASE IsRelationshipStep(q, iri, inverted, v)
    <2>0. PICK evidence :
              \E declared \in {"in", "out"} :
                  /\ declared = "in" <=> DirectionOf(q, iri) = "in"
                  /\ v = Relationship(TypeOf(q, iri), IF inverted THEN Flip(declared) ELSE declared, evidence)
        BY <1>6 DEF IsRelationshipStep
    <2>1. PICK declared \in {"in", "out"} :
              /\ declared = "in" <=> back
              /\ v = Relationship(TypeOf(q, iri), IF inverted THEN Flip(declared) ELSE declared, evidence)
        BY <2>0
    <2> DEFINE out == (IF inverted THEN Flip(declared) ELSE declared) = "out"
    <2>2. out <=> (inverted <=> back)
        BY <2>1 DEF Flip
    <2>3. v.op = "relationship" /\ v.nodes = TRUE
        BY <2>1 DEF Relationship
    <2>4. FindPath(Found, v) = IF out THEN type ELSE Converse(type)
        BY <2>1 DEF Relationship, FindPath
    <2> HIDE DEF out, type, key, back
    <2>5. ASSUME NEW a \in Nodes, NEW t \in Terms
          PROVE  <<a, t>> \in FindPath(Found, v)
                    <=> Along(Triples(q, iri), inverted, a, t) /\ t \in Nodes
        <3>1. <<a, t>> \in Converse(type) <=> <<t, a>> \in type
            BY <1>4, ConverseIn
        <3>2. <<t, a>> \in Converse(type) <=> <<a, t>> \in type
            BY <1>4, ConverseIn
        <3>3. (<<a, t>> \in type => t \in Nodes) /\ (<<t, a>> \in type => t \in Nodes)
            BY <1>2
        <3>4. ~ (<<t, a>> \in key) /\ (<<a, t>> \in key => t \notin Nodes)
            BY <1>3, <1>5
        <3> QED
            BY <1>1, <2>2, <2>4, <3>1, <3>2, <3>3, <3>4 DEF Along
    <2> QED
        BY <2>3, <2>5 DEF Means, StepAgrees
<1>7. CASE IsPropertyStep(q, iri, v) /\ ~ inverted /\ last = TRUE
    <2>1. PICK evidence : v = Property(KeyOf(q, iri), evidence)
        BY <1>7 DEF IsPropertyStep
    <2>2. v.op = "property" /\ v.nodes = FALSE
        BY <2>1 DEF Property
    <2>3. FindPath(Found, v) = key
        BY <2>1 DEF Property, FindPath
    <2> HIDE DEF type, key, back
    <2>4. ASSUME NEW a \in Nodes, NEW t \in Terms
          PROVE  <<a, t>> \in key <=> <<a, t>> \in Triples(q, iri) /\ t \notin Nodes
        <3>1. <<a, t>> \in Converse(type) <=> <<t, a>> \in type
            BY <1>4, ConverseIn
        <3>2. (<<a, t>> \in type => t \in Nodes) /\ (<<t, a>> \in type => t \in Nodes)
            BY <1>2
        <3>3. <<a, t>> \in key => t \notin Nodes
            BY <1>3, <1>5
        <3> QED
            BY <1>1, <3>1, <3>2, <3>3
    <2> QED
        BY <1>7, <2>2, <2>3, <2>4 DEF Means, Along, StepAgrees
<1> QED
    BY <1>6, <1>7, StepIs

\* What shapes mean by their paths are pairs of terms.
LEMMA ChainPairs ==
    ASSUME NEW f, NEW n \in Nat \ {0}, Len(f) = n, \A i \in 1 .. n : f[i] \in SUBSET Pairs
    PROVE  Chain(f) \in SUBSET Pairs
<1>1. PICK s : ChainSteps(s, f)
    BY ChainHasSteps
<1>2. CASE n = 1
    BY <1>1, <1>2 DEF ChainSteps
<1>3. CASE n # 1
    <2>1. n \in 2 .. n
        BY <1>3
    <2>2. Chain(f) = Composed(s[n - 1], f[n])
        BY <1>1, <2>1 DEF ChainSteps
    <2> QED
        BY <2>2 DEF Composed
<1> QED
    BY <1>2, <1>3

LEMMA IdentityPairs == Identity \in SUBSET Pairs
BY DEF Identity, Pairs

LEMMA MeantPairs ==
    ASSUME TriplesTyped, NEW q
    PROVE  \A p \in Paths : PairsOf(q)[p] \in SUBSET Pairs
<1> DEFINE pairs == PairsOf(q)
           T == {p \in Paths : pairs[p] \in SUBSET Pairs}
<1>1. ASSUME NEW p \in Paths, \A c \in Paths : Depth[c] < Depth[p] => c \in T
      PROVE  p \in T
    <2>1. pairs[p] = MeanPath(q, pairs, p)
        BY PairsAt
    <2>2. Unary(p) => pairs[p.of] \in SUBSET Pairs
        <3>1. Unary(p) => p.of \in T
            BY <1>1, PathParts
        <3> QED
            BY <3>1
    <2>3. Listed(p) => \A i \in DOMAIN p.items : pairs[p.items[i]] \in SUBSET Pairs
        <3>1. Listed(p) => \A i \in DOMAIN p.items : p.items[i] \in T
            BY <1>1, PathParts
        <3> QED
            BY <3>1
    <2> HIDE DEF pairs
    <2>4. CASE p.op = "predicate"
        BY <2>1, <2>4, TriplesArePairs DEF MeanPath
    <2>5. CASE p.op = "inverse"
        <3>1. pairs[p] = Converse(pairs[p.of])
            BY <2>1, <2>5 DEF MeanPath
        <3>2. pairs[p.of] \in SUBSET Pairs
            BY <2>2, <2>5 DEF Unary
        <3> QED
            BY <3>1, <3>2 DEF Converse, Pairs
    <2>6. CASE p.op \in {"zeroOrMore", "oneOrMore", "zeroOrOne"}
        <3>1. \A r : Transitive(r) \in SUBSET Pairs
            BY DEF Transitive
        <3>2. pairs[p] \in {Identity \cup Transitive(pairs[p.of]), Transitive(pairs[p.of]), Identity \cup pairs[p.of]}
            BY <2>1, <2>6 DEF MeanPath
        <3>3. pairs[p.of] \in SUBSET Pairs
            BY <2>2, <2>6 DEF Unary
        <3> QED
            BY <3>1, <3>2, <3>3, IdentityPairs
    <2>7. CASE p.op = "sequence"
        <3> DEFINE n == Len(p.items)
                   f == [i \in DOMAIN p.items |-> pairs[p.items[i]]]
        <3>1. n \in Nat \ {0} /\ DOMAIN p.items = 1 .. n
            BY <2>7, PathParts DEF Listed
        <3>2. pairs[p] = Chain(f)
            BY <2>1, <2>7 DEF MeanPath
        <3>3. f \in Seq(SUBSET Pairs) /\ Len(f) = n /\ \A i \in 1 .. n : f[i] \in SUBSET Pairs
            <4> HIDE DEF n
            <4> QED
                BY <2>3, <2>7, <3>1 DEF Listed
        <3> HIDE DEF f, n
        <3> QED
            BY <3>1, <3>2, <3>3, ChainPairs
    <2>8. CASE p.op = "alternative"
        <3>1. pairs[p] = UNION {pairs[p.items[i]] : i \in DOMAIN p.items}
            BY <2>1, <2>8 DEF MeanPath
        <3> QED
            BY <2>3, <2>8, <3>1 DEF Listed
    <2> QED
        BY <2>4, <2>5, <2>6, <2>7, <2>8, PathParts DEF Unary, Listed, pairs
<1> HIDE DEF T
<1>2. \A p \in Paths : p \in T
    BY <1>1, ByDepth
<1> QED
    BY <1>2 DEF T

-----------------------------------------------------------------------------
(* Resolved paths mean what the paths of shapes mean.                      *)

\* v finds what p means.
Agrees(q, p, v, inverted, last) ==
    /\ v.nodes \in BOOLEAN
    /\ last # TRUE => v.nodes = TRUE
    /\ Means(Found[v], PairsOf(q)[p], inverted, v.nodes)

Mapped(q, p, inverted, last) ==
    LET v == Lower(q)[p][inverted][last]
    IN  ~ IsError(v) /\ Fits(q, p, last) => Agrees(q, p, v, inverted, last)

LEMMA LowerFound ==
    ASSUME NEW q \in Questions, NEW p \in Paths, NEW inverted \in BOOLEAN, NEW last \in BOOLEAN,
           NEW v, v = Lower(q)[p][inverted][last]
    PROVE  Found[v] = FindPath(Found, v)
<1>1. v \in ResolvedPaths
    BY DEF ResolvedPaths
<1>2. v \in RulePaths
    BY <1>1 DEF RulePaths
<1> QED
    BY <1>2, FoundAt

\* Paths of more than a predicate take no annotations of the shape.
LEMMA PartsFit ==
    ASSUME NEW q, NEW p, NEW last, Fits(q, p, last), p.op \notin {"predicate", "inverse"}
    PROVE  \A c, l : Fits(q, c, l)
BY DEF Fits, IsSimple

\* The values that the items of a sequence are mapped to, from which the sequence is made.
ItemsAgree(q, p, inverted, last, items) ==
    LET n == Len(p.items)
        ordered == Ordered(p.items, inverted)
    IN  /\ \A i \in 1 .. n : i < n => Agrees(q, ordered[i], items[i], inverted, FALSE)
        /\ Agrees(q, ordered[n], items[n], inverted, last)

LEMMA SequenceMeans ==
    ASSUME NEW q \in Questions, NEW p \in Paths, p.op = "sequence",
           NEW inverted \in BOOLEAN, NEW last \in BOOLEAN,
           NEW items, items = [i \in 1 .. Len(p.items) |-> items[i]],
           ItemsAgree(q, p, inverted, last, items),
           NEW v, v = InSequence(items), Found[v] = FindPath(Found, v)
    PROVE  Agrees(q, p, v, inverted, last)
<1> DEFINE n == Len(p.items)
           ordered == Ordered(p.items, inverted)
           pairs == PairsOf(q)
           F == [i \in 1 .. n |-> Found[items[i]]]
           P == [i \in 1 .. n |-> pairs[p.items[i]]]
           nodes == items[n].nodes
<1>0. Listed(p)
    BY DEF Listed
<1>1. n \in Nat \ {0} /\ DOMAIN p.items = 1 .. n /\ DOMAIN items = 1 .. n /\ n \in 1 .. n
    BY <1>0, PathParts
<1>2. Len(items) = n
    BY <1>1
<1>3. v.op = "sequence" /\ v.items = items /\ v.nodes = nodes
    BY <1>2 DEF InSequence
<1>4. Found[v] = Chain(F)
    BY <1>1, <1>3 DEF FindPath
<1>5. pairs[p] = Chain(P)
    BY <1>1, PairsAt DEF MeanPath
<1>6. Len(F) = n /\ Len(P) = n
    BY <1>1
<1>7. nodes \in BOOLEAN /\ (last # TRUE => nodes = TRUE) /\ Means(Found[items[n]], pairs[ordered[n]], inverted, nodes)
    BY DEF ItemsAgree, Agrees
<1>8. ASSUME NEW i \in 1 .. n, i < n PROVE Means(Found[items[i]], pairs[ordered[i]], inverted, TRUE)
    <2>1. items[i].nodes = TRUE /\ Means(Found[items[i]], pairs[ordered[i]], inverted, items[i].nodes)
        BY <1>8 DEF ItemsAgree, Agrees
    <2> HIDE DEF pairs, ordered
    <2> QED
        BY <2>1 DEF Means
<1>9. \A i \in 1 .. n : ordered[i] = IF inverted THEN p.items[n + 1 - i] ELSE p.items[i]
    BY <1>0, <1>1, OrderedItems
<1>10. \A i \in 1 .. n : F[i] = Found[items[i]] /\ P[i] = pairs[p.items[i]]
    OBVIOUS
<1>11. \A i \in 1 .. n : n + 1 - i \in 1 .. n
    BY <1>1
<1> HIDE DEF F, P, nodes, ordered, pairs, n
<1>12. CASE inverted = FALSE
    <2>1. \A i \in 1 .. n : i < n => Means(F[i], P[i], FALSE, TRUE)
        BY <1>8, <1>9, <1>10, <1>12
    <2>2. Means(F[n], P[n], FALSE, nodes)
        BY <1>1, <1>7, <1>9, <1>10, <1>12
    <2>3. Means(Chain(F), Chain(P), FALSE, nodes)
        BY <1>1, <1>6, <1>7, <2>1, <2>2, MeansChain
    <2> QED
        BY <1>3, <1>4, <1>5, <1>7, <1>12, <2>3 DEF Agrees, pairs
<1>13. CASE inverted = TRUE
    <2>0. ASSUME NEW i \in 1 .. n PROVE P[n + 1 - i] = pairs[ordered[i]]
        <3> DEFINE j == n + 1 - i
        <3>1. j \in 1 .. n
            BY <1>11
        <3>2. ordered[i] = p.items[j]
            BY <1>9, <1>13
        <3> HIDE DEF j
        <3>3. P[j] = pairs[ordered[i]]
            BY <1>10, <3>1, <3>2
        <3> QED
            BY <3>3 DEF j
    <2>1. \A i \in 1 .. n : i < n => Means(F[i], P[n + 1 - i], TRUE, TRUE)
        <3> TAKE i \in 1 .. n
        <3>1. P[n + 1 - i] = pairs[ordered[i]] /\ F[i] = Found[items[i]]
            BY <1>10, <2>0
        <3> QED
            BY <1>8, <1>13, <3>1
    <2>2. Means(F[n], P[1], TRUE, nodes)
        <3>1. n + 1 - n = 1
            BY <1>1
        <3>2. P[1] = pairs[ordered[n]] /\ F[n] = Found[items[n]]
            BY <1>1, <1>10, <2>0, <3>1
        <3> QED
            BY <1>7, <1>13, <3>2
    <2>3. Means(Chain(F), Chain(P), TRUE, nodes)
        BY <1>1, <1>6, <1>7, <2>1, <2>2, MeansChainTurned
    <2> QED
        BY <1>3, <1>4, <1>5, <1>7, <1>13, <2>3 DEF Agrees, pairs
<1> QED
    BY <1>12, <1>13

LEMMA AlternativeMeans ==
    ASSUME NEW q \in Questions, NEW p \in Paths, p.op = "alternative",
           NEW inverted \in BOOLEAN, NEW last \in BOOLEAN,
           NEW items, items = [i \in 1 .. Len(p.items) |-> items[i]],
           \A i \in 1 .. Len(p.items) : /\ Agrees(q, p.items[i], items[i], inverted, last)
                                        /\ items[i].nodes = items[1].nodes,
           NEW v, v = AnyOf(items), Found[v] = FindPath(Found, v)
    PROVE  Agrees(q, p, v, inverted, last)
<1> DEFINE n == Len(p.items)
           pairs == PairsOf(q)
           nodes == items[1].nodes
<1>1. n \in Nat \ {0} /\ DOMAIN p.items = 1 .. n /\ DOMAIN items = 1 .. n /\ 1 \in 1 .. n
    BY PathParts DEF Listed
<1>2. v.op = "alternative" /\ v.items = items /\ v.nodes = nodes
    BY DEF AnyOf
<1>3. Found[v] = UNION {Found[items[i]] : i \in 1 .. n}
    BY <1>1, <1>2 DEF FindPath
<1>4. pairs[p] = UNION {pairs[p.items[i]] : i \in 1 .. n}
    <2>1. pairs[p] = UNION {pairs[p.items[i]] : i \in DOMAIN p.items}
        BY PairsAt DEF MeanPath
    <2> QED
        BY <1>1, <2>1
<1>5. nodes \in BOOLEAN /\ (last # TRUE => nodes = TRUE)
    BY <1>1 DEF Agrees
<1>6. ASSUME NEW i \in 1 .. n PROVE Means(Found[items[i]], pairs[p.items[i]], inverted, nodes)
    <2>1. Means(Found[items[i]], pairs[p.items[i]], inverted, items[i].nodes) /\ items[i].nodes = nodes
        BY DEF Agrees
    <2> HIDE DEF pairs, nodes
    <2> QED
        BY <2>1
<1> HIDE DEF n, pairs, nodes
<1> DEFINE found == UNION {Found[items[i]] : i \in 1 .. n}
           meant == UNION {pairs[p.items[i]] : i \in 1 .. n}
<1>7. \A pair : /\ pair \in found <=> \E i \in 1 .. n : pair \in Found[items[i]]
               /\ pair \in meant <=> \E i \in 1 .. n : pair \in pairs[p.items[i]]
    OBVIOUS
<1> HIDE DEF found, meant
<1>8. Means(found, meant, inverted, nodes)
    <2> SUFFICES ASSUME NEW a \in Nodes, NEW t \in Terms
                 PROVE  <<a, t>> \in found
                           <=> Along(meant, inverted, a, t) /\ (t \in Nodes <=> nodes = TRUE)
        BY DEF Means
    <2>0. /\ <<a, t>> \in found <=> \E i \in 1 .. n : <<a, t>> \in Found[items[i]]
          /\ <<a, t>> \in meant <=> \E i \in 1 .. n : <<a, t>> \in pairs[p.items[i]]
          /\ <<t, a>> \in meant <=> \E i \in 1 .. n : <<t, a>> \in pairs[p.items[i]]
        BY DEF found, meant
    <2>1. Along(meant, inverted, a, t) <=> \E i \in 1 .. n : Along(pairs[p.items[i]], inverted, a, t)
        <3>1. CASE inverted
            BY <2>0, <3>1 DEF Along
        <3>2. CASE ~ inverted
            BY <2>0, <3>2 DEF Along
        <3> QED
            BY <3>1, <3>2
    <2>2. \A i \in 1 .. n : <<a, t>> \in Found[items[i]]
             <=> Along(pairs[p.items[i]], inverted, a, t) /\ (t \in Nodes <=> nodes = TRUE)
        BY <1>6 DEF Means
    <2> QED
        BY <2>0, <2>1, <2>2
<1> QED
    BY <1>2, <1>3, <1>4, <1>5, <1>8 DEF Agrees, pairs, found, meant

LEMMA RepetitionMeans ==
    ASSUME TriplesTyped, NEW q \in Questions, NEW p \in Paths,
           NEW min, NEW max, Repetition(p, min, max),
           NEW inverted \in BOOLEAN, NEW last \in BOOLEAN,
           NEW inner, Agrees(q, p.of, inner, inverted, FALSE), Found[inner] \in SUBSET Pairs,
           NEW v, v = Repeat(inner, min, max), Found[v] = FindPath(Found, v)
    PROVE  Agrees(q, p, v, inverted, last)
<1> DEFINE pairs == PairsOf(q)
           f == Found[inner]
           r == pairs[p.of]
<1>1. Means(f, r, inverted, TRUE)
    <2>1. Means(f, r, inverted, inner.nodes) /\ inner.nodes = TRUE
        BY DEF Agrees
    <2> HIDE DEF f, r
    <2> QED
        BY <2>1
<1>2. /\ v.op = "repeat" /\ v.nodes = TRUE /\ v.of = inner /\ v.min = min /\ v.max = max
    BY DEF Repeat
<1>3. Means(Transitive(f), Transitive(r), inverted, TRUE)
    BY <1>1, MeansTransitive
<1>4. Means(Identity, Identity, inverted, TRUE)
    BY MeansIdentity
<1>5. CASE p.op = "zeroOrMore"
    <2>1. Found[v] = Identity \cup Transitive(f)
        BY <1>2, <1>5 DEF Repetition, FindPath
    <2>2. pairs[p] = Identity \cup Transitive(r)
        BY <1>5, PairsAt DEF MeanPath
    <2> HIDE DEF f, r, pairs
    <2>3. Means(Found[v], pairs[p], inverted, TRUE)
        BY <1>3, <1>4, <2>1, <2>2 DEF Means, Along
    <2> QED
        BY <1>2, <2>3 DEF Agrees, pairs
<1>6. CASE p.op = "oneOrMore"
    <2>1. Found[v] = Transitive(f)
        BY <1>2, <1>6 DEF Repetition, FindPath
    <2>2. pairs[p] = Transitive(r)
        BY <1>6, PairsAt DEF MeanPath
    <2> HIDE DEF f, r, pairs
    <2>3. Means(Found[v], pairs[p], inverted, TRUE)
        BY <1>3, <2>1, <2>2
    <2> QED
        BY <1>2, <2>3 DEF Agrees, pairs
<1>7. CASE p.op = "zeroOrOne"
    <2>0. v.min = 0 /\ v.max = 1 /\ v.max # Unbounded
        BY <1>2, <1>7 DEF Repetition, Unbounded
    <2>1. Found[v] = UNION {Power(f, n) : n \in 0 .. 1}
        BY <1>2, <2>0 DEF FindPath
    <2>2. pairs[p] = Identity \cup r
        BY <1>7, PairsAt DEF MeanPath
    <2> HIDE DEF r, pairs
    <2>3. Power(f, 0) = Identity /\ Power(f, 1) = f
        BY Powers
    <2> HIDE DEF f
    <2>4. Found[v] = Identity \cup f
        <3>1. \A n : n \in 0 .. 1 <=> n = 0 \/ n = 1
            OBVIOUS
        <3> QED
            BY <2>1, <2>3, <3>1
    <2>5. Means(Found[v], pairs[p], inverted, TRUE)
        BY <1>1, <1>4, <2>2, <2>4 DEF Means, Along
    <2> QED
        BY <1>2, <2>5 DEF Agrees, pairs
<1> QED
    BY <1>5, <1>6, <1>7 DEF Repetition

\* What paths find are pairs of terms.
LEMMA FindPairs ==
    ASSUME TriplesTyped, NEW v, NEW S, Simple(v) \/ Composite(v, S),
           \A c \in S : Found[c] \in SUBSET Pairs
    PROVE  FindPath(Found, v) \in SUBSET Pairs
<1>1. CASE Simple(v)
    BY <1>1, TriplesArePairs DEF Simple, FindPath
<1>2. CASE Composite(v, S) /\ v.op = "repeat"
    <2> DEFINE f == Found[v.of]
    <2>1. f \in SUBSET Pairs /\ v.min \in {0, 1} /\ v.max \in {1, Unbounded}
        BY <1>2, CompositeFields
    <2>2. FindPath(Found, v) = IF v.max = Unbounded
                               THEN (IF v.min = 0 THEN Identity ELSE {}) \cup Transitive(f)
                               ELSE UNION {Power(f, n) : n \in v.min .. v.max}
        BY <1>2 DEF FindPath
    <2> HIDE DEF f
    <2>3. Transitive(f) \in SUBSET Pairs
        BY DEF Transitive
    <2>4. \A n \in 0 .. 1 : Power(f, n) \in SUBSET Pairs
        <3>1. Power(f, 0) \in SUBSET Pairs /\ Power(f, 1) \in SUBSET Pairs
            BY <2>1, Powers, IdentityPairs
        <3> QED
            BY <3>1
    <2>5. v.max # Unbounded => \A n \in v.min .. v.max : n \in 0 .. 1
        BY <2>1
    <2> QED
        BY <2>2, <2>3, <2>4, <2>5, IdentityPairs
<1>3. CASE Composite(v, S) /\ v.op # "repeat"
    <2>1. v.op \in {"sequence", "alternative"} /\ v.items \in Seq(S)
        BY <1>3, CompositeFields
    <2>2. \A i \in DOMAIN v.items : Found[v.items[i]] \in SUBSET Pairs
        BY <2>1
    <2>3. CASE v.op = "alternative"
        <3>1. FindPath(Found, v) = UNION {Found[v.items[i]] : i \in DOMAIN v.items}
            BY <2>3 DEF FindPath
        <3> QED
            BY <2>2, <3>1
    <2>4. CASE v.op = "sequence"
        <3> DEFINE n == Len(v.items)
                   F == [i \in DOMAIN v.items |-> Found[v.items[i]]]
        <3>1. n \in Nat /\ DOMAIN v.items = 1 .. n
            BY <2>1
        <3>2. FindPath(Found, v) = Chain(F)
            BY <2>4 DEF FindPath
        <3>3. F \in Seq(SUBSET Pairs) /\ Len(F) = n /\ \A i \in 1 .. n : F[i] \in SUBSET Pairs
            <4> HIDE DEF n
            <4> QED
                BY <2>2, <3>1
        <3> HIDE DEF F, n
        <3>4. CASE n = 0
            BY <3>1, <3>2, <3>3, <3>4, ChainHasSteps, IdentityPairs DEF ChainSteps
        <3>5. CASE n # 0
            BY <3>1, <3>2, <3>3, <3>5, ChainPairs
        <3> QED
            BY <3>4, <3>5
    <2> QED
        BY <2>1, <2>3, <2>4
<1> QED
    BY <1>1, <1>2, <1>3

LEMMA FoundPairs ==
    ASSUME TriplesTyped PROVE \A v \in ResolvedPaths : Found[v] \in SUBSET Pairs
<1> DEFINE T == {n \in Nat : \A v \in ResolvedFrom(n) : Found[v] \in SUBSET Pairs}
<1>1. 0 \in T
    BY ResolvedFromAll
<1>2. ASSUME NEW n \in Nat, n \in T PROVE n + 1 \in T
    <2> DEFINE S == ResolvedFrom(n)
    <2> SUFFICES ASSUME NEW v \in ResolvedFrom(n + 1) PROVE Found[v] \in SUBSET Pairs
        OBVIOUS
    <2>1. v \in RulePaths
        BY ResolvedWithin DEF RulePaths
    <2>2. Simple(v) \/ Composite(v, S)
        BY ResolvedComposite
    <2>3. \A c \in S : Found[c] \in SUBSET Pairs
        BY <1>2
    <2> HIDE DEF S
    <2>4. FindPath(Found, v) \in SUBSET Pairs
        BY <2>2, <2>3, FindPairs
    <2> QED
        BY <2>1, <2>4, FoundAt
<1> HIDE DEF T
<1>3. MaxDepth + 1 \in T
    BY <1>1, <1>2, EveryNat, ShallowPaths
<1> QED
    BY <1>3, ResolvedFromAll DEF T

\* Every part of every path means what it should, whichever way it is read.
LEMMA EveryPathMapped ==
    ASSUME TriplesTyped, NEW q \in Questions
    PROVE  \A p \in Paths : \A inverted \in BOOLEAN : \A last \in BOOLEAN :
               Mapped(q, p, inverted, last)
<1> DEFINE T == {p \in Paths : \A inverted \in BOOLEAN : \A last \in BOOLEAN :
                                  Mapped(q, p, inverted, last)}
<1>1. ASSUME NEW p \in Paths, \A c \in Paths : Depth[c] < Depth[p] => c \in T
      PROVE  p \in T
    <2> SUFFICES ASSUME NEW inverted \in BOOLEAN, NEW last \in BOOLEAN,
                        ~ IsError(Lower(q)[p][inverted][last]), Fits(q, p, last)
                 PROVE  Agrees(q, p, Lower(q)[p][inverted][last], inverted, last)
        BY DEF Mapped
    <2> DEFINE v == Lower(q)[p][inverted][last]
    <2> SUFFICES Agrees(q, p, v, inverted, last)
        OBVIOUS
    <2>1. Found[v] = FindPath(Found, v)
        BY LowerFound
    <2>2. \A c \in Paths : Depth[c] < Depth[p] =>
             \A i \in BOOLEAN : \A l \in BOOLEAN : Mapped(q, c, i, l)
        BY <1>1
    <2>3. ~ IsError(v)
        OBVIOUS
    <2>4. CASE p.op = "predicate"
        <3>1. v = Step(q, p.iri, inverted, last)
            BY <2>4, LowerAt DEF LowerPath
        <3>2. PairsOf(q)[p] = Triples(q, p.iri)
            BY <2>4, PairsAt DEF MeanPath
        <3>3. p.iri \in DOMAIN LocalName
            BY <2>4, PathParts
        <3>4. last = TRUE \/ ~ IsSimple(q.shape.path)
            BY DEF Fits
        <3> HIDE DEF v
        <3>5. StepAgrees(q, p.iri, v, inverted, last)
            BY <2>3, <3>1, <3>3, <3>4, StepMeans
        <3> QED
            BY <2>1, <3>2, <3>5 DEF Agrees, StepAgrees
    <2>5. CASE p.op = "inverse"
        <3>1. p.of \in Paths /\ Depth[p.of] < Depth[p]
            BY <2>5, PathParts DEF Unary
        <3>2. PICK other \in BOOLEAN : other # inverted
            OBVIOUS
        <3>3. v = Lower(q)[p.of][other][last]
            BY <2>5, <3>2, LowerInverse
        <3>4. Fits(q, p.of, last)
            BY <2>5 DEF Fits, IsSimple
        <3>5. Mapped(q, p.of, other, last)
            BY <2>2, <3>1
        <3>6. PairsOf(q)[p] = Converse(PairsOf(q)[p.of]) /\ PairsOf(q)[p.of] \in SUBSET Pairs
            BY <2>5, <3>1, PairsAt, MeantPairs DEF MeanPath
        <3> HIDE DEF v
        <3>7. Agrees(q, p.of, v, other, last)
            BY <2>3, <3>3, <3>4, <3>5 DEF Mapped
        <3> DEFINE f == Found[v]
                   r == PairsOf(q)[p.of]
                   nodes == v.nodes
        <3>8. nodes \in BOOLEAN /\ (last # TRUE => nodes = TRUE) /\ Means(f, r, other, nodes)
            BY <3>7 DEF Agrees
        <3>9. r \in SUBSET Pairs
            BY <3>6
        <3>10. Means(f, Converse(r), inverted, nodes)
            <4> HIDE DEF f, r, nodes
            <4> QED
                BY <3>2, <3>8, <3>9, MeansConverse
        <3> QED
            BY <3>6, <3>8, <3>10 DEF Agrees
    <2>6. CASE p.op = "sequence"
        <3> DEFINE n == Len(p.items)
                   ordered == Ordered(p.items, inverted)
        <3>0. Listed(p)
            BY <2>6 DEF Listed
        <3>1. PICK items : MappedItems(q, p, inverted, last, items) /\ v = LowerSequence(items)
            BY <2>6, LowerSequenceAt
        <3>2. n \in Nat \ {0} /\ items = [i \in 1 .. n |-> items[i]] /\ DOMAIN items = 1 .. n
            BY <3>0, <3>1, PathParts DEF MappedItems
        <3>3. \A c, l : Fits(q, c, l)
            BY <2>6, PartsFit
        <3>4. \A i \in 1 .. n : ordered[i] \in Paths /\ Depth[ordered[i]] < Depth[p]
            BY <3>0, OrderedItems, PathParts
        <3>5. v = InSequence(items) /\ \A i \in 1 .. n : ~ IsError(items[i])
            <4> HIDE DEF v
            <4> QED
                BY <2>3, <3>1, <3>2, SequenceOrFailure
        <3>6. ASSUME NEW i \in 1 .. n, i < n PROVE Agrees(q, ordered[i], items[i], inverted, FALSE)
            <4>1. items[i] = Lower(q)[ordered[i]][inverted][FALSE]
                BY <3>1, <3>6 DEF MappedItems
            <4>2. Mapped(q, ordered[i], inverted, FALSE)
                BY <2>2, <3>4
            <4> HIDE DEF ordered, n
            <4> QED
                BY <3>3, <3>5, <4>1, <4>2 DEF Mapped
        <3>7. Agrees(q, ordered[n], items[n], inverted, last)
            <4>1. items[n] = Lower(q)[ordered[n]][inverted][last]
                BY <3>1 DEF MappedItems
            <4>2. n \in 1 .. n
                BY <3>2
            <4>3. Mapped(q, ordered[n], inverted, last)
                BY <2>2, <3>4, <4>2
            <4> HIDE DEF ordered, n
            <4> QED
                BY <3>3, <3>5, <4>1, <4>2, <4>3 DEF Mapped
        <3>8. ItemsAgree(q, p, inverted, last, items)
            BY <3>6, <3>7 DEF ItemsAgree
        <3> HIDE DEF v
        <3> QED
            BY <2>1, <2>6, <3>2, <3>5, <3>8, SequenceMeans
    <2>7. CASE p.op = "alternative"
        <3> DEFINE n == Len(p.items)
        <3>0. Listed(p)
            BY <2>7 DEF Listed
        <3>1. PICK items : MappedOptions(q, p, inverted, last, items) /\ v = LowerAlternative(items)
            BY <2>7, LowerAlternativeAt
        <3>2. n \in Nat \ {0} /\ items = [i \in 1 .. n |-> items[i]] /\ DOMAIN items = 1 .. n
            BY <3>0, <3>1, PathParts DEF MappedOptions
        <3>3. \A c, l : Fits(q, c, l)
            BY <2>7, PartsFit
        <3>4. \A i \in 1 .. n : p.items[i] \in Paths /\ Depth[p.items[i]] < Depth[p]
            BY <3>0, PathParts
        <3>5. /\ v = AnyOf(items)
              /\ \A i \in 1 .. n : ~ IsError(items[i]) /\ items[i].nodes = items[1].nodes
            <4> HIDE DEF v
            <4> QED
                BY <2>3, <3>1, <3>2, AlternativeOrFailure
        <3>6. ASSUME NEW i \in 1 .. n PROVE Agrees(q, p.items[i], items[i], inverted, last)
            <4>1. items[i] = Lower(q)[p.items[i]][inverted][last]
                BY <3>1 DEF MappedOptions
            <4>2. Mapped(q, p.items[i], inverted, last)
                BY <2>2, <3>4
            <4> QED
                BY <3>3, <3>5, <4>1, <4>2 DEF Mapped
        <3> HIDE DEF v
        <3> QED
            BY <2>1, <2>7, <3>2, <3>5, <3>6, AlternativeMeans
    <2>8. ASSUME NEW min, NEW max, Repetition(p, min, max)
          PROVE  Agrees(q, p, v, inverted, last)
        <3> DEFINE inner == Repeated(q, p, inverted)
        <3>1. p.of \in Paths /\ Depth[p.of] < Depth[p]
            BY <2>8, PathParts DEF Unary, Repetition
        <3>2. v = LowerRepeat(inner, min, max)
            BY <2>8, LowerRepeatAt
        <3>3. Fits(q, p.of, FALSE)
            BY <2>8, PartsFit DEF Repetition
        <3>4. Mapped(q, p.of, inverted, FALSE)
            BY <2>2, <3>1
        <3>5. inner = Lower(q)[p.of][inverted][FALSE]
            BY DEF Repeated
        <3>6. inner \in ResolvedPaths
            BY <3>1, <3>5, LowerResolved
        <3>7. Found[inner] \in SUBSET Pairs
            BY <3>6, FoundPairs
        <3> HIDE DEF v, inner
        <3>8. v = Repeat(inner, min, max) /\ ~ IsError(inner)
            BY <2>3, <3>2 DEF LowerRepeat
        <3>9. Agrees(q, p.of, inner, inverted, FALSE)
            BY <3>3, <3>4, <3>5, <3>8 DEF Mapped
        <3> QED
            BY <2>1, <2>8, <3>7, <3>8, <3>9, RepetitionMeans
    <2> HIDE DEF v
    <2> QED
        BY <2>4, <2>5, <2>6, <2>7, <2>8, PathKinds
<1> HIDE DEF T
<1>2. \A p \in Paths : p \in T
    BY <1>1, ByDepth
<1> QED
    BY <1>2 DEF T

-----------------------------------------------------------------------------
(* Capped paths find no more.                                              *)

LEMMA CutsInRules == \A v \in ResolvedPaths : v \in RulePaths /\ Cut(v) \in RulePaths
BY DEF RulePaths, Cut

FindsLess(c) == Found[Cut(c)] \subseteq Found[c]

LEMMA RepeatFindsLess ==
    ASSUME TriplesTyped, NEW v \in ResolvedPaths, NEW S, Composite(v, S), v.op = "repeat",
           S \subseteq ResolvedPaths, \A c \in S : FindsLess(c)
    PROVE  FindsLess(v)
<1> DEFINE g == Found[Cut(v.of)]
           f == Found[v.of]
           max == IF v.max = Unbounded THEN MaxPathDepth ELSE v.max
<1>1. v.of \in S /\ v.min \in {0, 1} /\ v.max \in {1, Unbounded}
    BY CompositeFields
<1>2. g \subseteq f /\ f \in SUBSET Pairs
    BY <1>1, FoundPairs DEF FindsLess
<1>3. MaxPathDepth \in Nat \ {0} /\ Unbounded = -1
    BY DepthAssumption DEF Unbounded
<1>4. Cut(v) = Repeat(Cut(v.of), v.min, max)
    BY CutRepeat
<1>5. Cut(v).op = "repeat" /\ Cut(v).of = Cut(v.of) /\ Cut(v).min = v.min /\ Cut(v).max = max
    <2> HIDE DEF max
    <2> QED
        BY <1>4 DEF Repeat
<1>6. max \in Nat \ {0} /\ max # Unbounded
    BY <1>1, <1>3
<1>7. Found[Cut(v)] = UNION {Power(g, n) : n \in v.min .. max}
    <2>1. Found[Cut(v)] = FindPath(Found, Cut(v))
        BY CutsInRules, FoundAt
    <2> HIDE DEF max
    <2> QED
        BY <1>5, <1>6, <2>1 DEF FindPath
<1>8. Found[v] = IF v.max = Unbounded
                 THEN (IF v.min = 0 THEN Identity ELSE {}) \cup Transitive(f)
                 ELSE UNION {Power(f, n) : n \in v.min .. v.max}
    <2>1. Found[v] = FindPath(Found, v)
        BY CutsInRules, FoundAt
    <2> QED
        BY <2>1 DEF FindPath
<1> HIDE DEF f, g
<1>9. \A n \in Nat : Power(g, n) \subseteq Power(f, n)
    BY <1>2, PowerGrows
<1>10. Power(f, 0) = Identity /\ \A n \in Nat \ {0} : Power(f, n) \subseteq Transitive(f)
    BY <1>2, Powers
<1>11. CASE v.max = Unbounded
    <2>1. ASSUME NEW n \in v.min .. max
          PROVE  Power(g, n) \subseteq (IF v.min = 0 THEN Identity ELSE {}) \cup Transitive(f)
        <3> HIDE DEF max
        <3>1. n \in Nat /\ (n = 0 => v.min = 0)
            BY <1>1, <1>6
        <3>2. CASE n = 0
            BY <1>9, <1>10, <3>1, <3>2
        <3>3. CASE n # 0
            BY <1>9, <1>10, <3>1, <3>3
        <3> QED
            BY <3>2, <3>3
    <2> HIDE DEF max
    <2> QED
        BY <1>7, <1>8, <1>11, <2>1 DEF FindsLess
<1>12. CASE v.max # Unbounded
    <2>1. max = v.max
        BY <1>12
    <2>2. \A n \in v.min .. max : n \in Nat
        BY <1>1, <1>6
    <2> HIDE DEF max
    <2> QED
        BY <1>7, <1>8, <1>9, <1>12, <2>1, <2>2 DEF FindsLess
<1> QED
    BY <1>11, <1>12

LEMMA ItemsFindLess ==
    ASSUME NEW v \in ResolvedPaths, NEW S, Composite(v, S), v.op # "repeat",
           S \subseteq ResolvedPaths, \A c \in S : FindsLess(c)
    PROVE  FindsLess(v)
<1> DEFINE n == Len(v.items)
           items == [i \in DOMAIN v.items |-> Cut(v.items[i])]
<1>1. v.op \in {"sequence", "alternative"} /\ v.items \in Seq(S)
    BY CompositeFields
<1>2. n \in Nat /\ DOMAIN v.items = 1 .. n /\ \A i \in 1 .. n : v.items[i] \in S
    BY <1>1
<1>3. Cut(v) = [op |-> v.op, nodes |-> v.nodes, items |-> items]
    BY CutItems
<1>4. Cut(v).op = v.op /\ Cut(v).items = items
    <2> HIDE DEF items
    <2> QED
        BY <1>3
<1>5. DOMAIN items = 1 .. n /\ \A i \in 1 .. n : items[i] = Cut(v.items[i])
    BY <1>2
<1> HIDE DEF items, n
<1>6. \A i \in 1 .. n : Found[items[i]] \subseteq Found[v.items[i]]
    BY <1>2, <1>5 DEF FindsLess
<1>7. Found[v] = FindPath(Found, v) /\ Found[Cut(v)] = FindPath(Found, Cut(v))
    BY CutsInRules, FoundAt
<1>8. CASE v.op = "sequence"
    <2> DEFINE F == [i \in 1 .. n |-> Found[v.items[i]]]
               G == [i \in 1 .. n |-> Found[items[i]]]
    <2>1. Found[v] = Chain(F)
        BY <1>2, <1>7, <1>8 DEF FindPath
    <2>2. Found[Cut(v)] = Chain(G)
        BY <1>4, <1>5, <1>7, <1>8 DEF FindPath
    <2>3. Len(F) = n /\ Len(G) = n /\ \A i \in 1 .. n : G[i] \subseteq F[i]
        BY <1>2, <1>6
    <2> HIDE DEF F, G
    <2>4. Chain(G) \subseteq Chain(F)
        BY <1>2, <2>3, ChainGrows
    <2> QED
        BY <2>1, <2>2, <2>4 DEF FindsLess
<1>9. CASE v.op = "alternative"
    <2>1. Found[v] = UNION {Found[v.items[i]] : i \in 1 .. n}
        BY <1>2, <1>7, <1>9 DEF FindPath
    <2>2. Found[Cut(v)] = UNION {Found[items[i]] : i \in 1 .. n}
        BY <1>4, <1>5, <1>7, <1>9 DEF FindPath
    <2> QED
        BY <1>6, <2>1, <2>2 DEF FindsLess
<1> QED
    BY <1>1, <1>8, <1>9

LEMMA CutFindsLess ==
    ASSUME TriplesTyped PROVE \A v \in ResolvedPaths : FindsLess(v)
<1> DEFINE T == {n \in Nat : \A v \in ResolvedFrom(n) : FindsLess(v)}
<1>1. 0 \in T
    BY ResolvedFromAll
<1>2. ASSUME NEW n \in Nat, n \in T PROVE n + 1 \in T
    <2> DEFINE S == ResolvedFrom(n)
    <2> SUFFICES ASSUME NEW v \in ResolvedFrom(n + 1) PROVE FindsLess(v)
        OBVIOUS
    <2>1. v \in ResolvedPaths /\ S \subseteq ResolvedPaths
        BY ResolvedWithin
    <2>2. Simple(v) \/ Composite(v, S)
        BY ResolvedComposite
    <2>3. \A c \in S : FindsLess(c)
        BY <1>2
    <2> HIDE DEF S
    <2>4. CASE Simple(v)
        BY <2>1, <2>4, CutSimple DEF FindsLess
    <2>5. CASE Composite(v, S)
        BY <2>1, <2>3, <2>5, RepeatFindsLess, ItemsFindLess
    <2> QED
        BY <2>2, <2>4, <2>5
<1> HIDE DEF T
<1>3. MaxDepth + 1 \in T
    BY <1>1, <1>2, EveryNat, ShallowPaths
<1> QED
    BY <1>3, ResolvedFromAll DEF T

-----------------------------------------------------------------------------
(* The resolver.                                                           *)

\* Inductive: what is resolved is what the path of the shape is mapped to, what the
\* rule gets is its cut, and the graph holds triples of what it is declared to hold.
MappingInv ==
    /\ question \in Questions
    /\ TriplesTyped
    /\ resolved \in {Unresolved, Lowered(question)}
    /\ path = Unresolved \/ (/\ resolved # Unresolved /\ ~ IsError(resolved)
                             /\ path = Cut(resolved))

LEMMA MappingStarts == MappingInit => MappingInv
BY DEF MappingInit, MappingInv, TriplesTyped

LEMMA MappingStays == MappingInv /\ [MappingNext]_mappingVars => MappingInv'
<1> SUFFICES ASSUME MappingInv, [MappingNext]_mappingVars PROVE MappingInv'
    OBVIOUS
<1> USE DEF MappingInv
<1>1. CASE Resolve
    <2>1. path = Unresolved
        BY <1>1 DEF Resolve
    <2> QED
        BY <1>1, <2>1 DEF Resolve, TriplesTyped
<1>2. CASE Cap
    BY <1>2 DEF Cap, TriplesTyped, Cut
<1>3. CASE AddRelationship
    BY <1>3 DEF AddRelationship, TriplesTyped
<1>4. CASE AddProperty
    BY <1>4 DEF AddProperty, TriplesTyped
<1>5. CASE UNCHANGED mappingVars
    BY <1>5 DEF mappingVars, TriplesTyped
<1> QED
    BY <1>1, <1>2, <1>3, <1>4, <1>5 DEF MappingNext

\* The path that a shape is resolved to.
LEMMA LoweredMeans ==
    ASSUME TriplesTyped, NEW q \in Questions, NEW v, v = Lowered(q), ~ IsError(v)
    PROVE  /\ v \in ResolvedPaths /\ v.nodes \in BOOLEAN
           /\ Means(Found[v], PairsOf(q)[q.shape.path], FALSE, v.nodes)
<1> DEFINE p == q.shape.path
           inverted == FALSE
           last == TRUE
           w == Lower(q)[p][inverted][last]
<1>1. p \in Paths /\ inverted \in BOOLEAN /\ last \in BOOLEAN
    BY MappingQuestionsAssumption
<1>2. w = v
    BY DEF Lowered
<1>3. Fits(q, p, last)
    BY DEF Fits
<1> HIDE DEF p
<1>4. Mapped(q, p, inverted, last)
    <2> HIDE DEF inverted, last
    <2> QED
        BY <1>1, EveryPathMapped
<1>5. Agrees(q, p, v, inverted, last)
    <2> HIDE DEF inverted, last
    <2> QED
        BY <1>2, <1>3, <1>4 DEF Mapped
<1>6. v \in ResolvedPaths
    <2> HIDE DEF inverted, last
    <2> QED
        BY <1>1, <1>2, LowerResolved
<1> QED
    BY <1>5, <1>6 DEF Agrees, p

LEMMA ResolvedMeans == MappingInv => ResolvedPathMeansShaclPath
<1> SUFFICES ASSUME MappingInv, path # Unresolved PROVE ResolvedPathMeansShaclPath
    BY DEF ResolvedPathMeansShaclPath
<1> DEFINE found == Found[resolved]
           pairs == PairsOf(question)[question.shape.path]
           nodes == resolved.nodes
<1>1. nodes \in BOOLEAN /\ Means(found, pairs, FALSE, nodes)
    BY LoweredMeans DEF MappingInv
<1> HIDE DEF found, pairs, nodes
<1>2. \A node \in Nodes : \A t \in Terms :
          <<node, t>> \in found <=> <<node, t>> \in pairs /\ (t \in Nodes <=> nodes)
    BY <1>1 DEF Means, Along, Terms
<1>3. \A node \in Nodes : Ends(found, node) = {t \in Ends(pairs, node) : (t \in Nodes) = nodes}
    BY <1>1, <1>2 DEF Ends
<1> QED
    BY <1>3 DEF ResolvedPathMeansShaclPath, found, pairs, nodes

LEMMA TruncationReported == MappingInv => TruncationIsReported
<1> SUFFICES ASSUME MappingInv, path # Unresolved PROVE TruncationIsReported
    BY DEF TruncationIsReported
<1>1. resolved \in ResolvedPaths /\ path = Cut(resolved)
    BY LoweredMeans DEF MappingInv
<1>2. Found[path] \subseteq Found[resolved]
    BY <1>1, CutFindsLess DEF FindsLess, MappingInv
<1>3. ~ CapRepeats[resolved].capped => path = resolved
    BY <1>1, UncutStays DEF IsCut
<1> QED
    BY <1>2, <1>3 DEF TruncationIsReported

\* Whatever the graph becomes, what is queried for a path of any shape, nested as deep
\* as may be, is what SHACL means by it, short only of what is reported as truncated
\* (lower, step and repeat of mapping.rs, cap_repeats of lower.rs).
THEOREM MappedPathIsShaclPath == MappingSpec => []MappedPathMeansShaclPath
<1>1. MappingInv => MappedPathMeansShaclPath
    BY ResolvedMeans, TruncationReported DEF MappedPathMeansShaclPath
<1> QED
    BY <1>1, MappingStarts, MappingStays, PTL DEF MappingSpec

LEMMA RelationshipsOnly ==
    ASSUME NEW v, v.op = "relationship"
    PROVE  /\ \A why : v # Error(why)
           /\ \A q, step : v = CheckStrict(q, step) => v = step
           /\ \A name, evidence : v # Property(name, evidence)
<1>1. \A why : Error(why).op # v.op
    BY DEF Error
<1>2. \A why : v # Error(why)
    BY <1>1
<1>3. \A q, step : v = CheckStrict(q, step) => v = step
    BY <1>2 DEF CheckStrict
<1>4. \A name, evidence : Property(name, evidence).op # v.op
    BY DEF Property
<1>5. \A name, evidence : v # Property(name, evidence)
    BY <1>4
<1> QED
    BY <1>2, <1>3, <1>5

LEMMA NoPropertyStep ==
    ASSUME NEW v, v.op = "relationship", NEW q, NEW iri, NEW own
    PROVE  v # PropertyStep(q, iri, own)
<1> DEFINE given == Given(own.property, q.annotations[iri].property)
           local == LocalName[iri]
           evidence == IF SchemaHasProperty(q, local) THEN "schema" ELSE "convention"
<1>1. ASSUME NEW name, NEW e PROVE v # CheckStrict(q, Property(name, e))
    <2> DEFINE step == Property(name, e)
    <2>1. v # step
        BY RelationshipsOnly
    <2> HIDE DEF step
    <2> QED
        BY <2>1, RelationshipsOnly
<1>2. \A why : v # Error(why)
    BY RelationshipsOnly
<1>3. given # "" => PropertyStep(q, iri, own) = CheckStrict(q, Property(given, "annotation"))
    BY DEF PropertyStep
<1>4. given = "" /\ local = "" => PropertyStep(q, iri, own) = Error("no local name")
    BY DEF PropertyStep
<1>5. given = "" /\ local # ""
      => PropertyStep(q, iri, own) = CheckStrict(q, Property(local, evidence))
    BY DEF PropertyStep
<1> HIDE DEF given, local, evidence
<1> QED
    BY <1>1, <1>2, <1>3, <1>4, <1>5

\* A relationship type that is named by convention is not declared, and was not asked for.
LEMMA ConventionUndeclared ==
    ASSUME NEW q, NEW iri, NEW own, NEW inverted \in BOOLEAN,
           NEW v, v = RelationshipStep(q, iri, own, inverted),
           v.op = "relationship", v.evidence = "convention"
    PROVE  /\ own.relationship = "" /\ q.annotations[iri].relationship = ""
           /\ ~ SchemaHasRelationship(q, UpperSnake[LocalName[iri]])
<1> DEFINE given == Given(own.relationship, q.annotations[iri].relationship)
           declared == Given(Given(own.direction, q.annotations[iri].direction), "out")
           direction == IF inverted THEN Flip(declared) ELSE declared
           name == UpperSnake[LocalName[iri]]
           evidence == IF SchemaHasRelationship(q, name) THEN "schema" ELSE "convention"
<1>1. ASSUME NEW n, NEW e, v = CheckStrict(q, Relationship(n, direction, e))
      PROVE  e = "convention"
    <2> HIDE DEF direction
    <2>1. v = Relationship(n, direction, e)
        BY <1>1, RelationshipsOnly
    <2>2. Relationship(n, direction, e).evidence = e
        BY DEF Relationship
    <2> QED
        BY <2>1, <2>2
<1>2. \A why : v # Error(why)
    BY RelationshipsOnly
<1>3. given = ""
    <2> SUFFICES ASSUME given # "" PROVE FALSE
        OBVIOUS
    <2>1. v = CheckStrict(q, Relationship(given, direction, "annotation"))
        BY DEF RelationshipStep
    <2> QED
        BY <1>1, <2>1
<1>4. LocalName[iri] # ""
    BY <1>2, <1>3 DEF RelationshipStep
<1>5. v = CheckStrict(q, Relationship(name, direction, evidence))
    BY <1>3, <1>4 DEF RelationshipStep
<1>6. evidence = "convention"
    <2> HIDE DEF evidence, direction, name
    <2> QED
        BY <1>1, <1>5 DEF direction
<1> QED
    BY <1>3, <1>6 DEF Given

LEMMA DeclaredStays == MappingInv => DeclaredPropertiesStayProperties
<1> DEFINE p == question.shape.path
           q == question
<1> SUFFICES ASSUME MappingInv, resolved.op = "relationship", resolved.evidence = "convention",
                    p.op = "predicate", DirectionOf(q, p.iri) = ""
             PROVE  ~ SchemaHasProperty(q, LocalName[p.iri])
    BY DEF DeclaredPropertiesStayProperties
<1> DEFINE iri == p.iri
           inverted == FALSE
           last == TRUE
           own == OwnAnnotations(q)
           local == LocalName[iri]
<1>1. p \in Paths /\ inverted \in BOOLEAN /\ last \in BOOLEAN
    BY MappingQuestionsAssumption DEF MappingInv
<1>2. resolved = Lower(q)[p][inverted][last]
    <2>1. Unresolved.op # "relationship"
        BY DEF Unresolved
    <2>2. resolved = Lowered(question)
        BY <2>1 DEF MappingInv
    <2> QED
        BY <2>2 DEF Lowered
<1> HIDE DEF inverted, last
<1>3. resolved = Step(q, iri, inverted, last)
    BY <1>1, <1>2, LowerAt DEF LowerPath
<1>4. own.direction = "" /\ q.annotations[iri].direction = ""
    BY DEF DirectionOf, Given
<1> DEFINE kind == IF ExplicitKind(own) = "none"
                   THEN ExplicitKind(q.annotations[iri])
                   ELSE ExplicitKind(own)
           hinted == ImpliesNodeValues(q) /\ ~ SchemaPrefersProperty(q, local)
           relationship == hinted \/ SchemaPrefersRelationship(q, local)
           result ==
               CASE kind = "conflict" -> Error("conflicting annotations")
                 [] kind = "property" -> PropertyStep(q, iri, own)
                 [] kind = "relationship" -> RelationshipStep(q, iri, own, inverted)
                 [] kind = "none" /\ local = "" -> Error("no local name")
                 [] OTHER -> IF relationship
                             THEN RelationshipStep(q, iri, own, inverted)
                             ELSE PropertyStep(q, iri, own)
<1>5. resolved = result
    BY <1>3 DEF Step, inverted, last
<1>6. \A why : resolved # Error(why)
    BY RelationshipsOnly
<1> HIDE DEF q, p, iri, own, local
<1>7. resolved # PropertyStep(q, iri, own)
    BY NoPropertyStep
<1>8. kind \in {"conflict", "property", "relationship", "none"}
    BY DEF ExplicitKind
<1>9. resolved = RelationshipStep(q, iri, own, inverted)
      /\ (kind = "relationship" \/ relationship)
    <2> HIDE DEF kind, relationship
    <2> QED
        BY <1>5, <1>6, <1>7, <1>8
<1>10. /\ own.relationship = "" /\ q.annotations[iri].relationship = ""
       /\ ~ SchemaHasRelationship(q, UpperSnake[local])
    BY <1>1, <1>9, ConventionUndeclared DEF local
<1>11. kind # "relationship"
    BY <1>4, <1>10 DEF ExplicitKind
<1> QED
    BY <1>9, <1>10, <1>11 DEF SchemaPrefersProperty, SchemaPrefersRelationship, local, iri

\* No hint and no convention makes a relationship type that the snapshot does not
\* declare of a property that it declares for the focus (step of mapping.rs).
THEOREM DeclaredPropertiesStay == MappingSpec => []DeclaredPropertiesStayProperties
BY DeclaredStays, MappingStarts, MappingStays, PTL DEF MappingSpec
=============================================================================
