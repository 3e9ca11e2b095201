------------------------ MODULE ClassHierarchy_proofs ------------------------
(***************************************************************************)
(* For any number of classes: what build rejects has a cycle, what it      *)
(* accepts has none, and expand gives the closure under subclasses.        *)
(***************************************************************************)
EXTENDS ClassHierarchy, SequenceTheorems, FiniteSetTheorems, TLAPS

\* The stack is a path of classes in progress, and these are all on it.
StackInv ==
    /\ \A i \in DOMAIN stack : visit[stack[i].class] = "in progress"
    /\ \A c \in Classes : visit[c] = "in progress" =>
          \E i \in DOMAIN stack : stack[i].class = c
    /\ \A i, j \in DOMAIN stack : stack[i].class = stack[j].class => i = j
    /\ \A i \in DOMAIN stack : stack[i].todo \subseteq subclasses[stack[i].class]
    /\ \A i \in DOMAIN stack : i + 1 \in DOMAIN stack =>
          stack[i + 1].class \in subclasses[stack[i].class]

\* What a call has looked at is done, or is the class of the call above it.
LookedAtInv ==
    \A i \in DOMAIN stack :
       \A s \in subclasses[stack[i].class] \ stack[i].todo :
          \/ visit[s] = "done"
          \/ i + 1 \in DOMAIN stack /\ stack[i + 1].class = s

DoneClasses == {c \in Classes : visit[c] = "done"}

\* A class that is done is ranked above its subclasses, which are done too.
RankInv ==
    /\ \A c \in Classes : rank[c] <= Cardinality(DoneClasses)
    /\ \A c \in DoneClasses : \A s \in subclasses[c] :
          s \in DoneClasses /\ rank[s] < rank[c]

\* No class with subclasses is left to search, once built.
BuiltInv ==
    pc \in {"built", "expanding", "expanded"} =>
        \A c \in Classes : subclasses[c] # {} => c \in DoneClasses

\* What has been collected and what is pending: everything reachable so far, and
\* nothing else.
CollectInv ==
    pc = "expanding" =>
        IF policy = "inherited" THEN seen = {class} /\ pending = <<>>
        ELSE /\ class \in seen \cup Range(pending)
             /\ \A c \in seen : subclasses[c] \subseteq seen \cup Range(pending)
             /\ \A S \in SUBSET Classes :
                   class \in S /\ ClosedUnderSubclasses(S)
                      => seen \cup Range(pending) \subseteq S

\* The inductive invariant.
IInv ==
    /\ TypeOK
    /\ pc = "search" => StackInv /\ LookedAtInv
    /\ RankInv
    /\ BuiltInv
    /\ CycleIsReal
    /\ CollectInv
    /\ ExpansionIsClosure

-----------------------------------------------------------------------------
LEMMA DoneCardinality ==
         /\ IsFiniteSet(DoneClasses)
         /\ Cardinality(DoneClasses) \in Nat
         /\ Cardinality(DoneClasses) <= ClassCount
<1>1. IsFiniteSet(Classes) /\ Cardinality(Classes) = ClassCount
  BY FS_Interval, ClassHierarchyAssumption DEF Classes
<1>2. DoneClasses \subseteq Classes
  BY DEF DoneClasses
<1> QED
  BY <1>1, <1>2, FS_Subset, FS_CardinalityType

LEMMA InitIInv == Init => IInv
<1> SUFFICES ASSUME Init PROVE IInv
  OBVIOUS
<1>1. DoneClasses = {} /\ DOMAIN stack = {}
  BY DEF Init, DoneClasses
<1>2. TypeOK
  BY DEF Init, TypeOK
<1>3. StackInv /\ LookedAtInv
  BY <1>1 DEF Init, StackInv, LookedAtInv
<1>4. RankInv
  BY <1>1, DoneCardinality DEF Init, RankInv
<1>5. CycleIsReal /\ CollectInv /\ ExpansionIsClosure
  BY DEF Init, CycleIsReal, CollectInv, ExpansionIsClosure
<1> QED
  BY <1>2, <1>3, <1>4, <1>5 DEF IInv, BuiltInv, Init

\* Entering a class that was new does not change which classes are done.
LEMMA EnterClass ==
  ASSUME TypeOK, RankInv, NEW c \in Classes, visit[c] = "new",
         visit' = [visit EXCEPT ![c] = "in progress"],
         UNCHANGED <<subclasses, rank>>
  PROVE  /\ RankInv' /\ DoneClasses' = DoneClasses
         /\ visit' \in [Classes -> {"new", "in progress", "done"}]
         /\ \A d \in Classes :
               visit'[d] = IF d = c THEN "in progress" ELSE visit[d]
<1>1. DoneClasses' = DoneClasses
  BY DEF DoneClasses, TypeOK
<1>2. RankInv'
  BY <1>1 DEF RankInv
<1> QED
  BY <1>1, <1>2 DEF TypeOK

\* Direct subclasses are classes, and no class is its own.
LEMMA HierarchyType ==
  ASSUME TypeOK
  PROVE  \A c \in Classes : subclasses[c] \subseteq Classes /\ c \notin subclasses[c]
BY DEF TypeOK, Hierarchy

\* The last element of a sequence that is not empty, and those before it.
LEMMA NonEmptySeq ==
  ASSUME NEW S, NEW q \in Seq(S), q # <<>>
  PROVE  /\ Len(q) \in Nat
         /\ Len(q) >= 1
         /\ DOMAIN q = 1 .. Len(q)
         /\ q[Len(q)] \in S
         /\ SubSeq(q, 1, Len(q) - 1) \in Seq(S)
         /\ DOMAIN SubSeq(q, 1, Len(q) - 1) = 1 .. Len(q) - 1
         /\ \A i \in 1 .. Len(q) - 1 : SubSeq(q, 1, Len(q) - 1)[i] = q[i]
<1>1. Len(q) \in Nat /\ Len(q) # 0
  BY EmptySeq
<1>2. Len(q) >= 1 /\ DOMAIN q = 1 .. Len(q) /\ q[Len(q)] \in S
  BY <1>1
<1>3. \A i \in 1 .. Len(q) - 1 : q[i] \in S
  BY <1>1
<1> DEFINE front == SubSeq(q, 1, Len(q) - 1)
<1>4. /\ front \in Seq(S)
      /\ Len(front) = IF 1 <= Len(q) - 1 THEN Len(q) - 1 - 1 + 1 ELSE 0
      /\ \A i \in 1 .. Len(q) - 1 - 1 + 1 : front[i] = q[1 + i - 1]
  BY <1>1, <1>3, SubSeqProperties
<1>5. Len(front) = Len(q) - 1
  BY <1>1, <1>2, <1>4
<1>6. DOMAIN front = 1 .. Len(q) - 1
  BY <1>4, <1>5
<1>7. \A i \in 1 .. Len(q) - 1 : front[i] = q[i]
  BY <1>1, <1>4
<1> QED
  BY <1>1, <1>2, <1>4, <1>6, <1>7

\* Taking a class from the loop of the current call.
LEMMA ProceedStack ==
  ASSUME TypeOK, stack # <<>>, NEW c
  PROVE  /\ Proceed(c) \in Seq(Calls)
         /\ Len(Proceed(c)) = Len(stack)
         /\ DOMAIN Proceed(c) = DOMAIN stack
         /\ \A i \in DOMAIN stack : Proceed(c)[i].class = stack[i].class
         /\ \A i \in DOMAIN stack : i # Len(stack) => Proceed(c)[i] = stack[i]
         /\ Proceed(c)[Len(stack)].todo = Caller.todo \ {c}
<1> DEFINE last == [Caller EXCEPT !.todo = @ \ {c}]
<1>0. stack \in Seq(Calls)
  BY DEF TypeOK
<1>a. /\ DOMAIN stack = 1 .. Len(stack)
      /\ Len(stack) \in Nat
      /\ Len(stack) >= 1
      /\ stack[Len(stack)] \in Calls
  BY <1>0, NonEmptySeq
<1>1. /\ stack \in Seq(Calls)
      /\ DOMAIN stack = 1 .. Len(stack)
      /\ Len(stack) \in DOMAIN stack
      /\ Len(stack) \in Nat
      /\ Caller \in Calls
  BY <1>0, <1>a DEF Caller
<1>2. last \in Calls /\ last.class = Caller.class /\ last.todo = Caller.todo \ {c}
  BY <1>1 DEF Calls
<1>3. Proceed(c) = [stack EXCEPT ![Len(stack)] = last]
  BY DEF Proceed, Caller
<1>4. /\ Proceed(c) \in Seq(Calls)
      /\ Len(Proceed(c)) = Len(stack)
      /\ DOMAIN Proceed(c) = DOMAIN stack
  BY <1>1, <1>2, <1>3, ExceptSeq
<1>5. /\ Proceed(c)[Len(stack)] = last
      /\ \A i \in DOMAIN stack : i # Len(stack) => Proceed(c)[i] = stack[i]
  BY <1>1, <1>3
<1> QED
  BY <1>2, <1>4, <1>5 DEF Caller

\* Between searches and expansions only the stack and the state of the search, or
\* only the expansion, changes.
LEMMA KeepExpansion ==
  ASSUME CycleIsReal, CollectInv, ExpansionIsClosure, pc = "search",
         UNCHANGED <<subclasses, expandVars>>, pc' \in {"search", "built"}
  PROVE  CycleIsReal' /\ CollectInv' /\ ExpansionIsClosure'
BY DEF CycleIsReal, CollectInv, ExpansionIsClosure

LEMMA KeepRank ==
  ASSUME RankInv, UNCHANGED <<subclasses, searchVars>>
  PROVE  RankInv' /\ DoneClasses' = DoneClasses
BY DEF RankInv, DoneClasses, searchVars

\* The stack of the current state, and what its top is.
LEMMA TopOfStack ==
  ASSUME TypeOK, stack # <<>>
  PROVE  /\ stack \in Seq(Calls)
         /\ Len(stack) \in Nat
         /\ Len(stack) >= 1
         /\ DOMAIN stack = 1 .. Len(stack)
         /\ Caller \in Calls
         /\ Caller = stack[Len(stack)]
<1>1. stack \in Seq(Calls)
  BY DEF TypeOK
<1> QED
  BY <1>1, NonEmptySeq DEF Caller

LEMMA StartAtKeeps ==
  ASSUME TypeOK, StackInv, LookedAtInv, RankInv,
         CycleIsReal, CollectInv, ExpansionIsClosure, StartAt
  PROVE  IInv'
<1>1. PICK c \in Roots : /\ visit' = [visit EXCEPT ![c] = "in progress"]
                         /\ stack' = <<Call(c)>>
  BY DEF StartAt
<1>2. /\ pc = "search" /\ stack = <<>>
      /\ UNCHANGED <<subclasses, pc, cycle, rank, expandVars>>
  BY DEF StartAt
<1>3. c \in Classes /\ visit[c] = "new"
  BY DEF Roots
<1>4. Call(c) \in Calls /\ Call(c).class = c /\ Call(c).todo = subclasses[c]
  BY <1>3, HierarchyType DEF Call, Calls
<1>5. stack' = <<Call(c)>>
  BY <1>1
<1>6. DOMAIN stack' = 1 .. 1 /\ stack'[1] = Call(c) /\ stack' \in Seq(Calls)
  BY <1>4, <1>5
<1>7. DOMAIN stack = {}
  BY <1>2
<1>8. /\ RankInv' /\ DoneClasses' = DoneClasses
      /\ visit' \in [Classes -> {"new", "in progress", "done"}]
      /\ \A d \in Classes : visit'[d] = IF d = c THEN "in progress" ELSE visit[d]
  BY <1>1, <1>2, <1>3, EnterClass
<1>9. TypeOK'
  BY <1>2, <1>6, <1>8 DEF TypeOK, expandVars
<1>10. StackInv'
  <2>1. \A d \in Classes : visit[d] # "in progress"
    BY <1>7 DEF StackInv
  <2>2. \A i \in DOMAIN stack' : i = 1 /\ i + 1 \notin DOMAIN stack'
    BY <1>6
  <2>3. visit'[stack'[1].class] = "in progress"
    BY <1>3, <1>4, <1>6, <1>8
  <2>4. \A d \in Classes : visit'[d] = "in progress" => stack'[1].class = d
    BY <1>4, <1>6, <1>8, <2>1
  <2>5. 1 \in DOMAIN stack'
    BY <1>6
  <2>6. stack'[1].todo \subseteq subclasses'[stack'[1].class]
    BY <1>2, <1>4, <1>6
  <2> QED
    BY <2>2, <2>3, <2>4, <2>5, <2>6 DEF StackInv
<1>11. LookedAtInv'
  BY <1>2, <1>4, <1>6 DEF LookedAtInv
<1> QED
  BY <1>2, <1>8, <1>9, <1>10, <1>11, KeepExpansion DEF IInv, BuiltInv

LEMMA DescendKeeps ==
  ASSUME TypeOK, StackInv, LookedAtInv, RankInv,
         CycleIsReal, CollectInv, ExpansionIsClosure, Descend
  PROVE  IInv'
<1> DEFINE n == Len(stack)
<1>1. PICK c \in Caller.todo : /\ visit[c] = "new"
                               /\ visit' = [visit EXCEPT ![c] = "in progress"]
                               /\ stack' = Append(Proceed(c), Call(c))
  BY DEF Descend
<1>2. /\ pc = "search" /\ stack # <<>>
      /\ UNCHANGED <<subclasses, pc, cycle, rank, expandVars>>
  BY DEF Descend
<1>3. /\ n \in Nat /\ n >= 1 /\ DOMAIN stack = 1 .. n /\ n \in DOMAIN stack
      /\ Caller \in Calls /\ Caller = stack[n]
      /\ stack \in Seq(Calls)
  BY <1>2, TopOfStack
<1>b. Caller.class \in Classes /\ Caller.todo \subseteq Classes
  BY <1>3 DEF Calls
<1>c. Caller.todo \subseteq subclasses[Caller.class]
  <2>1. \A i \in DOMAIN stack : stack[i].todo \subseteq subclasses[stack[i].class]
    BY DEF StackInv
  <2> QED
    BY <1>3, <2>1
<1>4. c \in Classes /\ c \in subclasses[Caller.class] /\ visit[c] = "new"
  BY <1>1, <1>b, <1>c
<1>5. Call(c) \in Calls /\ Call(c).class = c /\ Call(c).todo = subclasses[c]
  BY <1>4, HierarchyType DEF Call, Calls
<1>6. /\ Proceed(c) \in Seq(Calls)
      /\ Len(Proceed(c)) = n
      /\ DOMAIN Proceed(c) = DOMAIN stack
      /\ \A i \in DOMAIN stack : Proceed(c)[i].class = stack[i].class
      /\ \A i \in DOMAIN stack : i # n => Proceed(c)[i] = stack[i]
      /\ Proceed(c)[n].todo = Caller.todo \ {c}
  BY <1>2, ProceedStack
<1> HIDE DEF n
<1>7. /\ stack' \in Seq(Calls)
      /\ DOMAIN stack' = 1 .. n + 1
      /\ \A i \in 1 .. n : stack'[i] = Proceed(c)[i]
      /\ stack'[n + 1] = Call(c)
  <2>1. /\ Append(Proceed(c), Call(c)) \in Seq(Calls)
        /\ Len(Append(Proceed(c), Call(c))) = Len(Proceed(c)) + 1
        /\ \A i \in 1 .. Len(Proceed(c)) :
              Append(Proceed(c), Call(c))[i] = Proceed(c)[i]
        /\ Append(Proceed(c), Call(c))[Len(Proceed(c)) + 1] = Call(c)
    BY <1>5, <1>6, AppendProperties
  <2>2. stack' \in Seq(Calls) /\ Len(stack') = n + 1
    BY <1>1, <1>6, <2>1
  <2>3. DOMAIN stack' = 1 .. n + 1
    BY <2>2
  <2> QED
    BY <1>1, <1>6, <2>1, <2>2, <2>3
<1>9. /\ RankInv' /\ DoneClasses' = DoneClasses
      /\ visit' \in [Classes -> {"new", "in progress", "done"}]
      /\ \A d \in Classes : visit'[d] = IF d = c THEN "in progress" ELSE visit[d]
  BY <1>1, <1>2, <1>4, EnterClass
<1>8. TypeOK'
  BY <1>2, <1>7, <1>9 DEF TypeOK, expandVars
<1>10. /\ \A i \in 1 .. n : stack'[i].class = stack[i].class
       /\ \A i \in 1 .. n : i # n => stack'[i] = stack[i]
       /\ stack'[n].todo = Caller.todo \ {c}
       /\ \A i \in 1 .. n + 1 : i \in 1 .. n \/ i = n + 1
  BY <1>3, <1>6, <1>7
<1>11. \A i \in 1 .. n : stack[i].class # c
  BY <1>3, <1>4 DEF StackInv
<1>d. \A i \in DOMAIN stack : stack[i].class \in Classes
  <2>1. \A i \in DOMAIN stack : stack[i] \in Calls
    BY <1>3
  <2> QED
    BY <2>1 DEF Calls
<1>e. n + 1 \in DOMAIN stack' /\ stack'[n + 1].class = c
  BY <1>3, <1>5, <1>7
<1>f. \A i \in DOMAIN stack' : i = n + 1 \/ i \in DOMAIN stack
  BY <1>3, <1>7
<1>g. \A i \in DOMAIN stack : stack'[i].class = stack[i].class /\ i \in DOMAIN stack'
  BY <1>3, <1>7, <1>10
<1>12. StackInv'
  <2>1. \A i \in DOMAIN stack' : visit'[stack'[i].class] = "in progress"
    <3>1. \A i \in DOMAIN stack : visit[stack[i].class] = "in progress"
      BY DEF StackInv
    <3> QED
      BY <1>4, <1>9, <1>d, <1>e, <1>f, <1>g, <3>1
  <2>2. \A d \in Classes : visit'[d] = "in progress" =>
          \E i \in DOMAIN stack' : stack'[i].class = d
    <3> SUFFICES ASSUME NEW d \in Classes, visit'[d] = "in progress"
                 PROVE  \E i \in DOMAIN stack' : stack'[i].class = d
      OBVIOUS
    <3>1. CASE d = c
      BY <3>1, <1>e
    <3>2. CASE d # c
      <4>1. visit[d] = "in progress"
        BY <3>2, <1>9
      <4>2. PICK i \in DOMAIN stack : stack[i].class = d
        BY <4>1 DEF StackInv
      <4> QED
        BY <4>2, <1>g
    <3> QED
      BY <3>1, <3>2
  <2>3. \A i, j \in DOMAIN stack' : stack'[i].class = stack'[j].class => i = j
    <3>1. \A i, j \in DOMAIN stack : stack[i].class = stack[j].class => i = j
      BY DEF StackInv
    <3>2. \A i \in DOMAIN stack : stack[i].class # c
      BY <1>3, <1>11
    <3> QED
      BY <1>e, <1>f, <1>g, <3>1, <3>2
  <2>4. \A i \in DOMAIN stack' : stack'[i].todo \subseteq subclasses[stack'[i].class]
    <3> SUFFICES ASSUME NEW i \in DOMAIN stack'
                 PROVE  stack'[i].todo \subseteq subclasses[stack'[i].class]
      OBVIOUS
    <3>1. CASE i = n + 1
      BY <3>1, <1>5, <1>7
    <3>2. CASE i = n
      BY <3>2, <1>3, <1>10, <1>c
    <3>3. CASE i \in 1 .. n /\ i # n
      BY <3>3, <1>2, <1>3, <1>10 DEF StackInv
    <3> QED
      BY <3>1, <3>2, <3>3, <1>7, <1>10
  <2>5. \A i \in DOMAIN stack' : i + 1 \in DOMAIN stack' =>
          stack'[i + 1].class \in subclasses[stack'[i].class]
    <3> SUFFICES ASSUME NEW i \in 1 .. n
                 PROVE  stack'[i + 1].class \in subclasses[stack'[i].class]
      BY <1>3, <1>7
    <3>1. CASE i = n
      BY <3>1, <1>3, <1>4, <1>5, <1>7, <1>10
    <3>2. CASE i # n
      <4>1. i + 1 \in 1 .. n
        BY <3>2, <1>3
      <4> QED
        BY <4>1, <1>2, <1>3, <1>10 DEF StackInv
    <3> QED
      BY <3>1, <3>2
  <2> QED
    BY <1>2, <2>1, <2>2, <2>3, <2>4, <2>5 DEF StackInv
<1>13. LookedAtInv'
  <2> SUFFICES ASSUME NEW i \in DOMAIN stack',
                      NEW t \in subclasses[stack'[i].class] \ stack'[i].todo
               PROVE  \/ visit'[t] = "done"
                      \/ i + 1 \in DOMAIN stack' /\ stack'[i + 1].class = t
    BY <1>2 DEF LookedAtInv
  <2>1. CASE i = n + 1
    BY <2>1, <1>5, <1>7
  <2>2. CASE i = n
    <3>1. t = c \/ t \in subclasses[stack[n].class] \ stack[n].todo
      BY <2>2, <1>3, <1>10
    <3>2. CASE t = c
      BY <2>2, <3>2, <1>3, <1>5, <1>7
    <3>3. CASE t \in subclasses[stack[n].class] \ stack[n].todo
      <4>1. visit[t] = "done"
        BY <3>3, <1>2, <1>3 DEF LookedAtInv
      <4>2. t # c
        BY <4>1, <1>4
      <4>3. t \in Classes
        BY <3>3, <1>3, <1>d, HierarchyType
      <4> QED
        BY <4>1, <4>2, <4>3, <1>9
    <3> QED
      BY <3>1, <3>2, <3>3
  <2>3. CASE i \in 1 .. n /\ i # n
    <3>1. i + 1 \in 1 .. n
      BY <2>3, <1>3
    <3>2. visit[t] = "done" \/ stack[i + 1].class = t
      BY <2>3, <3>1, <1>2, <1>3, <1>10 DEF LookedAtInv
    <3>3. visit[t] = "done" => visit'[t] = "done"
      <4>1. t \in Classes
        BY <2>3, <1>3, <1>10, <1>d, HierarchyType
      <4> QED
        BY <4>1, <1>4, <1>9
    <3> QED
      BY <3>1, <3>2, <3>3, <1>3, <1>7, <1>10
  <2> QED
    BY <2>1, <2>2, <2>3, <1>7, <1>10
<1> QED
  BY <1>2, <1>8, <1>9, <1>12, <1>13, KeepExpansion DEF IInv, BuiltInv

LEMMA SkipDoneKeeps ==
  ASSUME TypeOK, StackInv, LookedAtInv, RankInv,
         CycleIsReal, CollectInv, ExpansionIsClosure, SkipDone
  PROVE  IInv'
<1> DEFINE n == Len(stack)
<1>1. PICK c \in Caller.todo : visit[c] = "done" /\ stack' = Proceed(c)
  BY DEF SkipDone
<1>2. /\ pc = "search" /\ stack # <<>>
      /\ UNCHANGED <<subclasses, pc, visit, cycle, rank, expandVars>>
  BY DEF SkipDone
<1>3. n \in DOMAIN stack
  BY <1>2, TopOfStack
<1>4. /\ Proceed(c) \in Seq(Calls)
      /\ DOMAIN Proceed(c) = DOMAIN stack
      /\ \A i \in DOMAIN stack : Proceed(c)[i].class = stack[i].class
      /\ \A i \in DOMAIN stack : i # n => Proceed(c)[i] = stack[i]
      /\ Proceed(c)[n].todo = Caller.todo \ {c}
  BY <1>2, ProceedStack
<1>5. Caller = stack[n]
  BY DEF Caller
<1> HIDE DEF n
<1>6. /\ stack' \in Seq(Calls)
      /\ DOMAIN stack' = DOMAIN stack
      /\ \A i \in DOMAIN stack : stack'[i].class = stack[i].class
      /\ \A i \in DOMAIN stack : i # n => stack'[i].todo = stack[i].todo
      /\ stack'[n].todo = stack[n].todo \ {c}
  BY <1>1, <1>4, <1>5
<1>7. RankInv' /\ DoneClasses' = DoneClasses
  BY <1>2 DEF RankInv, DoneClasses
<1>8. TypeOK'
  BY <1>2, <1>6 DEF TypeOK, expandVars
<1>9. StackInv'
  <2>1. \A i \in DOMAIN stack : stack'[i].todo \subseteq stack[i].todo
    BY <1>6
  <2>2. \A i \in DOMAIN stack' : visit'[stack'[i].class] = "in progress"
    <3>1. \A i \in DOMAIN stack : visit[stack[i].class] = "in progress"
      BY DEF StackInv
    <3>2. \A i \in DOMAIN stack' : i \in DOMAIN stack /\ stack'[i].class = stack[i].class
      BY <1>6
    <3>3. visit' = visit
      BY <1>2
    <3> QED
      BY <3>1, <3>2, <3>3
  <2>3. \A d \in Classes : visit'[d] = "in progress" =>
          \E i \in DOMAIN stack' : stack'[i].class = d
    <3>1. \A d \in Classes : visit[d] = "in progress" =>
            \E i \in DOMAIN stack : stack[i].class = d
      BY DEF StackInv
    <3>2. \A i \in DOMAIN stack : i \in DOMAIN stack' /\ stack'[i].class = stack[i].class
      BY <1>6
    <3>3. visit' = visit
      BY <1>2
    <3> QED
      BY <3>1, <3>2, <3>3
  <2>4. \A i, j \in DOMAIN stack' : stack'[i].class = stack'[j].class => i = j
    BY <1>2, <1>6 DEF StackInv
  <2>5. \A i \in DOMAIN stack' : stack'[i].todo \subseteq subclasses[stack'[i].class]
    BY <1>2, <1>6, <2>1 DEF StackInv
  <2>6. \A i \in DOMAIN stack' : i + 1 \in DOMAIN stack' =>
          stack'[i + 1].class \in subclasses[stack'[i].class]
    BY <1>2, <1>6 DEF StackInv
  <2> QED
    BY <1>2, <2>2, <2>3, <2>4, <2>5, <2>6 DEF StackInv
<1>10. LookedAtInv'
  <2>1. ASSUME NEW i \in DOMAIN stack,
               NEW t \in subclasses[stack[i].class] \ stack'[i].todo
        PROVE  visit[t] = "done" \/ t \in subclasses[stack[i].class] \ stack[i].todo
    BY <1>1, <1>6
  <2> QED
    BY <1>2, <1>6, <2>1 DEF LookedAtInv
<1> QED
  BY <1>2, <1>7, <1>8, <1>9, <1>10, KeepExpansion DEF IInv, BuiltInv

LEMMA FindCycleKeeps ==
  ASSUME TypeOK, StackInv, RankInv, CollectInv, ExpansionIsClosure, FindCycle
  PROVE  IInv'
<1> DEFINE n == Len(stack)
<1>1. PICK c \in Caller.todo, i \in DOMAIN stack :
         /\ stack[i].class = c
         /\ cycle' = [j \in 1 .. n - i + 2 |->
                        IF j <= n - i + 1 THEN stack[i + j - 1].class ELSE c]
  BY DEF FindCycle
<1>2. /\ pc = "search" /\ stack # <<>> /\ pc' = "cyclic"
      /\ UNCHANGED <<subclasses, visit, stack, rank, expandVars>>
  BY DEF FindCycle
<1>3. /\ n \in Nat /\ n >= 1 /\ DOMAIN stack = 1 .. n
      /\ Caller \in Calls /\ Caller = stack[n]
      /\ stack \in Seq(Calls)
  BY <1>2, TopOfStack
<1>4. \A j \in DOMAIN stack : stack[j].class \in Classes
  <2>1. \A j \in DOMAIN stack : stack[j] \in Calls
    BY <1>3
  <2> QED
    BY <2>1 DEF Calls
<1>5. \A j \in DOMAIN stack : stack[j].todo \subseteq subclasses[stack[j].class]
  BY DEF StackInv
<1>6. \A j \in DOMAIN stack : j + 1 \in DOMAIN stack =>
         stack[j + 1].class \in subclasses[stack[j].class]
  BY DEF StackInv
<1> HIDE DEF n
<1>7. n \in DOMAIN stack /\ i \in 1 .. n
  BY <1>3
<1>8. c \in subclasses[stack[n].class] /\ c \in Classes
  BY <1>1, <1>3, <1>4, <1>5, <1>7
<1>9. i < n
  <2>1. i # n
    BY <1>1, <1>4, <1>7, <1>8, HierarchyType
  <2> QED
    BY <2>1, <1>3, <1>7
<1>10. /\ DOMAIN cycle' = 1 .. n - i + 2
       /\ \A j \in 1 .. n - i + 1 : cycle'[j] = stack[i + j - 1].class
       /\ cycle'[n - i + 2] = c
  BY <1>1, <1>3, <1>7
<1>11. cycle' \in Seq(Classes) /\ Len(cycle') = n - i + 2
  <2>1. \A j \in 1 .. n - i + 1 : i + j - 1 \in DOMAIN stack
    BY <1>3, <1>7
  <2>2. \A j \in 1 .. n - i + 2 : cycle'[j] \in Classes
    <3> SUFFICES ASSUME NEW j \in 1 .. n - i + 2 PROVE cycle'[j] \in Classes
      OBVIOUS
    <3>1. j = n - i + 2 \/ j \in 1 .. n - i + 1
      BY <1>3, <1>7
    <3> QED
      BY <3>1, <2>1, <1>4, <1>8, <1>10
  <2>3. n - i + 2 \in Nat
    BY <1>3, <1>7
  <2>4. cycle' \in [1 .. n - i + 2 -> Classes]
    BY <1>1, <2>2
  <2> QED
    BY <2>3, <2>4
<1>12. CycleIsReal'
  <2>1. Len(cycle') >= 3
    BY <1>3, <1>7, <1>9, <1>11
  <2>2. cycle'[1] = cycle'[Len(cycle')]
    <3>1. 1 \in 1 .. n - i + 1 /\ i + 1 - 1 = i
      BY <1>3, <1>7
    <3>2. cycle'[1] = stack[i].class
      BY <3>1, <1>10
    <3> QED
      BY <3>2, <1>1, <1>10, <1>11
  <2>3. \A j \in 1 .. n - i + 1 : cycle'[j + 1] \in subclasses[cycle'[j]]
    <3> SUFFICES ASSUME NEW j \in 1 .. n - i + 1
                 PROVE  cycle'[j + 1] \in subclasses[cycle'[j]]
      OBVIOUS
    <3>1. CASE j = n - i + 1
      <4>1. j + 1 = n - i + 2 /\ i + j - 1 = n
        BY <3>1, <1>3, <1>7
      <4> QED
        BY <4>1, <1>8, <1>10
    <3>2. CASE j # n - i + 1
      <4>1. /\ j + 1 \in 1 .. n - i + 1
            /\ i + (j + 1) - 1 = (i + j - 1) + 1
            /\ i + j - 1 \in DOMAIN stack
            /\ (i + j - 1) + 1 \in DOMAIN stack
        BY <3>2, <1>3, <1>7
      <4>2. stack[(i + j - 1) + 1].class \in subclasses[stack[i + j - 1].class]
        BY <4>1, <1>6
      <4>3. cycle'[j + 1] = stack[(i + j - 1) + 1].class
        BY <4>1, <1>10
      <4> QED
        BY <4>2, <4>3, <1>10
    <3> QED
      BY <3>1, <3>2
  <2>4. 1 .. Len(cycle') - 1 = 1 .. n - i + 1
    BY <1>3, <1>7, <1>11
  <2> QED
    BY <1>2, <2>1, <2>2, <2>3, <2>4 DEF CycleIsReal
<1>13. RankInv' /\ DoneClasses' = DoneClasses
  BY <1>2 DEF RankInv, DoneClasses
<1>14. TypeOK'
  BY <1>2, <1>11 DEF TypeOK, expandVars
<1>15. CollectInv' /\ ExpansionIsClosure'
  BY <1>2 DEF CollectInv, ExpansionIsClosure
<1> QED
  BY <1>2, <1>12, <1>13, <1>14, <1>15 DEF IInv, BuiltInv

LEMMA LeaveKeeps ==
  ASSUME TypeOK, StackInv, LookedAtInv, RankInv,
         CycleIsReal, CollectInv, ExpansionIsClosure, Leave
  PROVE  IInv'
<1> DEFINE n == Len(stack)
           done == Cardinality(DoneClasses)
<1>1. /\ pc = "search" /\ stack # <<>> /\ Caller.todo = {}
      /\ stack' = SubSeq(stack, 1, n - 1)
      /\ visit' = [visit EXCEPT ![Caller.class] = "done"]
      /\ rank' = [rank EXCEPT ![Caller.class] = 1 + done]
      /\ UNCHANGED <<subclasses, pc, cycle, expandVars>>
  BY DEF Leave, DoneClasses
<1>2. /\ n \in Nat /\ n >= 1 /\ DOMAIN stack = 1 .. n /\ n \in DOMAIN stack
      /\ Caller \in Calls /\ Caller = stack[n]
      /\ stack \in Seq(Calls)
  BY <1>1, TopOfStack
<1>3. PICK c \in Classes : Caller.class = c
  BY <1>2 DEF Calls
<1>4. visit[c] = "in progress"
  BY <1>2, <1>3 DEF StackInv
<1>5. /\ visit' \in [Classes -> {"new", "in progress", "done"}]
      /\ \A d \in Classes : visit'[d] = IF d = c THEN "done" ELSE visit[d]
  <2>1. visit' = [visit EXCEPT ![c] = "done"]
    BY <1>1, <1>3
  <2> QED
    BY <2>1 DEF TypeOK
<1>6. DoneClasses' = DoneClasses \cup {c} /\ c \notin DoneClasses
  BY <1>4, <1>5 DEF DoneClasses
<1>7. done \in Nat /\ Cardinality(DoneClasses') = done + 1
  BY <1>6, DoneCardinality, FS_AddElement
<1> HIDE DEF done
<1>8. /\ rank' \in [Classes -> Nat]
      /\ \A d \in Classes : rank'[d] = IF d = c THEN 1 + done ELSE rank[d]
  <2>1. rank' = [rank EXCEPT ![c] = 1 + done]
    BY <1>1, <1>3
  <2>2. rank \in [Classes -> Nat]
    BY DEF TypeOK
  <2> QED
    BY <2>1, <2>2, <1>7
<1>9. \A t \in subclasses[c] : t \in DoneClasses
  <2> SUFFICES ASSUME NEW t \in subclasses[c] PROVE t \in DoneClasses
    OBVIOUS
  <2>1. t \in subclasses[stack[n].class] \ stack[n].todo
    BY <1>1, <1>2, <1>3
  <2>2. n + 1 \notin DOMAIN stack
    BY <1>2
  <2>3. visit[t] = "done"
    BY <2>1, <2>2, <1>2 DEF LookedAtInv
  <2> QED
    BY <2>3, HierarchyType DEF DoneClasses
<1>10. RankInv'
  <2>1. \A d \in Classes : rank[d] \in Nat /\ rank[d] <= done
    BY DEF RankInv, TypeOK, done
  <2>2. \A d \in Classes : rank'[d] <= done + 1
    BY <1>7, <1>8, <2>1
  <2>3. \A d \in DoneClasses : d \in Classes /\ d # c
    BY <1>6 DEF DoneClasses
  <2>4. \A d \in DoneClasses' : \A t \in subclasses[d] :
            t \in DoneClasses' /\ rank'[t] < rank'[d]
    <3> SUFFICES ASSUME NEW d \in DoneClasses', NEW t \in subclasses[d]
                 PROVE  t \in DoneClasses' /\ rank'[t] < rank'[d]
      OBVIOUS
    <3>1. CASE d = c
      <4>1. t \in DoneClasses
        BY <3>1, <1>9
      <4> QED
        BY <3>1, <4>1, <1>6, <1>7, <1>8, <2>1, <2>3
    <3>2. CASE d # c
      <4>1. d \in DoneClasses
        BY <3>2, <1>6
      <4>2. t \in DoneClasses /\ rank[t] < rank[d]
        BY <4>1 DEF RankInv
      <4> QED
        BY <4>1, <4>2, <1>6, <1>8, <2>3
    <3> QED
      BY <3>1, <3>2
  <2> QED
    BY <2>2, <2>4, <1>1, <1>7 DEF RankInv
<1>11. /\ stack' \in Seq(Calls)
       /\ DOMAIN stack' = 1 .. n - 1
       /\ \A i \in 1 .. n - 1 : stack'[i] = stack[i]
  <2>1. /\ SubSeq(stack, 1, n - 1) \in Seq(Calls)
        /\ DOMAIN SubSeq(stack, 1, n - 1) = 1 .. n - 1
        /\ \A i \in 1 .. n - 1 : SubSeq(stack, 1, n - 1)[i] = stack[i]
    BY <1>1, <1>2, NonEmptySeq
  <2>2. stack' = SubSeq(stack, 1, n - 1)
    BY <1>1
  <2> QED
    BY <2>1, <2>2
<1> HIDE DEF n
<1>12. TypeOK'
  BY <1>1, <1>5, <1>8, <1>11 DEF TypeOK, expandVars
<1>13. \A i \in DOMAIN stack' :
         /\ i \in DOMAIN stack /\ i # n
         /\ stack'[i] = stack[i]
         /\ i + 1 \in DOMAIN stack
         /\ i + 1 \in DOMAIN stack' \/ i + 1 = n
  BY <1>2, <1>11
<1>14. \A i \in DOMAIN stack : i # n => i \in DOMAIN stack'
  BY <1>2, <1>11
<1>15. \A i \in DOMAIN stack : stack[i].class \in Classes
  <2>1. \A i \in DOMAIN stack : stack[i] \in Calls
    BY <1>2
  <2> QED
    BY <2>1 DEF Calls
<1>16. \A i \in DOMAIN stack : i # n => stack[i].class # c
  BY <1>2, <1>3 DEF StackInv
<1>17. StackInv'
  <2>1. \A i \in DOMAIN stack' : visit'[stack'[i].class] = "in progress"
    <3> SUFFICES ASSUME NEW i \in DOMAIN stack'
                 PROVE  visit'[stack'[i].class] = "in progress"
      OBVIOUS
    <3>1. i \in DOMAIN stack /\ i # n /\ stack'[i].class = stack[i].class
      BY <1>13
    <3>2. stack[i].class \in Classes /\ stack[i].class # c
      BY <3>1, <1>15, <1>16
    <3>3. visit[stack[i].class] = "in progress"
      BY <3>1 DEF StackInv
    <3>4. visit'[stack[i].class] = "in progress"
      BY <3>2, <3>3, <1>5
    <3> QED
      BY <3>1, <3>4
  <2>2. \A d \in Classes : visit'[d] = "in progress" =>
          \E i \in DOMAIN stack' : stack'[i].class = d
    <3> SUFFICES ASSUME NEW d \in Classes, visit'[d] = "in progress"
                 PROVE  \E i \in DOMAIN stack' : stack'[i].class = d
      OBVIOUS
    <3>1. d # c /\ visit[d] = "in progress"
      BY <1>5
    <3>2. PICK i \in DOMAIN stack : stack[i].class = d
      BY <3>1 DEF StackInv
    <3>3. i # n
      BY <3>1, <3>2, <1>2, <1>3
    <3> QED
      BY <3>2, <3>3, <1>13, <1>14
  <2>3. \A i, j \in DOMAIN stack' : stack'[i].class = stack'[j].class => i = j
    BY <1>13 DEF StackInv
  <2>4. \A i \in DOMAIN stack' : stack'[i].todo \subseteq subclasses[stack'[i].class]
    BY <1>13 DEF StackInv
  <2>5. \A i \in DOMAIN stack' : i + 1 \in DOMAIN stack' =>
          stack'[i + 1].class \in subclasses[stack'[i].class]
    BY <1>13 DEF StackInv
  <2> QED
    BY <1>1, <2>1, <2>2, <2>3, <2>4, <2>5 DEF StackInv
<1>18. LookedAtInv'
  <2> SUFFICES ASSUME NEW i \in DOMAIN stack',
                      NEW t \in subclasses[stack'[i].class] \ stack'[i].todo
               PROVE  \/ visit'[t] = "done"
                      \/ i + 1 \in DOMAIN stack' /\ stack'[i + 1].class = t
    BY <1>1 DEF LookedAtInv
  <2>1. t \in subclasses[stack[i].class] \ stack[i].todo /\ t \in Classes
    BY <1>13, <1>15, HierarchyType
  <2>2. visit[t] = "done" \/ stack[i + 1].class = t
    BY <2>1, <1>13 DEF LookedAtInv
  <2>3. CASE visit[t] = "done"
    BY <2>1, <2>3, <1>5
  <2>4. CASE stack[i + 1].class = t /\ i + 1 \in DOMAIN stack'
    BY <2>4, <1>13
  <2>5. CASE stack[i + 1].class = t /\ i + 1 = n
    BY <2>1, <2>5, <1>2, <1>3, <1>5
  <2> QED
    BY <2>2, <2>3, <2>4, <2>5, <1>13
<1> QED
  BY <1>1, <1>10, <1>12, <1>17, <1>18, KeepExpansion DEF IInv, BuiltInv

LEMMA BuiltKeeps ==
  ASSUME TypeOK, StackInv, RankInv, CycleIsReal, CollectInv, ExpansionIsClosure, Built
  PROVE  IInv'
<1>1. /\ pc = "search" /\ pc' = "built" /\ stack = <<>> /\ Roots = {}
      /\ UNCHANGED <<subclasses, searchVars, expandVars>>
  BY DEF Built
<1>2. RankInv' /\ DoneClasses' = DoneClasses
  BY <1>1, KeepRank
<1>3. \A c \in Classes : subclasses[c] # {} => c \in DoneClasses
  <2> SUFFICES ASSUME NEW c \in Classes, subclasses[c] # {}
               PROVE  c \in DoneClasses
    OBVIOUS
  <2>1. visit[c] # "new"
    BY <1>1 DEF Roots
  <2>2. visit[c] # "in progress"
    <3>1. DOMAIN stack = {}
      BY <1>1
    <3> QED
      BY <3>1 DEF StackInv
  <2>3. visit[c] \in {"new", "in progress", "done"}
    BY DEF TypeOK
  <2> QED
    BY <2>1, <2>2, <2>3 DEF DoneClasses
<1>4. TypeOK'
  BY <1>1 DEF TypeOK, searchVars, expandVars
<1> QED
  BY <1>1, <1>2, <1>3, <1>4, KeepExpansion DEF IInv, BuiltInv

LEMMA ExpandKeeps ==
  ASSUME TypeOK, RankInv, BuiltInv, Expand
  PROVE  IInv'
<1>1. /\ pc = "built" /\ pc' = "expanding" /\ class' \in Classes
      /\ policy' \in {"explicit", "inherited"}
      /\ pending' = IF policy' = "explicit" THEN <<class'>> ELSE <<>>
      /\ seen' = IF policy' = "explicit" THEN {} ELSE {class'}
      /\ UNCHANGED <<subclasses, searchVars>>
  BY DEF Expand
<1>2. RankInv' /\ DoneClasses' = DoneClasses
  BY <1>1, KeepRank
<1>3. TypeOK'
  <2>1. pending' \in Seq(Classes)
    BY <1>1
  <2>2. seen' \in SUBSET Classes
    BY <1>1
  <2> QED
    BY <1>1, <2>1, <2>2 DEF TypeOK, searchVars
<1>4. CycleIsReal' /\ ExpansionIsClosure'
  BY <1>1 DEF CycleIsReal, ExpansionIsClosure
<1>5. CollectInv'
  <2>1. CASE policy' = "inherited"
    BY <1>1, <2>1 DEF CollectInv
  <2>2. CASE policy' = "explicit"
    <3>1. pending' = <<class'>> /\ seen' = {}
      BY <1>1, <2>2
    <3>2. Range(pending') = {class'}
      BY <3>1 DEF Range
    <3> QED
      BY <2>2, <3>1, <3>2 DEF CollectInv
  <2> QED
    BY <1>1, <2>1, <2>2
<1>6. BuiltInv'
  BY <1>1, <1>2 DEF BuiltInv
<1> QED
  BY <1>1, <1>2, <1>3, <1>4, <1>5, <1>6 DEF IInv

\* Replacing the last element of a sequence by others.
LEMMA RangeOfReplaced ==
  ASSUME NEW S, NEW q \in Seq(S), q # <<>>, NEW f \in Seq(S)
  PROVE  /\ SubSeq(q, 1, Len(q) - 1) \o f \in Seq(S)
         /\ Range(q) \subseteq Range(SubSeq(q, 1, Len(q) - 1) \o f) \cup {q[Len(q)]}
         /\ Range(SubSeq(q, 1, Len(q) - 1) \o f) \subseteq Range(q) \cup Range(f)
         /\ Range(f) \subseteq Range(SubSeq(q, 1, Len(q) - 1) \o f)
<1> DEFINE front == SubSeq(q, 1, Len(q) - 1)
           n == Len(q)
<1>1. /\ n \in Nat /\ n >= 1 /\ DOMAIN q = 1 .. n
      /\ front \in Seq(S) /\ DOMAIN front = 1 .. n - 1
      /\ \A i \in 1 .. n - 1 : front[i] = q[i]
  BY NonEmptySeq
<1>2. Len(front) = n - 1
  BY <1>1
<1>3. /\ Len(f) \in Nat /\ DOMAIN f = 1 .. Len(f)
  OBVIOUS
<1> HIDE DEF front
<1>4. /\ front \o f \in Seq(S)
      /\ Len(front \o f) = Len(front) + Len(f)
      /\ \A i \in 1 .. Len(front) + Len(f) : (front \o f)[i] =
            IF i <= Len(front) THEN front[i] ELSE f[i - Len(front)]
  BY <1>1, ConcatProperties
<1> HIDE DEF n
<1> DEFINE r == front \o f
<1>5. /\ r \in Seq(S)
      /\ DOMAIN r = 1 .. n - 1 + Len(f)
      /\ \A i \in 1 .. n - 1 : r[i] = q[i]
      /\ \A i \in 1 .. Len(f) : r[n - 1 + i] = f[i]
  <2>1. DOMAIN r = 1 .. n - 1 + Len(f)
    BY <1>1, <1>2, <1>3, <1>4
  <2>2. \A i \in 1 .. n - 1 : r[i] = q[i]
    BY <1>1, <1>2, <1>3, <1>4
  <2>3. \A i \in 1 .. Len(f) : r[n - 1 + i] = f[i]
    BY <1>1, <1>2, <1>3, <1>4
  <2> QED
    BY <1>4, <2>1, <2>2, <2>3
<1> HIDE DEF r
<1>6. Range(q) \subseteq Range(r) \cup {q[n]}
  <2> SUFFICES ASSUME NEW i \in 1 .. n, i # n PROVE q[i] \in Range(r)
    BY <1>1 DEF Range
  <2>1. i \in 1 .. n - 1 /\ i \in DOMAIN r
    BY <1>1, <1>3, <1>5
  <2> QED
    BY <2>1, <1>5 DEF Range
<1>7. Range(r) \subseteq Range(q) \cup Range(f)
  <2> SUFFICES ASSUME NEW i \in DOMAIN r PROVE r[i] \in Range(q) \cup Range(f)
    BY DEF Range
  <2>1. CASE i \in 1 .. n - 1
    <3>1. i \in DOMAIN q
      BY <2>1, <1>1
    <3>2. r[i] = q[i]
      BY <2>1, <1>5
    <3> QED
      BY <3>1, <3>2 DEF Range
  <2>2. CASE i \notin 1 .. n - 1
    <3>1. i - (n - 1) \in 1 .. Len(f) /\ n - 1 + (i - (n - 1)) = i
      BY <2>2, <1>1, <1>3, <1>5
    <3>2. r[i] = f[i - (n - 1)]
      BY <3>1, <1>5
    <3> QED
      BY <3>1, <3>2, <1>3 DEF Range
  <2> QED
    BY <2>1, <2>2
<1>8. Range(f) \subseteq Range(r)
  <2> SUFFICES ASSUME NEW i \in 1 .. Len(f) PROVE f[i] \in Range(r)
    BY <1>3 DEF Range
  <2>1. n - 1 + i \in DOMAIN r
    BY <1>1, <1>3, <1>5
  <2> QED
    BY <2>1, <1>5 DEF Range
<1> QED
  BY <1>5, <1>6, <1>7, <1>8 DEF r, front, n

LEMMA CollectKeeps ==
  ASSUME TypeOK, RankInv, BuiltInv, CollectInv, Collect
  PROVE  IInv'
<1> DEFINE current == pending[Len(pending)]
<1>1. PICK found \in InOrder(subclasses[current] \ seen) :
         pending' = SubSeq(pending, 1, Len(pending) - 1) \o found
  BY DEF Collect
<1>2. /\ pc = "expanding" /\ pending # <<>>
      /\ seen' = seen \cup {current}
      /\ UNCHANGED <<subclasses, pc, searchVars, class, policy>>
  BY DEF Collect
<1>3. pending \in Seq(Classes) /\ seen \subseteq Classes
  BY DEF TypeOK
<1>4. current \in Classes /\ current \in Range(pending)
  <2>1. /\ current \in Classes /\ DOMAIN pending = 1 .. Len(pending)
        /\ Len(pending) \in Nat /\ Len(pending) >= 1
    BY <1>2, <1>3, NonEmptySeq
  <2>2. Len(pending) \in DOMAIN pending
    BY <2>1
  <2> QED
    BY <2>1, <2>2 DEF Range
<1>5. subclasses[current] \subseteq Classes
  BY <1>4, HierarchyType
<1>6. Range(found) = subclasses[current] \ seen /\ found \in Seq(Classes)
  <2> DEFINE new == subclasses[current] \ seen
  <2>1. found \in [1 .. Cardinality(new) -> new] /\ Range(found) = new
    BY DEF InOrder
  <2>2. IsFiniteSet(new)
    <3>1. IsFiniteSet(Classes)
      BY FS_Interval, ClassHierarchyAssumption DEF Classes
    <3>2. new \subseteq Classes
      BY <1>5
    <3> QED
      BY <3>1, <3>2, FS_Subset
  <2>3. Cardinality(new) \in Nat
    BY <2>2, FS_CardinalityType
  <2> DEFINE k == Cardinality(new)
  <2>4. k \in Nat /\ found \in [1 .. k -> Classes]
    BY <2>1, <2>3, <1>5
  <2> HIDE DEF k
  <2>5. found \in Seq(Classes)
    BY <2>4
  <2> QED
    BY <2>1, <2>5
<1> DEFINE r == SubSeq(pending, 1, Len(pending) - 1) \o found
<1>7. /\ r \in Seq(Classes)
      /\ Range(pending) \subseteq Range(r) \cup {current}
      /\ Range(r) \subseteq Range(pending) \cup Range(found)
      /\ Range(found) \subseteq Range(r)
  BY <1>2, <1>3, <1>6, RangeOfReplaced
<1>8. pending' = r
  BY <1>1
<1> HIDE DEF r, current
<1>9. /\ pending' \in Seq(Classes)
      /\ Range(pending) \subseteq Range(pending') \cup {current}
      /\ Range(pending') \subseteq Range(pending) \cup (subclasses[current] \ seen)
      /\ subclasses[current] \ seen \subseteq Range(pending')
  BY <1>6, <1>7, <1>8
<1>10. RankInv' /\ DoneClasses' = DoneClasses
  BY <1>2, KeepRank
<1>11. TypeOK'
  <2>1. seen' \in SUBSET Classes
    BY <1>2, <1>3, <1>4
  <2> QED
    BY <1>2, <1>9, <2>1 DEF TypeOK, searchVars
<1>12. CycleIsReal' /\ ExpansionIsClosure'
  BY <1>2 DEF CycleIsReal, ExpansionIsClosure
<1>13. BuiltInv'
  BY <1>2, <1>10 DEF BuiltInv
<1>14. CollectInv'
  <2>1. policy # "inherited"
    BY <1>2 DEF CollectInv
  <2>2. /\ class \in seen \cup Range(pending)
        /\ \A c \in seen : subclasses[c] \subseteq seen \cup Range(pending)
        /\ \A S \in SUBSET Classes :
              class \in S /\ ClosedUnderSubclasses(S)
                 => seen \cup Range(pending) \subseteq S
    BY <1>2, <2>1 DEF CollectInv
  <2>3. class \in seen' \cup Range(pending')
    BY <1>2, <1>9, <2>2
  <2>4. \A c \in seen' : subclasses[c] \subseteq seen' \cup Range(pending')
    <3> SUFFICES ASSUME NEW c \in seen', NEW s \in subclasses[c]
                 PROVE  s \in seen' \cup Range(pending')
      OBVIOUS
    <3>1. CASE c = current
      BY <3>1, <1>2, <1>9
    <3>2. CASE c \in seen
      BY <3>2, <1>2, <1>9, <2>2
    <3> QED
      BY <3>1, <3>2, <1>2
  <2>5. ASSUME NEW S \in SUBSET Classes, class \in S, ClosedUnderSubclasses(S)
        PROVE  seen' \cup Range(pending') \subseteq S
    <3>1. seen \cup Range(pending) \subseteq S
      BY <2>2, <2>5
    <3>2. current \in S
      BY <3>1, <1>4
    <3>3. subclasses[current] \subseteq S
      BY <3>2, <2>5 DEF ClosedUnderSubclasses
    <3> QED
      BY <3>1, <3>2, <3>3, <1>2, <1>9
  <2>6. \A S \in SUBSET Classes :
            class \in S /\ ClosedUnderSubclasses(S)' => seen' \cup Range(pending') \subseteq S
    BY <2>5, <1>2 DEF ClosedUnderSubclasses
  <2>7. \A c \in seen' : subclasses'[c] \subseteq seen' \cup Range(pending')
    BY <2>4, <1>2
  <2> QED
    BY <1>2, <2>1, <2>3, <2>6, <2>7 DEF CollectInv, ClosedUnderSubclasses
<1> QED
  BY <1>2, <1>10, <1>11, <1>12, <1>13, <1>14 DEF IInv

LEMMA ExpandedKeeps ==
  ASSUME TypeOK, RankInv, BuiltInv, CollectInv, Expanded
  PROVE  IInv'
<1>1. /\ pc = "expanding" /\ pc' = "expanded" /\ pending = <<>>
      /\ UNCHANGED <<subclasses, searchVars, expandVars>>
  BY DEF Expanded
<1>2. RankInv' /\ DoneClasses' = DoneClasses
  BY <1>1, KeepRank
<1>3. TypeOK'
  BY <1>1 DEF TypeOK, searchVars, expandVars
<1>4. CycleIsReal' /\ CollectInv'
  BY <1>1 DEF CycleIsReal, CollectInv
<1>5. BuiltInv'
  BY <1>1, <1>2 DEF BuiltInv
<1>6. ExpansionIsClosure
  BY <1>1 DEF ExpansionIsClosure
<1>7. ExpansionIsClosure'
  <2>1. Range(pending) = {}
    BY <1>1 DEF Range
  <2>2. /\ subclasses' = subclasses /\ seen' = seen
        /\ class' = class /\ policy' = policy
    BY <1>1 DEF expandVars
  <2>3. CASE policy = "inherited"
    BY <1>1, <2>2, <2>3 DEF CollectInv, ExpansionIsClosure
  <2>4. CASE policy # "inherited"
    <3>1. /\ class \in seen
          /\ ClosedUnderSubclasses(seen)
          /\ \A S \in SUBSET Classes :
                class \in S /\ ClosedUnderSubclasses(S) => seen \subseteq S
      BY <1>1, <2>1, <2>4 DEF CollectInv, ClosedUnderSubclasses
    <3> QED
      BY <1>1, <2>2, <2>4, <3>1 DEF ExpansionIsClosure, ClosedUnderSubclasses
  <2> QED
    BY <2>3, <2>4
<1> QED
  BY <1>1, <1>2, <1>3, <1>4, <1>5, <1>7 DEF IInv

LEMMA StutterKeeps == IInv /\ UNCHANGED vars => IInv'
<1> SUFFICES ASSUME IInv, UNCHANGED vars PROVE IInv'
  OBVIOUS
<1>1. /\ TypeOK' /\ RankInv' /\ CycleIsReal' /\ CollectInv' /\ ExpansionIsClosure'
  BY DEF IInv, vars, searchVars, expandVars, TypeOK, RankInv, DoneClasses,
         CycleIsReal, CollectInv, ExpansionIsClosure, ClosedUnderSubclasses
<1>2. pc' = "search" => StackInv' /\ LookedAtInv'
  BY DEF IInv, vars, searchVars, expandVars, StackInv, LookedAtInv
<1>3. pc' \in {"built", "expanding", "expanded"} =>
         \A c \in Classes : subclasses'[c] # {} => c \in DoneClasses'
  BY DEF IInv, BuiltInv, vars, searchVars, expandVars, DoneClasses
<1> QED
  BY <1>1, <1>2, <1>3 DEF IInv, BuiltInv

LEMMA NextIInv == IInv /\ [Next]_vars => IInv'
<1> SUFFICES ASSUME IInv, [Next]_vars PROVE IInv'
  OBVIOUS
<1>1. /\ TypeOK /\ RankInv /\ CycleIsReal /\ CollectInv /\ ExpansionIsClosure
      /\ pc = "search" => StackInv /\ LookedAtInv
      /\ BuiltInv
  BY DEF IInv
<1>2. CASE StartAt
  <2>1. pc = "search"
    BY <1>2 DEF StartAt
  <2> QED
    BY <1>1, <1>2, <2>1, StartAtKeeps
<1>3. CASE Descend
  <2>1. pc = "search"
    BY <1>3 DEF Descend
  <2> QED
    BY <1>1, <1>3, <2>1, DescendKeeps
<1>4. CASE SkipDone
  <2>1. pc = "search"
    BY <1>4 DEF SkipDone
  <2> QED
    BY <1>1, <1>4, <2>1, SkipDoneKeeps
<1>5. CASE FindCycle
  <2>1. pc = "search"
    BY <1>5 DEF FindCycle
  <2> QED
    BY <1>1, <1>5, <2>1, FindCycleKeeps
<1>6. CASE Leave
  <2>1. pc = "search"
    BY <1>6 DEF Leave
  <2> QED
    BY <1>1, <1>6, <2>1, LeaveKeeps
<1>7. CASE Built
  <2>1. pc = "search"
    BY <1>7 DEF Built
  <2> QED
    BY <1>1, <1>7, <2>1, BuiltKeeps
<1>8. CASE Expand
  BY <1>1, <1>8, ExpandKeeps
<1>9. CASE Collect
  BY <1>1, <1>9, CollectKeeps
<1>10. CASE Expanded
  BY <1>1, <1>10, ExpandedKeeps
<1>11. CASE UNCHANGED vars
  BY <1>11, StutterKeeps
<1> QED
  BY <1>2, <1>3, <1>4, <1>5, <1>6, <1>7, <1>8, <1>9, <1>10, <1>11 DEF Next

\* When nothing is left to search, the ranks witness that the hierarchy is acyclic.
LEMMA RanksShowAcyclic == IInv => BuiltIsAcyclic
<1> SUFFICES ASSUME IInv, pc \in {"built", "expanding", "expanded"}
             PROVE  \E height \in [Classes -> 0 .. ClassCount] :
                       \A c \in Classes : \A s \in subclasses[c] : height[s] < height[c]
  BY DEF BuiltIsAcyclic
<1>1. /\ rank \in [Classes -> Nat] /\ RankInv
      /\ \A c \in Classes : subclasses[c] # {} => c \in DoneClasses
  BY DEF IInv, BuiltInv, TypeOK
<1>2. \A c \in Classes : rank[c] \in 0 .. ClassCount
  BY <1>1, DoneCardinality, ClassHierarchyAssumption DEF RankInv
<1>3. rank \in [Classes -> 0 .. ClassCount]
  BY <1>1, <1>2
<1>4. \A c \in Classes : \A s \in subclasses[c] : rank[s] < rank[c]
  BY <1>1 DEF RankInv
<1> QED
  BY <1>3, <1>4

-----------------------------------------------------------------------------
\* The invariant holds in every reachable state.
THEOREM Invariance == SafeSpec => []IInv
<1>1. Init => IInv
  BY InitIInv
<1>2. IInv /\ [Next]_vars => IInv'
  BY NextIInv
<1> QED
  BY <1>1, <1>2, PTL DEF SafeSpec

\* Every variable keeps its type.
THEOREM TypeCorrect == SafeSpec => []TypeOK
<1>1. IInv => TypeOK
  BY DEF IInv
<1> QED
  BY <1>1, Invariance, PTL

\* What build (hierarchy.rs) rejects has the cycle it reports.
THEOREM RejectsRightly == SafeSpec => []CycleIsReal
<1>1. IInv => CycleIsReal
  BY DEF IInv
<1> QED
  BY <1>1, Invariance, PTL

\* What build accepts has no cycle.
THEOREM AcceptsRightly == SafeSpec => []BuiltIsAcyclic
BY Invariance, RanksShowAcyclic, PTL

\* with_subclasses collects a class and all its subclasses, and nothing else.
THEOREM ExpandsRightly == SafeSpec => []ExpansionIsClosure
<1>1. IInv => ExpansionIsClosure
  BY DEF IInv
<1> QED
  BY <1>1, Invariance, PTL

\* build rejects exactly the hierarchies that have a cycle.
THEOREM RejectsCycles == SafeSpec => []RejectsExactlyCycles
<1>1. CycleIsReal /\ BuiltIsAcyclic => RejectsExactlyCycles
  BY DEF RejectsExactlyCycles
<1> QED
  BY <1>1, RejectsRightly, AcceptsRightly, PTL
=============================================================================
