--------------------------- MODULE TraversalProofs ---------------------------
(***************************************************************************)
(* Theorems about Traversal, for every set of nodes, every address map and *)
(* every program that satisfies ProgramsAssumption.                        *)
(*                                                                         *)
(* What holds of the walk at its end rests on one inductive invariant,     *)
(* Inv: the addresses in Covered are never lost, and they hold the entry,  *)
(* every successor of a dumped node and the first successor of every node  *)
(* on the stack.                                                           *)
(***************************************************************************)
EXTENDS Traversal, SequenceTheorems, FiniteSetTheorems, TLAPS

-----------------------------------------------------------------------------
(***************************************************************************)
(* Sequences as stacks                                                     *)
(***************************************************************************)
Elems(s) == {s[i] : i \in 1..Len(s)}

\* Pushing adds one element at the end (std::vector::push_back).
LEMMA PushFacts ==
  ASSUME NEW S, NEW s \in Seq(S), NEW e \in S
  PROVE  /\ Append(s, e) \in Seq(S)
         /\ Append(s, e) # <<>>
         /\ Len(s) \in Nat
         /\ Len(Append(s, e)) = Len(s) + 1
         /\ \A i \in 1..Len(s) : Append(s, e)[i] = s[i]
         /\ Append(s, e)[Len(s) + 1] = e
         /\ Elems(Append(s, e)) = Elems(s) \cup {e}
<1>1. /\ Append(s, e) \in Seq(S)
      /\ Append(s, e) # <<>>
      /\ Len(Append(s, e)) = Len(s) + 1
      /\ \A i \in 1..Len(s) : Append(s, e)[i] = s[i]
      /\ Append(s, e)[Len(s) + 1] = e
  BY AppendProperties
<1>2. Len(s) \in Nat
  BY LenProperties
<1>3. 1..(Len(s) + 1) = 1..Len(s) \cup {Len(s) + 1}
  BY <1>2
<1>4. Elems(Append(s, e)) = Elems(s) \cup {e}
  BY <1>1, <1>3 DEF Elems
<1> QED
  BY <1>1, <1>2, <1>4

\* Popping takes the last element away and leaves the others where they are.
LEMMA PopFacts ==
  ASSUME NEW S, NEW s \in Seq(S), s # <<>>
  PROVE  LET p == SubSeq(s, 1, Len(s) - 1)
         IN  /\ p \in Seq(S)
             /\ Len(s) \in Nat \ {0}
             /\ Len(p) = Len(s) - 1
             /\ \A i \in 1..Len(p) : p[i] = s[i]
             /\ s[Len(s)] \in Elems(s)
             /\ Elems(p) \cup {s[Len(s)]} = Elems(s)
<1> DEFINE p == SubSeq(s, 1, Len(s) - 1)
<1>1. Len(s) \in Nat /\ Len(s) # 0
  BY LenProperties, EmptySeq
<1>2. \A i \in 1..Len(s) : s[i] \in S
  BY ElementOfSeq
<1>3. \A i \in 1..(Len(s) - 1) : s[i] \in S
  BY <1>1, <1>2
<1>4. /\ p \in Seq(S)
      /\ Len(p) = IF 1 <= Len(s) - 1 THEN (Len(s) - 1) - 1 + 1 ELSE 0
      /\ \A i \in 1..((Len(s) - 1) - 1 + 1) : p[i] = s[1 + i - 1]
  <2>1. 1 \in Int /\ Len(s) - 1 \in Int
    BY <1>1
  <2> QED
    BY <2>1, <1>3, SubSeqProperties
<1> HIDE DEF p
<1>8. Len(p) = Len(s) - 1
  <2>1. \A k \in Nat \ {0} : (IF 1 <= k - 1 THEN (k - 1) - 1 + 1 ELSE 0) = k - 1
    OBVIOUS
  <2>2. Len(s) \in Nat \ {0}
    BY <1>1
  <2>3. (IF 1 <= Len(s) - 1 THEN (Len(s) - 1) - 1 + 1 ELSE 0) = Len(s) - 1
    BY <2>1, <2>2
  <2> QED
    BY <1>4, <2>3
<1>9. \A i \in 1..Len(p) : p[i] = s[i]
  BY <1>1, <1>4, <1>8
<1>5. 1..Len(s) = 1..(Len(s) - 1) \cup {Len(s)}
  BY <1>1
<1>6. Elems(p) \cup {s[Len(s)]} = Elems(s)
  BY <1>8, <1>9, <1>5 DEF Elems
<1>7. s[Len(s)] \in Elems(s)
  BY <1>6
<1> QED
  BY <1>1, <1>4, <1>6, <1>7, <1>8, <1>9 DEF p

\* A sequence that is not empty has a first element, and all are in its set.
LEMMA ElemFacts ==
  ASSUME NEW S, NEW s \in Seq(S)
  PROVE  /\ Len(s) \in Nat
         /\ \A i \in 1..Len(s) : s[i] \in S
         /\ Elems(s) \subseteq S
         /\ s # <<>> => 1 \in 1..Len(s)
         /\ s = <<>> => Elems(s) = {}
<1>1. Len(s) \in Nat /\ \A i \in 1..Len(s) : s[i] \in S
  BY LenProperties, ElementOfSeq
<1>2. s # <<>> => Len(s) # 0
  BY EmptySeq
<1>3. s = <<>> => Len(s) = 0
  BY EmptySeq
<1> QED
  BY <1>1, <1>2, <1>3 DEF Elems

-----------------------------------------------------------------------------
(***************************************************************************)
(* Type correctness                                                        *)
(***************************************************************************)
LEMMA TypeInit == Init => TypeOK
<1> SUFFICES ASSUME Init PROVE TypeOK
  OBVIOUS
<1>1. PICK p \in Programs : next = p.next /\ addr = p.addr
  BY DEF Init
<1>2. next \in [Node -> Seq(Node)] /\ addr \in [Node -> Addr]
  BY <1>1, ProgramsAssumption
<1>3. stack \in Seq(Node)
  BY EmptySeq DEF Init
<1> QED
  BY <1>2, <1>3, RootAssumption DEF Init, TypeOK

\* The top of the stack is a node and so are its successors.
LEMMA TopFacts ==
  ASSUME TypeOK, stack # <<>>
  PROVE  /\ Top \in Node
         /\ Popped \in Seq(Node)
         /\ Children(Top) \subseteq Node
<1>1. Top \in Node /\ Popped \in Seq(Node)
  BY PopFacts, ElemFacts DEF TypeOK, Top, Popped, Elems
<1>2. next[Top] \in Seq(Node)
  BY <1>1 DEF TypeOK
<1> QED
  BY <1>1, <1>2, ElemFacts DEF Children

LEMMA TypeStep == TypeOK /\ [Next]_vars => TypeOK'
<1> SUFFICES ASSUME TypeOK, [Next]_vars PROVE TypeOK'
  OBVIOUS
<1>0. next[current] \in Seq(Node)
  BY DEF TypeOK
<1>1. CASE PushLeaf
  <2>1. Append(stack, current) \in Seq(Node)
    BY PushFacts DEF TypeOK
  <2> QED
    BY <1>1, <2>1 DEF PushLeaf, TypeOK
<1>2. CASE Descend
  <2>1. Append(stack, current) \in Seq(Node)
    BY PushFacts DEF TypeOK
  <2>2. next[current][1] \in Node
    BY <1>0, <1>2, ElemFacts DEF Descend
  <2> QED
    BY <1>2, <2>1, <2>2 DEF Descend, TypeOK
<1>3. CASE StopDescent
  BY <1>3 DEF StopDescent, TypeOK
<1>4. CASE PopAndDump
  BY <1>4, TopFacts DEF PopAndDump, Destackable, Destack, TypeOK
<1>5. CASE PopSilently
  BY <1>5, TopFacts DEF PopSilently, Destackable, TypeOK
<1>6. CASE TakeNextChild
  <2>1. current' \in Children(Top)
    BY <1>6 DEF TakeNextChild, Children
  <2>2. current' \in Node
    BY <1>6, <2>1, TopFacts DEF TakeNextChild, Branching
  <2> QED
    BY <1>6, <2>2 DEF TakeNextChild, TypeOK
<1>7. CASE CutFeet
  <2>1. stack # <<>>
    BY <1>7 DEF CutFeet, Branching
  <2>2. Popped # <<>> => Popped[Len(Popped)] \in Node
    <3>1. Popped \in Seq(Node)
      BY <2>1, TopFacts
    <3> QED
      BY <3>1, PopFacts, ElemFacts
  <2> QED
    BY <1>7, <2>1, <2>2, TopFacts DEF CutFeet, Destack, TypeOK
<1>8. CASE Return
  BY <1>8 DEF Return, TypeOK
<1>9. CASE UNCHANGED vars
  BY <1>9 DEF vars, TypeOK
<1> QED
  BY <1>1, <1>2, <1>3, <1>4, <1>5, <1>6, <1>7, <1>8, <1>9 DEF Next

\* The walk's state keeps its shape; in particular current_node, which is
\* dereferenced without a test, is a node all along.
THEOREM TypeCorrect == Spec => []TypeOK
<1> QED
  BY TypeInit, TypeStep, PTL DEF Spec

-----------------------------------------------------------------------------
(***************************************************************************)
(* The two ways in which a step changes the stack                          *)
(***************************************************************************)
Distinct(s) == \A i, j \in 1..Len(s) : s[i] = s[j] => i = j

LEMMA PushDistinct ==
  ASSUME NEW S, NEW s \in Seq(S), NEW e \in S, Distinct(s), e \notin Elems(s)
  PROVE  Distinct(Append(s, e))
<1> DEFINE t == Append(s, e)
<1>1. /\ Len(s) \in Nat
      /\ Len(t) = Len(s) + 1
      /\ \A i \in 1..Len(s) : t[i] = s[i]
      /\ t[Len(s) + 1] = e
  BY PushFacts
<1> HIDE DEF t
<1>2. \A i \in 1..Len(t) : i \in 1..Len(s) \/ i = Len(s) + 1
  BY <1>1
<1>3. \A i \in 1..Len(s) : s[i] # e
  BY DEF Elems
<1>4. Distinct(t)
  BY <1>1, <1>2, <1>3 DEF Distinct
<1> QED
  BY <1>4 DEF t

LEMMA PopDistinct ==
  ASSUME NEW S, NEW s \in Seq(S), s # <<>>, Distinct(s)
  PROVE  /\ Distinct(SubSeq(s, 1, Len(s) - 1))
         /\ s[Len(s)] \notin Elems(SubSeq(s, 1, Len(s) - 1))
<1> DEFINE p == SubSeq(s, 1, Len(s) - 1)
<1>1. /\ Len(s) \in Nat \ {0}
      /\ Len(p) = Len(s) - 1
      /\ \A i \in 1..Len(p) : p[i] = s[i]
  BY PopFacts
<1> HIDE DEF p
<1>2. \A i \in 1..Len(p) : i \in 1..Len(s) /\ i # Len(s)
  BY <1>1
<1>3. Len(s) \in 1..Len(s)
  BY <1>1
<1>4. Distinct(p)
  BY <1>1, <1>2 DEF Distinct
<1>5. s[Len(s)] \notin Elems(p)
  BY <1>1, <1>2, <1>3 DEF Distinct, Elems
<1> QED
  BY <1>4, <1>5 DEF p

\* Pushing current_node, which is not on the stack.
LEMMA PushStep ==
  ASSUME TypeOK, current \notin OnStack, stack' = Append(stack, current)
  PROVE  /\ OnStack' = OnStack \cup {current}
         /\ Top' = current
         /\ stack' # <<>>
         /\ Len(stack) \in Nat
         /\ Len(stack') = Len(stack) + 1
         /\ \A i \in 1..Len(stack) : stack'[i] = stack[i]
         /\ Distinct(stack) => Distinct(stack')
<1>1. stack \in Seq(Node) /\ current \in Node
  BY DEF TypeOK
<1>2. OnStack = Elems(stack) /\ OnStack' = Elems(stack')
  BY DEF OnStack, Elems
<1>3. Distinct(stack) => Distinct(stack')
  BY <1>1, <1>2, PushDistinct
<1>4. /\ Len(stack) \in Nat
      /\ stack' # <<>>
      /\ Len(stack') = Len(stack) + 1
      /\ \A i \in 1..Len(stack) : stack'[i] = stack[i]
      /\ stack'[Len(stack) + 1] = current
      /\ Elems(stack') = Elems(stack) \cup {current}
  BY <1>1, PushFacts
<1>5. Top' = current
  BY <1>4 DEF Top
<1> QED
  BY <1>2, <1>3, <1>4, <1>5

\* Popping the top.
LEMMA PopStep ==
  ASSUME TypeOK, stack # <<>>, stack' = Popped
  PROVE  /\ OnStack = OnStack' \cup {Top}
         /\ Len(stack) \in Nat \ {0}
         /\ Len(stack') = Len(stack) - 1
         /\ \A i \in 1..Len(stack') : stack'[i] = stack[i]
         /\ stack' # <<>> => Top' \in OnStack'
         /\ Distinct(stack) => Distinct(stack') /\ Top \notin OnStack'
<1>1. stack \in Seq(Node)
  BY DEF TypeOK
<1>2. OnStack = Elems(stack) /\ OnStack' = Elems(stack')
  BY DEF OnStack, Elems
<1>3. /\ stack' \in Seq(Node)
      /\ Len(stack) \in Nat \ {0}
      /\ Len(stack') = Len(stack) - 1
      /\ \A i \in 1..Len(stack') : stack'[i] = stack[i]
      /\ Elems(stack') \cup {Top} = Elems(stack)
  BY <1>1, PopFacts DEF Popped, Top
<1>4. stack' # <<>> => Top' \in OnStack'
  BY <1>2, <1>3, PopFacts DEF Top
<1>5. Distinct(stack) => Distinct(stack') /\ Top \notin OnStack'
  BY <1>1, <1>2, PopDistinct DEF Popped, Top
<1> QED
  BY <1>2, <1>3, <1>4, <1>5

-----------------------------------------------------------------------------
(***************************************************************************)
(* The stack                                                               *)
(***************************************************************************)
\* StackDiscipline is not inductive by itself: a descent also needs to know
\* that the node in hand was not dumped yet.
DisciplineInv == StackDiscipline /\ (pc = "left" => current \notin visited)

LEMMA DisciplineStep == TypeOK /\ DisciplineInv /\ [Next]_vars => DisciplineInv'
<1> SUFFICES ASSUME TypeOK, DisciplineInv, [Next]_vars
             PROVE  DisciplineInv'
  OBVIOUS
<1> USE DEF DisciplineInv, StackDiscipline, Distinct
<1>1. CASE PushLeaf
  <2>1. CASE current \in OnStack
    BY <1>1, <2>1 DEF PushLeaf, OnStack
  <2>2. CASE current \notin OnStack
    BY <1>1, <2>2, PushStep DEF PushLeaf
  <2> QED
    BY <2>1, <2>2
<1>2. CASE Descend
  <2>1. OnStack' \cap visited' = {}
    BY <1>2, PushStep DEF Descend
  <2>2. current' \notin visited'
    BY <1>2 DEF Descend
  <2> QED
    BY <1>2, <2>1, <2>2, PushStep DEF Descend
<1>3. CASE StopDescent
  BY <1>3 DEF StopDescent, OnStack
<1>4. CASE PopAndDump
  BY <1>4, PopStep DEF PopAndDump, Destackable, Destack
<1>5. CASE PopSilently
  BY <1>5, PopStep DEF PopSilently, Destackable
<1>6. CASE TakeNextChild
  BY <1>6 DEF TakeNextChild, OnStack, Unvisited
<1>7. CASE CutFeet
  <2>1. stack # <<>> /\ stack' = Popped /\ visited' = visited \cup {Top}
    BY <1>7 DEF CutFeet, Branching, Destack
  <2>2. stack' # <<>> => current' = Top'
    BY <1>7, <2>1 DEF CutFeet, Top
  <2>3. pc' = "left" => stack' # <<>>
    BY <1>7, <2>1 DEF CutFeet
  <2>4. Distinct(stack') /\ OnStack' \cap visited' = {}
    BY <2>1, PopStep
  <2>5. pc' = "left" => current' \notin visited'
    BY <2>1, <2>2, <2>3, <2>4, PopStep
  <2> QED
    BY <2>4, <2>5
<1>8. CASE Return
  BY <1>8 DEF Return, OnStack
<1>9. CASE UNCHANGED vars
  BY <1>9 DEF vars, OnStack
<1> QED
  BY <1>1, <1>2, <1>3, <1>4, <1>5, <1>6, <1>7, <1>8, <1>9 DEF Next

\* No node is on the stack twice and none is pushed again after it was dumped,
\* on every graph: each pointer is therefore collected at most once.
THEOREM StackDisciplineHolds == Spec => []StackDiscipline
<1>1. Init => DisciplineInv
  BY LenProperties, EmptySeq DEF Init, DisciplineInv, StackDiscipline, OnStack
<1>2. DisciplineInv => StackDiscipline
  BY DEF DisciplineInv
<1> QED
  BY <1>1, <1>2, TypeCorrect, DisciplineStep, PTL DEF Spec

\* A node that is about to be pushed is a successor of the top.
PathInv ==
  /\ StackIsPath
  /\ pc = "left" /\ current \notin OnStack =>
       IF stack = <<>> THEN current = Root ELSE current \in Children(Top)

LEMMA PathStep == TypeOK /\ PathInv /\ [Next]_vars => PathInv'
<1> SUFFICES ASSUME TypeOK, PathInv, [Next]_vars
             PROVE  PathInv'
  OBVIOUS
<1>0. next' = next
  BY DEF Next, PushLeaf, Descend, StopDescent, PopAndDump, PopSilently,
         TakeNextChild, CutFeet, Return, vars
<1>a. ASSUME current \notin OnStack, stack' = Append(stack, current), pc = "left"
      PROVE  StackIsPath'
  <2>1. stack = <<>> => stack'[1] = Root
    BY <1>a, PushStep, EmptySeq DEF PathInv, Top
  <2>2. stack # <<>> => stack'[1] = stack[1] /\ Len(stack) \in 1..Len(stack)
    BY <1>a, PushStep, EmptySeq DEF TypeOK
  <2>3. ASSUME NEW i \in 1..(Len(stack') - 1)
        PROVE  stack'[i + 1] \in Children(stack'[i])
    <3>1. CASE i < Len(stack)
      BY <3>1, <1>a, PushStep DEF PathInv, StackIsPath
    <3>2. CASE i = Len(stack)
      BY <3>2, <1>a, PushStep, EmptySeq DEF PathInv, Top
    <3> QED
      BY <3>1, <3>2, <1>a, PushStep
  <2> QED
    BY <2>1, <2>2, <2>3, <1>0 DEF StackIsPath, Children, PathInv
<1>b. ASSUME stack # <<>>, stack' = Popped
      PROVE  StackIsPath'
  <2>1. /\ Len(stack) \in Nat \ {0}
        /\ Len(stack') = Len(stack) - 1
        /\ \A i \in 1..Len(stack') : stack'[i] = stack[i]
    BY <1>b, PopStep
  <2>2. stack' # <<>> => Len(stack') # 0
    BY <1>b, TopFacts, EmptySeq
  <2>3. stack' # <<>> => stack'[1] = Root
    BY <1>b, <2>1, <2>2 DEF PathInv, StackIsPath
  <2>4. \A i \in 1..(Len(stack') - 1) : stack'[i + 1] \in Children(stack'[i])
    BY <2>1 DEF PathInv, StackIsPath
  <2> QED
    BY <2>3, <2>4, <1>0 DEF StackIsPath, Children
<1>1. CASE PushLeaf
  <2>1. StackIsPath'
    BY <1>1, <1>0, <1>a DEF PushLeaf, PathInv, StackIsPath, Children
  <2> QED
    BY <1>1, <2>1 DEF PushLeaf, PathInv
<1>2. CASE Descend
  <2>1. StackIsPath'
    BY <1>2, <1>a DEF Descend
  <2>2. current \in OnStack' /\ Top' = current /\ stack' # <<>>
    BY <1>2, PushStep DEF Descend
  <2>3. next[current][1] \in Children(current)
    BY <1>2, ElemFacts DEF Descend, TypeOK, Children
  <2> QED
    BY <1>0, <1>2, <2>1, <2>2, <2>3 DEF Descend, PathInv, Children
<1>3. CASE StopDescent
  BY <1>0, <1>3 DEF StopDescent, PathInv, StackIsPath, Children
<1>4. CASE PopAndDump
  BY <1>4, <1>b DEF PopAndDump, Destackable, Destack, PathInv
<1>5. CASE PopSilently
  BY <1>5, <1>b DEF PopSilently, Destackable, PathInv
<1>6. CASE TakeNextChild
  <2>1. StackIsPath'
    BY <1>0, <1>6 DEF TakeNextChild, PathInv, StackIsPath, Children
  <2>2. stack' = stack /\ stack # <<>> /\ current' \in Children(Top)
    BY <1>6 DEF TakeNextChild, Branching, Children
  <2> QED
    BY <1>0, <2>1, <2>2 DEF PathInv, Top, Children
<1>7. CASE CutFeet
  <2>1. stack # <<>> /\ stack' = Popped
    BY <1>7 DEF CutFeet, Branching, Destack
  <2>2. stack' # <<>> => current' = Top'
    BY <1>7, <2>1 DEF CutFeet, Top
  <2>3. pc' = "left" => stack' # <<>>
    BY <1>7, <2>1 DEF CutFeet
  <2>4. pc' = "left" => current' \in OnStack'
    BY <2>1, <2>2, <2>3, PopStep
  <2> QED
    BY <1>b, <2>1, <2>4 DEF PathInv
<1>8. CASE Return
  BY <1>0, <1>8 DEF Return, PathInv, StackIsPath, Children
<1>9. CASE UNCHANGED vars
  BY <1>9 DEF vars, PathInv, StackIsPath, Children, OnStack, Top
<1> QED
  BY <1>1, <1>2, <1>3, <1>4, <1>5, <1>6, <1>7, <1>8, <1>9 DEF Next

\* The nodes on the stack form a path of the graph from the walk's root.
THEOREM StackIsPathHolds == Spec => []StackIsPath
<1>1. Init => PathInv
  BY EmptySeq DEF Init, PathInv, StackIsPath
<1>2. PathInv => StackIsPath
  BY DEF PathInv
<1> QED
  BY <1>1, <1>2, TypeCorrect, PathStep, PTL DEF Spec

-----------------------------------------------------------------------------
(***************************************************************************)
(* Coverage                                                                *)
(***************************************************************************)
\* Nodes of one address have successors at the same addresses: the two copies
\* of the entry, and the nodes of methods that share a code item.
SameCode ==
  \A m, n \in Node : addr[m] = addr[n] => AddrsOf(Children(m)) = AddrsOf(Children(n))

\* The first successor of a node on the stack is in hand: PopAndDump does not
\* look at the successor of the node that it pops.
FirstInHand == \A n \in OnStack : next[n] # <<>> => addr[next[n][1]] \in Covered

Inv ==
  /\ SameCode
  /\ addr[Root] \in Covered
  /\ VisitedClosed
  /\ FirstInHand

LEMMA InitSameCode == Init => SameCode
<1> SUFFICES ASSUME Init, NEW m \in Node, NEW n \in Node, addr[m] = addr[n]
             PROVE  AddrsOf(Children(m)) = AddrsOf(Children(n))
  BY DEF SameCode
<1>1. PICK p \in Programs : next = p.next /\ addr = p.addr
  BY DEF Init
<1>2. /\ Len(next[m]) = Len(next[n])
      /\ \A i \in 1..Len(next[m]) : addr[next[m][i]] = addr[next[n][i]]
  BY <1>1, ProgramsAssumption
<1> QED
  BY <1>2 DEF AddrsOf, Children

\* A step loses nothing that is in hand, and the graph does not change.
LEMMA CoveredGrows ==
  ASSUME TypeOK, [Next]_vars
  PROVE  /\ next' = next /\ addr' = addr
         /\ Covered \subseteq Covered'
<1>0. next' = next /\ addr' = addr
  BY DEF Next, PushLeaf, Descend, StopDescent, PopAndDump, PopSilently,
         TakeNextChild, CutFeet, Return, vars
<1> USE <1>0 DEF Covered, AddrsOf
<1>1. CASE PushLeaf
  <2>1. current \in OnStack' /\ OnStack \subseteq OnStack'
    <3>1. CASE current \in OnStack
      BY <1>1, <3>1 DEF PushLeaf, OnStack
    <3>2. CASE current \notin OnStack
      BY <1>1, <3>2, PushStep DEF PushLeaf
    <3> QED
      BY <3>1, <3>2
  <2> QED
    BY <1>1, <2>1 DEF PushLeaf
<1>2. CASE Descend
  BY <1>2, PushStep DEF Descend
<1>3. CASE StopDescent
  BY <1>3 DEF StopDescent, OnStack
<1>4. CASE PopAndDump
  BY <1>4, PopStep DEF PopAndDump, Destackable, Destack
<1>5. CASE PopSilently
  <2>1. OnStack = OnStack' \cup {Top} /\ visited' = visited /\ pc = "pop" /\ pc' = "pop"
    BY <1>5, PopStep DEF PopSilently, Destackable
  <2>2. addr[Top] \in AddrsOf(visited)
    BY <1>5 DEF PopSilently
  <2> QED
    BY <2>1, <2>2
<1>6. CASE TakeNextChild
  BY <1>6 DEF TakeNextChild, Branching, OnStack
<1>7. CASE CutFeet
  BY <1>7, PopStep DEF CutFeet, Branching, Destack
<1>8. CASE Return
  BY <1>8 DEF Return, OnStack
<1>9. CASE UNCHANGED vars
  BY <1>9 DEF vars, OnStack
<1> QED
  BY <1>1, <1>2, <1>3, <1>4, <1>5, <1>6, <1>7, <1>8, <1>9 DEF Next

\* What is added to visited is the top, with all of its successors in hand.
LEMMA DumpedSuccessors ==
  ASSUME TypeOK, Inv, PopAndDump \/ CutFeet
  PROVE  AddrsOf(Children(Top)) \subseteq Covered
<1>1. CASE PopAndDump
  <2>1. /\ stack # <<>> /\ Top \in OnStack /\ next[Top] \in Seq(Node)
        /\ Len(next[Top]) < 2 /\ pc = "pop"
    BY <1>1, TopFacts, PopStep DEF PopAndDump, Destackable, Destack, TypeOK
  <2>2. \A i \in 1..Len(next[Top]) : i = 1 /\ next[Top] # <<>>
    BY <2>1, ElemFacts, EmptySeq
  <2> QED
    BY <2>1, <2>2 DEF Inv, FirstInHand, AddrsOf, Children
<1>2. CASE CutFeet
  BY <1>2 DEF CutFeet, Unvisited, Covered, AddrsOf
<1> QED
  BY <1>1, <1>2

LEMMA InvStep == TypeOK /\ Inv /\ [Next]_vars => Inv'
<1> SUFFICES ASSUME TypeOK, Inv, [Next]_vars
             PROVE  Inv'
  OBVIOUS
<1>0. next' = next /\ addr' = addr /\ Covered \subseteq Covered'
  BY CoveredGrows
<1>1. SameCode'
  <2>1. \A n \in Node : AddrsOf(Children(n))' = AddrsOf(Children(n))
    BY <1>0 DEF AddrsOf, Children
  <2>2. SUFFICES ASSUME NEW m \in Node, NEW n \in Node, addr[m] = addr[n]
                 PROVE  AddrsOf(Children(m))' = AddrsOf(Children(n))'
    BY <1>0 DEF SameCode
  <2>3. AddrsOf(Children(m)) = AddrsOf(Children(n))
    BY <2>2 DEF Inv, SameCode
  <2> QED
    BY <2>1, <2>3
<1>2. (addr[Root] \in Covered)'
  BY <1>0 DEF Inv
<1>3. VisitedClosed'
  <2>1. SUFFICES \A n \in visited' : AddrsOf(Children(n)) \subseteq Covered'
    BY <1>0 DEF VisitedClosed, AddrsOf, Children
  <2>2. CASE visited' = visited
    BY <1>0, <2>2 DEF Inv, VisitedClosed
  <2>3. CASE PopAndDump \/ CutFeet
    <3>1. visited' = visited \cup {Top}
      BY <2>3 DEF PopAndDump, CutFeet, Destack
    <3> QED
      BY <1>0, <2>3, <3>1, DumpedSuccessors DEF Inv, VisitedClosed
  <2> QED
    BY <2>2, <2>3 DEF Next, PushLeaf, Descend, StopDescent, PopSilently,
                      TakeNextChild, Return, vars
<1>4. FirstInHand'
  <2>1. SUFFICES ASSUME NEW n \in OnStack', next[n] # <<>>
                 PROVE  addr[next[n][1]] \in Covered'
    BY <1>0 DEF FirstInHand
  <2>2. CASE n \in OnStack
    BY <1>0, <2>1, <2>2 DEF Inv, FirstInHand
  <2>3. CASE n \notin OnStack
    <3>1. Descend /\ n = current
      <4>1. CASE PushLeaf
        BY <4>1, <2>1, <2>3, PushStep DEF PushLeaf, OnStack
      <4>2. CASE Descend
        BY <4>2, <2>3, PushStep DEF Descend
      <4>3. CASE StopDescent \/ TakeNextChild \/ Return \/ UNCHANGED vars
        BY <4>3, <2>3 DEF StopDescent, TakeNextChild, Return, vars, OnStack
      <4>4. CASE PopAndDump \/ PopSilently \/ CutFeet
        BY <4>4, <2>3, PopStep
           DEF PopAndDump, PopSilently, CutFeet, Destackable, Branching, Destack
      <4> QED
        BY <4>1, <4>2, <4>3, <4>4 DEF Next
    <3>2. next[current][1] \in visited' \/ next[current][1] = current'
      BY <3>1 DEF Descend
    <3>3. pc' = "left"
      BY <3>1 DEF Descend
    <3> QED
      BY <1>0, <3>1, <3>2, <3>3 DEF Covered, AddrsOf
  <2> QED
    BY <2>2, <2>3
<1> QED
  BY <1>1, <1>2, <1>3, <1>4 DEF Inv

THEOREM InvHolds == Spec => []Inv
<1>1. Init => Inv
  <2> SUFFICES ASSUME Init PROVE Inv
    OBVIOUS
  <2>1. OnStack = {}
    BY LenProperties, EmptySeq DEF Init, OnStack
  <2> QED
    BY <2>1, InitSameCode
       DEF Init, Inv, VisitedClosed, FirstInHand, Covered, AddrsOf
<1> QED
  BY <1>1, TypeCorrect, InvStep, PTL DEF Spec

\* No successor of a dumped node is forgotten.
THEOREM VisitedClosedHolds == Spec => []VisitedClosed
<1>1. Inv => VisitedClosed
  BY DEF Inv
<1> QED
  BY <1>1, InvHolds, PTL

-----------------------------------------------------------------------------
(***************************************************************************)
(* The result: what the walk hands back implements GraphDump               *)
(***************************************************************************)
LEMMA SuccOfNode ==
  ASSUME TypeOK, SameCode, NEW n \in Node
  PROVE  AddrSucc[addr[n]] = AddrsOf(Children(n))
<1> DEFINE Here == {m \in Node : addr[m] = addr[n]}
<1>1. addr[n] \in Addr
  BY DEF TypeOK
<1>2. AddrSucc[addr[n]] = UNION {AddrsOf(Children(m)) : m \in Here}
  BY <1>1 DEF AddrSucc
<1>3. \A m \in Here : AddrsOf(Children(m)) = AddrsOf(Children(n))
  BY DEF SameCode
<1>4. n \in Here
  OBVIOUS
<1> QED
  BY <1>2, <1>3, <1>4

LEMMA ChildrenAreNodes ==
  ASSUME TypeOK, NEW n \in Node
  PROVE  Children(n) \subseteq Node
BY ElemFacts DEF TypeOK, Children

\* Reachability follows the successors.
LEMMA ReachStep ==
  ASSUME TypeOK, SameCode, NEW n \in Node, addr[n] \in Dump!Reach, NEW c \in Children(n)
  PROVE  addr[c] \in Dump!Reach
<1>1. addr[c] \in AddrSucc[addr[n]]
  BY SuccOfNode DEF AddrsOf
<1>2. addr[c] \in Addr
  BY ChildrenAreNodes DEF TypeOK
<1>3. ASSUME NEW S \in SUBSET Addr, Dump!Closed(S)
      PROVE  addr[c] \in S
  BY <1>1, <1>3 DEF Dump!Reach, Dump!Closed
<1> QED
  BY <1>2, <1>3 DEF Dump!Reach

\* Only reachable nodes are ever in hand.
InReach == \A n \in OnStack \cup visited \cup {current} : addr[n] \in Dump!Reach

LEMMA ReachFixed ==
  ASSUME next' = next, addr' = addr
  PROVE  AddrSucc' = AddrSucc /\ Dump!Reach' = Dump!Reach
<1>1. AddrSucc' = AddrSucc
  BY DEF AddrSucc, AddrsOf, Children
<1> QED
  BY <1>1 DEF Dump!Reach, Dump!Closed

LEMMA InReachStep == TypeOK /\ Inv /\ InReach /\ [Next]_vars => InReach'
<1> SUFFICES ASSUME TypeOK, Inv, InReach, [Next]_vars
             PROVE  InReach'
  OBVIOUS
<1>1. next' = next /\ addr' = addr
  BY CoveredGrows
<1>2. OnStack' \cup visited' \subseteq OnStack \cup visited \cup {current}
  <2>1. CASE PushLeaf
    <3>1. CASE current \in OnStack
      BY <2>1, <3>1 DEF PushLeaf, OnStack
    <3>2. CASE current \notin OnStack
      BY <2>1, <3>2, PushStep DEF PushLeaf
    <3> QED
      BY <3>1, <3>2
  <2>2. CASE Descend
    BY <2>2, PushStep DEF Descend
  <2>3. CASE StopDescent \/ TakeNextChild \/ Return \/ UNCHANGED vars
    BY <2>3 DEF StopDescent, TakeNextChild, Return, vars, OnStack
  <2>4. CASE PopAndDump \/ PopSilently \/ CutFeet
    BY <2>4, PopStep
       DEF PopAndDump, PopSilently, CutFeet, Destackable, Branching, Destack
  <2> QED
    BY <2>1, <2>2, <2>3, <2>4 DEF Next
<1>3. addr[current'] \in Dump!Reach
  <2>1. CASE Descend
    <3>1. current' = current \/ current' \in Children(current)
      BY <2>1, ElemFacts DEF Descend, TypeOK, Children
    <3> QED
      BY <3>1, ReachStep DEF InReach, Inv, TypeOK
  <2>2. CASE TakeNextChild
    <3>1. current' \in Children(Top) /\ stack # <<>>
      BY <2>2 DEF TakeNextChild, Branching, Children
    <3>2. Top \in OnStack /\ Top \in Node
      BY <3>1, TopFacts, PopFacts DEF Top, OnStack, Elems, TypeOK
    <3> QED
      BY <3>1, <3>2, ReachStep DEF InReach, Inv
  <2>3. CASE CutFeet
    <3>1. stack # <<>> /\ stack' = Popped
      BY <2>3 DEF CutFeet, Branching, Destack
    <3>2. current' = current \/ (stack' # <<>> /\ current' = Top')
      BY <2>3, <3>1 DEF CutFeet, Top
    <3> QED
      BY <3>1, <3>2, PopStep DEF InReach
  <2> QED
    BY <2>1, <2>2, <2>3
       DEF Next, PushLeaf, StopDescent, PopAndDump, PopSilently, Return, vars, InReach
<1> QED
  BY <1>1, <1>2, <1>3, ReachFixed DEF InReach

LEMMA InitInReach == Init => TypeOK /\ InReach
<1> SUFFICES ASSUME Init PROVE InReach
  BY TypeInit
<1>1. OnStack = {} /\ visited = {} /\ current = Root
  BY LenProperties, EmptySeq DEF Init, OnStack
<1>2. addr[Root] \in Addr
  BY TypeInit, RootAssumption DEF TypeOK
<1> QED
  BY <1>1, <1>2 DEF InReach, Dump!Reach, Dump!Closed

\* When nothing is on the stack, all that is reachable was dumped.
LEMMA ReachDumped ==
  ASSUME TypeOK, Inv, InReach, stack = <<>>, pc = "pop"
  PROVE  AddrsOf(visited) = Dump!Reach
<1>1. Covered = AddrsOf(visited)
  BY LenProperties, EmptySeq DEF Covered, OnStack, AddrsOf
<1>2. AddrsOf(visited) \in SUBSET Addr
  BY DEF TypeOK, AddrsOf
<1>3. \A n \in visited : AddrSucc[addr[n]] \subseteq AddrsOf(visited)
  BY <1>1, SuccOfNode DEF Inv, VisitedClosed, TypeOK
<1>4. Dump!Closed(AddrsOf(visited))
  BY <1>1, <1>3 DEF Dump!Closed, Inv, AddrsOf
<1>5. Dump!Reach \subseteq AddrsOf(visited)
  BY <1>2, <1>4 DEF Dump!Reach
<1>6. AddrsOf(visited) \subseteq Dump!Reach
  BY DEF InReach, AddrsOf
<1> QED
  BY <1>5, <1>6

\* The abstract state that a state of the walk stands for.
EdgeAddrs == {<<addr[e[1]], addr[e[2]]>> : e \in edges}

LEMMA InitRefines == Init => Dump!Init
<1> SUFFICES ASSUME Init PROVE Dump!Init
  OBVIOUS
<1>1. TypeOK
  BY TypeInit
<1>2. AddrSucc \in [Addr -> SUBSET Addr]
  <2>1. \A n \in Node : AddrsOf(Children(n)) \subseteq Addr
    BY <1>1, ChildrenAreNodes DEF TypeOK, AddrsOf
  <2> QED
    BY <2>1 DEF AddrSucc
<1>3. addr[Root] \in Addr
  BY <1>1, RootAssumption DEF TypeOK
<1> QED
  BY <1>2, <1>3 DEF Init, Dump!Init, AddrsOf

\* Collecting the top of the stack is an abstract Dump of its address.
LEMMA DestackRefines ==
  ASSUME TypeOK, Inv, InReach, DisciplineInv, PopAndDump \/ CutFeet
  PROVE  Dump!Next
<1>1. /\ stack # <<>> /\ stack' = Popped
      /\ visited' = visited \cup {Top}
      /\ pc = "pop" /\ pc' # "done"
  BY DEF PopAndDump, CutFeet, Destackable, Branching, Destack
<1>2. Top \in OnStack /\ Top \in Node
  BY <1>1, TopFacts, PopStep
<1>3. Top \notin visited
  BY <1>2 DEF DisciplineInv, StackDiscipline
<1>4. edges' = edges \cup ({Top} \X Children(Top))
  BY <1>3 DEF PopAndDump, CutFeet, Destack
<1>5. next' = next /\ addr' = addr
  BY DEF PopAndDump, CutFeet
<1>6. PICK a \in Addr : a = addr[Top]
  BY <1>2 DEF TypeOK
<1>7. a \in Dump!Reach
  BY <1>2, <1>6 DEF InReach
<1>8. AddrsOf(visited)' = AddrsOf(visited) \cup {a}
  BY <1>1, <1>5, <1>6 DEF AddrsOf
<1>9. EdgeAddrs' = EdgeAddrs \cup Dump!OutEdges(a)
  <2> DEFINE image == {<<addr[e[1]], addr[e[2]]>> : e \in {Top} \X Children(Top)}
  <2>1. Dump!OutEdges(a) = {a} \X AddrsOf(Children(Top))
    BY <1>2, <1>6, SuccOfNode DEF Inv, Dump!OutEdges
  <2>2. ASSUME NEW c \in Children(Top)
        PROVE  <<a, addr[c]>> \in image
    <3>1. <<Top, c>> \in {Top} \X Children(Top)
      OBVIOUS
    <3> QED
      BY <3>1, <1>6
  <2>3. \A x \in Dump!OutEdges(a) : x \in image
    BY <2>1, <2>2 DEF AddrsOf
  <2>4. \A x \in image : x \in Dump!OutEdges(a)
    BY <2>1, <1>6 DEF AddrsOf
  <2>5. Dump!OutEdges(a) = image
    BY <2>3, <2>4
  <2> QED
    BY <1>4, <1>5, <2>5 DEF EdgeAddrs
<1>10. AddrSucc' = AddrSucc
  BY <1>5, ReachFixed
<1>11. Dump!Dump(a)
  BY <1>1, <1>5, <1>7, <1>8, <1>9, <1>10 DEF Dump!Dump, EdgeAddrs
<1> QED
  BY <1>11 DEF Dump!Next

LEMMA StepRefines ==
  TypeOK /\ Inv /\ InReach /\ DisciplineInv /\ [Next]_vars => [Dump!Next]_(Dump!vars)
<1> SUFFICES ASSUME TypeOK, Inv, InReach, DisciplineInv, [Next]_vars
             PROVE  [Dump!Next]_(Dump!vars)
  OBVIOUS
<1>1. next' = next /\ addr' = addr
  BY CoveredGrows
<1>2. AddrSucc' = AddrSucc
  BY <1>1, ReachFixed
<1>3. CASE PopAndDump \/ CutFeet
  BY <1>3, DestackRefines
<1>4. CASE Return
  <2>1. AddrsOf(visited) = Dump!Reach
    BY <1>4, ReachDumped DEF Return
  <2>2. pc = "pop" /\ pc' = "done" /\ visited' = visited /\ edges' = edges
    BY <1>4 DEF Return
  <2>3. AddrsOf(visited)' = AddrsOf(visited) /\ EdgeAddrs' = EdgeAddrs
    BY <1>1, <2>2 DEF AddrsOf, EdgeAddrs
  <2>4. Dump!Return
    BY <1>1, <1>2, <2>1, <2>2, <2>3 DEF Dump!Return, EdgeAddrs
  <2> QED
    BY <2>4 DEF Dump!Next
<1>5. CASE PushLeaf \/ Descend \/ StopDescent \/ PopSilently \/ TakeNextChild
  <2>1. visited' = visited /\ edges' = edges /\ (pc' = "done") = (pc = "done")
    BY <1>5 DEF PushLeaf, Descend, StopDescent, PopSilently, Destackable,
                TakeNextChild, Branching
  <2> QED
    BY <1>1, <1>2, <2>1 DEF Dump!vars, AddrsOf
<1>6. CASE UNCHANGED vars
  BY <1>1, <1>2, <1>6 DEF vars, Dump!vars, AddrsOf
<1> QED
  BY <1>3, <1>4, <1>5, <1>6 DEF Next

\* Whatever the graph, the walk hands back reachable instructions only, each
\* with all of its edges, and returns only once every reachable one is there:
\* neither the pops that look at no successor, nor the silent pops, nor asking
\* the stack by address and visited by pointer, lose a part of the graph.
THEOREM WalkImplementsDump == Spec => ImplementsDump
<1>1. Init => DisciplineInv
  BY LenProperties, EmptySeq DEF Init, DisciplineInv, StackDiscipline, OnStack
<1>2. Spec => []InReach
  BY InitInReach, TypeCorrect, InvHolds, InReachStep, PTL DEF Spec
<1>3. Spec => []DisciplineInv
  BY <1>1, TypeCorrect, DisciplineStep, PTL DEF Spec
<1> QED
  BY <1>2, <1>3, TypeCorrect, InvHolds, InitRefines, StepRefines, PTL
     DEF Spec, ImplementsDump, Dump!Spec

-----------------------------------------------------------------------------
(***************************************************************************)
(* What a caller of the walk relies on                                     *)
(***************************************************************************)
\* The edges handed back are those of the nodes handed back, and the walk ends
\* with nothing left to do.
ResultInv ==
  /\ IsFiniteSet(visited)
  /\ edges = UNION {{n} \X Children(n) : n \in visited}
  /\ pc = "done" => stack = <<>>

LEMMA ResultStep ==
  TypeOK /\ DisciplineInv /\ ResultInv /\ [Next]_vars => ResultInv'
<1> SUFFICES ASSUME TypeOK, DisciplineInv, ResultInv, [Next]_vars
             PROVE  ResultInv'
  OBVIOUS
<1>1. \A n : Children(n)' = Children(n)
  BY CoveredGrows DEF Children
<1>2. CASE PopAndDump \/ CutFeet
  <2>1. /\ stack # <<>> /\ stack' = Popped /\ visited' = visited \cup {Top}
        /\ edges' = IF Top \in visited THEN edges ELSE edges \cup ({Top} \X Children(Top))
        /\ pc' # "done"
    BY <1>2 DEF PopAndDump, CutFeet, Destackable, Branching, Destack
  <2>2. Top \notin visited
    BY <2>1, PopStep DEF DisciplineInv, StackDiscipline
  <2>3. IsFiniteSet(visited')
    BY <2>1, FS_AddElement DEF ResultInv
  <2>4. edges' = UNION {{n} \X Children(n) : n \in visited'}
    BY <2>1, <2>2 DEF ResultInv
  <2> QED
    BY <1>1, <2>1, <2>3, <2>4 DEF ResultInv
<1>3. CASE PushLeaf \/ Descend \/ StopDescent \/ PopSilently \/ TakeNextChild
           \/ Return \/ UNCHANGED vars
  <2>1. visited' = visited /\ edges' = edges /\ (pc' = "done" => stack' = <<>>)
    BY <1>3 DEF PushLeaf, Descend, StopDescent, PopSilently, Destackable, TakeNextChild,
                Branching, Return, vars, ResultInv
  <2> QED
    BY <1>1, <2>1 DEF ResultInv
<1> QED
  BY <1>2, <1>3 DEF Next

\* The nodes that the walk holds, and where it can go next from them.
Held == OnStack \cup visited \cup {current}

LEMMA HeldStep ==
  ASSUME TypeOK, [Next]_vars
  PROVE  Held' \subseteq Held \cup UNION {Children(n) : n \in Held}
<1>1. CASE PushLeaf
  <2>1. CASE current \in OnStack
    BY <1>1, <2>1 DEF PushLeaf, OnStack, Held
  <2>2. CASE current \notin OnStack
    BY <1>1, <2>2, PushStep DEF PushLeaf, Held
  <2> QED
    BY <2>1, <2>2
<1>2. CASE Descend
  <2>1. current' = current \/ current' \in Children(current)
    BY <1>2, ElemFacts DEF Descend, TypeOK, Children
  <2>2. OnStack' = OnStack \cup {current} /\ visited' = visited
    BY <1>2, PushStep DEF Descend
  <2> QED
    BY <2>1, <2>2 DEF Held
<1>3. CASE StopDescent \/ Return \/ UNCHANGED vars
  BY <1>3 DEF StopDescent, Return, vars, OnStack, Held
<1>4. CASE TakeNextChild
  <2>1. current' \in Children(Top) /\ stack # <<>> /\ OnStack' = OnStack /\ visited' = visited
    BY <1>4 DEF TakeNextChild, Branching, Children, OnStack
  <2>2. Top \in OnStack
    BY <2>1, PopFacts DEF Top, OnStack, Elems, TypeOK
  <2> QED
    BY <2>1, <2>2 DEF Held
<1>5. CASE PopAndDump \/ PopSilently \/ CutFeet
  <2>1. /\ OnStack = OnStack' \cup {Top}
        /\ visited' \subseteq visited \cup {Top}
        /\ stack # <<>> /\ stack' = Popped
    BY <1>5, PopStep
       DEF PopAndDump, PopSilently, CutFeet, Destackable, Branching, Destack
  <2>2. current' = current \/ (stack' # <<>> /\ current' = Top')
    BY <1>5, <2>1 DEF PopAndDump, PopSilently, CutFeet, Top
  <2>3. stack' # <<>> => Top' \in OnStack'
    BY <2>1, PopStep
  <2> QED
    BY <2>1, <2>2, <2>3 DEF Held
<1> QED
  BY <1>1, <1>2, <1>3, <1>4, <1>5 DEF Next

-----------------------------------------------------------------------------
(***************************************************************************)
(* The walk ends                                                           *)
(***************************************************************************)
\* What can still be dumped, what can still be pushed, and where in its turn the main
\* loop is: a node that goes back to left_traversal_stack from the stack only ends the
\* descent, one that is new is pushed.
Undumped == Node \ visited
Unpushed == Node \ (visited \cup OnStack)
Turn == IF pc # "left" THEN 2 ELSE IF current \in OnStack THEN 3 ELSE 1

Working == pc = "left" \/ (pc = "pop" /\ stack # <<>>)

\* How many steps are left at most.
StepsLeft ==
  IF Working THEN 2 * Cardinality(Undumped) + 3 * Cardinality(Unpushed) + Turn + 1
  ELSE IF pc = "pop" THEN 1 ELSE 0

LEMMA CountsAre ==
  ASSUME IsFiniteSet(Node)
  PROVE  /\ Cardinality(Undumped) \in Nat /\ Cardinality(Unpushed) \in Nat
         /\ IsFiniteSet(Undumped) /\ IsFiniteSet(Unpushed)
<1>1. IsFiniteSet(Undumped) /\ IsFiniteSet(Unpushed)
  BY FS_Difference DEF Undumped, Unpushed
<1> QED
  BY <1>1, FS_CardinalityType

LEMMA AtWork ==
  ASSUME IsFiniteSet(Node), Working
  PROVE  /\ StepsLeft = 2 * Cardinality(Undumped) + 3 * Cardinality(Unpushed) + Turn + 1
         /\ StepsLeft \in Nat /\ StepsLeft >= 2 /\ Turn \in 1..3
<1>1. Turn \in 1..3
  BY DEF Turn
<1>2. PICK t : t = Turn
  OBVIOUS
<1>3. StepsLeft = 2 * Cardinality(Undumped) + 3 * Cardinality(Unpushed) + t + 1
  BY <1>2 DEF StepsLeft
<1> QED
  BY <1>1, <1>2, <1>3, CountsAre

\* To end the work leaves one step or none.
LEMMA WorkEnds ==
  ASSUME IsFiniteSet(Node), Working, ~Working'
  PROVE  StepsLeft' < StepsLeft
<1>1. StepsLeft' \in {0, 1}
  BY DEF StepsLeft
<1> QED
  BY <1>1, AtWork

\* What was popped and dumped was on the stack.
LEMMA FewerUndumped ==
  ASSUME TypeOK, DisciplineInv, IsFiniteSet(Node), stack # <<>>,
         stack' = Popped, visited' = visited \cup {Top}
  PROVE  /\ Cardinality(Undumped)' = Cardinality(Undumped) - 1
         /\ Cardinality(Unpushed)' = Cardinality(Unpushed)
<1>1. OnStack = OnStack' \cup {Top}
  BY PopStep
<1>2. Unpushed' = Unpushed
  BY <1>1 DEF Unpushed
<1>3. Top \in OnStack /\ Top \in Node
  BY <1>1, TopFacts
<1>4. Undumped' = Undumped \ {Top} /\ Top \in Undumped
  BY <1>3 DEF Undumped, DisciplineInv, StackDiscipline
<1>5. Cardinality(Undumped \ {Top}) = Cardinality(Undumped) - 1
  BY <1>4, CountsAre, FS_RemoveElement
<1> QED
  BY <1>2, <1>4, <1>5

LEMMA FewerUnpushed ==
  ASSUME TypeOK, DisciplineInv, IsFiniteSet(Node), pc = "left", current \notin OnStack,
         stack' = Append(stack, current), visited' = visited
  PROVE  /\ Cardinality(Undumped)' = Cardinality(Undumped)
         /\ Cardinality(Unpushed)' = Cardinality(Unpushed) - 1
<1>1. OnStack' = OnStack \cup {current}
  BY PushStep
<1>2. Undumped' = Undumped
  BY DEF Undumped
<1>3. Unpushed' = Unpushed \ {current} /\ current \in Unpushed
  BY <1>1 DEF Unpushed, DisciplineInv, TypeOK
<1>4. Cardinality(Unpushed \ {current}) = Cardinality(Unpushed) - 1
  BY <1>3, CountsAre, FS_RemoveElement
<1> QED
  BY <1>2, <1>3, <1>4

\* Without shared code only the copy of the entry is ever dropped, and it is the last.
LEMMA OnlyRootIsDropped ==
  ASSUME TypeOK, DisciplineInv, PathInv, ~SharesCode, PopSilently
  PROVE  stack' = <<>>
<1>1. /\ stack # <<>> /\ stack' = Popped /\ pc = "pop"
      /\ addr[Top] \in AddrsOf(visited)
  BY DEF PopSilently, Destackable
<1>2. PICK v \in visited : addr[v] = addr[Top]
  BY <1>1 DEF AddrsOf
<1>3. Len(stack) \in Nat \ {0} /\ Len(stack') = Len(stack) - 1 /\ OnStack = OnStack' \cup {Top}
  BY <1>1, PopStep
<1>4. stack[1] = Root /\ 1 \in 1..Len(stack) /\ Root \in OnStack
  BY <1>1, <1>3 DEF PathInv, StackIsPath, OnStack
<1>5. Top \notin visited /\ Root \notin visited
  BY <1>3, <1>4 DEF DisciplineInv, StackDiscipline
<1>6. v \in Node /\ Top \in Node /\ v # Top /\ v # Root
  BY <1>1, <1>2, <1>5, TopFacts DEF TypeOK
<1>7. Top = Root
  BY <1>2, <1>6 DEF SharesCode
<1>8. Len(stack) = 1
  BY <1>3, <1>4, <1>7 DEF Top, DisciplineInv, StackDiscipline
<1>9. Len(stack') = 0 /\ stack' \in Seq(Node)
  BY <1>1, <1>3, <1>8, TopFacts
<1> QED
  BY <1>9, EmptySeq

LEMMA FewerLeft ==
  TypeOK /\ DisciplineInv /\ PathInv /\ IsFiniteSet(Node) /\ ~SharesCode /\ Next =>
    StepsLeft \in Nat /\ StepsLeft' < StepsLeft
<1> SUFFICES ASSUME TypeOK, DisciplineInv, PathInv, IsFiniteSet(Node), ~SharesCode, Next
             PROVE  StepsLeft \in Nat /\ StepsLeft' < StepsLeft
  OBVIOUS
<1>1. PICK a, b, a1, b1 : /\ a = Cardinality(Undumped) /\ b = Cardinality(Unpushed)
                          /\ a1 = Cardinality(Undumped)' /\ b1 = Cardinality(Unpushed)'
  OBVIOUS
<1>2. PICK t, t1 : t = Turn /\ t1 = Turn'
  OBVIOUS
<1>3. a \in Nat /\ b \in Nat /\ t \in 1..3 /\ t1 \in 1..3
  BY <1>1, <1>2, CountsAre DEF Turn
<1>4. StepsLeft \in Nat
  <2>1. CASE Working
    BY <2>1, AtWork
  <2> QED
    BY <2>1 DEF StepsLeft
<1>5. Working => StepsLeft = 2 * a + 3 * b + t + 1
  BY <1>1, <1>2 DEF StepsLeft
<1>6. Working' => StepsLeft' = 2 * a1 + 3 * b1 + t1 + 1
  BY <1>1, <1>2 DEF StepsLeft
<1>7. ASSUME Working, \/ (a1 = a /\ b1 = b /\ t1 < t)
                      \/ (a1 = a - 1 /\ b1 = b /\ t1 <= t + 1)
                      \/ (a1 = a /\ b1 = b - 1)
      PROVE  StepsLeft' < StepsLeft
  <2>1. CASE Working'
    <3>1. 2 * a1 + 3 * b1 + t1 + 1 < 2 * a + 3 * b + t + 1
      BY <1>3, <1>7
    <3> QED
      BY <1>5, <1>6, <1>7, <2>1, <3>1
  <2>2. CASE ~Working'
    BY <1>7, <2>2, WorkEnds
  <2> QED
    BY <2>1, <2>2
<1>8. ASSUME UNCHANGED <<stack, visited>> PROVE a1 = a /\ b1 = b /\ OnStack' = OnStack
  BY <1>1, <1>8 DEF Undumped, Unpushed, OnStack
<1>9. CASE PushLeaf
  <2>1. pc = "left" /\ pc' = "pop" /\ visited' = visited /\ Working
    BY <1>9 DEF PushLeaf, Working
  <2>2. CASE current \in OnStack
    <3>1. stack' = stack
      BY <1>9, <2>2 DEF PushLeaf
    <3>2. t = 3 /\ t1 = 2
      BY <1>2, <2>1, <2>2 DEF Turn
    <3> QED
      BY <1>4, <1>7, <1>8, <2>1, <3>1, <3>2
  <2>3. CASE current \notin OnStack
    <3>1. stack' = Append(stack, current)
      BY <1>9, <2>3 DEF PushLeaf
    <3> QED
      BY <1>1, <1>4, <1>7, <2>1, <2>3, <3>1, FewerUnpushed
  <2> QED
    BY <2>2, <2>3
<1>10. CASE Descend
  <2>1. pc = "left" /\ visited' = visited /\ Working /\ current \notin OnStack
        /\ stack' = Append(stack, current)
    BY <1>10 DEF Descend, Working
  <2> QED
    BY <1>1, <1>4, <1>7, <2>1, FewerUnpushed
<1>11. CASE StopDescent
  <2>1. /\ pc = "left" /\ pc' = "pop" /\ Working /\ current \in OnStack
        /\ UNCHANGED <<stack, visited>>
    BY <1>11 DEF StopDescent, Working
  <2>2. t = 3 /\ t1 = 2
    BY <1>2, <2>1 DEF Turn
  <2> QED
    BY <1>4, <1>7, <1>8, <2>1, <2>2
<1>12. CASE PopAndDump
  <2>1. /\ pc = "pop" /\ pc' = "pop" /\ stack # <<>> /\ Working
        /\ stack' = Popped /\ visited' = visited \cup {Top}
    BY <1>12 DEF PopAndDump, Destackable, Destack, Working
  <2>2. t = 2 /\ t1 = 2
    BY <1>2, <2>1 DEF Turn
  <2>3. a1 = a - 1 /\ b1 = b
    BY <1>1, <2>1, FewerUndumped
  <2> QED
    BY <1>4, <1>7, <2>1, <2>2, <2>3
<1>13. CASE PopSilently
  <2>1. pc = "pop" /\ pc' = "pop" /\ Working
    BY <1>13 DEF PopSilently, Destackable, Working
  <2>2. ~Working'
    BY <1>13, <2>1, OnlyRootIsDropped DEF Working
  <2> QED
    BY <1>4, <2>1, <2>2, WorkEnds
<1>14. CASE TakeNextChild
  <2>1. /\ pc = "pop" /\ pc' = "left" /\ stack # <<>> /\ Working
        /\ UNCHANGED <<addr, stack, visited>>
        /\ Unvisited(current')
    BY <1>14 DEF TakeNextChild, Branching, Working
  <2>2. OnStack' = OnStack /\ current' \notin OnStack
    BY <2>1 DEF Unvisited, AddrsOf, OnStack
  <2>3. t = 2 /\ t1 = 1
    BY <1>2, <2>1, <2>2 DEF Turn
  <2> QED
    BY <1>4, <1>7, <1>8, <2>1, <2>3
<1>15. CASE CutFeet
  <2>1. /\ pc = "pop" /\ stack # <<>> /\ Working
        /\ stack' = Popped /\ visited' = visited \cup {Top}
    BY <1>15 DEF CutFeet, Branching, Destack, Working
  <2>2. t = 2
    BY <1>2, <2>1 DEF Turn
  <2>3. a1 = a - 1 /\ b1 = b
    BY <1>1, <2>1, FewerUndumped
  <2> QED
    BY <1>3, <1>4, <1>7, <2>1, <2>2, <2>3
<1>16. CASE Return
  <2>1. pc = "pop" /\ stack = <<>> /\ pc' = "done"
    BY <1>16 DEF Return
  <2> QED
    BY <1>4, <2>1 DEF StepsLeft, Working
<1> QED
  BY <1>9, <1>10, <1>11, <1>12, <1>13, <1>14, <1>15, <1>16 DEF Next

LEMMA PathHolds == Spec => [](TypeOK /\ DisciplineInv /\ PathInv)
<1>1. Init => DisciplineInv
  BY LenProperties, EmptySeq DEF Init, DisciplineInv, StackDiscipline, OnStack
<1>2. Init => PathInv
  BY LenProperties, EmptySeq DEF Init, PathInv, StackIsPath
<1> QED
  BY <1>1, <1>2, TypeCorrect, DisciplineStep, PathStep, PTL DEF Spec

LEMMA MostSteps == TypeOK /\ IsFiniteSet(Node) /\ pc = "left" => StepsLeft <= 5 * Cardinality(Node) + 4
<1> SUFFICES ASSUME IsFiniteSet(Node), pc = "left" PROVE StepsLeft <= 5 * Cardinality(Node) + 4
  OBVIOUS
<1>1. Cardinality(Undumped) <= Cardinality(Node) /\ Cardinality(Unpushed) <= Cardinality(Node)
  BY FS_Subset DEF Undumped, Unpushed
<1>2. PICK t : t = Turn
  OBVIOUS
<1>3. /\ StepsLeft = 2 * Cardinality(Undumped) + 3 * Cardinality(Unpushed) + t + 1
      /\ t \in 1..3
  BY <1>2, AtWork DEF Working
<1> QED
  BY <1>1, <1>3, CountsAre, FS_CardinalityType

(***************************************************************************)
(* Over code that no two methods share every step of a walk leaves fewer   *)
(* to do, from at most five for each node and four: pushing and popping    *)
(* cannot go on forever, on no cycle of the graph.  This is what Terminates *)
(* needs besides fairness.                                                 *)
(***************************************************************************)
THEOREM StepsRunOut ==
  IsFiniteSet(Node) =>
    (Spec => /\ [](pc = "left" => StepsLeft <= 5 * Cardinality(Node) + 4)
             /\ [][~SharesCode => StepsLeft \in Nat /\ StepsLeft' < StepsLeft]_vars)
<1> SUFFICES ASSUME IsFiniteSet(Node)
             PROVE  Spec => /\ [](pc = "left" => StepsLeft <= 5 * Cardinality(Node) + 4)
                            /\ [][~SharesCode => StepsLeft \in Nat /\ StepsLeft' < StepsLeft]_vars
  OBVIOUS
<1>1. TypeOK /\ DisciplineInv /\ PathInv /\ [Next]_vars =>
        [~SharesCode => StepsLeft \in Nat /\ StepsLeft' < StepsLeft]_vars
  BY FewerLeft
<1>2. TypeOK => (pc = "left" => StepsLeft <= 5 * Cardinality(Node) + 4)
  BY MostSteps
<1> QED
  BY <1>1, <1>2, PathHolds, PTL DEF Spec
=============================================================================
