-------------------------- MODULE MethodGraphProofs --------------------------
(***************************************************************************)
(* For codes of any length: get_node_clusters cuts what was decoded into   *)
(* runs, each node into one, whatever the instructions are; the links that *)
(* the passes add are said in closed form, first as sets, for what they    *)
(* lose and invent of the flow, and then in their order; and the           *)
(* construction ends.                                                      *)
(***************************************************************************)
EXTENDS MethodGraph, TLAPS, SequenceTheorems, FiniteSetTheorems, WellFoundedInduction

\* Every set of natural numbers that is not empty has a least one.
LEMMA LeastOf ==
  ASSUME NEW S, S \subseteq Nat, S # {}
  PROVE  \E m \in S : \A i \in S : m <= i
<1> DEFINE less == {p \in Nat \X Nat : p[1] < p[2]}
<1>1. IsWellFoundedOn(less, Nat)
  BY NatLessThanWellFounded DEF OpToRel
<1>2. \A i, j \in Nat : <<i, j>> \notin less => j <= i
  OBVIOUS
<1> HIDE DEF less
<1>3. PICK m \in S : \A i \in S : <<i, m>> \notin less
  BY <1>1, WFMin, Zenon
<1> QED
  BY <1>2, <1>3

\* The inner loop finds the end of a cluster.
LEMMA ClusterEnds ==
  ASSUME Len(node) \in Nat, NEW first \in 1..Len(node)
  PROVE  /\ ClusterEnd(first) \in first..Len(node)
         /\ \A i \in first..(ClusterEnd(first) - 1) :
              ~is_cluster_end_opcodetype(node[i].type)
         /\ \/ is_cluster_end_opcodetype(node[ClusterEnd(first)].type)
            \/ ClusterEnd(first) = Len(node)
<1>0. PICK n : n \in Nat /\ n = Len(node)
  OBVIOUS
<1>1. PICK T : T = {i \in first..n : is_cluster_end_opcodetype(node[i].type) \/ i = n}
  OBVIOUS
<1>2. n \in T /\ first \in Nat /\ first <= n
  BY <1>0, <1>1
<1>3. T \subseteq Nat /\ T # {}
  BY <1>0, <1>1, <1>2
<1>4. PICK m \in T : \A i \in T : m <= i
  BY <1>3, LeastOf
<1>5. m \in first..n /\ m \in T /\ \A j \in first..(m - 1) : j \notin T
  BY <1>1, <1>4, <1>3
<1>6. \A j \in first..(m - 1) : j \in first..n
  BY <1>0, <1>2, <1>5
<1>7. /\ is_cluster_end_opcodetype(node[m].type) \/ m = Len(node)
      /\ \A i \in first..(m - 1) : ~is_cluster_end_opcodetype(node[i].type)
  BY <1>0, <1>1, <1>5, <1>6
<1>8. \E last \in first..Len(node) :
        /\ is_cluster_end_opcodetype(node[last].type) \/ last = Len(node)
        /\ \A i \in first..(last - 1) : ~is_cluster_end_opcodetype(node[i].type)
  BY <1>0, <1>1, <1>7
<1>9. QED
  BY <1>8 DEF ClusterEnd

-----------------------------------------------------------------------------
(***************************************************************************)
(* Everything up to the last node taken lies in a cluster, and no cluster  *)
(* reaches into the next.                                                  *)
(***************************************************************************)
Node == [type : Range(get_opcode_type), args : Seq(Nat)]

IInv ==
  /\ code \in Seq(Instruction)
  /\ node \in Seq(Node)
  /\ taken \in 0..Len(node)
  /\ phase = "decode" => taken = 0 /\ DOMAIN clusters = {}
  /\ DOMAIN clusters \subseteq 1..taken
  /\ \A c \in DOMAIN clusters : clusters[c] \in c..taken
  /\ \A i \in 1..taken : \E c \in DOMAIN clusters : i \in c..clusters[c]
  /\ \A c, d \in DOMAIN clusters : c < d => clusters[c] < d
  /\ \A c \in DOMAIN clusters : \A i \in c..clusters[c] :
       is_cluster_end_opcodetype(node[i].type) => i = clusters[c]

LEMMA Initially == Init => IInv
BY CodesAssumption DEF Init, IInv

LEMMA NodeType ==
  ASSUME NEW instr \in Instruction, instr.kind # "glitch"
  PROVE  [type |-> get_opcode_type[instr.kind], args |-> arg_offset(instr)] \in Node
<1>1. instr.kind \in DOMAIN get_opcode_type
  BY DEF Instruction, Kinds, get_opcode_type
<1>2. get_opcode_type[instr.kind] \in Range(get_opcode_type)
  BY <1>1 DEF Range
<1>3. instr.targets \in Seq(Nat)
  BY DEF Instruction
<1>4. packed_switch_targets(instr.targets) \in Seq(Nat)
  <2>1. PICK n : n = Len(instr.targets) \div 2
    OBVIOUS
  <2>2. n \in 0..Len(instr.targets)
    <3>1. \A k \in Nat : k \div 2 \in 0..k
      OBVIOUS
    <3>2. Len(instr.targets) \in Nat
      BY <1>3
    <3>3. QED
      BY <2>1, <3>1, <3>2
  <2>3. SubSeq(instr.targets, 1, n) \in Seq(Nat)
    BY <1>3, <2>2, SubSeqProperties
  <2>4. QED
    BY <2>1, <2>3 DEF packed_switch_targets
<1>5. arg_offset(instr) \in Seq(Nat)
  BY <1>3, <1>4 DEF arg_offset, sparse_switch_targets
<1>6. QED
  BY <1>2, <1>5 DEF Node

LEMMA Step == IInv /\ [Next]_vars => IInv'
<1> SUFFICES ASSUME IInv, [Next]_vars PROVE IInv'
  OBVIOUS
<1>1. CASE dumpInstruction
  <2>1. /\ phase = "decode" /\ phase' = "decode" /\ insnIdx \in DOMAIN code
        /\ code[insnIdx].kind # "glitch"
        /\ node' = Append(node, [type |-> get_opcode_type[code[insnIdx].kind],
                                 args |-> arg_offset(code[insnIdx])])
        /\ UNCHANGED <<code, taken, clusters>>
    BY <1>1 DEF dumpInstruction
  <2>2. PICK n : n = [type |-> get_opcode_type[code[insnIdx].kind],
                      args |-> arg_offset(code[insnIdx])]
    OBVIOUS
  <2>3. code[insnIdx] \in Instruction
    BY <2>1 DEF IInv
  <2>4. n \in Node
    BY <2>1, <2>2, <2>3, NodeType
  <2>5. node' \in Seq(Node) /\ Len(node') \in Nat
    BY <2>1, <2>2, <2>4 DEF IInv
  <2>6. QED
    BY <2>1, <2>5 DEF IInv
<1>2. CASE TakeCluster
  <2>1. PICK first, last : first = taken + 1 /\ last = ClusterEnd(first)
    OBVIOUS
  <2>2. /\ phase = "cluster" /\ taken < Len(node)
        /\ clusters' = [c \in DOMAIN clusters \cup {first} |->
                          IF c = first THEN last ELSE clusters[c]]
        /\ taken' = last
        /\ UNCHANGED <<code, node, phase>>
    BY <1>2, <2>1 DEF TakeCluster
  <2>3. taken \in Nat /\ Len(node) \in Nat /\ first \in 1..Len(node)
    BY <2>1, <2>2 DEF IInv
  <2>4. /\ last \in first..Len(node)
        /\ \A i \in first..(last - 1) : ~is_cluster_end_opcodetype(node[i].type)
    BY <2>1, <2>3, ClusterEnds
  <2>5. DOMAIN clusters' = DOMAIN clusters \cup {first} /\ clusters'[first] = last
    BY <2>2
  <2>6. \A c \in DOMAIN clusters : c \in 1..taken /\ clusters'[c] = clusters[c] /\ clusters[c] \in c..taken
    BY <2>1, <2>2, <2>3 DEF IInv
  <2>7. taken' \in 0..Len(node')
    BY <2>2, <2>3, <2>4
  <2>8. DOMAIN clusters' \subseteq 1..taken'
    BY <2>1, <2>2, <2>3, <2>4, <2>5, <2>6
  <2>9. \A c \in DOMAIN clusters' : clusters'[c] \in c..taken'
    BY <2>1, <2>2, <2>3, <2>4, <2>5, <2>6
  <2>10. \A i \in 1..taken' : \E c \in DOMAIN clusters' : i \in c..clusters'[c]
    <3>1. SUFFICES ASSUME NEW i \in 1..taken' PROVE \E c \in DOMAIN clusters' : i \in c..clusters'[c]
      OBVIOUS
    <3>2. CASE i \in first..last
      BY <2>5, <3>2
    <3>3. CASE i \in 1..taken
      <4>1. PICK c \in DOMAIN clusters : i \in c..clusters[c]
        BY <3>3 DEF IInv
      <4>2. QED
        BY <2>5, <2>6, <4>1
    <3>4. i \in Nat /\ i >= 1 /\ i <= last /\ last \in Nat
      BY <2>2, <2>3, <2>4
    <3>5. i \in 1..taken \/ i \in first..last
      BY <2>1, <2>3, <3>4
    <3>6. QED
      BY <3>2, <3>3, <3>5
  <2>11. \A c, d \in DOMAIN clusters' : c < d => clusters'[c] < d
    <3>1. SUFFICES ASSUME NEW c \in DOMAIN clusters', NEW d \in DOMAIN clusters', c < d
                   PROVE  clusters'[c] < d
      OBVIOUS
    <3>2. CASE c \in DOMAIN clusters /\ d \in DOMAIN clusters
      BY <2>6, <3>1, <3>2 DEF IInv
    <3>3. CASE c \in DOMAIN clusters /\ d = first
      BY <2>1, <2>3, <2>6, <3>3
    <3>4. CASE c = first
      BY <2>1, <2>3, <2>5, <2>6, <3>1, <3>4
    <3>5. QED
      BY <2>5, <3>2, <3>3, <3>4
  <2>12. \A c \in DOMAIN clusters' : \A i \in c..clusters'[c] :
           is_cluster_end_opcodetype(node[i].type) => i = clusters'[c]
    <3>1. \A i \in first..last : is_cluster_end_opcodetype(node[i].type) => i = last
      BY <2>3, <2>4
    <3>2. QED
      BY <2>5, <2>6, <3>1 DEF IInv
  <2>13. QED
    BY <2>2, <2>7, <2>8, <2>9, <2>10, <2>11, <2>12 DEF IInv, is_cluster_end_opcodetype
<1>3. ASSUME UNCHANGED <<code, node, taken, clusters>>, phase' # "decode" PROVE IInv'
  BY <1>3 DEF IInv, is_cluster_end_opcodetype
<1>4. CASE EndOfCode
  BY <1>3, <1>4 DEF EndOfCode
<1>5. CASE TakeFromEmptyQueue
  BY <1>3, <1>5 DEF TakeFromEmptyQueue
<1>6. CASE EndOfQueue
  BY <1>3, <1>6 DEF EndOfQueue
<1>7. CASE process_if_clusters
  BY <1>3, <1>7 DEF process_if_clusters
<1>8. CASE process_jmp_clusters
  BY <1>3, <1>8 DEF process_jmp_clusters
<1>9. CASE JmpWithoutTarget
  BY <1>3, <1>9 DEF JmpWithoutTarget
<1>10. CASE process_switch_clusters
  BY <1>3, <1>10 DEF process_switch_clusters
<1>11. CASE UNCHANGED vars
  BY <1>11 DEF vars, IInv, is_cluster_end_opcodetype
<1>12. QED
  BY <1>1, <1>2, <1>4, <1>5, <1>6, <1>7, <1>8, <1>9, <1>10, <1>11 DEF Next

\* Of two clusters with a node in common one would reach into the other.
LEMMA PartitionOfIInv == IInv => ClustersPartition
<1> SUFFICES ASSUME IInv PROVE ClustersPartition
  OBVIOUS
<1>1. ASSUME NEW i \in 1..taken
      PROVE  Cardinality({c \in DOMAIN clusters : i \in c..clusters[c]}) = 1
  <2>1. PICK c \in DOMAIN clusters : i \in c..clusters[c]
    BY DEF IInv
  <2>2. \A d \in DOMAIN clusters : d \in Nat /\ clusters[d] \in Nat
    BY DEF IInv
  <2>3. ASSUME NEW d \in DOMAIN clusters, i \in d..clusters[d] PROVE d = c
    <3>1. ~ (c < d) /\ ~ (d < c)
      <4>1. \A e, f \in DOMAIN clusters : e < f => clusters[e] < f
        BY DEF IInv
      <4>2. i \in Nat /\ c <= i /\ i <= clusters[c] /\ d <= i /\ i <= clusters[d]
        BY <2>1, <2>2, <2>3
      <4>3. QED
        BY <2>2, <4>1, <4>2
    <3>2. QED
      BY <2>2, <3>1
  <2>4. {d \in DOMAIN clusters : i \in d..clusters[d]} = {c}
    BY <2>1, <2>3
  <2>5. QED
    BY <2>4, FS_Singleton
<1>2. QED
  BY <1>1 DEF ClustersPartition, IInv

(***************************************************************************)
(* The clusters of any code partition its nodes into runs, and no node     *)
(* that a later pass must link lies inside of one (get_node_clusters).     *)
(***************************************************************************)
THEOREM ClustersPartitionHolds == Spec => []ClustersPartition
BY Initially, Step, PartitionOfIInv, PTL DEF Spec

-----------------------------------------------------------------------------
(***************************************************************************)
(* The links.  In every phase those of a node are known from the code and  *)
(* the clusters alone (SuccOf): inside of a cluster the next node, and     *)
(* behind its last node what the passes have added up to then.             *)
(***************************************************************************)
LastNodes == {clusters[c] : c \in DOMAIN clusters}

Linked == {"if", "jmp", "switch", "done"}

Others(i) == DOMAIN clusters \ (Range(node[i].args) \cup {i})

FallsTo(i) == IF node[i].args = <<>> \/ Others(i) = {} THEN {} ELSE {Min(Others(i))}

SuccOfLast(i) ==
  CASE node[i].type = "IF" /\ phase \notin {"decode", "cluster", "if"} ->
         {i + 1, node[i].args[1]} \cap DOMAIN clusters
    [] node[i].type = "JMP" /\ phase \in {"switch", "done"} ->
         {node[i].args[1]} \cap DOMAIN node
    [] node[i].type = "SWITCH" /\ phase = "done" ->
         (Range(node[i].args) \cap DOMAIN clusters) \cup FallsTo(i)
    [] OTHER -> {}

SuccOf(i) ==
  IF i \in LastNodes THEN SuccOfLast(i)
  ELSE IF i \in 1..taken THEN {i + 1} ELSE {}

DecodeInv ==
  /\ code \in Codes
  /\ Len(node) <= Len(code)
  /\ insnIdx = Len(node) + 1
  /\ \A i \in DOMAIN node :
       /\ code[i].kind # "glitch"
       /\ node[i] = [type |-> get_opcode_type[code[i].kind], args |-> arg_offset(code[i])]

LinkInv ==
  /\ phase \in Linked \cup {"decode", "cluster", "undefined"}
  /\ phase \in Linked => taken = Len(node)
  /\ phase \in {"switch", "done"} => \A i \in LastOfType("JMP") : node[i].args # <<>>
  /\ \A c \in DOMAIN clusters :
       is_cluster_end_opcodetype(node[clusters[c]].type) \/ clusters[c] = Len(node)
  /\ phase = "decode" => next \in Seq({ <<>> }) /\ Len(next) = Len(node)
  /\ DOMAIN next = DOMAIN node
  /\ \A i \in DOMAIN next : next[i] \in Seq(DOMAIN node) /\ Succ(i) = SuccOf(i)

LEMMA Upwards ==
  ASSUME NEW n \in Nat, NEW T, 0 \in T, \A i \in 1..n : i - 1 \in T => i \in T
  PROVE  \A i \in 0..n : i \in T
<1> DEFINE missing == {i \in 0..n : i \notin T}
<1>1. SUFFICES ASSUME missing # {} PROVE FALSE
  OBVIOUS
<1>2. missing \subseteq Nat
  OBVIOUS
<1>3. PICK m \in missing : \A i \in missing : m <= i
  <2> HIDE DEF missing
  <2> QED
    BY <1>1, <1>2, LeastOf
<1>4. m \in 1..n /\ m - 1 \in 0..n
  OBVIOUS
<1> QED
  BY <1>3, <1>4

-----------------------------------------------------------------------------
(***************************************************************************)
(* ClustersAt looks up one target after the other: it returns exactly the  *)
(* targets that are clusters.                                              *)
(***************************************************************************)
OneTarget(C, t) == IF t \in C THEN <<t>> ELSE <<>>

IsLookup(f, C, s) ==
  f = [n \in 0..Len(s) |-> IF n = 0 THEN <<>> ELSE f[n - 1] \o OneTarget(C, s[n])]

LEMMA OneMoreTarget ==
  ASSUME NEW C, NEW q \in Seq(C), NEW t
  PROVE  /\ q \o OneTarget(C, t) \in Seq(C)
         /\ Range(q \o OneTarget(C, t)) = Range(q) \cup ({t} \cap C)
<1>1. CASE t \in C
  <2>1. PICK w : w = q \o <<t>>
    OBVIOUS
  <2>2. /\ w \in Seq(C) /\ Len(q) \in Nat /\ Len(w) = Len(q) + 1
        /\ \A i \in 1..Len(q) : w[i] = q[i]
        /\ w[Len(q) + 1] = t
    BY <1>1, <2>1
  <2>3. DOMAIN q = 1..Len(q) /\ DOMAIN w = 1..Len(q) \cup {Len(q) + 1}
    BY <2>2
  <2>4. Range(w) = Range(q) \cup {t}
    BY <2>2, <2>3 DEF Range
  <2> QED
    BY <1>1, <2>1, <2>2, <2>4 DEF OneTarget
<1>2. CASE t \notin C
  <2>1. q \o <<>> = q
    OBVIOUS
  <2> QED
    BY <1>2, <2>1 DEF OneTarget
<1> QED
  BY <1>1, <1>2

LEMMA LookupExists ==
  ASSUME NEW C, NEW s, Len(s) \in Nat
  PROVE  \E f : IsLookup(f, C, s)
<1>0. PICK n : n = Len(s) /\ n \in Nat
  OBVIOUS
<1> DEFINE Right(f, k) == \A m \in 0..k : f[m] = IF m = 0 THEN <<>> ELSE f[m - 1] \o OneTarget(C, s[m])
           T == {k \in 0..n : \E f : Right(f, k)}
<1>1. 0 \in T
  <2>1. PICK f : f = [m \in {0} |-> <<>>]
    OBVIOUS
  <2>2. Right(f, 0)
    BY <2>1
  <2> QED
    BY <1>0, <2>2
<1>2. ASSUME NEW k \in 1..n, k - 1 \in T PROVE k \in T
  <2>1. PICK f : Right(f, k - 1)
    BY <1>2
  <2>2. PICK g : g = [m \in 0..k |-> IF m = k THEN f[k - 1] \o OneTarget(C, s[k]) ELSE f[m]]
    OBVIOUS
  <2>3. k \in Nat /\ k >= 1 /\ k - 1 \in 0..(k - 1)
    BY <1>0
  <2>4. \A m \in 0..(k - 1) : g[m] = f[m]
    BY <2>2, <2>3
  <2>5. g[k] = g[k - 1] \o OneTarget(C, s[k])
    BY <2>2, <2>3, <2>4
  <2>6. ASSUME NEW m \in 0..k
        PROVE  g[m] = IF m = 0 THEN <<>> ELSE g[m - 1] \o OneTarget(C, s[m])
    <3>1. CASE m = k
      <4>1. m # 0 /\ g[m] = g[k] /\ g[m - 1] = g[k - 1] /\ s[m] = s[k]
        BY <2>3, <3>1
      <4> QED
        BY <2>5, <4>1, Zenon
    <3>2. CASE m # k
      <4>1. m \in 0..(k - 1) /\ (m # 0 => m - 1 \in 0..(k - 1))
        BY <2>3, <3>2
      <4> QED
        BY <2>1, <2>4, <4>1
    <3> QED
      BY <3>1, <3>2
  <2>7. Right(g, k)
    BY <2>6
  <2> QED
    BY <2>7
<1>3. n \in T
  <2> HIDE DEF T
  <2>1. \A k \in 0..n : k \in T
    BY <1>0, <1>1, <1>2, Upwards
  <2> QED
    BY <1>0, <2>1
<1>4. PICK f : Right(f, n)
  BY <1>3
<1>5. PICK g : g = [m \in 0..n |-> f[m]]
  OBVIOUS
<1>6. ASSUME NEW m \in 0..n
      PROVE  g[m] = IF m = 0 THEN <<>> ELSE g[m - 1] \o OneTarget(C, s[m])
  <2>1. m # 0 => m - 1 \in 0..n
    BY <1>0
  <2> QED
    BY <1>4, <1>5, <2>1
<1>7. g = [m \in 0..n |-> IF m = 0 THEN <<>> ELSE g[m - 1] \o OneTarget(C, s[m])]
  <2>1. \A m \in 0..n : g[m] = (IF m = 0 THEN <<>> ELSE g[m - 1] \o OneTarget(C, s[m]))
    BY <1>6
  <2>2. PICK h : h = [m \in 0..n |-> IF m = 0 THEN <<>> ELSE g[m - 1] \o OneTarget(C, s[m])]
    OBVIOUS
  <2>3. \A m \in 0..n : g[m] = h[m]
    BY <2>1, <2>2
  <2>4. g = [m \in 0..n |-> g[m]]
    BY <1>5
  <2>5. h = [m \in 0..n |-> h[m]]
    BY <2>2
  <2> QED
    BY <2>2, <2>3, <2>4, <2>5
<1> QED
  BY <1>0, <1>7 DEF IsLookup

LEMMA LookedUp ==
  ASSUME NEW C, NEW s, Len(s) \in Nat, NEW f, IsLookup(f, C, s)
  PROVE  /\ f[Len(s)] \in Seq(C)
         /\ Range(f[Len(s)]) = {s[m] : m \in 1..Len(s)} \cap C
<1>0. PICK n : n = Len(s) /\ n \in Nat
  OBVIOUS
<1>1. /\ f[0] = <<>>
      /\ \A m \in 1..n : f[m] = f[m - 1] \o OneTarget(C, s[m])
  BY <1>0 DEF IsLookup
<1> DEFINE T == {m \in 0..n : f[m] \in Seq(C) /\ Range(f[m]) = {s[j] : j \in 1..m} \cap C}
<1>2. 0 \in T
  <2>1. Range(<<>>) = {}
    BY DEF Range
  <2>2. {s[j] : j \in 1..0} = {}
    OBVIOUS
  <2> QED
    <3>1. f[0] \in Seq(C) /\ Range(f[0]) = {}
      BY <1>1, <2>1
    <3> QED
      BY <1>0, <2>2, <3>1
<1>3. ASSUME NEW m \in 1..n, m - 1 \in T PROVE m \in T
  <2>1. f[m - 1] \in Seq(C) /\ Range(f[m - 1]) = {s[j] : j \in 1..(m - 1)} \cap C
    BY <1>3
  <2>2. f[m] \in Seq(C) /\ Range(f[m]) = Range(f[m - 1]) \cup ({s[m]} \cap C)
    <3>1. PICK q, t : q = f[m - 1] /\ t = s[m]
      OBVIOUS
    <3>2. q \in Seq(C) /\ f[m] = q \o OneTarget(C, t)
      BY <1>1, <2>1, <3>1
    <3> QED
      BY <3>1, <3>2, OneMoreTarget
  <2>3. m \in Nat /\ m >= 1
    BY <1>0
  <2>4. 1..m = 1..(m - 1) \cup {m}
    BY <2>3
  <2>5. {s[j] : j \in 1..m} = {s[j] : j \in 1..(m - 1)} \cup {s[m]}
    BY <2>4
  <2> QED
    BY <2>1, <2>2, <2>5
<1>4. n \in T
  <2> HIDE DEF T
  <2>1. \A k \in 0..n : k \in T
    BY <1>0, <1>2, <1>3, Upwards
  <2> QED
    BY <1>0, <2>1
<1> QED
  BY <1>0, <1>4

LEMMA ClustersAtFacts ==
  ASSUME NEW s, Len(s) \in Nat
  PROVE  /\ ClustersAt(s) \in Seq(DOMAIN clusters)
         /\ Range(ClustersAt(s)) = {s[m] : m \in 1..Len(s)} \cap DOMAIN clusters
<1>1. PICK C : C = DOMAIN clusters
  OBVIOUS
<1>2. \E f : IsLookup(f, C, s)
  BY LookupExists
<1>3. PICK f : f = CHOOSE g : IsLookup(g, C, s)
  OBVIOUS
<1>4. IsLookup(f, C, s)
  BY <1>2, <1>3
<1>5. ClustersAt(s) = f[Len(s)]
  BY <1>1, <1>3 DEF ClustersAt, IsLookup, OneTarget, IsCluster
<1> QED
  BY <1>1, <1>4, <1>5, LookedUp

-----------------------------------------------------------------------------
\* What was decoded is what the code says.
LEMMA TypeOfKind ==
  ASSUME NEW instr \in Instruction, instr.kind # "glitch"
  PROVE  /\ get_opcode_type[instr.kind] = "IF" <=> instr.kind = "if"
         /\ get_opcode_type[instr.kind] = "JMP" <=> instr.kind \in {"goto", "goto32"}
         /\ get_opcode_type[instr.kind] = "SWITCH" <=> instr.kind \in {"packed", "sparse"}
         /\ get_opcode_type[instr.kind] = "RET" <=> instr.kind = "ret"
<1>1. instr.kind \in Kinds
  BY DEF Instruction
<1> QED
  BY <1>1 DEF Kinds, get_opcode_type

LEMMA DecodedType ==
  ASSUME IInv, DecodeInv, NEW i \in DOMAIN node
  PROVE  /\ i \in Nat /\ i >= 1 /\ i <= Len(node) /\ Len(node) \in Nat /\ Len(code) \in Nat
         /\ i \in DOMAIN code /\ code[i] \in Instruction /\ code[i].kind # "glitch"
         /\ node[i] \in Node
         /\ node[i].type = get_opcode_type[code[i].kind]
         /\ node[i].args = arg_offset(code[i])
BY DEF IInv, DecodeInv

\* A branch and a jump have one target, a switch those of its payload.
LEMMA ArgsOfType ==
  ASSUME IInv, DecodeInv, NEW i \in DOMAIN node
  PROVE  /\ node[i].type = "IF" => node[i].args = code[i].targets /\ Len(code[i].targets) = 1
         /\ node[i].type = "JMP" /\ node[i].args # <<>> =>
              node[i].args = code[i].targets /\ Len(code[i].targets) = 1
         /\ node[i].type \notin {"IF", "JMP", "SWITCH"} => code[i].targets = <<>>
         /\ Range(node[i].args) \subseteq Range(code[i].targets)
         /\ code[i].kind \in {"if", "sparse"} => node[i].args = code[i].targets
<1>1. code[i] \in Instruction /\ code[i].kind # "glitch" /\ i \in DOMAIN code
  BY DecodedType
<1>2. PICK ins : ins = code[i]
  OBVIOUS
<1>3. ins \in Instruction /\ ins.targets \in Seq(Nat) /\ ins.kind # "glitch"
  BY <1>1, <1>2 DEF Instruction
<1>4. Verified(code)
  BY CodesAssumption DEF DecodeInv
<1>5. /\ ins.kind \in {"if", "goto", "goto32"} => Len(ins.targets) = 1
      /\ ins.kind \notin {"if", "goto", "goto32", "packed", "sparse"} => ins.targets = <<>>
  BY <1>1, <1>2, <1>4 DEF Verified
<1>6. node[i].type = get_opcode_type[ins.kind] /\ node[i].args = arg_offset(ins)
  BY <1>2, DecodedType
<1>7. /\ ins.kind \in {"if", "goto", "sparse"} => arg_offset(ins) = ins.targets
      /\ ins.kind = "packed" => arg_offset(ins) = packed_switch_targets(ins.targets)
      /\ ins.kind \notin {"if", "goto", "packed", "sparse"} => arg_offset(ins) = <<>>
  BY DEF arg_offset, sparse_switch_targets
<1>8. Range(packed_switch_targets(ins.targets)) \subseteq Range(ins.targets)
  <2>1. PICK n : n = Len(ins.targets) \div 2
    OBVIOUS
  <2>2. n \in 0..Len(ins.targets)
    <3>1. \A k \in Nat : k \div 2 \in 0..k
      OBVIOUS
    <3>2. Len(ins.targets) \in Nat
      BY <1>3
    <3> QED
      BY <2>1, <3>1, <3>2
  <2>3. PICK w : w = SubSeq(ins.targets, 1, n)
    OBVIOUS
  <2>4. Len(w) = n /\ w \in Seq(Nat) /\ \A j \in 1..n : w[j] = ins.targets[j]
    BY <1>3, <2>2, <2>3
  <2>5. DOMAIN w = 1..n /\ 1..n \subseteq DOMAIN ins.targets
    BY <1>3, <2>2, <2>4
  <2> QED
    BY <2>1, <2>3, <2>4, <2>5 DEF Range, packed_switch_targets
<1>9. Range(<<>>) = {}
  BY DEF Range
<1>10. Range(node[i].args) \subseteq Range(ins.targets)
  BY <1>6, <1>7, <1>8, <1>9
<1> QED
  BY <1>2, <1>3, <1>5, <1>6, <1>7, <1>10, TypeOfKind

LEMMA DecodeStep == IInv /\ DecodeInv /\ [Next]_vars => DecodeInv'
<1> SUFFICES ASSUME IInv, DecodeInv, [Next]_vars PROVE DecodeInv'
  OBVIOUS
<1>1. CASE dumpInstruction
  <2>1. PICK k : k = insnIdx
    OBVIOUS
  <2>2. PICK n : n = [type |-> get_opcode_type[code[k].kind], args |-> arg_offset(code[k])]
    OBVIOUS
  <2>3. /\ k \in DOMAIN code /\ code[k].kind # "glitch"
        /\ node' = Append(node, n) /\ insnIdx' = k + 1 /\ code' = code
    BY <1>1, <2>1, <2>2 DEF dumpInstruction
  <2>4. n \in Node
    <3>1. code[k] \in Instruction
      BY <2>3 DEF IInv
    <3> QED
      BY <2>2, <2>3, <3>1, NodeType
  <2>5. Len(node) \in Nat /\ k = Len(node) + 1 /\ k <= Len(code)
    BY <2>1, <2>3 DEF IInv, DecodeInv
  <2>6. /\ Len(node') = k /\ DOMAIN node' = DOMAIN node \cup {k}
        /\ \A i \in DOMAIN node : node'[i] = node[i]
        /\ node'[k] = n
    BY <2>3, <2>4, <2>5 DEF IInv
  <2> QED
    BY <2>2, <2>3, <2>5, <2>6 DEF DecodeInv, arg_offset
<1>2. ASSUME UNCHANGED <<code, insnIdx, node>> PROVE DecodeInv'
  BY <1>2 DEF DecodeInv, arg_offset
<1>3. CASE EndOfCode \/ TakeCluster \/ TakeFromEmptyQueue \/ EndOfQueue \/ JmpWithoutTarget
  BY <1>2, <1>3 DEF EndOfCode, TakeCluster, TakeFromEmptyQueue, EndOfQueue, JmpWithoutTarget
<1>4. CASE process_if_clusters \/ process_jmp_clusters \/ process_switch_clusters
  BY <1>2, <1>4 DEF process_if_clusters, process_jmp_clusters, process_switch_clusters
<1>5. CASE UNCHANGED vars
  BY <1>2, <1>5 DEF vars
<1> QED
  BY <1>1, <1>3, <1>4, <1>5 DEF Next

-----------------------------------------------------------------------------
LEMMA NoLinks ==
  ASSUME NEW S, NEW q \in Seq(S), Range(q) = {}
  PROVE  q = <<>>
<1>1. Len(q) \in Nat /\ DOMAIN q = 1..Len(q)
  OBVIOUS
<1>2. Len(q) = 0
  <2>1. 1 \notin DOMAIN q
    BY DEF Range
  <2> QED
    BY <1>1, <2>1
<1> QED
  BY <1>2, EmptySeq

LEMMA OneLink ==
  ASSUME NEW S, NEW x \in S
  PROVE  <<x>> \in Seq(S) /\ Range(<<x>>) = {x}
BY DEF Range

LEMMA InTheRange ==
  ASSUME NEW s, Len(s) \in Nat, DOMAIN s = 1..Len(s)
  PROVE  Range(s) = {s[m] : m \in 1..Len(s)}
BY DEF Range

LEMMA LinksTogether ==
  ASSUME NEW S, NEW p \in Seq(S), NEW q \in Seq(S)
  PROVE  p \o q \in Seq(S) /\ Range(p \o q) = Range(p) \cup Range(q)
<1>1. PICK w : w = p \o q
  OBVIOUS
<1>2. /\ w \in Seq(S) /\ Len(p) \in Nat /\ Len(q) \in Nat /\ Len(w) = Len(p) + Len(q)
      /\ \A i \in 1..Len(p) : w[i] = p[i]
      /\ \A i \in 1..Len(q) : w[Len(p) + i] = q[i]
  BY <1>1
<1>3. DOMAIN p = 1..Len(p) /\ DOMAIN q = 1..Len(q) /\ DOMAIN w = 1..(Len(p) + Len(q))
  BY <1>2
<1>4. Range(p) \cup Range(q) \subseteq Range(w)
  <2>1. \A i \in 1..Len(p) : i \in DOMAIN w
    BY <1>2, <1>3
  <2>2. \A i \in 1..Len(q) : Len(p) + i \in DOMAIN w
    BY <1>2, <1>3
  <2> QED
    BY <1>2, <1>3, <2>1, <2>2 DEF Range
<1>5. Range(w) \subseteq Range(p) \cup Range(q)
  <2>1. SUFFICES ASSUME NEW i \in DOMAIN w PROVE w[i] \in Range(p) \cup Range(q)
    BY DEF Range
  <2>2. CASE i <= Len(p)
    BY <1>2, <1>3, <2>2 DEF Range
  <2>3. CASE i > Len(p)
    <3>1. PICK j : j = i - Len(p)
      OBVIOUS
    <3>2. j \in 1..Len(q) /\ i = Len(p) + j
      BY <1>2, <1>3, <2>3, <3>1
    <3> QED
      BY <1>2, <1>3, <3>2 DEF Range
  <2> QED
    BY <1>2, <1>3, <2>2, <2>3
<1> QED
  BY <1>1, <1>2, <1>4, <1>5

LEMMA ClustersType ==
  ASSUME IInv
  PROVE  /\ taken \in Nat /\ Len(node) \in Nat /\ taken <= Len(node)
         /\ DOMAIN node = 1..Len(node)
         /\ DOMAIN clusters \subseteq 1..taken /\ 1..taken \subseteq DOMAIN node
         /\ LastNodes \subseteq 1..taken
         /\ \A c \in DOMAIN clusters : c \in Nat /\ clusters[c] \in Nat /\ c <= clusters[c]
<1>1. /\ taken \in Nat /\ Len(node) \in Nat /\ taken <= Len(node)
      /\ DOMAIN node = 1..Len(node)
      /\ DOMAIN clusters \subseteq 1..taken
      /\ \A c \in DOMAIN clusters : clusters[c] \in c..taken
  BY DEF IInv
<1> QED
  BY <1>1 DEF LastNodes

LEMMA FallthroughFacts ==
  ASSUME IInv, NEW i
  PROVE  /\ Fallthrough(i) \in Seq(DOMAIN clusters)
         /\ Range(Fallthrough(i)) = FallsTo(i)
<1>1. CASE node[i].args = <<>> \/ Others(i) = {}
  <2>1. Fallthrough(i) = <<>> /\ FallsTo(i) = {}
    BY <1>1 DEF Fallthrough, FallsTo, Others
  <2> QED
    BY <2>1 DEF Range
<1>2. CASE ~(node[i].args = <<>> \/ Others(i) = {})
  <2>1. PICK S : S = Others(i)
    OBVIOUS
  <2>2. S \subseteq Nat /\ S # {} /\ S \subseteq DOMAIN clusters
    BY <1>2, <2>1, ClustersType DEF Others
  <2>3. Min(S) \in S
    BY <2>2, LeastOf DEF Min
  <2>4. Fallthrough(i) = <<Min(S)>> /\ FallsTo(i) = {Min(S)}
    BY <1>2, <2>1 DEF Fallthrough, FallsTo, Others
  <2> QED
    BY <2>2, <2>3, <2>4, OneLink
<1> QED
  BY <1>1, <1>2

\* What does not touch the clusters leaves what is known of the links.
LEMMA SameLinks ==
  ASSUME LinkInv, UNCHANGED <<node, taken, clusters, next>>,
         phase' \in Linked \cup {"cluster", "undefined"},
         phase' \in Linked => taken = Len(node),
         phase' \notin {"switch", "done"},
         \A i \in LastNodes : SuccOfLast(i)' = SuccOfLast(i)
  PROVE  LinkInv'
<1>1. LastNodes' = LastNodes /\ \A i : Succ(i)' = Succ(i)
  BY DEF LastNodes, Succ, Range
<1>2. \A i : SuccOf(i)' = SuccOf(i)
  BY <1>1 DEF SuccOf
<1>3. phase' # "decode"
  BY DEF Linked
<1> QED
  BY <1>1, <1>2, <1>3 DEF LinkInv, is_cluster_end_opcodetype

LEMMA DecodeLinks == IInv /\ LinkInv /\ dumpInstruction => LinkInv'
<1> SUFFICES ASSUME IInv, LinkInv, dumpInstruction PROVE LinkInv'
  OBVIOUS
<1>1. PICK n : n = [type |-> get_opcode_type[code[insnIdx].kind], args |-> arg_offset(code[insnIdx])]
  OBVIOUS
<1>2. /\ phase = "decode" /\ phase' = "decode"
      /\ node' = Append(node, n)
      /\ next' = Append(next, <<>>)
      /\ UNCHANGED <<taken, clusters>>
  BY <1>1 DEF dumpInstruction
<1>3. n \in Node
  <2>1. code[insnIdx] \in Instruction /\ code[insnIdx].kind # "glitch"
    BY DEF IInv, dumpInstruction
  <2> QED
    BY <1>1, <2>1, NodeType
<1>4. node \in Seq(Node) /\ taken = 0 /\ DOMAIN clusters = {}
  BY <1>2 DEF IInv
<1>5. next \in Seq({ <<>> }) /\ Len(next) = Len(node)
  BY <1>2 DEF LinkInv
<1>6. next' \in Seq({ <<>> }) /\ Len(next') = Len(node') /\ DOMAIN next' = DOMAIN node'
  BY <1>2, <1>3, <1>4, <1>5
<1>7. LastNodes' = {} /\ taken' = 0
  BY <1>2, <1>4 DEF LastNodes
<1>8. ASSUME NEW i \in DOMAIN next' PROVE next'[i] \in Seq(DOMAIN node') /\ Succ(i)' = SuccOf(i)'
  <2>1. next'[i] = <<>>
    BY <1>6
  <2>2. Succ(i)' = {}
    BY <2>1 DEF Succ, Range
  <2>3. SuccOf(i)' = {}
    BY <1>7 DEF SuccOf
  <2> QED
    BY <2>1, <2>2, <2>3
<1>9. DOMAIN clusters' = {}
  BY <1>2, <1>4
<1> QED
  BY <1>2, <1>6, <1>8, <1>9 DEF LinkInv, Linked

LEMMA ClusterLinks == IInv /\ LinkInv /\ TakeCluster => LinkInv'
<1> SUFFICES ASSUME IInv, LinkInv, TakeCluster PROVE LinkInv'
  OBVIOUS
<1>1. PICK first, last : first = taken + 1 /\ last = ClusterEnd(first)
  OBVIOUS
<1>2. /\ phase = "cluster" /\ phase' = "cluster" /\ taken < Len(node)
      /\ clusters' = [c \in DOMAIN clusters \cup {first} |->
                        IF c = first THEN last ELSE clusters[c]]
      /\ next' = [i \in DOMAIN next |->
                    IF i \in first..(last - 1) THEN Append(next[i], i + 1) ELSE next[i]]
      /\ taken' = last
      /\ node' = node
  BY <1>1 DEF TakeCluster
<1>3. /\ taken \in Nat /\ Len(node) \in Nat /\ first \in 1..Len(node)
      /\ DOMAIN node = 1..Len(node) /\ LastNodes \subseteq 1..taken
      /\ DOMAIN clusters \subseteq 1..taken
  BY <1>1, <1>2, ClustersType
<1>4. /\ last \in first..Len(node)
      /\ is_cluster_end_opcodetype(node[last].type) \/ last = Len(node)
  BY <1>1, <1>3, ClusterEnds
<1>41. first \in Nat /\ last \in Nat /\ first >= 1 /\ last <= Len(node)
  <2>1. PICK n : n = Len(node) /\ n \in Nat /\ first \in 1..n /\ last \in first..n
    BY <1>3, <1>4
  <2> QED
    BY <2>1
<1>5. /\ DOMAIN clusters' = DOMAIN clusters \cup {first} /\ clusters'[first] = last
      /\ \A c \in DOMAIN clusters : clusters'[c] = clusters[c]
  BY <1>1, <1>2, <1>3
<1>6. LastNodes' = LastNodes \cup {last}
  BY <1>5 DEF LastNodes
<1>7. DOMAIN next' = DOMAIN node /\ DOMAIN next = DOMAIN node
  BY <1>2 DEF LinkInv
<1>8. ASSUME NEW i \in DOMAIN next PROVE next'[i] \in Seq(DOMAIN node) /\ Succ(i)' = SuccOf(i)'
  <2>1. next[i] \in Seq(DOMAIN node) /\ Range(next[i]) = SuccOf(i) /\ i \in Nat
    <3>1. next[i] \in Seq(DOMAIN node) /\ Succ(i) = SuccOf(i)
      BY DEF LinkInv
    <3>2. i \in 1..Len(node)
      BY <1>3, <1>7
    <3> QED
      BY <3>1, <3>2 DEF Succ
  <2>2. \A j : SuccOfLast(j) = {} /\ SuccOfLast(j)' = {}
    BY <1>2 DEF SuccOfLast
  <2>3. CASE i \in first..(last - 1)
    <3>1. i \notin LastNodes /\ i \notin 1..taken
      BY <1>1, <1>3, <1>4, <2>1, <2>3
    <3>2. next[i] = <<>>
      BY <2>1, <3>1, NoLinks DEF SuccOf
    <3>3. next'[i] = <<i + 1>>
      BY <1>2, <2>3, <3>2
    <3>4. i + 1 \in DOMAIN node
      <4>1. first \in Nat /\ last \in Nat /\ first >= 1 /\ last <= Len(node)
        BY <1>41
      <4>2. i + 1 \in 1..last
        BY <2>1, <2>3, <4>1
      <4> QED
        BY <1>3, <4>1, <4>2
    <3>5. next'[i] \in Seq(DOMAIN node) /\ Succ(i)' = {i + 1}
      BY <3>3, <3>4, OneLink DEF Succ
    <3>6. i \notin LastNodes' /\ i \in 1..taken'
      <4>1. first \in Nat /\ last \in Nat /\ first >= 1
        BY <1>41
      <4>2. i # last /\ i \in 1..last
        BY <2>1, <2>3, <4>1
      <4> QED
        BY <1>2, <1>6, <3>1, <4>2
    <3> QED
      BY <3>5, <3>6 DEF SuccOf
  <2>4. CASE i \notin first..(last - 1)
    <3>1. next'[i] = next[i]
      BY <1>2, <2>4
    <3>2. Succ(i)' = SuccOf(i)
      BY <2>1, <3>1 DEF Succ
    <3>3. CASE i = last
      <4>1. i \notin LastNodes /\ i \notin 1..taken /\ i \in LastNodes'
        BY <1>1, <1>3, <1>4, <1>6, <2>1, <3>3
      <4> QED
        BY <2>1, <2>2, <3>1, <3>2, <4>1 DEF SuccOf
    <3>4. CASE i # last
      <4>1. i \in LastNodes' <=> i \in LastNodes
        BY <1>6, <3>4
      <4>2. i \in 1..taken' <=> i \in 1..taken
        BY <1>1, <1>2, <1>3, <1>4, <2>1, <2>4, <3>4
      <4>3. SuccOf(i)' = SuccOf(i)
        BY <2>2, <4>1, <4>2 DEF SuccOf
      <4> QED
        BY <2>1, <3>1, <3>2, <4>3
    <3> QED
      BY <3>3, <3>4
  <2> QED
    BY <2>3, <2>4
<1>9. \A c \in DOMAIN clusters' :
        is_cluster_end_opcodetype(node[clusters'[c]].type) \/ clusters'[c] = Len(node)
  BY <1>4, <1>5 DEF LinkInv
<1>10. Len(node') = Len(node) /\ DOMAIN node' = DOMAIN node
  BY <1>2
<1> QED
  BY <1>2, <1>7, <1>8, <1>9, <1>10 DEF LinkInv, Linked, is_cluster_end_opcodetype

LEMMA LastOfTypeIs ==
  \A i, type : i \in LastOfType(type) <=> i \in LastNodes /\ node[i].type = type
BY DEF LastOfType, LastNodes

LEMMA IfPass == IInv /\ DecodeInv /\ LinkInv /\ process_if_clusters => LinkInv'
<1> SUFFICES ASSUME IInv, DecodeInv, LinkInv, process_if_clusters PROVE LinkInv'
  OBVIOUS
<1>1. /\ phase = "if" /\ phase' = "jmp" /\ UNCHANGED <<node, taken, clusters>>
      /\ next' = [i \in DOMAIN next |->
                    IF i \in LastOfType("IF") THEN next[i] \o IfLinks(i) ELSE next[i]]
  BY DEF process_if_clusters, LinkAll
<1>2. LastNodes' = LastNodes /\ DOMAIN next' = DOMAIN next /\ DOMAIN next = DOMAIN node
  BY <1>1 DEF LastNodes, LinkInv
<1>3. ASSUME NEW i \in DOMAIN next PROVE next'[i] \in Seq(DOMAIN node) /\ Succ(i)' = SuccOf(i)'
  <2>1. next[i] \in Seq(DOMAIN node) /\ Range(next[i]) = SuccOf(i)
    BY DEF LinkInv, Succ
  <2>2. CASE i \in LastOfType("IF")
    <3>1. i \in LastNodes /\ node[i].type = "IF"
      BY <2>2, LastOfTypeIs
    <3>2. SuccOf(i) = {}
      BY <1>1, <3>1 DEF SuccOf, SuccOfLast
    <3>3. PICK t : t = <<i + 1, node[i].args[1]>>
      OBVIOUS
    <3>4. Len(t) = 2 /\ {t[m] : m \in 1..Len(t)} = {i + 1, node[i].args[1]}
      BY <3>3
    <3>5. /\ IfLinks(i) \in Seq(DOMAIN clusters)
          /\ Range(IfLinks(i)) = {i + 1, node[i].args[1]} \cap DOMAIN clusters
      <4>1. IfLinks(i) = ClustersAt(t) /\ Len(t) \in Nat
        BY <3>3, <3>4 DEF IfLinks
      <4>2. /\ ClustersAt(t) \in Seq(DOMAIN clusters)
            /\ Range(ClustersAt(t)) = {t[m] : m \in 1..Len(t)} \cap DOMAIN clusters
        BY <4>1, ClustersAtFacts
      <4> QED
        BY <3>4, <4>1, <4>2
    <3>6. IfLinks(i) \in Seq(DOMAIN node)
      BY <3>5, ClustersType
    <3>7. next'[i] = IfLinks(i)
      <4>1. next[i] = <<>>
        BY <2>1, <3>2, NoLinks
      <4> QED
        BY <1>1, <2>2, <3>6, <4>1
    <3>8. SuccOf(i)' = {i + 1, node[i].args[1]} \cap DOMAIN clusters
      BY <1>1, <1>2, <3>1 DEF SuccOf, SuccOfLast
    <3> QED
      BY <3>5, <3>6, <3>7, <3>8 DEF Succ
  <2>3. CASE i \notin LastOfType("IF")
    <3>1. next'[i] = next[i]
      BY <1>1, <2>3
    <3>2. i \in LastNodes => node[i].type # "IF"
      BY <2>3, LastOfTypeIs
    <3>3. SuccOf(i)' = SuccOf(i)
      BY <1>1, <1>2, <3>2 DEF SuccOf, SuccOfLast
    <3> QED
      BY <2>1, <3>1, <3>3 DEF Succ
  <2> QED
    BY <2>2, <2>3
<1> QED
  BY <1>1, <1>2, <1>3 DEF LinkInv, Linked, is_cluster_end_opcodetype

LEMMA JmpPass == IInv /\ DecodeInv /\ LinkInv /\ process_jmp_clusters => LinkInv'
<1> SUFFICES ASSUME IInv, DecodeInv, LinkInv, process_jmp_clusters PROVE LinkInv'
  OBVIOUS
<1>1. /\ phase = "jmp" /\ phase' = "switch" /\ UNCHANGED <<node, taken, clusters>>
      /\ \A i \in LastOfType("JMP") : node[i].args # <<>>
      /\ next' = [i \in DOMAIN next |->
                    IF i \in LastOfType("JMP") THEN next[i] \o JmpLinks(i) ELSE next[i]]
  BY DEF process_jmp_clusters, LinkAll
<1>2. LastNodes' = LastNodes /\ DOMAIN next' = DOMAIN next /\ DOMAIN next = DOMAIN node
  BY <1>1 DEF LastNodes, LinkInv
<1>3. ASSUME NEW i \in DOMAIN next PROVE next'[i] \in Seq(DOMAIN node) /\ Succ(i)' = SuccOf(i)'
  <2>1. next[i] \in Seq(DOMAIN node) /\ Range(next[i]) = SuccOf(i)
    BY DEF LinkInv, Succ
  <2>2. CASE i \in LastOfType("JMP")
    <3>1. i \in LastNodes /\ node[i].type = "JMP"
      BY <2>2, LastOfTypeIs
    <3>2. SuccOf(i) = {}
      BY <1>1, <3>1 DEF SuccOf, SuccOfLast
    <3>3. PICK t : t = node[i].args[1]
      OBVIOUS
    <3>4. JmpLinks(i) \in Seq(DOMAIN node) /\ Range(JmpLinks(i)) = {t} \cap DOMAIN node
      <4>1. CASE t \in DOMAIN node
        BY <3>3, <4>1, OneLink DEF JmpLinks
      <4>2. CASE t \notin DOMAIN node
        BY <3>3, <4>2 DEF JmpLinks, Range
      <4> QED
        BY <4>1, <4>2
    <3>5. next'[i] = JmpLinks(i)
      <4>1. next[i] = <<>>
        BY <2>1, <3>2, NoLinks
      <4> QED
        BY <1>1, <2>2, <3>4, <4>1
    <3>6. SuccOf(i)' = {t} \cap DOMAIN node
      BY <1>1, <1>2, <3>1, <3>3 DEF SuccOf, SuccOfLast
    <3> QED
      BY <3>4, <3>5, <3>6 DEF Succ
  <2>3. CASE i \notin LastOfType("JMP")
    <3>1. next'[i] = next[i]
      BY <1>1, <2>3
    <3>2. i \in LastNodes => node[i].type # "JMP"
      BY <2>3, LastOfTypeIs
    <3>3. SuccOf(i)' = SuccOf(i)
      BY <1>1, <1>2, <3>2 DEF SuccOf, SuccOfLast
    <3> QED
      BY <2>1, <3>1, <3>3 DEF Succ
  <2> QED
    BY <2>2, <2>3
<1>4. LastOfType("JMP")' = LastOfType("JMP")
  BY <1>1 DEF LastOfType
<1> QED
  BY <1>1, <1>2, <1>3, <1>4 DEF LinkInv, Linked, is_cluster_end_opcodetype

LEMMA SwitchPass == IInv /\ DecodeInv /\ LinkInv /\ process_switch_clusters => LinkInv'
<1> SUFFICES ASSUME IInv, DecodeInv, LinkInv, process_switch_clusters PROVE LinkInv'
  OBVIOUS
<1>1. /\ phase = "switch" /\ phase' = "done" /\ UNCHANGED <<node, taken, clusters>>
      /\ next' = [i \in DOMAIN next |->
                    IF i \in LastOfType("SWITCH") THEN next[i] \o SwitchLinks(i) ELSE next[i]]
  BY DEF process_switch_clusters, LinkAll
<1>2. LastNodes' = LastNodes /\ DOMAIN next' = DOMAIN next /\ DOMAIN next = DOMAIN node
  BY <1>1 DEF LastNodes, LinkInv
<1>3. ASSUME NEW i \in DOMAIN next PROVE next'[i] \in Seq(DOMAIN node) /\ Succ(i)' = SuccOf(i)'
  <2>1. next[i] \in Seq(DOMAIN node) /\ Range(next[i]) = SuccOf(i)
    BY DEF LinkInv, Succ
  <2>2. CASE i \in LastOfType("SWITCH")
    <3>1. i \in LastNodes /\ node[i].type = "SWITCH"
      BY <2>2, LastOfTypeIs
    <3>2. SuccOf(i) = {}
      BY <1>1, <3>1 DEF SuccOf, SuccOfLast
    <3>3. PICK args : args = node[i].args
      OBVIOUS
    <3>4. Len(args) \in Nat /\ Range(args) = {args[m] : m \in 1..Len(args)}
      <4>1. args \in Seq(Nat)
        BY <1>2, <3>3, DecodedType DEF Node
      <4> QED
        BY <4>1, InTheRange
    <3>5. /\ ClustersAt(args) \in Seq(DOMAIN clusters)
          /\ Range(ClustersAt(args)) = Range(args) \cap DOMAIN clusters
      BY <3>4, ClustersAtFacts
    <3>6. /\ SwitchLinks(i) \in Seq(DOMAIN clusters)
          /\ Range(SwitchLinks(i)) = (Range(args) \cap DOMAIN clusters) \cup FallsTo(i)
      BY <3>3, <3>5, FallthroughFacts, LinksTogether DEF SwitchLinks
    <3>7. SwitchLinks(i) \in Seq(DOMAIN node)
      BY <3>6, ClustersType
    <3>8. next'[i] = SwitchLinks(i)
      <4>1. next[i] = <<>>
        BY <2>1, <3>2, NoLinks
      <4> QED
        BY <1>1, <2>2, <3>7, <4>1
    <3>9. SuccOf(i)' = (Range(args) \cap DOMAIN clusters) \cup FallsTo(i)
      <4>1. FallsTo(i)' = FallsTo(i)
        BY <1>1 DEF FallsTo, Others
      <4> QED
        BY <1>1, <1>2, <3>1, <3>3, <4>1 DEF SuccOf, SuccOfLast
    <3> QED
      BY <3>6, <3>7, <3>8, <3>9 DEF Succ
  <2>3. CASE i \notin LastOfType("SWITCH")
    <3>1. next'[i] = next[i]
      BY <1>1, <2>3
    <3>2. i \in LastNodes => node[i].type # "SWITCH"
      BY <2>3, LastOfTypeIs
    <3>3. SuccOf(i)' = SuccOf(i)
      BY <1>1, <1>2, <3>2 DEF SuccOf, SuccOfLast
    <3> QED
      BY <2>1, <3>1, <3>3 DEF Succ
  <2> QED
    BY <2>2, <2>3
<1>4. LastOfType("JMP")' = LastOfType("JMP")
  BY <1>1 DEF LastOfType
<1> QED
  BY <1>1, <1>2, <1>3, <1>4 DEF LinkInv, Linked, is_cluster_end_opcodetype

LEMMA LinksStep == IInv /\ DecodeInv /\ LinkInv /\ [Next]_vars => LinkInv'
<1> SUFFICES ASSUME IInv, DecodeInv, LinkInv, [Next]_vars PROVE LinkInv'
  OBVIOUS
<1>1. CASE EndOfCode
  <2>1. DOMAIN clusters = {} /\ UNCHANGED <<node, taken, clusters, next>> /\ phase' = "cluster"
    BY <1>1 DEF EndOfCode, IInv
  <2>2. LastNodes = {}
    BY <2>1 DEF LastNodes
  <2> QED
    BY <2>1, <2>2, SameLinks DEF Linked
<1>2. CASE TakeFromEmptyQueue
  <2>1. node = <<>> /\ UNCHANGED <<node, taken, clusters, next>> /\ phase' = "undefined"
    BY <1>2 DEF TakeFromEmptyQueue
  <2>2. LastNodes = {}
    BY <2>1, ClustersType
  <2> QED
    BY <2>1, <2>2, SameLinks DEF Linked
<1>3. CASE EndOfQueue
  <2>1. /\ UNCHANGED <<node, taken, clusters, next>> /\ phase = "cluster" /\ phase' = "if"
        /\ taken = Len(node)
    BY <1>3 DEF EndOfQueue
  <2>2. \A i : SuccOfLast(i) = {} /\ SuccOfLast(i)' = {}
    BY <2>1 DEF SuccOfLast
  <2> QED
    BY <2>1, <2>2, SameLinks DEF Linked
<1>4. CASE JmpWithoutTarget
  <2>1. UNCHANGED <<node, taken, clusters, next>> /\ phase = "jmp" /\ phase' = "undefined"
    BY <1>4 DEF JmpWithoutTarget
  <2>2. \A i : SuccOfLast(i)' = SuccOfLast(i)
    BY <2>1 DEF SuccOfLast
  <2> QED
    BY <2>1, <2>2, SameLinks DEF Linked
<1>5. CASE UNCHANGED vars
  <2>1. UNCHANGED <<node, taken, clusters, next, phase>>
    BY <1>5 DEF vars
  <2>2. /\ LastNodes' = LastNodes /\ LastOfType("JMP")' = LastOfType("JMP")
        /\ \A i : Succ(i)' = Succ(i)
    BY <2>1 DEF LastNodes, LastOfType, Succ, Range
  <2>3. \A i : FallsTo(i)' = FallsTo(i)
    BY <2>1 DEF FallsTo, Others
  <2>4. \A i : SuccOf(i)' = SuccOf(i)
    BY <2>1, <2>2, <2>3 DEF SuccOf, SuccOfLast
  <2> QED
    BY <2>1, <2>2, <2>4 DEF LinkInv, is_cluster_end_opcodetype
<1> QED
  BY <1>1, <1>2, <1>3, <1>4, <1>5, DecodeLinks, ClusterLinks, IfPass, JmpPass, SwitchPass DEF Next

LEMMA LinksInitially == Init => DecodeInv /\ LinkInv
<1> SUFFICES ASSUME Init PROVE DecodeInv /\ LinkInv
  OBVIOUS
<1>1. /\ code \in Codes /\ code \in Seq(Instruction) /\ insnIdx = 1 /\ node = <<>>
      /\ clusters = <<>> /\ next = <<>> /\ phase = "decode"
  BY CodesAssumption DEF Init
<1>2. Len(node) = 0 /\ DOMAIN node = {} /\ DOMAIN next = {} /\ DOMAIN clusters = {}
      /\ next \in Seq({ <<>> }) /\ Len(next) = 0
  BY <1>1
<1>3. Len(code) \in Nat
  BY <1>1
<1> QED
  BY <1>1, <1>2, <1>3 DEF DecodeInv, LinkInv, Linked

LEMMA InvariantsHold == Spec => [](IInv /\ DecodeInv /\ LinkInv)
<1>1. Init => IInv /\ DecodeInv /\ LinkInv
  BY Initially, LinksInitially
<1>2. IInv /\ DecodeInv /\ LinkInv /\ [Next]_vars => (IInv /\ DecodeInv /\ LinkInv)'
  BY Step, DecodeStep, LinksStep
<1> QED
  BY <1>1, <1>2, PTL DEF Spec

-----------------------------------------------------------------------------
LEMMA TypeByInv == IInv /\ DecodeInv /\ LinkInv => TypeOK
<1> SUFFICES ASSUME IInv, DecodeInv, LinkInv PROVE TypeOK
  OBVIOUS
<1>1. Len(code) \in Nat /\ Len(node) \in Nat /\ Len(node) <= Len(code) /\ insnIdx = Len(node) + 1
  BY DEF IInv, DecodeInv
<1>2. insnIdx \in 1..(Len(code) + 1)
  BY <1>1
<1>3. DOMAIN next = DOMAIN node /\ \A i \in DOMAIN next : next[i] \in Seq(DOMAIN node)
  BY DEF LinkInv
<1>4. phase \in {"decode", "cluster", "if", "jmp", "switch", "done", "undefined"}
  BY DEF LinkInv, Linked
<1> QED
  BY <1>2, <1>3, <1>4 DEF TypeOK, IInv, Node

(***************************************************************************)
(* The construction keeps to its types; above all, every link of a node is *)
(* a node of the method that was decoded (the four passes of TCNode.cpp).  *)
(***************************************************************************)
THEOREM TypeCorrect == Spec => []TypeOK
BY InvariantsHold, TypeByInv, PTL

(***************************************************************************)
(* What the links of a finished graph are, node by node.                   *)
(***************************************************************************)
LEMMA InsideCluster ==
  ASSUME IInv, DecodeInv, LinkInv, phase = "done", NEW i \in DOMAIN node, i \notin LastNodes
  PROVE  /\ Succ(i) = {i + 1} /\ i + 1 \in DOMAIN node
         /\ node[i].type \notin {"IF", "JMP", "SWITCH", "RET"}
<1>1. taken = Len(node) /\ DOMAIN node = 1..Len(node) /\ Len(node) \in Nat /\ DOMAIN next = DOMAIN node
  BY ClustersType DEF LinkInv, Linked
<1>2. PICK c \in DOMAIN clusters : i \in c..clusters[c]
  BY <1>1 DEF IInv
<1>3. i # clusters[c] /\ clusters[c] \in c..Len(node)
  BY <1>1 DEF LastNodes, IInv
<1>4. i + 1 \in DOMAIN node
  <2>1. PICK n, k : n = Len(node) /\ k = clusters[c]
    OBVIOUS
  <2>2. c \in Nat /\ n \in Nat /\ i \in 1..n /\ i \in c..k /\ k \in c..n /\ i # k
    BY <1>1, <1>2, <1>3, <2>1, ClustersType
  <2>3. i + 1 \in 1..n
    BY <2>2
  <2> QED
    BY <1>1, <2>1, <2>3
<1>5. ~is_cluster_end_opcodetype(node[i].type)
  BY <1>2, <1>3 DEF IInv
<1>6. Succ(i) = {i + 1}
  BY <1>1 DEF LinkInv, SuccOf
<1> QED
  BY <1>4, <1>5, <1>6 DEF is_cluster_end_opcodetype

LEMMA EndOfCluster ==
  ASSUME IInv, DecodeInv, LinkInv, phase = "done", NEW i \in DOMAIN node, i \in LastNodes
  PROVE  /\ Succ(i) = SuccOfLast(i)
         /\ i + 1 \in DOMAIN node =>
              /\ IsCluster(i + 1)
              /\ node[i].type \in {"IF", "JMP", "SWITCH", "RET"}
<1>1. taken = Len(node) /\ DOMAIN node = 1..Len(node) /\ Len(node) \in Nat /\ DOMAIN next = DOMAIN node
  BY ClustersType DEF LinkInv, Linked
<1>2. Succ(i) = SuccOfLast(i)
  BY <1>1 DEF LinkInv, SuccOf
<1>3. PICK c \in DOMAIN clusters : i = clusters[c]
  BY DEF LastNodes
<1>4. ASSUME i + 1 \in DOMAIN node
      PROVE  IsCluster(i + 1) /\ node[i].type \in {"IF", "JMP", "SWITCH", "RET"}
  <2>1. is_cluster_end_opcodetype(node[i].type)
    <3>1. i # Len(node)
      BY <1>1, <1>4
    <3> QED
      BY <1>3, <3>1 DEF LinkInv
  <2>2. PICK d \in DOMAIN clusters : i + 1 \in d..clusters[d]
    BY <1>1, <1>4 DEF IInv
  <2>3. d = i + 1
    <3>1. c \in Nat /\ d \in Nat /\ clusters[d] \in Nat /\ i \in Nat /\ c <= i
      BY <1>3, ClustersType
    <3>2. (c < d => i < d) /\ (d < c => clusters[d] < c)
      BY <1>3 DEF IInv
    <3>3. c = d => clusters[d] = i
      BY <1>3
    <3> QED
      BY <2>2, <3>1, <3>2, <3>3
  <2> QED
    BY <2>1, <2>3 DEF IsCluster, is_cluster_end_opcodetype
<1> QED
  BY <1>2, <1>4

LEMMA KindOfNode ==
  ASSUME IInv, DecodeInv, NEW i \in DOMAIN node
  PROVE  /\ code[i].kind \in Kinds /\ code[i].kind # "glitch"
         /\ node[i].type = "IF" <=> code[i].kind = "if"
         /\ node[i].type = "JMP" <=> code[i].kind \in {"goto", "goto32"}
         /\ node[i].type = "SWITCH" <=> code[i].kind \in {"packed", "sparse"}
         /\ node[i].type = "RET" <=> code[i].kind = "ret"
<1>1. code[i] \in Instruction /\ code[i].kind # "glitch"
      /\ node[i].type = get_opcode_type[code[i].kind]
  BY DecodedType
<1>2. code[i].kind \in Kinds
  BY <1>1 DEF Instruction
<1> QED
  BY <1>1, <1>2, TypeOfKind

\* The successor sets of the three kinds of branches, in terms of the code.
LEMMA BranchLinks ==
  ASSUME IInv, DecodeInv, LinkInv, phase = "done", NEW i \in DOMAIN node, i \in LastNodes
  PROVE  /\ node[i].type = "IF" =>
              /\ Succ(i) = {i + 1, node[i].args[1]} \cap DOMAIN clusters
              /\ Range(code[i].targets) = {node[i].args[1]}
         /\ node[i].type = "JMP" =>
              /\ Succ(i) = {node[i].args[1]} \cap DOMAIN node
              /\ Range(code[i].targets) = {node[i].args[1]}
         /\ node[i].type = "SWITCH" =>
              Succ(i) = (Range(node[i].args) \cap DOMAIN clusters) \cup FallsTo(i)
         /\ node[i].type \notin {"IF", "JMP", "SWITCH"} => Succ(i) = {}
<1>1. Succ(i) = SuccOfLast(i)
  BY EndOfCluster
<1>2. /\ node[i].type = "IF" => Succ(i) = {i + 1, node[i].args[1]} \cap DOMAIN clusters
      /\ node[i].type = "JMP" => Succ(i) = {node[i].args[1]} \cap DOMAIN node
      /\ node[i].type = "SWITCH" =>
           Succ(i) = (Range(node[i].args) \cap DOMAIN clusters) \cup FallsTo(i)
      /\ node[i].type \notin {"IF", "JMP", "SWITCH"} => Succ(i) = {}
  BY <1>1 DEF SuccOfLast
<1>3. node[i].type = "JMP" => node[i].args # <<>>
  BY LastOfTypeIs DEF LinkInv
<1>4. ASSUME node[i].type \in {"IF", "JMP"} PROVE Range(code[i].targets) = {node[i].args[1]}
  <2>1. node[i].args = code[i].targets /\ Len(code[i].targets) = 1
    BY <1>3, <1>4, ArgsOfType
  <2>2. code[i].targets \in Seq(Nat)
    BY DecodedType DEF Instruction
  <2>3. DOMAIN code[i].targets = {1}
    BY <2>1, <2>2
  <2> QED
    BY <2>1, <2>3 DEF Range
<1> QED
  BY <1>2, <1>4

LEMMA FallsToFacts ==
  ASSUME IInv, NEW i
  PROVE  /\ \A t \in FallsTo(i) : IsCluster(t) /\ t # i
         /\ \A t, u \in FallsTo(i) : t = u
<1>1. CASE node[i].args = <<>> \/ Others(i) = {}
  BY <1>1 DEF FallsTo
<1>2. CASE ~(node[i].args = <<>> \/ Others(i) = {})
  <2>1. PICK S : S = Others(i)
    OBVIOUS
  <2>2. S \subseteq Nat /\ S # {} /\ S \subseteq DOMAIN clusters /\ i \notin S
    BY <1>2, <2>1, ClustersType DEF Others
  <2>3. Min(S) \in S
    BY <2>2, LeastOf DEF Min
  <2>4. FallsTo(i) = {Min(S)}
    BY <1>2, <2>1 DEF FallsTo
  <2> QED
    BY <2>2, <2>3, <2>4 DEF IsCluster
<1> QED
  BY <1>1, <1>2

LEMMA AtMostOne ==
  ASSUME NEW S, \A x, y \in S : x = y
  PROVE  Cardinality(S) <= 1
<1>1. CASE S = {}
  BY <1>1, FS_EmptySet
<1>2. CASE S # {}
  <2>1. PICK x : S = {x}
    BY <1>2
  <2> QED
    BY <2>1, FS_Singleton
<1> QED
  BY <1>1, <1>2

LEMMA SpuriousByInv == IInv /\ DecodeInv /\ LinkInv => SpuriousFlow
<1> SUFFICES ASSUME IInv, DecodeInv, LinkInv, phase = "done", NEW i \in DOMAIN node
             PROVE  /\ Cardinality(Succ(i) \ Flow(i)) <= 1
                    /\ \A t \in Succ(i) \ Flow(i) :
                         \/ code[i].kind \in {"throw", "payload"} /\ t = i + 1
                         \/ node[i].type = "SWITCH" /\ IsCluster(t) /\ t # i
  BY DEF SpuriousFlow
<1> DEFINE extra == Succ(i) \ Flow(i)
<1>1. CASE i \notin LastNodes
  <2>1. Succ(i) = {i + 1} /\ i + 1 \in DOMAIN node /\ node[i].type \notin {"IF", "JMP", "SWITCH", "RET"}
    BY <1>1, InsideCluster
  <2>2. code[i].kind \in {"seq", "call", "throw", "payload"}
    BY <2>1, KindOfNode DEF Kinds
  <2>3. code[i].kind \in {"seq", "call"} => extra = {}
    BY <2>1 DEF Flow, GoesOn
  <2>4. \A x, y \in extra : x = y
    BY <2>1
  <2>5. Cardinality(extra) <= 1
    <3> HIDE DEF extra
    <3> QED
      BY <2>4, AtMostOne
  <2> QED
    BY <2>1, <2>2, <2>3, <2>5
<1>2. CASE i \in LastNodes /\ node[i].type = "SWITCH"
  <2>1. Succ(i) = (Range(node[i].args) \cap DOMAIN clusters) \cup FallsTo(i)
    BY <1>2, BranchLinks
  <2>2. Range(node[i].args) \subseteq Range(code[i].targets)
    BY ArgsOfType
  <2>3. DOMAIN clusters \subseteq DOMAIN node
    BY ClustersType
  <2>4. extra \subseteq FallsTo(i)
    BY <2>1, <2>2, <2>3 DEF Flow
  <2>5. \A x, y \in extra : x = y
    BY <2>4, FallsToFacts
  <2>6. Cardinality(extra) <= 1
    <3> HIDE DEF extra
    <3> QED
      BY <2>5, AtMostOne
  <2> QED
    BY <1>2, <2>4, <2>6, FallsToFacts
<1>3. CASE i \in LastNodes /\ node[i].type # "SWITCH"
  <2>1. DOMAIN clusters \subseteq DOMAIN node
    BY ClustersType
  <2>2. node[i].type = "IF" => i + 1 \in DOMAIN node \/ i + 1 \notin Succ(i)
    BY <1>3, <2>1, BranchLinks
  <2>3. node[i].type = "IF" => code[i].kind \in GoesOn
    BY KindOfNode DEF GoesOn
  <2>4. extra = {}
    BY <1>3, <2>1, <2>2, <2>3, BranchLinks DEF Flow
  <2> QED
    BY <2>4, FS_EmptySet
<1> QED
  BY <1>1, <1>2, <1>3

(***************************************************************************)
(* For code of any length: the passes invent no flow but the one link of a *)
(* throw, a payload or a switch that SpuriousFlow names.                   *)
(***************************************************************************)
THEOREM SpuriousFlowHolds == Spec => []SpuriousFlow
BY InvariantsHold, SpuriousByInv, PTL

LEMMA MissingByInv == IInv /\ DecodeInv /\ LinkInv => MissingOnlyIntoClusters
<1> SUFFICES ASSUME IInv, DecodeInv, LinkInv, phase = "done",
                    NEW i \in DOMAIN node, NEW t \in Flow(i) \ Succ(i)
             PROVE  \/ node[i].type \in {"IF", "SWITCH"} /\ t # i + 1 /\ ~IsCluster(t)
                    \/ code[i].kind = "packed" /\ t \notin Range(node[i].args)
                    \/ node[i].type = "SWITCH" /\ t = i + 1
  BY DEF MissingOnlyIntoClusters
<1>1. /\ t \in DOMAIN node /\ t \notin Succ(i)
      /\ t \in Range(code[i].targets) \/ (code[i].kind \in GoesOn /\ t = i + 1)
  BY DEF Flow
<1>2. Range(<<>>) = {}
  BY DEF Range
<1>3. node[i].type \notin {"IF", "JMP", "SWITCH"} => t = i + 1 /\ code[i].kind \in GoesOn
  BY <1>1, <1>2, ArgsOfType
<1>4. CASE i \notin LastNodes
  BY <1>1, <1>3, <1>4, InsideCluster
<1>5. CASE i \in LastNodes /\ node[i].type \notin {"IF", "JMP", "SWITCH"}
  <2>1. node[i].type = "RET"
    BY <1>1, <1>3, <1>5, EndOfCluster
  <2> QED
    BY <1>3, <2>1, KindOfNode DEF GoesOn
<1>6. CASE i \in LastNodes /\ node[i].type = "IF"
  <2>1. /\ Succ(i) = {i + 1, node[i].args[1]} \cap DOMAIN clusters
        /\ Range(code[i].targets) = {node[i].args[1]}
    BY <1>6, BranchLinks
  <2>2. t \in {i + 1, node[i].args[1]} /\ ~IsCluster(t)
    BY <1>1, <2>1 DEF IsCluster
  <2>3. t # i + 1
    BY <1>1, <1>6, <2>2, EndOfCluster
  <2> QED
    BY <1>6, <2>2, <2>3
<1>7. CASE i \in LastNodes /\ node[i].type = "JMP"
  <2>1. /\ Succ(i) = {node[i].args[1]} \cap DOMAIN node
        /\ Range(code[i].targets) = {node[i].args[1]}
    BY <1>7, BranchLinks
  <2>2. code[i].kind \notin GoesOn
    BY <1>7, KindOfNode DEF GoesOn
  <2> QED
    BY <1>1, <2>1, <2>2
<1>8. CASE i \in LastNodes /\ node[i].type = "SWITCH"
  <2>1. (Range(node[i].args) \cap DOMAIN clusters) \subseteq Succ(i)
    BY <1>8, BranchLinks
  <2>2. code[i].kind \in {"packed", "sparse"}
    BY <1>8, KindOfNode
  <2>3. code[i].kind = "sparse" => node[i].args = code[i].targets
    BY ArgsOfType
  <2> QED
    BY <1>1, <1>8, <2>1, <2>2, <2>3 DEF IsCluster
<1> QED
  BY <1>4, <1>5, <1>6, <1>7, <1>8

(***************************************************************************)
(* For code of any length: jumps lose nothing, and an if and a switch no   *)
(* more than MissingOnlyIntoClusters names.                                *)
(***************************************************************************)
THEOREM MissingOnlyIntoClustersHolds == Spec => []MissingOnlyIntoClusters
BY InvariantsHold, MissingByInv, PTL

-----------------------------------------------------------------------------
(***************************************************************************)
(* What four passes over queues and maps leave behind, read off the code   *)
(* in one go.                                                              *)
(***************************************************************************)
Decoded(instrs) == {i \in DOMAIN instrs : \A j \in 1..i : instrs[j].kind # "glitch"}

TypeAt(instrs, i) == get_opcode_type[instrs[i].kind]

EndsRun(instrs, i) == is_cluster_end_opcodetype(TypeAt(instrs, i)) \/ i + 1 \notin Decoded(instrs)

Starts(instrs) == {i \in Decoded(instrs) : i = 1 \/ EndsRun(instrs, i - 1)}

\* Those of the targets where a run starts, in their order.
Found(starts, targets) ==
  LET upTo[n \in 0..Len(targets)] ==
        IF n = 0 THEN <<>> ELSE upTo[n - 1] \o OneTarget(starts, targets[n])
  IN  upTo[Len(targets)]

FirstOther(starts, args, i) ==
  LET others == starts \ (Range(args) \cup {i})
  IN  IF args = <<>> \/ others = {} THEN <<>> ELSE <<Min(others)>>

LinksOf(instrs, i) ==
  LET type == TypeAt(instrs, i)
      args == arg_offset(instrs[i])
      starts == Starts(instrs)
  IN  CASE ~EndsRun(instrs, i) -> <<i + 1>>
        [] EndsRun(instrs, i) /\ type = "IF" -> Found(starts, <<i + 1, args[1]>>)
        [] EndsRun(instrs, i) /\ type = "JMP" -> OneTarget(Decoded(instrs), args[1])
        [] EndsRun(instrs, i) /\ type = "SWITCH" -> Found(starts, args) \o FirstOther(starts, args, i)
        [] OTHER -> <<>>

LinksOfCode ==
  phase = "done" => next = [i \in Decoded(code) |-> LinksOf(code, i)]

(***************************************************************************)
(* The passes only add to nodes that have no links, so that the order of   *)
(* what each adds is the order of the links.                               *)
(***************************************************************************)
OrderInv ==
  /\ next = [i \in DOMAIN next |-> next[i]]
  /\ phase # "decode" /\ insnIdx \in DOMAIN code => code[insnIdx].kind = "glitch"
  /\ \A i \in 1..taken : i \notin LastNodes => next[i] = <<i + 1>>
  /\ \A i \in LastNodes :
       /\ node[i].type = "IF" /\ phase \in {"jmp", "switch", "done"} => next[i] = IfLinks(i)
       /\ node[i].type = "JMP" /\ phase \in {"switch", "done"} => next[i] = JmpLinks(i)
       /\ node[i].type = "SWITCH" /\ phase = "done" => next[i] = SwitchLinks(i)

\* A node to which no pass has come has no links.
LEMMA NotLinkedYet ==
  ASSUME LinkInv, NEW i \in DOMAIN next, SuccOf(i) = {}
  PROVE  next[i] = <<>>
<1>1. next[i] \in Seq(DOMAIN node) /\ Range(next[i]) = {}
  BY DEF LinkInv, Succ
<1> QED
  BY <1>1, NoLinks

LEMMA SameOrder ==
  ASSUME IInv, OrderInv, UNCHANGED <<code, insnIdx, node, taken, clusters, next>>,
         phase # "decode" \/ phase' = "decode",
         phase' \in {"jmp", "switch", "done"} => phase' = phase
  PROVE  OrderInv'
<1>1. LastNodes' = LastNodes
  BY DEF LastNodes
<1>2. \A s : ClustersAt(s)' = ClustersAt(s)
  BY DEF ClustersAt, IsCluster
<1>3. \A i : IfLinks(i)' = IfLinks(i) /\ JmpLinks(i)' = JmpLinks(i)
  BY <1>2 DEF IfLinks, JmpLinks
<1>4. \A i : SwitchLinks(i)' = SwitchLinks(i)
  BY <1>2 DEF SwitchLinks, Fallthrough
<1> QED
  BY <1>1, <1>3, <1>4 DEF OrderInv

LEMMA OrderDecode == IInv /\ LinkInv /\ OrderInv /\ dumpInstruction => OrderInv'
<1> SUFFICES ASSUME IInv, LinkInv, OrderInv, dumpInstruction PROVE OrderInv'
  OBVIOUS
<1>1. phase' = "decode" /\ taken' = 0 /\ DOMAIN clusters' = {}
  BY DEF dumpInstruction, IInv
<1>2. LastNodes' = {} /\ 1..taken' = {}
  BY <1>1 DEF LastNodes
<1>3. next' = [i \in DOMAIN next' |-> next'[i]]
  <2>1. next \in Seq({ <<>> }) /\ next' = Append(next, <<>>)
    BY DEF dumpInstruction, LinkInv
  <2>2. next' \in Seq({ <<>> })
    BY <2>1
  <2> QED
    BY <2>2
<1> QED
  BY <1>1, <1>2, <1>3 DEF OrderInv

LEMMA OrderEndOfCode == IInv /\ LinkInv /\ OrderInv /\ EndOfCode => OrderInv'
<1> SUFFICES ASSUME IInv, LinkInv, OrderInv, EndOfCode PROVE OrderInv'
  OBVIOUS
<1>1. /\ phase' = "cluster" /\ taken' = 0 /\ DOMAIN clusters' = {}
      /\ code' = code /\ insnIdx' = insnIdx /\ next' = next
      /\ insnIdx \in DOMAIN code => code[insnIdx].kind = "glitch"
  BY DEF EndOfCode, IInv
<1>2. LastNodes' = {} /\ 1..taken' = {}
  BY <1>1 DEF LastNodes
<1> QED
  BY <1>1, <1>2 DEF OrderInv

LEMMA OrderCluster == IInv /\ LinkInv /\ OrderInv /\ TakeCluster => OrderInv'
<1> SUFFICES ASSUME IInv, LinkInv, OrderInv, TakeCluster PROVE OrderInv'
  OBVIOUS
<1>1. PICK first, last : first = taken + 1 /\ last = ClusterEnd(first)
  OBVIOUS
<1>2. /\ phase = "cluster" /\ phase' = "cluster" /\ taken < Len(node)
      /\ clusters' = [c \in DOMAIN clusters \cup {first} |->
                        IF c = first THEN last ELSE clusters[c]]
      /\ next' = [i \in DOMAIN next |->
                    IF i \in first..(last - 1) THEN Append(next[i], i + 1) ELSE next[i]]
      /\ taken' = last
      /\ node' = node /\ code' = code /\ insnIdx' = insnIdx
  BY <1>1 DEF TakeCluster
<1>3. /\ taken \in Nat /\ Len(node) \in Nat /\ first \in 1..Len(node)
      /\ DOMAIN next = 1..Len(node) /\ LastNodes \subseteq 1..taken
      /\ DOMAIN clusters \subseteq 1..taken
  BY <1>1, <1>2, ClustersType DEF LinkInv
<1>4. last \in first..Len(node)
  BY <1>1, <1>3, ClusterEnds
<1>5. PICK n : n = Len(node) /\ n \in Nat /\ first \in 1..n /\ last \in first..n /\ first = taken + 1
  BY <1>1, <1>3, <1>4
<1>6. /\ DOMAIN clusters' = DOMAIN clusters \cup {first} /\ clusters'[first] = last
      /\ \A c \in DOMAIN clusters : clusters'[c] = clusters[c]
  BY <1>1, <1>2, <1>3
<1>7. LastNodes' = LastNodes \cup {last}
  BY <1>6 DEF LastNodes
<1>8. ASSUME NEW i \in 1..last, i \notin LastNodes' PROVE next'[i] = <<i + 1>>
  <2>1. i \in 1..n /\ i \in Nat /\ i # last
    BY <1>5, <1>7, <1>8
  <2>2. CASE i <= taken
    <3>1. i \in 1..taken /\ i \notin LastNodes /\ i \notin first..(last - 1)
      BY <1>3, <1>5, <1>7, <1>8, <2>1, <2>2
    <3>2. next[i] = <<i + 1>>
      BY <3>1 DEF OrderInv
    <3> QED
      BY <1>2, <1>3, <1>5, <2>1, <3>1, <3>2
  <2>3. CASE i > taken
    <3>1. i \in first..(last - 1) /\ i \notin LastNodes /\ i \notin 1..taken
      BY <1>3, <1>5, <2>1, <2>3
    <3>2. i \in DOMAIN next
      BY <1>3, <1>5, <2>1
    <3>3. next[i] = <<>>
      BY <3>1, <3>2, NotLinkedYet DEF SuccOf
    <3> QED
      BY <1>2, <3>1, <3>2, <3>3
  <2> QED
    BY <1>3, <2>1, <2>2, <2>3
<1>9. insnIdx \in DOMAIN code => code[insnIdx].kind = "glitch"
  BY <1>2 DEF OrderInv
<1>10. next' = [i \in DOMAIN next' |-> next'[i]]
  BY <1>2
<1> QED
  BY <1>2, <1>8, <1>9, <1>10 DEF OrderInv

\* A pass leaves the nodes of other types as they are.
LEMMA PassOfType ==
  ASSUME IInv, LinkInv, NEW type, NEW f,
         next' = [i \in DOMAIN next |->
                    IF i \in LastOfType(type) THEN next[i] \o f[i] ELSE next[i]],
         \A i \in LastOfType(type) : f[i] \in Seq(DOMAIN node) /\ SuccOf(i) = {}
  PROVE  /\ \A i \in LastNodes : node[i].type = type => next'[i] = f[i]
         /\ \A i \in LastNodes : node[i].type # type => next'[i] = next[i]
         /\ \A i \in 1..taken : i \notin LastNodes => next'[i] = next[i]
<1>1. 1..taken \subseteq DOMAIN next /\ LastNodes \subseteq DOMAIN next
  BY ClustersType DEF LinkInv
<1>2. ASSUME NEW i \in LastNodes, node[i].type = type PROVE next'[i] = f[i]
  <2>1. next[i] = <<>> /\ i \in LastOfType(type)
    BY <1>1, <1>2, NotLinkedYet, LastOfTypeIs
  <2>2. <<>> \o f[i] = f[i]
    BY <2>1
  <2>3. next'[i] = next[i] \o f[i]
    BY <1>1, <2>1
  <2> QED
    BY <2>1, <2>2, <2>3
<1>3. ASSUME NEW i \in DOMAIN next, i \notin LastOfType(type) PROVE next'[i] = next[i]
  BY <1>3
<1> QED
  BY <1>1, <1>2, <1>3, LastOfTypeIs

LEMMA SameLookups ==
  ASSUME UNCHANGED <<node, clusters>>, NEW i
  PROVE  /\ IfLinks(i)' = IfLinks(i) /\ JmpLinks(i)' = JmpLinks(i)
         /\ SwitchLinks(i)' = SwitchLinks(i) /\ LastNodes' = LastNodes
<1>1. \A s : ClustersAt(s)' = ClustersAt(s)
  BY DEF ClustersAt, IsCluster
<1>2. IfLinks(i)' = IfLinks(i) /\ JmpLinks(i)' = JmpLinks(i)
  BY <1>1 DEF IfLinks, JmpLinks
<1>3. SwitchLinks(i)' = SwitchLinks(i)
  BY <1>1 DEF SwitchLinks, Fallthrough
<1> QED
  BY <1>2, <1>3 DEF LastNodes

LEMMA OrderIf == IInv /\ DecodeInv /\ LinkInv /\ OrderInv /\ process_if_clusters => OrderInv'
<1> SUFFICES ASSUME IInv, LinkInv, OrderInv, process_if_clusters PROVE OrderInv'
  OBVIOUS
<1>1. /\ phase = "if" /\ phase' = "jmp" /\ UNCHANGED <<code, insnIdx, node, taken, clusters>>
      /\ LinkAll(LastOfType("IF"), IfLinks)
  BY DEF process_if_clusters
<1>2. PICK f : f = [i \in LastOfType("IF") |-> IfLinks(i)]
  OBVIOUS
<1>3. next' = [i \in DOMAIN next |->
                 IF i \in LastOfType("IF") THEN next[i] \o f[i] ELSE next[i]]
  BY <1>1, <1>2 DEF LinkAll
<1>4. ASSUME NEW i \in LastOfType("IF")
      PROVE  f[i] \in Seq(DOMAIN node) /\ SuccOf(i) = {}
  <2>1. i \in LastNodes /\ node[i].type = "IF"
    BY <1>4, LastOfTypeIs
  <2>2. SuccOf(i) = {}
    BY <1>1, <2>1 DEF SuccOf, SuccOfLast
  <2>3. PICK t : t = <<i + 1, node[i].args[1]>>
    OBVIOUS
  <2>31. Len(t) \in Nat
    BY <2>3
  <2>4. ClustersAt(t) \in Seq(DOMAIN clusters)
    BY <2>31, ClustersAtFacts
  <2>5. f[i] = ClustersAt(t)
    BY <1>2, <1>4, <2>3 DEF IfLinks
  <2> QED
    BY <2>2, <2>4, <2>5, ClustersType
<1>5. /\ \A i \in LastNodes : node[i].type = "IF" => next'[i] = f[i]
      /\ \A i \in LastNodes : node[i].type # "IF" => next'[i] = next[i]
      /\ \A i \in 1..taken : i \notin LastNodes => next'[i] = next[i]
  BY <1>3, <1>4, PassOfType
<1>6. \A i \in LastNodes : node[i].type = "IF" => next'[i] = IfLinks(i)
  BY <1>2, <1>5, LastOfTypeIs
<1>7. next' = [i \in DOMAIN next' |-> next'[i]]
  BY <1>3
<1> QED
  BY <1>1, <1>5, <1>6, <1>7, SameLookups DEF OrderInv

LEMMA OrderJmp == IInv /\ DecodeInv /\ LinkInv /\ OrderInv /\ process_jmp_clusters => OrderInv'
<1> SUFFICES ASSUME IInv, LinkInv, OrderInv, process_jmp_clusters PROVE OrderInv'
  OBVIOUS
<1>1. /\ phase = "jmp" /\ phase' = "switch" /\ UNCHANGED <<code, insnIdx, node, taken, clusters>>
      /\ LinkAll(LastOfType("JMP"), JmpLinks)
  BY DEF process_jmp_clusters
<1>2. PICK f : f = [i \in LastOfType("JMP") |-> JmpLinks(i)]
  OBVIOUS
<1>3. next' = [i \in DOMAIN next |->
                 IF i \in LastOfType("JMP") THEN next[i] \o f[i] ELSE next[i]]
  BY <1>1, <1>2 DEF LinkAll
<1>4. ASSUME NEW i \in LastOfType("JMP")
      PROVE  f[i] \in Seq(DOMAIN node) /\ SuccOf(i) = {}
  <2>1. i \in LastNodes /\ node[i].type = "JMP"
    BY <1>4, LastOfTypeIs
  <2>2. SuccOf(i) = {}
    BY <1>1, <2>1 DEF SuccOf, SuccOfLast
  <2>3. f[i] = JmpLinks(i)
    BY <1>2, <1>4
  <2>4. JmpLinks(i) \in Seq(DOMAIN node)
    <3>1. PICK t : t = node[i].args[1]
      OBVIOUS
    <3>2. CASE t \in DOMAIN node
      BY <3>1, <3>2, OneLink DEF JmpLinks
    <3>3. CASE t \notin DOMAIN node
      BY <3>1, <3>3 DEF JmpLinks
    <3> QED
      BY <3>2, <3>3
  <2> QED
    BY <2>2, <2>3, <2>4
<1>5. /\ \A i \in LastNodes : node[i].type = "JMP" => next'[i] = f[i]
      /\ \A i \in LastNodes : node[i].type # "JMP" => next'[i] = next[i]
      /\ \A i \in 1..taken : i \notin LastNodes => next'[i] = next[i]
  BY <1>3, <1>4, PassOfType
<1>6. \A i \in LastNodes : node[i].type = "JMP" => next'[i] = JmpLinks(i)
  BY <1>2, <1>5, LastOfTypeIs
<1>7. next' = [i \in DOMAIN next' |-> next'[i]]
  BY <1>3
<1> QED
  BY <1>1, <1>5, <1>6, <1>7, SameLookups DEF OrderInv

LEMMA OrderSwitch == IInv /\ DecodeInv /\ LinkInv /\ OrderInv /\ process_switch_clusters => OrderInv'
<1> SUFFICES ASSUME IInv, DecodeInv, LinkInv, OrderInv, process_switch_clusters PROVE OrderInv'
  OBVIOUS
<1>1. /\ phase = "switch" /\ phase' = "done" /\ UNCHANGED <<code, insnIdx, node, taken, clusters>>
      /\ LinkAll(LastOfType("SWITCH"), SwitchLinks)
  BY DEF process_switch_clusters
<1>2. PICK f : f = [i \in LastOfType("SWITCH") |-> SwitchLinks(i)]
  OBVIOUS
<1>3. next' = [i \in DOMAIN next |->
                 IF i \in LastOfType("SWITCH") THEN next[i] \o f[i] ELSE next[i]]
  BY <1>1, <1>2 DEF LinkAll
<1>4. ASSUME NEW i \in LastOfType("SWITCH")
      PROVE  f[i] \in Seq(DOMAIN node) /\ SuccOf(i) = {}
  <2>1. i \in LastNodes /\ node[i].type = "SWITCH"
    BY <1>4, LastOfTypeIs
  <2>2. SuccOf(i) = {}
    BY <1>1, <2>1 DEF SuccOf, SuccOfLast
  <2>3. PICK t : t = node[i].args
    OBVIOUS
  <2>31. Len(t) \in Nat
    BY <2>1, <2>3, ClustersType, DecodedType DEF Node
  <2>4. ClustersAt(t) \in Seq(DOMAIN clusters) /\ Fallthrough(i) \in Seq(DOMAIN clusters)
    BY <2>31, ClustersAtFacts, FallthroughFacts
  <2>5. f[i] = ClustersAt(t) \o Fallthrough(i)
    BY <1>2, <1>4, <2>3 DEF SwitchLinks
  <2>6. DOMAIN clusters \subseteq DOMAIN node
    BY ClustersType
  <2>7. f[i] \in Seq(DOMAIN clusters)
    BY <2>4, <2>5
  <2> QED
    BY <2>2, <2>6, <2>7
<1>5. /\ \A i \in LastNodes : node[i].type = "SWITCH" => next'[i] = f[i]
      /\ \A i \in LastNodes : node[i].type # "SWITCH" => next'[i] = next[i]
      /\ \A i \in 1..taken : i \notin LastNodes => next'[i] = next[i]
  BY <1>3, <1>4, PassOfType
<1>6. \A i \in LastNodes : node[i].type = "SWITCH" => next'[i] = SwitchLinks(i)
  BY <1>2, <1>5, LastOfTypeIs
<1>7. next' = [i \in DOMAIN next' |-> next'[i]]
  BY <1>3
<1> QED
  BY <1>1, <1>5, <1>6, <1>7, SameLookups DEF OrderInv

LEMMA OrderStep == IInv /\ DecodeInv /\ LinkInv /\ OrderInv /\ [Next]_vars => OrderInv'
<1> SUFFICES ASSUME IInv, DecodeInv, LinkInv, OrderInv, [Next]_vars PROVE OrderInv'
  OBVIOUS
<1>1. CASE TakeFromEmptyQueue
  BY <1>1, SameOrder DEF TakeFromEmptyQueue
<1>2. CASE EndOfQueue
  BY <1>2, SameOrder DEF EndOfQueue
<1>3. CASE JmpWithoutTarget
  BY <1>3, SameOrder DEF JmpWithoutTarget
<1>4. CASE UNCHANGED vars
  BY <1>4, SameOrder DEF vars
<1> QED
  BY <1>1, <1>2, <1>3, <1>4, OrderDecode, OrderEndOfCode, OrderCluster, OrderIf, OrderJmp,
     OrderSwitch DEF Next

LEMMA OrderHolds == Spec => [](IInv /\ DecodeInv /\ LinkInv /\ OrderInv)
<1>1. Init => OrderInv
  <2> SUFFICES ASSUME Init PROVE OrderInv
    OBVIOUS
  <2>1. next = <<>> /\ clusters = <<>> /\ taken = 0 /\ phase = "decode"
    BY DEF Init
  <2>2. LastNodes = {} /\ next = [i \in DOMAIN next |-> next[i]]
    BY <2>1 DEF LastNodes
  <2> QED
    BY <2>1, <2>2 DEF OrderInv
<1>2. IInv /\ DecodeInv /\ LinkInv /\ OrderInv /\ [Next]_vars => OrderInv'
  BY OrderStep
<1> QED
  BY <1>1, <1>2, InvariantsHold, PTL DEF Spec

(***************************************************************************)
(* What was decoded and where the clusters are, in terms of the code.      *)
(***************************************************************************)
LEMMA DecodedIs ==
  ASSUME IInv, DecodeInv, OrderInv, phase # "decode"
  PROVE  DOMAIN node = Decoded(code)
<1>1. PICK n : n = Len(node)
  OBVIOUS
<1>2. n \in Nat /\ DOMAIN node = 1..n /\ insnIdx = n + 1 /\ n <= Len(code) /\ Len(code) \in Nat
  BY <1>1, ClustersType DEF DecodeInv, IInv
<1>3. DOMAIN code = 1..Len(code)
  BY DEF IInv
<1>4. \A i \in 1..n : code[i].kind # "glitch"
  BY <1>2 DEF DecodeInv
<1>5. 1..n \subseteq Decoded(code)
  BY <1>2, <1>3, <1>4 DEF Decoded
<1>6. ASSUME NEW i \in Decoded(code) PROVE i \in 1..n
  <2>1. i \in 1..Len(code) /\ \A j \in 1..i : code[j].kind # "glitch"
    BY <1>3 DEF Decoded
  <2>2. ASSUME i > n PROVE FALSE
    <3>1. n + 1 \in 1..i /\ n + 1 \in DOMAIN code
      BY <1>2, <1>3, <2>1, <2>2
    <3> QED
      BY <1>2, <2>1, <3>1 DEF OrderInv
  <2> QED
    BY <1>2, <2>1, <2>2
<1> QED
  BY <1>2, <1>5, <1>6

LEMMA TypeAtIs ==
  ASSUME IInv, DecodeInv, NEW i \in DOMAIN node
  PROVE  node[i].type = TypeAt(code, i) /\ node[i].args = arg_offset(code[i])
BY DecodedType DEF TypeAt

LEMMA EndsAre ==
  ASSUME IInv, DecodeInv, LinkInv, OrderInv, phase = "done", NEW i \in DOMAIN node
  PROVE  i \in LastNodes <=> EndsRun(code, i)
<1>1. DOMAIN node = Decoded(code) /\ node[i].type = TypeAt(code, i)
  BY DecodedIs, TypeAtIs
<1>2. CASE i \notin LastNodes
  <2>1. i + 1 \in DOMAIN node /\ ~is_cluster_end_opcodetype(node[i].type)
    BY <1>2, InsideCluster DEF is_cluster_end_opcodetype
  <2> QED
    BY <1>1, <1>2, <2>1 DEF EndsRun
<1>3. CASE i \in LastNodes
  <2>1. is_cluster_end_opcodetype(node[i].type) \/ i = Len(node)
    BY <1>3 DEF LinkInv, LastNodes
  <2>2. i = Len(node) => i + 1 \notin DOMAIN node
    BY ClustersType
  <2> QED
    BY <1>1, <1>3, <2>1, <2>2 DEF EndsRun
<1> QED
  BY <1>2, <1>3

LEMMA StartsAre ==
  ASSUME IInv, DecodeInv, LinkInv, OrderInv, phase = "done"
  PROVE  DOMAIN clusters = Starts(code)
<1>1. PICK n : n = Len(node)
  OBVIOUS
<1>2. /\ n \in Nat /\ DOMAIN node = 1..n /\ taken = n /\ DOMAIN node = Decoded(code)
      /\ DOMAIN clusters \subseteq 1..n
      /\ \A c \in DOMAIN clusters : c \in Nat /\ clusters[c] \in Nat /\ c <= clusters[c]
  BY <1>1, ClustersType, DecodedIs DEF LinkInv, Linked
<1>3. ASSUME NEW c \in DOMAIN clusters, c # 1 PROVE c - 1 \in DOMAIN node /\ c - 1 \in LastNodes
  <2>1. c \in 1..n /\ c - 1 \in 1..n
    BY <1>2, <1>3
  <2>2. PICK d \in DOMAIN clusters : c - 1 \in d..clusters[d]
    BY <1>2, <2>1 DEF IInv
  <2>3. d < c /\ c - 1 <= clusters[d]
    BY <1>2, <2>1, <2>2
  <2>4. clusters[d] < c
    BY <2>3 DEF IInv
  <2>5. clusters[d] = c - 1
    BY <1>2, <2>3, <2>4
  <2> QED
    BY <1>2, <2>1, <2>5 DEF LastNodes
<1>4. ASSUME NEW i \in 1..n, i - 1 \in 1..n, i - 1 \in LastNodes PROVE i \in DOMAIN clusters
  <2>1. PICK k : k = i - 1
    OBVIOUS
  <2>2. k \in DOMAIN node /\ k \in LastNodes /\ k + 1 = i /\ k + 1 \in DOMAIN node
    BY <1>2, <1>4, <2>1
  <2>3. IsCluster(k + 1)
    BY <2>2, EndOfCluster
  <2> QED
    BY <2>2, <2>3 DEF IsCluster
<1>5. ASSUME 1 \in 1..n PROVE 1 \in DOMAIN clusters
  <2>1. PICK d \in DOMAIN clusters : 1 \in d..clusters[d]
    BY <1>2, <1>5 DEF IInv
  <2>2. d = 1
    BY <1>2, <2>1
  <2> QED
    BY <2>2
<1>6. DOMAIN clusters \subseteq Starts(code)
  <2>1. SUFFICES ASSUME NEW c \in DOMAIN clusters, c # 1 PROVE EndsRun(code, c - 1)
    BY <1>2 DEF Starts
  <2> QED
    BY <1>3, <2>1, EndsAre
<1>7. ASSUME NEW i \in Starts(code) PROVE i \in DOMAIN clusters
  <2>1. i \in 1..n /\ (i = 1 \/ EndsRun(code, i - 1))
    BY <1>2 DEF Starts
  <2>2. CASE i = 1
    BY <1>5, <2>1, <2>2
  <2>3. CASE i # 1
    <3>1. i - 1 \in 1..n
      BY <1>2, <2>1, <2>3
    <3>2. i - 1 \in LastNodes
      BY <1>2, <2>1, <2>3, <3>1, EndsAre
    <3> QED
      BY <1>4, <2>1, <3>1, <3>2
  <2> QED
    BY <2>2, <2>3
<1> QED
  BY <1>6, <1>7

LEMMA FoundIs == \A s : ClustersAt(s) = Found(DOMAIN clusters, s)
BY DEF ClustersAt, Found, OneTarget, IsCluster

LEMMA FirstOtherIs == \A i : Fallthrough(i) = FirstOther(DOMAIN clusters, node[i].args, i)
BY DEF Fallthrough, FirstOther

LEMMA LinksByInv == IInv /\ DecodeInv /\ LinkInv /\ OrderInv => LinksOfCode
<1> SUFFICES ASSUME IInv, DecodeInv, LinkInv, OrderInv, phase = "done"
             PROVE  next = [i \in Decoded(code) |-> LinksOf(code, i)]
  BY DEF LinksOfCode
<1>1. DOMAIN node = Decoded(code) /\ DOMAIN clusters = Starts(code)
  BY DecodedIs, StartsAre
<1>2. next = [i \in DOMAIN node |-> next[i]] /\ DOMAIN node = 1..taken
  <2>1. DOMAIN next = DOMAIN node /\ next = [i \in DOMAIN next |-> next[i]]
    BY DEF LinkInv, OrderInv
  <2>2. taken = Len(node)
    BY DEF LinkInv, Linked
  <2> QED
    BY <2>1, <2>2, ClustersType
<1>3. ASSUME NEW i \in DOMAIN node PROVE next[i] = LinksOf(code, i)
  <2>1. node[i].type = TypeAt(code, i) /\ node[i].args = arg_offset(code[i])
    BY TypeAtIs
  <2>2. i \in LastNodes <=> EndsRun(code, i)
    BY EndsAre
  <2>3. CASE i \notin LastNodes
    BY <1>2, <2>2, <2>3 DEF OrderInv, LinksOf
  <2>4. CASE i \in LastNodes /\ node[i].type = "IF"
    <3>1. next[i] = Found(Starts(code), <<i + 1, node[i].args[1]>>)
      BY <1>1, <2>4, FoundIs DEF OrderInv, IfLinks
    <3> QED
      BY <2>1, <2>2, <2>4, <3>1 DEF LinksOf
  <2>5. CASE i \in LastNodes /\ node[i].type = "JMP"
    <3>1. next[i] = OneTarget(Decoded(code), node[i].args[1])
      BY <1>1, <2>5 DEF OrderInv, JmpLinks, OneTarget
    <3> QED
      BY <2>1, <2>2, <2>5, <3>1 DEF LinksOf
  <2>6. CASE i \in LastNodes /\ node[i].type = "SWITCH"
    <3>1. next[i] = Found(Starts(code), node[i].args) \o FirstOther(Starts(code), node[i].args, i)
      BY <1>1, <2>6, FoundIs, FirstOtherIs DEF OrderInv, SwitchLinks
    <3> QED
      BY <2>1, <2>2, <2>6, <3>1 DEF LinksOf
  <2>7. CASE i \in LastNodes /\ node[i].type \notin {"IF", "JMP", "SWITCH"}
    <3>1. next[i] = <<>>
      <4>1. SuccOf(i) = {} /\ i \in DOMAIN next
        BY <1>2, <2>7 DEF SuccOf, SuccOfLast
      <4> QED
        BY <4>1, NotLinkedYet
    <3> QED
      BY <2>1, <2>2, <2>7, <3>1 DEF LinksOf
  <2> QED
    BY <2>3, <2>4, <2>5, <2>6, <2>7
<1> QED
  BY <1>1, <1>2, <1>3

(***************************************************************************)
(* The links of a finished graph are a function of the code.  Two methods  *)
(* with one code_item have graphs that differ in nothing but where their   *)
(* nodes are, which is what ProgramGraph assumes of copies.                *)
(***************************************************************************)
THEOREM LinksOfCodeHolds == Spec => []LinksOfCode
BY OrderHolds, LinksByInv, PTL

-----------------------------------------------------------------------------
(***************************************************************************)
(* The construction ends.                                                  *)
(***************************************************************************)
\* The front of an empty queue or of an empty list of targets is taken only for code
\* that starts with an opcode of width zero or has a goto/32.
UndefinedHasACause ==
  phase = "undefined" =>
    code[1].kind = "glitch" \/ \E i \in DOMAIN code : code[i].kind = "goto32"

\* How many steps are left at most.
StepsLeft ==
  CASE phase = "decode" -> (Len(code) + 1 - insnIdx) + Len(code) + 5
    [] phase = "cluster" -> (Len(node) - taken) + 4
    [] phase = "if" -> 3
    [] phase = "jmp" -> 2
    [] phase = "switch" -> 1
    [] OTHER -> 0

LEMMA FewerLeft ==
  IInv /\ DecodeInv /\ LinkInv /\ OrderInv /\ Next => StepsLeft \in Nat /\ StepsLeft' < StepsLeft
<1> SUFFICES ASSUME IInv, DecodeInv, LinkInv, OrderInv, Next
             PROVE  StepsLeft \in Nat /\ StepsLeft' < StepsLeft
  OBVIOUS
<1>1. PICK n, m : n = Len(node) /\ m = Len(code)
  OBVIOUS
<1>2. /\ n \in Nat /\ m \in Nat /\ n <= m /\ insnIdx = n + 1 /\ taken \in 0..n
      /\ DOMAIN node = 1..n /\ DOMAIN code = 1..m
  BY <1>1 DEF IInv, DecodeInv
<1>3. CASE dumpInstruction
  <2>1. /\ phase = "decode" /\ phase' = "decode" /\ insnIdx \in 1..m
        /\ insnIdx' = insnIdx + 1 /\ code' = code
    BY <1>2, <1>3 DEF dumpInstruction
  <2>2. StepsLeft = (m + 1 - insnIdx) + m + 5 /\ StepsLeft' = (m + 1 - insnIdx') + m + 5
    BY <1>1, <2>1 DEF StepsLeft
  <2> QED
    BY <1>2, <2>1, <2>2
<1>4. CASE EndOfCode
  <2>1. /\ phase = "decode" /\ phase' = "cluster" /\ node' = node /\ taken' = taken
    BY <1>4 DEF EndOfCode
  <2>2. StepsLeft = (m + 1 - insnIdx) + m + 5 /\ StepsLeft' = (n - taken) + 4
    BY <1>1, <2>1 DEF StepsLeft
  <2> QED
    BY <1>2, <2>1, <2>2
<1>5. CASE TakeCluster
  <2>1. /\ phase = "cluster" /\ phase' = "cluster" /\ taken < n /\ node' = node
        /\ taken' = ClusterEnd(taken + 1)
    BY <1>1, <1>5 DEF TakeCluster
  <2>2. taken + 1 \in 1..n
    BY <1>2, <2>1
  <2>3. taken' \in (taken + 1)..n
    BY <1>1, <1>2, <2>1, <2>2, ClusterEnds
  <2>4. StepsLeft = (n - taken) + 4 /\ StepsLeft' = (n - taken') + 4
    BY <1>1, <2>1 DEF StepsLeft
  <2> QED
    BY <1>2, <2>1, <2>3, <2>4
<1>6. CASE TakeFromEmptyQueue \/ EndOfQueue
  <2>1. phase = "cluster" /\ phase' \in {"undefined", "if"}
    BY <1>6 DEF TakeFromEmptyQueue, EndOfQueue
  <2>2. StepsLeft = (n - taken) + 4 /\ StepsLeft' \in {0, 3}
    BY <1>1, <2>1 DEF StepsLeft
  <2> QED
    BY <1>2, <2>2
<1>7. CASE process_if_clusters
  BY <1>7 DEF process_if_clusters, StepsLeft
<1>8. CASE process_jmp_clusters
  BY <1>8 DEF process_jmp_clusters, StepsLeft
<1>9. CASE JmpWithoutTarget
  BY <1>9 DEF JmpWithoutTarget, StepsLeft
<1>10. CASE process_switch_clusters
  BY <1>10 DEF process_switch_clusters, StepsLeft
<1> QED
  BY <1>3, <1>4, <1>5, <1>6, <1>7, <1>8, <1>9, <1>10 DEF Next

(***************************************************************************)
(* Every step of the construction leaves fewer steps to do, from at most   *)
(* two for each instruction and five: what Returns needs besides fairness. *)
(***************************************************************************)
THEOREM StepsRunOut ==
  Spec => /\ [](insnIdx = 1 /\ phase = "decode" => StepsLeft = 2 * Len(code) + 5)
          /\ [][StepsLeft' < StepsLeft /\ StepsLeft \in Nat]_vars
<1>1. IInv /\ DecodeInv /\ LinkInv /\ OrderInv /\ [Next]_vars =>
        [StepsLeft' < StepsLeft /\ StepsLeft \in Nat]_vars
  BY FewerLeft
<1>2. IInv => (insnIdx = 1 /\ phase = "decode" => StepsLeft = 2 * Len(code) + 5)
  <2>1. IInv => Len(code) \in Nat
    BY DEF IInv
  <2> QED
    BY <2>1 DEF StepsLeft
<1> QED
  BY <1>1, <1>2, OrderHolds, PTL DEF Spec

LEMMA UndefinedStep ==
  IInv /\ DecodeInv /\ LinkInv /\ OrderInv /\ UndefinedHasACause /\ [Next]_vars => UndefinedHasACause'
<1> SUFFICES ASSUME IInv, DecodeInv, LinkInv, OrderInv, UndefinedHasACause, [Next]_vars
             PROVE  UndefinedHasACause'
  OBVIOUS
<1>1. CASE TakeFromEmptyQueue
  <2>1. node = <<>> /\ phase = "cluster" /\ code' = code
    BY <1>1 DEF TakeFromEmptyQueue
  <2>2. insnIdx = 1
    BY <2>1 DEF DecodeInv
  <2>3. code # <<>> /\ code \in Seq(Instruction)
    BY CodesAssumption DEF DecodeInv, Verified
  <2>4. 1 \in DOMAIN code
    BY <2>3
  <2>5. code[1].kind = "glitch"
    BY <2>1, <2>2, <2>4 DEF OrderInv
  <2> QED
    BY <2>1, <2>5 DEF UndefinedHasACause
<1>2. CASE JmpWithoutTarget
  <2>1. PICK i \in LastOfType("JMP") : node[i].args = <<>>
    BY <1>2 DEF JmpWithoutTarget
  <2>2. i \in LastNodes /\ node[i].type = "JMP" /\ i \in DOMAIN node
    BY <2>1, LastOfTypeIs, ClustersType
  <2>3. /\ i \in DOMAIN code /\ code[i].kind \in {"goto", "goto32"}
        /\ node[i].args = arg_offset(code[i])
    BY <2>2, DecodedType, KindOfNode
  <2>4. code[i].kind # "goto"
    <3>1. ASSUME code[i].kind = "goto" PROVE Len(code[i].targets) = 1 /\ node[i].args = code[i].targets
      BY <2>3, <3>1, CodesAssumption DEF DecodeInv, Verified, arg_offset
    <3>2. Len(<<>>) = 0
      OBVIOUS
    <3> QED
      BY <2>1, <3>1, <3>2
  <2>5. code' = code
    BY <1>2 DEF JmpWithoutTarget
  <2> QED
    BY <2>3, <2>4, <2>5 DEF UndefinedHasACause
<1>3. ASSUME code' = code, phase' # "undefined" \/ phase' = phase PROVE UndefinedHasACause'
  BY <1>3 DEF UndefinedHasACause
<1>4. CASE dumpInstruction \/ EndOfCode \/ TakeCluster \/ EndOfQueue
  BY <1>3, <1>4 DEF dumpInstruction, EndOfCode, TakeCluster, EndOfQueue
<1>5. CASE process_if_clusters \/ process_jmp_clusters \/ process_switch_clusters
  BY <1>3, <1>5 DEF process_if_clusters, process_jmp_clusters, process_switch_clusters
<1>6. CASE UNCHANGED vars
  BY <1>3, <1>6 DEF vars
<1> QED
  BY <1>1, <1>2, <1>4, <1>5, <1>6 DEF Next

(***************************************************************************)
(* The steps end in a finished graph, unless the code starts with an       *)
(* opcode of width zero or has a goto/32: the hypothesis of Returns.       *)
(***************************************************************************)
THEOREM UndefinedHasACauseHolds == Spec => []UndefinedHasACause
<1>1. Init => UndefinedHasACause
  BY DEF Init, UndefinedHasACause
<1>2. IInv /\ DecodeInv /\ LinkInv /\ OrderInv /\ UndefinedHasACause /\ [Next]_vars => UndefinedHasACause'
  BY UndefinedStep
<1> QED
  BY <1>1, <1>2, OrderHolds, PTL DEF Spec

-----------------------------------------------------------------------------
(***************************************************************************)
(* From methods to a file.  ProgramGraph takes the flow of its methods as  *)
(* given, and assumes two things of it: that it stays within the method,   *)
(* and that methods with one code_item have the same flow at the same      *)
(* addresses.  Both are so of what the construction leaves.                *)
(***************************************************************************)
\* Sequences over a set are sequences over a larger one.
LEMMA SeqOfLarger ==
  ASSUME NEW S, NEW T, S \subseteq T, NEW q \in Seq(S)
  PROVE  q \in Seq(T)
OBVIOUS

\* What is found, and the first other node, are among the nodes they are looked for in.
LEMMA FoundType ==
  ASSUME NEW C, NEW s, Len(s) \in Nat
  PROVE  Found(C, s) \in Seq(C)
<1>1. \E f : IsLookup(f, C, s)
  BY LookupExists
<1>2. PICK f : f = CHOOSE g : IsLookup(g, C, s)
  OBVIOUS
<1>3. IsLookup(f, C, s)
  BY <1>1, <1>2
<1>4. Found(C, s) = f[Len(s)]
  BY <1>2 DEF Found, IsLookup
<1> QED
  BY <1>3, <1>4, LookedUp

LEMMA FirstOtherType ==
  ASSUME NEW C, C \subseteq Nat, NEW args, NEW i
  PROVE  FirstOther(C, args, i) \in Seq(C)
<1>1. PICK S : S = C \ (Range(args) \cup {i})
  OBVIOUS
<1>2. CASE args = <<>> \/ S = {}
  BY <1>1, <1>2 DEF FirstOther
<1>3. CASE ~(args = <<>> \/ S = {})
  <2>1. Min(S) \in S
    BY <1>1, <1>3, LeastOf DEF Min
  <2>2. FirstOther(C, args, i) = <<Min(S)>>
    BY <1>1, <1>3 DEF FirstOther
  <2> QED
    BY <1>1, <2>1, <2>2, OneLink
<1> QED
  BY <1>2, <1>3

\* Links lead from decoded instructions to decoded instructions.
LEMMA LinksType ==
  ASSUME NEW c \in Codes, NEW i \in Decoded(c)
  PROVE  LinksOf(c, i) \in Seq(Decoded(c))
<1>1. c \in Seq(Instruction) /\ DOMAIN c = 1..Len(c) /\ Len(c) \in Nat
  BY CodesAssumption
<1>2. i \in Nat /\ i \in 1..i /\ c[i] \in Instruction /\ c[i].kind # "glitch"
  BY <1>1 DEF Decoded
<1>3. PICK args : args = arg_offset(c[i])
  OBVIOUS
<1>4. Len(args) \in Nat
  <2>1. PICK ins \in Instruction : ins = c[i] /\ ins.kind # "glitch"
    BY <1>2
  <2>2. [type |-> get_opcode_type[ins.kind], args |-> arg_offset(ins)] \in Node
    BY <2>1, NodeType
  <2>3. arg_offset(ins) \in Seq(Nat)
    BY <2>2 DEF Node
  <2> QED
    BY <1>3, <2>1, <2>3
<1>5. PICK C : C = Starts(c)
  OBVIOUS
<1>6. C \subseteq Decoded(c) /\ C \subseteq Nat
  BY <1>1, <1>5 DEF Starts, Decoded
<1>7. CASE ~EndsRun(c, i)
  <2>1. LinksOf(c, i) = <<i + 1>> /\ i + 1 \in Decoded(c)
    BY <1>7 DEF LinksOf, EndsRun
  <2> QED
    BY <2>1, OneLink
<1>8. CASE EndsRun(c, i) /\ TypeAt(c, i) = "IF"
  <2>1. PICK t : t = <<i + 1, args[1]>>
    OBVIOUS
  <2>2. LinksOf(c, i) = Found(C, t) /\ Len(t) \in Nat
    BY <1>3, <1>5, <1>8, <2>1 DEF LinksOf
  <2>3. Found(C, t) \in Seq(C)
    BY <2>2, FoundType
  <2>4. PICK q \in Seq(C) : q = Found(C, t)
    BY <2>3
  <2>5. PICK D : D = Decoded(c)
    OBVIOUS
  <2>6. q \in Seq(D)
    BY <1>6, <2>5, SeqOfLarger
  <2> QED
    BY <2>2, <2>4, <2>5, <2>6
<1>9. CASE EndsRun(c, i) /\ TypeAt(c, i) = "JMP"
  <2>1. PICK t : t = args[1]
    OBVIOUS
  <2>2. LinksOf(c, i) = OneTarget(Decoded(c), t)
    BY <1>3, <1>9, <2>1 DEF LinksOf
  <2>3. CASE t \in Decoded(c)
    BY <2>2, <2>3, OneLink DEF OneTarget
  <2>4. CASE t \notin Decoded(c)
    BY <2>2, <2>4 DEF OneTarget
  <2> QED
    BY <2>3, <2>4
<1>10. CASE EndsRun(c, i) /\ TypeAt(c, i) = "SWITCH"
  <2>1. LinksOf(c, i) = Found(C, args) \o FirstOther(C, args, i)
    BY <1>3, <1>5, <1>10 DEF LinksOf
  <2>2. Found(C, args) \in Seq(C) /\ FirstOther(C, args, i) \in Seq(C)
    BY <1>4, <1>6, FoundType, FirstOtherType
  <2>3. Found(C, args) \o FirstOther(C, args, i) \in Seq(C)
    BY <2>2
  <2>4. PICK q \in Seq(C) : q = Found(C, args) \o FirstOther(C, args, i)
    BY <2>3
  <2>5. PICK D : D = Decoded(c)
    OBVIOUS
  <2>6. q \in Seq(D)
    BY <1>6, <2>5, SeqOfLarger
  <2> QED
    BY <2>1, <2>4, <2>5, <2>6
<1>11. CASE EndsRun(c, i) /\ TypeAt(c, i) \notin {"IF", "JMP", "SWITCH"}
  BY <1>11 DEF LinksOf
<1> QED
  BY <1>7, <1>8, <1>9, <1>10, <1>11

\* The nodes of a file: of every method m, one for each decoded instruction of the
\* code_item that it has; at is where the instructions of the code_items are.
NodesOf(item, codeOf) ==
  UNION {{m} \X Decoded(codeOf[item[m]]) : m \in DOMAIN item}

AddrOf(item, at, n) == at[<<item[n[1]], n[2]>>]

NextOf(item, codeOf, n) ==
  LET links == LinksOf(codeOf[item[n[1]]], n[2])
  IN  [k \in 1..Len(links) |-> <<n[1], links[k]>>]

(***************************************************************************)
(* Of methods whose code_items do not overlap (at is injective), however   *)
(* many of them have one: no node is linked out of its method, and nodes   *)
(* at one address have as many successors, at the same addresses, in the   *)
(* same order.  This is the DexesAssumption of ProgramGraph and the        *)
(* ProgramsAssumption of Traversal.                                        *)
(***************************************************************************)
THEOREM CopiesAgree ==
  ASSUME NEW Methods, NEW Items, NEW Addr,
         NEW item \in [Methods -> Items], NEW codeOf \in [Items -> Codes],
         NEW at \in [Items \X Nat -> Addr],
         \A p, q \in Items \X Nat : at[p] = at[q] => p = q
  PROVE  /\ \A n \in NodesOf(item, codeOf) :
              /\ NextOf(item, codeOf, n) \in Seq(NodesOf(item, codeOf))
              /\ \A k \in DOMAIN NextOf(item, codeOf, n) : NextOf(item, codeOf, n)[k][1] = n[1]
         /\ \A m, n \in NodesOf(item, codeOf) : AddrOf(item, at, m) = AddrOf(item, at, n) =>
              /\ Len(NextOf(item, codeOf, m)) = Len(NextOf(item, codeOf, n))
              /\ \A k \in DOMAIN NextOf(item, codeOf, m) :
                   AddrOf(item, at, NextOf(item, codeOf, m)[k])
                     = AddrOf(item, at, NextOf(item, codeOf, n)[k])
<1>1. ASSUME NEW n \in NodesOf(item, codeOf)
      PROVE  /\ n[1] \in Methods /\ item[n[1]] \in Items /\ codeOf[item[n[1]]] \in Codes
             /\ n[2] \in Decoded(codeOf[item[n[1]]]) /\ n[2] \in Nat
  <2>1. PICK m \in Methods : n \in {m} \X Decoded(codeOf[item[m]])
    BY DEF NodesOf
  <2>2. n[1] = m /\ n[2] \in Decoded(codeOf[item[m]])
    BY <2>1
  <2>3. item[m] \in Items /\ codeOf[item[m]] \in Codes
    OBVIOUS
  <2>4. DOMAIN codeOf[item[m]] \subseteq Nat
    <3>1. codeOf[item[m]] \in Seq(Instruction)
      BY <2>3, CodesAssumption
    <3> QED
      BY <3>1
  <2> QED
    BY <2>2, <2>3, <2>4 DEF Decoded
<1>2. ASSUME NEW n \in NodesOf(item, codeOf)
      PROVE  /\ NextOf(item, codeOf, n) \in Seq(NodesOf(item, codeOf))
             /\ \A k \in DOMAIN NextOf(item, codeOf, n) : NextOf(item, codeOf, n)[k][1] = n[1]
  <2>1. PICK links : links = LinksOf(codeOf[item[n[1]]], n[2])
    OBVIOUS
  <2>2. links \in Seq(Decoded(codeOf[item[n[1]]]))
    BY <1>1, <2>1, LinksType
  <2>3. Len(links) \in Nat /\ \A k \in 1..Len(links) : links[k] \in Decoded(codeOf[item[n[1]]])
    BY <2>2
  <2>4. \A d \in Decoded(codeOf[item[n[1]]]) : <<n[1], d>> \in NodesOf(item, codeOf)
    BY <1>1 DEF NodesOf
  <2>5. NextOf(item, codeOf, n) = [k \in 1..Len(links) |-> <<n[1], links[k]>>]
    BY <2>1 DEF NextOf
  <2>6. [k \in 1..Len(links) |-> <<n[1], links[k]>>] \in [1..Len(links) -> NodesOf(item, codeOf)]
    BY <2>3, <2>4
  <2>7. [k \in 1..Len(links) |-> <<n[1], links[k]>>] \in Seq(NodesOf(item, codeOf))
    BY <2>3, <2>6, SeqDef
  <2> QED
    BY <2>5, <2>7
<1>3. ASSUME NEW m \in NodesOf(item, codeOf), NEW n \in NodesOf(item, codeOf),
             AddrOf(item, at, m) = AddrOf(item, at, n)
      PROVE  /\ Len(NextOf(item, codeOf, m)) = Len(NextOf(item, codeOf, n))
             /\ \A k \in DOMAIN NextOf(item, codeOf, m) :
                  AddrOf(item, at, NextOf(item, codeOf, m)[k])
                    = AddrOf(item, at, NextOf(item, codeOf, n)[k])
  <2>1. /\ <<item[m[1]], m[2]>> \in Items \X Nat /\ <<item[n[1]], n[2]>> \in Items \X Nat
        /\ at[<<item[m[1]], m[2]>>] = at[<<item[n[1]], n[2]>>]
    BY <1>1, <1>3 DEF AddrOf
  <2>2. <<item[m[1]], m[2]>> = <<item[n[1]], n[2]>>
    BY <2>1
  <2>3. item[m[1]] = item[n[1]] /\ m[2] = n[2]
    BY <2>2
  <2>4. PICK links : links = LinksOf(codeOf[item[m[1]]], m[2])
    OBVIOUS
  <2>5. /\ NextOf(item, codeOf, m) = [k \in 1..Len(links) |-> <<m[1], links[k]>>]
        /\ NextOf(item, codeOf, n) = [k \in 1..Len(links) |-> <<n[1], links[k]>>]
    BY <2>3, <2>4 DEF NextOf
  <2>6. Len(links) \in Nat
    <3>1. links \in Seq(Decoded(codeOf[item[m[1]]]))
      BY <1>1, <2>4, LinksType
    <3> QED
      BY <3>1
  <2>7. /\ Len(NextOf(item, codeOf, m)) = Len(links) /\ Len(NextOf(item, codeOf, n)) = Len(links)
    BY <2>5, <2>6
  <2>8. ASSUME NEW k \in 1..Len(links)
        PROVE  AddrOf(item, at, NextOf(item, codeOf, m)[k])
                 = AddrOf(item, at, NextOf(item, codeOf, n)[k])
    <3>1. NextOf(item, codeOf, m)[k] = <<m[1], links[k]>> /\ NextOf(item, codeOf, n)[k] = <<n[1], links[k]>>
      BY <2>5
    <3> QED
      BY <2>3, <3>1 DEF AddrOf
  <2> QED
    BY <2>5, <2>7, <2>8
<1> QED
  BY <1>2, <1>3
=============================================================================
