----------------------------- MODULE MethodGraph -----------------------------
(***************************************************************************)
(* From a method's code to its control flow graph: the decoding loop of    *)
(* dumpBytecodes and dumpInstruction (src/dexdump/DexDump.cpp) and         *)
(* construct_node_from_vec with the four passes it makes                   *)
(* (src/TreeConstructor/TCNode.cpp).                                       *)
(*                                                                         *)
(* Offsets are counted in instructions, from 1 for the method's entry: the *)
(* loop keeps insns and insnIdx in step by the width of each instruction,  *)
(* and the passes only compare offsets and step from one instruction to    *)
(* the next.  A node is then its own offset.                               *)
(***************************************************************************)
EXTENDS Naturals, Sequences, FiniteSets, SequencesExt

CONSTANT Codes    \* the methods' codes, sequences of instructions

\* What the passes tell apart.  "packed" and "sparse" are the two switches with
\* the targets of their payloads, "payload" is the data of a switch or an array,
\* which decodes as a nop, and "glitch" an opcode of width zero.
Kinds == {"seq", "call", "if", "goto", "goto32", "packed", "sparse", "throw",
          "ret", "payload", "glitch"}

GoesOn == {"seq", "call", "if", "packed", "sparse"}

Instruction == [kind : Kinds, targets : Seq(Nat)]

\* A nop that nothing leads to may align the payload behind it.
Spacer(code, i) ==
  /\ code[i].kind = "seq"
  /\ i > 1 /\ code[i - 1].kind \notin GoesOn
  /\ \A j \in DOMAIN code : i \notin Range(code[j].targets)
  /\ i < Len(code) /\ code[i + 1].kind = "payload"

\* Verified code branches to instructions of its own method, a branch or a jump
\* to exactly one, and neither runs off its end nor into data.
Verified(code) ==
  /\ code # <<>>
  /\ \A i \in DOMAIN code :
       LET ins == code[i]
           goesTo == Range(ins.targets) \cup (IF ins.kind \in GoesOn THEN {i + 1} ELSE {})
       IN  /\ \/ goesTo \subseteq {j \in DOMAIN code : code[j].kind # "payload"}
              \/ Spacer(code, i)
           /\ ins.kind \in {"if", "goto", "goto32"} => Len(ins.targets) = 1
           /\ ins.kind \notin {"if", "goto", "goto32", "packed", "sparse"} =>
                ins.targets = <<>>

ASSUME CodesAssumption ==
  \A code \in Codes : code \in Seq(Instruction) /\ Verified(code)

VARIABLES
  code,      \* the method's instructions
  insnIdx,   \* the next instruction to decode
  node,      \* node_vector: the decoded nodes, [type, args]
  taken,     \* how many nodes have left node_queue for a cluster
  clusters,  \* cluster_map: the last node of a cluster, by its first
  next,      \* next_nodes of every node
  phase      \* the pass that runs next

vars == <<code, insnIdx, node, taken, clusters, next, phase>>

-----------------------------------------------------------------------------
(***************************************************************************)
(* Decoding                                                                *)
(***************************************************************************)

\* OpCodeClassifier::get_opcode_type.
get_opcode_type ==
  [seq |-> "SEQ", payload |-> "SEQ", call |-> "CALL", if |-> "IF",
   goto |-> "JMP", goto32 |-> "JMP", packed |-> "SWITCH", sparse |-> "SWITCH",
   throw |-> "THROW", ret |-> "RET"]

\* get_packed_switch_payload takes half of the targets that the payload has ...
packed_switch_targets(targets) == SubSeq(targets, 1, Len(targets) \div 2)

\* ... and get_sparse_switch_offsets all of them.
sparse_switch_targets(targets) == targets

\* Mutant: the format of goto/16 is forgotten too.
arg_offsetWithoutGoto(instr) ==
  CASE instr.kind = "if" -> instr.targets
    [] instr.kind = "packed" -> packed_switch_targets(instr.targets)
    [] instr.kind = "sparse" -> sparse_switch_targets(instr.targets)
    [] OTHER -> <<>>

\* The arguments that dumpInstruction collects.  The format of goto/32 is not
\* among those it knows.
arg_offset(instr) ==
  CASE instr.kind \in {"if", "goto"} -> instr.targets
    [] instr.kind = "packed" -> packed_switch_targets(instr.targets)
    [] instr.kind = "sparse" -> sparse_switch_targets(instr.targets)
    [] OTHER -> <<>>

Init ==
  /\ code \in Codes
  /\ insnIdx = 1
  /\ node = <<>>
  /\ taken = 0
  /\ clusters = <<>>
  /\ next = <<>>
  /\ phase = "decode"

dumpInstruction ==
  /\ phase = "decode"
  /\ insnIdx \in DOMAIN code
  /\ code[insnIdx].kind # "glitch"
  /\ node' = Append(node, [type |-> get_opcode_type[code[insnIdx].kind],
                           args |-> arg_offset(code[insnIdx])])
  /\ next' = Append(next, <<>>)
  /\ insnIdx' = insnIdx + 1
  /\ UNCHANGED <<code, taken, clusters, phase>>

\* A zero-width instruction ends the loop; what was decoded so far is kept.
EndOfCode ==
  /\ phase = "decode"
  /\ insnIdx \in DOMAIN code => code[insnIdx].kind = "glitch"
  /\ phase' = "cluster"
  /\ UNCHANGED <<code, insnIdx, node, taken, clusters, next>>

-----------------------------------------------------------------------------
(***************************************************************************)
(* get_node_clusters                                                       *)
(***************************************************************************)
\* Mutant: a return does not end its cluster.
ClusterEndWithoutRet(type) == type \in {"IF", "JMP", "SWITCH"}

is_cluster_end_opcodetype(type) == type \in {"IF", "JMP", "SWITCH", "RET"}

\* Mutant: the loop tests the front of the queue and not the node it has taken.
ClusterEndBefore(first) ==
  CHOOSE last \in first..Len(node) :
    /\ last = Len(node) \/ is_cluster_end_opcodetype(node[last + 1].type)
    /\ \A i \in (first + 1)..last : ~is_cluster_end_opcodetype(node[i].type)

\* The inner loop: nodes are linked to one another up to the first that ends a
\* cluster, or the last.
ClusterEnd(first) ==
  CHOOSE last \in first..Len(node) :
    /\ is_cluster_end_opcodetype(node[last].type) \/ last = Len(node)
    /\ \A i \in first..(last - 1) : ~is_cluster_end_opcodetype(node[i].type)

TakeCluster ==
  /\ phase = "cluster"
  /\ taken < Len(node)
  /\ LET first == taken + 1
         last == ClusterEnd(first)
     IN  /\ clusters' = [c \in DOMAIN clusters \cup {first} |->
                           IF c = first THEN last ELSE clusters[c]]
         /\ next' = [i \in DOMAIN next |->
                       IF i \in first..(last - 1) THEN Append(next[i], i + 1) ELSE next[i]]
         /\ taken' = last
  /\ UNCHANGED <<code, insnIdx, node, phase>>

\* With no node at all the loops take the front of an empty queue, which is
\* undefined: nothing more is said of that behaviour.
TakeFromEmptyQueue ==
  /\ phase = "cluster"
  /\ node = <<>>
  /\ phase' = "undefined"
  /\ UNCHANGED <<code, insnIdx, node, taken, clusters, next>>

EndOfQueue ==
  /\ phase = "cluster"
  /\ node # <<>>
  /\ taken = Len(node)
  /\ phase' = "if"
  /\ UNCHANGED <<code, insnIdx, node, taken, clusters, next>>

-----------------------------------------------------------------------------
(***************************************************************************)
(* The linking passes look at the last node of every cluster.              *)
(***************************************************************************)
IsCluster(offset) == offset \in DOMAIN clusters
LastOfType(type) == {clusters[c] : c \in {d \in DOMAIN clusters : node[clusters[d]].type = type}}

LinkAll(nodes, Links(_)) ==
  next' = [i \in DOMAIN next |-> IF i \in nodes THEN next[i] \o Links(i) ELSE next[i]]

\* The targets that cluster_map finds, in the order in which they are looked up.
ClustersAt(targets) ==
  LET upTo[n \in 0..Len(targets)] ==
        IF n = 0 THEN <<>>
        ELSE upTo[n - 1] \o (IF IsCluster(targets[n]) THEN <<targets[n]>> ELSE <<>>)
  IN  upTo[Len(targets)]

\* The true branch, then the false branch, each if a cluster starts there.
IfLinks(i) == ClustersAt(<<i + 1, node[i].args[1]>>)

process_if_clusters ==
  /\ phase = "if"
  /\ LinkAll(LastOfType("IF"), IfLinks)
  /\ phase' = "jmp"
  /\ UNCHANGED <<code, insnIdx, node, taken, clusters>>

\* Mutants: jumps find clusters only, or are not looked up at all.
JmpLinksToClusters(i) == ClustersAt(node[i].args)
JmpLinksUnchecked(i) == node[i].args

\* A jump may lead into a cluster: all of its nodes are looked at.
JmpLinks(i) == IF node[i].args[1] \in DOMAIN node THEN <<node[i].args[1]>> ELSE <<>>

process_jmp_clusters ==
  /\ phase = "jmp"
  /\ \A i \in LastOfType("JMP") : node[i].args # <<>>
  /\ LinkAll(LastOfType("JMP"), JmpLinks)
  /\ phase' = "switch"
  /\ UNCHANGED <<code, insnIdx, node, taken, clusters>>

\* opt_arg_offset.front() of a jump that has none is undefined.
JmpWithoutTarget ==
  /\ phase = "jmp"
  /\ \E i \in LastOfType("JMP") : node[i].args = <<>>
  /\ phase' = "undefined"
  /\ UNCHANGED <<code, insnIdx, node, taken, clusters, next>>

\* The fallthrough is the first cluster in the map that no target names.
Fallthrough(i) ==
  LET others == DOMAIN clusters \ (Range(node[i].args) \cup {i})
  IN  IF node[i].args = <<>> \/ others = {} THEN <<>> ELSE <<Min(others)>>

SwitchLinks(i) == ClustersAt(node[i].args) \o Fallthrough(i)

process_switch_clusters ==
  /\ phase = "switch"
  /\ LinkAll(LastOfType("SWITCH"), SwitchLinks)
  /\ phase' = "done"
  /\ UNCHANGED <<code, insnIdx, node, taken, clusters>>

Next ==
  \/ dumpInstruction \/ EndOfCode
  \/ TakeCluster \/ TakeFromEmptyQueue \/ EndOfQueue
  \/ process_if_clusters
  \/ process_jmp_clusters \/ JmpWithoutTarget
  \/ process_switch_clusters

\* One thread, no waiting.
Spec == Init /\ [][Next]_vars /\ WF_vars(Next)

-----------------------------------------------------------------------------
(***************************************************************************)
(* Properties.  Flow is the reference: where the Dalvik instruction at i   *)
(* may go within the part of the code that was decoded.                    *)
(***************************************************************************)
Flow(i) ==
  (Range(code[i].targets) \cup (IF code[i].kind \in GoesOn THEN {i + 1} ELSE {}))
    \cap DOMAIN node

Succ(i) == Range(next[i])

TypeOK ==
  /\ code \in Seq(Instruction)
  /\ insnIdx \in 1..(Len(code) + 1)
  /\ node \in Seq([type : Range(get_opcode_type), args : Seq(Nat)])
  /\ taken \in 0..Len(node)
  /\ DOMAIN clusters \subseteq 1..taken
  /\ \A c \in DOMAIN clusters : clusters[c] \in c..taken
  /\ DOMAIN next = DOMAIN node
  /\ \A i \in DOMAIN next : next[i] \in Seq(DOMAIN node)
  /\ phase \in {"decode", "cluster", "if", "jmp", "switch", "done", "undefined"}

\* The clusters partition the decoded nodes into runs, and nothing but the last
\* node of a run, or a node that ends the code, leads out of the method's order:
\* every node whose links a later pass must add is the last of its cluster.
ClustersPartition ==
  /\ \A i \in 1..taken : Cardinality({c \in DOMAIN clusters : i \in c..clusters[c]}) = 1
  /\ \A c \in DOMAIN clusters : \A i \in c..clusters[c] :
       is_cluster_end_opcodetype(node[i].type) => i = clusters[c]

\* The passes invent no flow but this, one link at most: a throw and a payload are linked to what
\* comes next, and a switch to what the code takes for its fallthrough, which is
\* never one of its targets and never the switch itself.
SpuriousFlow ==
  phase = "done" =>
    \A i \in DOMAIN node :
      /\ Cardinality(Succ(i) \ Flow(i)) <= 1
      /\ \A t \in Succ(i) \ Flow(i) :
           \/ code[i].kind \in {"throw", "payload"} /\ t = i + 1
           \/ node[i].type = "SWITCH" /\ IsCluster(t) /\ t # i

\* Flow that is missing is a branch into the middle of a cluster (of an if or of
\* a switch) or belongs to a switch: the target in the second half of a packed
\* payload, or the instruction after the switch.  Jumps lose nothing, and no
\* instruction loses the next one but a switch.
MissingOnlyIntoClusters ==
  phase = "done" =>
    \A i \in DOMAIN node : \A t \in Flow(i) \ Succ(i) :
      \/ node[i].type \in {"IF", "SWITCH"} /\ t # i + 1 /\ ~IsCluster(t)
      \/ code[i].kind = "packed" /\ t \notin Range(node[i].args)
      \/ node[i].type = "SWITCH" /\ t = i + 1

\* Construction returns for every code with a first instruction and no goto/32.
Returns ==
  (code[1].kind # "glitch" /\ \A i \in DOMAIN code : code[i].kind # "goto32")
    => <>(phase = "done")

\* A switch whose targets do not name the instruction after it is linked to it.
SwitchFallsThrough ==
  phase = "done" =>
    \A i \in LastOfType("SWITCH") :
      node[i].args # <<>> /\ i + 1 \in Flow(i) \ Range(code[i].targets)
        => i + 1 \in Succ(i)
=============================================================================
