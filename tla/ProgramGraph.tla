----------------------------- MODULE ProgramGraph -----------------------------
(***************************************************************************)
(* From a parsed DEX file to the graph that is written to graph.edg:       *)
(* processDexFile with dumpClass and dumpMethod                            *)
(* (src/dexdump/DexDump.cpp), get_method_call_nodes and process_calls      *)
(* (src/TreeConstructor/TCNode.cpp) and Fmt::Edg::dump_all                 *)
(* (src/TreeConstructor/FmtEdg.cpp).                                       *)
(*                                                                         *)
(* The control flow of every method is taken as MethodGraph leaves it.     *)
(* Every method is walked by Traversal, step by step, over nodes that all  *)
(* methods share and that calls link to one another.                       *)
(***************************************************************************)
EXTENDS Naturals, Sequences, FiniteSets, SequencesExt, FiniteSetsExt

CONSTANTS
  Node, Addr,   \* as in Traversal
  Root,         \* the copy of an entry node that a walk starts from
  NoCall,       \* of a node that calls nothing
  NoMethod,     \* of a time when no method is walked
  Dexes,        \* the files
  Options       \* the command lines, records [disassemble, exportsOnly]

(***************************************************************************)
(* A file: its classes, each the sequence of its direct and then of its    *)
(* virtual methods; the flow, address and called method of every node; and *)
(* the number of method ids.  A method's code is its node_vector, empty    *)
(* for one without code, and MethodGraph links the nodes of a method with  *)
(* one another only.                                                       *)
(***************************************************************************)
Method == [idx : Nat, exported : BOOLEAN, code : Seq(Node \ {Root})]

ASSUME NodesAssumption == Root \in Node /\ NoMethod \notin Nat /\ NoCall \notin Nat
ASSUME DexesAssumption ==
  \A d \in Dexes :
    /\ d.classes \in Seq(Seq(Method))
    /\ d.next \in [Node -> Seq(Node \ {Root})]
    /\ d.addr \in [Node -> Addr]
    /\ d.called \in [Node -> Nat \cup {NoCall}]
    /\ d.methodIdsSize \in Nat
    /\ \A class \in Range(d.classes) : \A m \in Range(class) : \A n \in Range(m.code) :
         Range(d.next[n]) \subseteq Range(m.code)
    /\ \A m, n \in Node \ {Root} : d.addr[m] = d.addr[n] =>
         /\ d.called[m] = d.called[n]
         /\ Len(d.next[m]) = Len(d.next[n])
         /\ \A i \in DOMAIN d.next[m] : d.addr[d.next[m][i]] = d.addr[d.next[n][i]]

VARIABLES
  dex, options,
  classIdx,          \* how many classes were dumped
  method_node_map,   \* the entry node of every method, by method_idx
  call_node_vec,     \* the CALL nodes of all methods
  walked,            \* the methods whose walk has been merged
  walking,           \* the method that is walked now
  nodesptr_vec,      \* the nodes to write, by address
  edges_vec,         \* the edges to write, by address; nothing counts them
  phase,             \* "classes", "walks", "written"
  next, addr, stack, visited, edges, current, pc   \* of Traversal

walkVars == <<next, addr, stack, visited, edges, current, pc>>
fileVars == <<dex, options, classIdx, method_node_map, call_node_vec, walked,
              walking, nodesptr_vec, edges_vec, phase>>
vars == <<fileVars, walkVars>>

\* Walks start from StartWalk, and so Programs is of no use here.
Walk == INSTANCE Traversal WITH Programs <- {}

Init ==
  /\ dex \in Dexes
  /\ options \in Options
  /\ classIdx = 0
  /\ method_node_map = <<>>
  /\ call_node_vec = {}
  /\ walked = {}
  /\ walking = NoMethod
  /\ nodesptr_vec = <<>>
  /\ edges_vec = {}
  /\ phase = "classes"
  /\ next = dex.next
  /\ addr = dex.addr
  /\ stack = <<>>
  /\ visited = {}
  /\ edges = {}
  /\ current = Root
  /\ pc = "done"

-----------------------------------------------------------------------------
(***************************************************************************)
(* The classes                                                             *)
(***************************************************************************)

\* dumpMethod and dumpCode throw for any other method, and dumpClass goes on.
Dumpable(m) ==
  /\ options.exportsOnly => m.exported
  /\ m.code # <<>>
  /\ options.disassemble

DumpedOf(class) == {i \in DOMAIN class : Dumpable(class[i])}
MethodsOf(class) == {class[i] : i \in DumpedOf(class)}
IndexesOf(class) == {m.idx : m \in MethodsOf(class)}

\* The entry node of the first method of a class that has this index.
EntryOf(class, idx) == class[Min({i \in DumpedOf(class) : class[i].idx = idx})].code[1]

\* get_method_call_nodes.
CallNodes(m) == {n \in Range(m.code) : dex.called[n] # NoCall}

\* (Mutants: the last definition wins; call nodes of earlier classes are lost.)
KeepLast(old, new) == new @@ old
CollectOfClass(calls, more) == more

\* emplace and insert keep what the map has.
Keep(old, new) ==
  [idx \in DOMAIN old \cup DOMAIN new |-> IF idx \in DOMAIN old THEN old[idx] ELSE new[idx]]

\* No node is met twice, and the order is of no use: process_calls goes over all.
Collect(calls, more) == calls \cup more

dumpClass ==
  /\ phase = "classes"
  /\ classIdx < Len(dex.classes)
  /\ LET class == dex.classes[classIdx + 1]
     IN  /\ method_node_map' =
              Keep(method_node_map, [idx \in IndexesOf(class) |-> EntryOf(class, idx)])
         /\ call_node_vec' =
              Collect(call_node_vec, UNION {CallNodes(m) : m \in MethodsOf(class)})
  /\ classIdx' = classIdx + 1
  /\ UNCHANGED <<dex, options, walked, walking, nodesptr_vec, edges_vec, phase, walkVars>>

-----------------------------------------------------------------------------
(***************************************************************************)
(* The calls                                                               *)
(***************************************************************************)

\* get_method_info throws for an index that no method has; dumpInstruction
\* swallows that, and the node keeps a MethodInfo whose method_idx is 0.
called_method_info(n) ==
  IF dex.called[n] < dex.methodIdsSize THEN dex.called[n] ELSE 0

\* A call to a method that was dumped gets its entry node for a last successor.
process_calls ==
  /\ phase = "classes"
  /\ classIdx = Len(dex.classes)
  /\ next' = [n \in Node |->
                IF n \in call_node_vec
                     /\ called_method_info(n) \in DOMAIN method_node_map
                THEN Append(next[n], method_node_map[called_method_info(n)])
                ELSE next[n]]
  /\ phase' = "walks"
  /\ UNCHANGED <<dex, options, classIdx, method_node_map, call_node_vec, walked, walking,
                 nodesptr_vec, edges_vec, addr, stack, visited, edges, current, pc>>

-----------------------------------------------------------------------------
(***************************************************************************)
(* The walks, in the order of method_idx                                   *)
(***************************************************************************)
ToWalk == DOMAIN method_node_map \ walked

\* make_shared<Node>(node) copies the entry node as process_calls left it.
StartWalk ==
  /\ phase = "walks"
  /\ walking = NoMethod
  /\ ToWalk # {}
  /\ walking' = Min(ToWalk)
  /\ next' = [next EXCEPT ![Root] = next[method_node_map[Min(ToWalk)]]]
  /\ addr' = [addr EXCEPT ![Root] = addr[method_node_map[Min(ToWalk)]]]
  /\ stack' = <<>>
  /\ visited' = {}
  /\ edges' = {}
  /\ current' = Root
  /\ pc' = "left"
  /\ UNCHANGED <<dex, options, classIdx, method_node_map, call_node_vec, walked,
                 nodesptr_vec, edges_vec, phase>>

WalkStep ==
  /\ walking # NoMethod
  /\ Walk!Next
  /\ UNCHANGED fileVars

\* (Mutants: nodes are added without looking; the walk is not counted as done.)
AddNodesAlways(vec) == FoldSet(LAMBDA n, v : Append(v, addr[n]), vec, visited)

WalkedAgain == walked

\* A node is added unless one with its baseAddr is there.
AddNodes(vec) ==
  FoldSet(LAMBDA n, v : IF addr[n] \in Range(v) THEN v ELSE Append(v, addr[n]),
          vec, visited)

EdgesByAddr == {<<addr[e[1]], addr[e[2]]>> : e \in edges}

Walked == walked \cup {walking}

EndWalk ==
  /\ walking # NoMethod
  /\ pc = "done"
  /\ nodesptr_vec' = AddNodes(nodesptr_vec)
  /\ edges_vec' = edges_vec \cup EdgesByAddr
  /\ walked' = Walked
  /\ walking' = NoMethod
  /\ UNCHANGED <<dex, options, classIdx, method_node_map, call_node_vec, phase, walkVars>>

\* dump_all writes the header, the number of nodes, the nodes and the edges.
dump_all ==
  /\ phase = "walks"
  /\ walking = NoMethod
  /\ ToWalk = {}
  /\ phase' = "written"
  /\ UNCHANGED <<dex, options, classIdx, method_node_map, call_node_vec, walked, walking,
                 nodesptr_vec, edges_vec, walkVars>>

Next ==
  \/ dumpClass \/ process_calls
  \/ StartWalk \/ WalkStep \/ EndWalk
  \/ dump_all

\* One thread, no waiting.
Spec == Init /\ [][Next]_vars /\ WF_vars(Next)

-----------------------------------------------------------------------------
(***************************************************************************)
(* Properties.  The reference is the program's graph by address, read off  *)
(* the file: a method index stands for the first method in the file that   *)
(* has it and can be dumped, and a call to an index that no method has,    *)
(* or whose method is not dumped, leads nowhere.                           *)
(***************************************************************************)
Defined == UNION {IndexesOf(class) : class \in Range(dex.classes)}

EntryNode(idx) ==
  EntryOf(dex.classes[Min({c \in DOMAIN dex.classes : idx \in IndexesOf(dex.classes[c])})], idx)

EntryAddr(idx) == addr[EntryNode(idx)]

\* The nodes of all methods that can be dumped.
Live == UNION {UNION {Range(m.code) : m \in MethodsOf(class)} : class \in Range(dex.classes)}

NodesAt(a) == {n \in Live : addr[n] = a}

CalledAt(a) ==
  {dex.called[n] : n \in NodesAt(a)} \cap Defined \cap 0..(dex.methodIdsSize - 1)

SuccAt(a) ==
  {addr[k] : k \in UNION {Range(dex.next[n]) : n \in NodesAt(a)}}
    \cup {EntryAddr(idx) : idx \in CalledAt(a)}

Reachable ==
  LET Closed(S) == /\ {EntryAddr(idx) : idx \in Defined} \subseteq S
                   /\ \A a \in S : SuccAt(a) \subseteq S
  IN  {a \in Addr : \A S \in SUBSET Addr : Closed(S) => a \in S}

\* An instruction is listed once, however many walks have met it and under
\* however many pointers.
NodesAreUnique == IsInjective(nodesptr_vec)

\* What is written lacks nothing: all that the dumped methods reach, calls that
\* lead to later classes and calls out of other walks included, with all edges.
GraphIsComplete ==
  phase = "written" =>
    /\ Reachable \subseteq Range(nodesptr_vec)
    /\ \A a \in Reachable : {a} \X SuccAt(a) \subseteq edges_vec

\* And it holds nothing else, but for this: a call whose index no method has is
\* written as a call to method 0.
GraphIsSound ==
  phase = "written" =>
    \A e \in edges_vec :
      \/ e[2] \in SuccAt(e[1])
      \/ /\ \E n \in NodesAt(e[1]) : dex.called[n] \in Nat /\ dex.called[n] >= dex.methodIdsSize
         /\ 0 \in Defined /\ e[2] = EntryAddr(0)

\* The graph of a file whose methods have code items of their own gets written,
\* with recursion and mutual recursion among them.
GetsWritten == ~Walk!SharesCode => <>(phase = "written")
=============================================================================
