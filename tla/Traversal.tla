------------------------------ MODULE Traversal ------------------------------
(***************************************************************************)
(* binary_traversal of src/TreeConstructor/TCNode.cpp: the depth-first     *)
(* walk that collects the nodes and edges of one method's control flow     *)
(* graph (and, along call edges, of the methods it calls).                 *)
(*                                                                         *)
(* A Node is a NodeSPtr, that is a pointer: two different nodes may have   *)
(* the same baseAddr.  The code compares nodes by pointer in some places   *)
(* (find<NodeSPtr>) and by baseAddr in others, and that difference is what *)
(* this module is about.  Two pointers meet at one address in two ways:    *)
(*   - the walk starts from a COPY of the entry node (make_shared<Node>),  *)
(*     while back edges lead to the original;                              *)
(*   - two methods may share one code item in the DEX file, and each of    *)
(*     them has its own nodes for it.                                      *)
(* visited_nodeptr_vec and the returned nodesptr_vec get the same nodes at *)
(* the same moments; both are searched or scanned, never indexed: one set  *)
(* visited stands for both.                                                *)
(***************************************************************************)
EXTENDS Naturals, Sequences

CONSTANTS
  Node,      \* the nodes (pointers) of the program, with the copy
  Addr,      \* file offsets of instructions
  Root,      \* the copy of the entry node that the walk starts from
  Programs   \* the graphs to walk, records [next, addr]

\* The walk starts from an existing node and every program's nodes have their
\* successors and addresses in range.  Code at one address is decoded the same
\* way for every method that has it, so its successors are at the same places.
ASSUME RootAssumption == Root \in Node
ASSUME ProgramsAssumption ==
  \A p \in Programs :
    /\ p.next \in [Node -> Seq(Node)]
    /\ p.addr \in [Node -> Addr]
    /\ \A m, n \in Node : p.addr[m] = p.addr[n] =>
         /\ Len(p.next[m]) = Len(p.next[n])
         /\ \A i \in 1..Len(p.next[m]) :
              p.addr[p.next[m][i]] = p.addr[p.next[n][i]]

VARIABLES
  next,      \* Node::next_nodes, fixed during the walk
  addr,      \* Node::baseAddr, fixed during the walk
  stack,     \* visiting_nodeptr_stack, its top last
  visited,   \* visited_nodeptr_vec and nodesptr_vec
  edges,     \* edges_vec, pairs of nodes
  current,   \* current_node
  pc         \* "left": in left_traversal_stack; "pop": after it; "done"

vars == <<next, addr, stack, visited, edges, current, pc>>

-----------------------------------------------------------------------------
OnStack == {stack[i] : i \in 1..Len(stack)}
Top == stack[Len(stack)]
Popped == SubSeq(stack, 1, Len(stack) - 1)

AddrsOf(S) == {addr[n] : n \in S}
Children(n) == {next[n][i] : i \in 1..Len(next[n])}

Init ==
  /\ \E p \in Programs : next = p.next /\ addr = p.addr
  /\ stack = <<>>
  /\ visited = {}
  /\ edges = {}
  /\ current = Root
  /\ pc = "left"

-----------------------------------------------------------------------------
(***************************************************************************)
(* left_traversal_stack: descend along first successors, pushing.          *)
(***************************************************************************)

\* A node without successors ends the descent; it is pushed unless it is there.
PushLeaf ==
  /\ pc = "left"
  /\ next[current] = <<>>
  /\ stack' = IF current \in OnStack THEN stack ELSE Append(stack, current)
  /\ pc' = "pop"
  /\ UNCHANGED <<next, addr, visited, edges, current>>

\* (Mutant: the successor is taken without looking at visited.)
DescendUnchecked ==
  /\ pc = "left"
  /\ next[current] # <<>>
  /\ current \notin OnStack
  /\ stack' = Append(stack, current)
  /\ current' = next[current][1]
  /\ UNCHANGED <<next, addr, visited, edges, pc>>

\* One turn of the loop: push, then move on unless the successor was visited.
Descend ==
  /\ pc = "left"
  /\ next[current] # <<>>
  /\ current \notin OnStack
  /\ stack' = Append(stack, current)
  /\ current' = IF next[current][1] \in visited THEN current ELSE next[current][1]
  /\ UNCHANGED <<next, addr, visited, edges, pc>>

\* The loop breaks at a node that is already on the stack.
StopDescent ==
  /\ pc = "left"
  /\ next[current] # <<>>
  /\ current \in OnStack
  /\ pc' = "pop"
  /\ UNCHANGED <<next, addr, stack, visited, edges, current>>

-----------------------------------------------------------------------------
(***************************************************************************)
(* The main loop: pop the nodes with at most one successor, then look at   *)
(* the node with several that is now on top.                               *)
(***************************************************************************)

\* (Mutants: the edges are collected as addresses; only the first is collected.)
DestackAddresses ==
  /\ stack' = Popped
  /\ visited' = visited \cup {Top}
  /\ edges' = edges \cup ({addr[Top]} \X AddrsOf(Children(Top)))

DestackFirstEdge ==
  /\ stack' = Popped
  /\ visited' = visited \cup {Top}
  /\ edges' = edges \cup {<<Top, next[Top][i]>> : i \in 1..Len(next[Top]) \cap {1}}

\* binary_destack_and_dump_node: pop; if the pointer is new, emit the node and
\* its edges (Fmt::Edg::dump_single_node) and remember it.
Destack ==
  /\ stack' = Popped
  /\ visited' = visited \cup {Top}
  /\ edges' = IF Top \in visited THEN edges
              ELSE edges \cup ({Top} \X Children(Top))

\* (Mutant: nodes with two successors are popped as well.)
DestackableOffByOne == pc = "pop" /\ stack # <<>> /\ Len(next[Top]) <= 2

Destackable == pc = "pop" /\ stack # <<>> /\ Len(next[Top]) < 2

PopAndDump ==
  /\ Destackable
  /\ addr[Top] \notin AddrsOf(visited)
  /\ Destack
  /\ UNCHANGED <<next, addr, current, pc>>

\* An address that was dumped under another pointer is dropped silently.
PopSilently ==
  /\ Destackable
  /\ addr[Top] \in AddrsOf(visited)
  /\ stack' = Popped
  /\ UNCHANGED <<next, addr, visited, edges, current, pc>>

\* (Mutant: the stack is not asked.)
UnvisitedIgnoringStack(n) == n \notin visited

\* get_next_unvisited_child: visited is asked by pointer, the stack by address.
Unvisited(n) == n \notin visited /\ addr[n] \notin AddrsOf(OnStack)

Branching == pc = "pop" /\ stack # <<>> /\ Len(next[Top]) >= 2

\* (Mutant: the child is looked for at the bottom of the stack.)
TakeNextChildOfFront ==
  /\ Branching
  /\ \E n \in Children(Top) : Unvisited(n)
  /\ \E n \in Children(stack[1]) : Unvisited(n) /\ current' = n
  /\ pc' = "left"
  /\ UNCHANGED <<next, addr, stack, visited, edges>>

TakeNextChild ==
  /\ Branching
  /\ \E i \in 1..Len(next[Top]) :
       /\ Unvisited(next[Top][i])
       /\ \A j \in 1..(i - 1) : ~Unvisited(next[Top][j])
       /\ current' = next[Top][i]
  /\ pc' = "left"
  /\ UNCHANGED <<next, addr, stack, visited, edges>>

\* binary_process_cuttedfeet_node: no successor is left, so pop and go up.
CutFeet ==
  /\ Branching
  /\ \A n \in Children(Top) : ~Unvisited(n)
  /\ Destack
  /\ current' = IF Popped = <<>> THEN current ELSE Popped[Len(Popped)]
  /\ pc' = IF Popped = <<>> THEN "pop" ELSE "left"
  /\ UNCHANGED <<next, addr>>

\* The main loop ends with the stack.
Return ==
  /\ pc = "pop"
  /\ stack = <<>>
  /\ pc' = "done"
  /\ UNCHANGED <<next, addr, stack, visited, edges, current>>

Next ==
  \/ PushLeaf \/ Descend \/ StopDescent
  \/ PopAndDump \/ PopSilently
  \/ TakeNextChild \/ CutFeet
  \/ Return

\* One thread runs the walk and nothing in it waits: it takes every step it can.
Spec == Init /\ [][Next]_vars /\ WF_vars(Next)

-----------------------------------------------------------------------------
(***************************************************************************)
(* Properties                                                              *)
(***************************************************************************)

TypeOK ==
  /\ next \in [Node -> Seq(Node)]
  /\ addr \in [Node -> Addr]
  /\ stack \in Seq(Node)
  /\ visited \subseteq Node
  /\ edges \subseteq Node \X Node
  /\ current \in Node
  /\ pc \in {"left", "pop", "done"}

\* A node is never on the stack twice, and never goes back on it once it was
\* dumped: what the two find<NodeSPtr> tests of left_traversal_stack and
\* get_next_unvisited_child are for, each of which covers only some pushes.
StackDiscipline ==
  /\ \A i, j \in 1..Len(stack) : stack[i] = stack[j] => i = j
  /\ OnStack \cap visited = {}

\* The stack is a path of the graph from the walk's root: whatever the mix of
\* descents, silent pops and moves of current_node back up the stack, a node is
\* only ever pushed above one of its predecessors.
StackIsPath ==
  /\ stack # <<>> => stack[1] = Root
  /\ \A i \in 1..(Len(stack) - 1) : stack[i + 1] \in Children(stack[i])

\* What the walk still has in hand: dumped, on the stack, or about to be pushed.
Covered ==
  AddrsOf(visited \cup OnStack) \cup (IF pc = "left" THEN {addr[current]} ELSE {})

\* Popping forgets nothing: every successor of a dumped node has its address
\* dumped or still in hand, although nodes with one successor are popped with
\* no look at that successor and some nodes are popped undumped.
VisitedClosed == \A n \in visited : AddrsOf(Children(n)) \subseteq Covered

\* The walk's result, by address, implements the abstract dump: only reachable
\* instructions come out, each with all of its edges, and on return none of the
\* reachable ones is missing, whatever was dropped by pointer or by address.
AddrSucc ==
  [a \in Addr |-> UNION {AddrsOf(Children(n)) : n \in {m \in Node : addr[m] = a}}]

Dump == INSTANCE GraphDump WITH
  succ <- AddrSucc,
  entry <- addr[Root],
  nodes <- AddrsOf(visited),
  edges <- {<<addr[e[1]], addr[e[2]]>> : e \in edges},
  done <- (pc = "done")

ImplementsDump == Dump!Spec

\* Two methods share a code item when an address other than the entry's has two
\* nodes, or the entry's has more than the original and the copy.
SharesCode ==
  \E m, n \in Node \ {Root} : m # n /\ addr[m] = addr[n]

\* Without shared code items the walk returns, on every graph: cycles through
\* the entry, which exist under two pointers, included.
Terminates == ~SharesCode => <>(pc = "done")

\* The walk always returns, so that graph.edg gets written.
AlwaysTerminates == <>(pc = "done")
=============================================================================
