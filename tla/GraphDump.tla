------------------------------ MODULE GraphDump ------------------------------
(***************************************************************************)
(* What a traversal of a method's control flow graph promises its caller   *)
(* (processDexFile, src/dexdump/DexDump.cpp): it hands back the nodes that *)
(* the entry reaches, and nothing else, and with each of them all of its   *)
(* out-edges.  Nodes are identified by their address in the DEX file: the  *)
(* edg file written from the result knows nothing else of a node.          *)
(***************************************************************************)
CONSTANT Addr

VARIABLES
  succ,      \* the control flow graph: the successors of every address
  entry,     \* the address of the method's first instruction
  nodes,     \* the addresses handed back so far
  edges,     \* the edges handed back so far, pairs of addresses
  done       \* has the traversal returned?

vars == <<succ, entry, nodes, edges, done>>

(***************************************************************************)
(* The reachable addresses are the least set that holds the entry and is   *)
(* closed under succ.                                                      *)
(***************************************************************************)
Closed(S) == entry \in S /\ \A a \in S : succ[a] \subseteq S

Reach == {a \in Addr : \A S \in SUBSET Addr : Closed(S) => a \in S}

OutEdges(a) == {a} \X succ[a]

-----------------------------------------------------------------------------
Init ==
  /\ succ \in [Addr -> SUBSET Addr]
  /\ entry \in Addr
  /\ nodes = {}
  /\ edges = {}
  /\ done = FALSE

\* A reachable node is handed back together with all of its out-edges.
Dump(a) ==
  /\ ~done
  /\ a \in Reach
  /\ nodes' = nodes \cup {a}
  /\ edges' = edges \cup OutEdges(a)
  /\ UNCHANGED <<succ, entry, done>>

\* The traversal returns only when nothing reachable is missing.
Return ==
  /\ ~done
  /\ nodes = Reach
  /\ done' = TRUE
  /\ UNCHANGED <<succ, entry, nodes, edges>>

Next == Return \/ \E a \in Addr : Dump(a)

Spec == Init /\ [][Next]_vars
=============================================================================
