----------------------------- MODULE MCTraversal -----------------------------
(***************************************************************************)
(* Instances of Traversal for TLC.                                         *)
(***************************************************************************)
EXTENDS Traversal, SequencesExt

\* Node 0 is the copy that the walk starts from, node 1 the original entry.
MCNode == 0..5
MCAddr == 11..15
MCRoot == 0

\* A program from its nodes' successors and addresses, the copy's added.
Program(succs, addrs) ==
  [next |-> [n \in MCNode |-> IF n = 0 THEN succs[1] ELSE succs[n]],
   addr |-> [n \in MCNode |-> IF n = 0 THEN addrs[1] ELSE addrs[n]]]

\* Every graph of three instructions with at most two successors each: a
\* sequential instruction, a branch, a call, a loop, a recursive call, a jump
\* to itself, a branch with two equal targets.  Nodes 4 and 5 are not in it.
AllGraphs ==
  {Program(s \o << <<>>, <<>> >>, <<11, 12, 13, 14, 15>>) :
     s \in [1..3 -> SeqOf(1..3, 2)]}

\* Two methods with one code item: they enter at 4 and 5, which have the same
\* address and are returns.  1 and 2 are calls in the main method, 3 its return.
Shared(s) == Program(s \o << <<>>, <<>> >>, <<11, 12, 13, 14, 14>>)

CallsBoth == Shared(<< <<2, 5>>, <<3, 4>>, <<>> >>)
CallsOne  == Shared(<< <<2, 4>>, <<3>>, <<>> >>)

SharedPrograms == {CallsBoth, CallsOne}

MCPrograms == AllGraphs \cup SharedPrograms

=============================================================================
