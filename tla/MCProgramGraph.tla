---------------------------- MODULE MCProgramGraph ----------------------------
(***************************************************************************)
(* Instances of ProgramGraph for TLC.                                      *)
(***************************************************************************)
EXTENDS ProgramGraph

MCNode == 0..6
MCAddr == 11..16

\* The copy that a walk starts from has no method: it gets its own at StartWalk.
OfNodes(f) == [n \in MCNode |-> IF n = 0 THEN f[1] ELSE f[n]]

(***************************************************************************)
(* Three codes: nodes 1 and 2, nodes 3 and 4, node 5.  Nodes 1, 3 and 5    *)
(* may call; 1 goes on to 2 and 3 to 4, and 4 returns or loops back.       *)
(* Node 6 is of no method, or a second decoding of the code of node 5.     *)
(***************************************************************************)
Flows == {<< <<2>>, two, <<4>>, four, <<>>, <<>> >> :
            two \in {<<>>, <<1>>}, four \in {<<>>, <<3>>, <<3, 4>>}}

Calls == {<<one, NoCall, three, NoCall, five, five>> :
            one \in 0..3, three \in {NoCall, 0, 2}, five \in {NoCall, 0}}

M(i, e, c) == [idx |-> i, exported |-> e, code |-> c]

\* Calls to later classes, a private method, one without code, methods out of
\* order, and a method that is defined twice.
Layouts ==
  { << <<M(0, TRUE, <<1, 2>>)>>, <<M(1, FALSE, <<3, 4>>), M(2, TRUE, <<5>>)>> >>,
    << <<M(2, TRUE, <<5>>), M(1, TRUE, <<3, 4>>)>>, <<>>, <<M(0, TRUE, <<1, 2>>)>> >>,
    << <<M(0, TRUE, <<1, 2>>), M(2, FALSE, <<>>)>>, <<M(1, TRUE, <<3, 4>>)>> >>,
    << <<M(0, FALSE, <<1, 2>>), M(1, TRUE, <<3, 4>>)>>, <<M(0, TRUE, <<5>>)>> >> }

\* Two methods with one code item, one of them private.
Sharing == << <<M(1, TRUE, <<5>>), M(2, FALSE, <<6>>)>>, <<M(0, TRUE, <<1, 2>>)>> >>

MCDexes ==
  {[classes |-> layout, next |-> OfNodes(flow), called |-> OfNodes(call),
    addr |-> OfNodes(<<11, 12, 13, 14, 15, IF layout = Sharing THEN 15 ELSE 16>>),
    methodIdsSize |-> 3] :
     layout \in Layouts \cup {Sharing}, flow \in Flows, call \in Calls}

MCOptions == [disassemble : {TRUE}, exportsOnly : BOOLEAN]
               \cup {[disassemble |-> FALSE, exportsOnly |-> FALSE]}
=============================================================================
