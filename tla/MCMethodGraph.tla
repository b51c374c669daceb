---------------------------- MODULE MCMethodGraph ----------------------------
(***************************************************************************)
(* Instances of MethodGraph for TLC.                                       *)
(***************************************************************************)
EXTENDS MethodGraph

Instr(kinds, targetLists) == [kind : kinds, targets : targetLists]

\* Every instruction that a code of n instructions may hold, switches with up to
\* two different targets.
AnyInstr(n) ==
  Instr({"seq", "call", "throw", "ret", "payload", "glitch"}, { <<>> })
    \cup Instr({"if", "goto", "goto32"}, {<<t>> : t \in 1..n})
    \cup Instr({"packed", "sparse"},
               {s \in SeqOf(1..n, 2) : Len(s) = 2 => s[1] # s[2]})

\* What an if, a jump and a switch need to lead into the middle of a cluster.
BranchInstr(n) ==
  Instr({"seq", "ret"}, { <<>> })
    \cup Instr({"if", "goto"}, {<<t>> : t \in 1..n})
    \cup Instr({"packed", "sparse"}, {<<n>>, <<n, n - 1>>, <<2, n>>})

VerifiedOf(codes) == {c \in codes : Verified(c)}

Short == UNION {VerifiedOf([1..n -> AnyInstr(n)]) : n \in 1..3}
Long == VerifiedOf([1..4 -> BranchInstr(4)])

MCCodes == Short \cup Long
=============================================================================
