---------------------------- MODULE MCBytecodeScan ----------------------------
(***************************************************************************)
(* An assembler, and the methods that it is given: one for each opcode     *)
(* with operands of zeros and of ones, with every target and with payloads *)
(* of every shape, and methods of two branches or switches, over and among *)
(* wide instructions.                                                      *)
(***************************************************************************)
EXTENDS BytecodeScan, SequencesExt

\* An element of a program is an instruction or a payload.  link leads from a
\* switch to its payload and back; numbers of elements are their places.
Element(op, targets, link, ones, array) ==
  [op |-> op, targets |-> targets, link |-> link, ones |-> ones, array |-> array]

PackedData == 256
SparseData == 257
ArrayData == 258

Ins(op, ones) == Element(op, <<>>, 0, ones, <<0, 0>>)
Branch(op, target, ones) == Element(op, <<target>>, 0, ones, <<0, 0>>)
SwitchTo(op, targets, payload) == Element(op, targets, payload, TRUE, <<0, 0>>)
Data(op, targets, switch) == Element(op, targets, switch, TRUE, <<0, 0>>)
Array(width, size) == Element(ArrayData, <<>>, 0, TRUE, <<width, size>>)

Nop == Ins(\h00, FALSE)
Ret == Ins(\h0E, FALSE)

\* A format has as many units as its name says.
Units(fmt) ==
  CASE fmt \in {"kFmt10x", "kFmt12x", "kFmt11n", "kFmt11x", "kFmt10t", "kFmtUnknown"} -> 1
    [] fmt \in {"kFmt30t", "kFmt31t", "kFmt31i", "kFmt31c", "kFmt32x", "kFmt35c", "kFmt35ms",
                "kFmt3rc", "kFmt3rms", "kFmt3inline", "kFmt3rinline"} -> 3
    [] fmt = "kFmt51l" -> 5
    [] OTHER -> 2

Size(e) ==
  CASE e.op = PackedData -> 4 + 2 * Len(e.targets)
    [] e.op = SparseData -> 2 + 4 * Len(e.targets)
    [] e.op = ArrayData -> 4 + (e.array[1] * e.array[2] + 1) \div 2
    [] OTHER -> Units(dexGetInstrFormat[e.op])

Starts(prog) ==
  [i \in DOMAIN prog |->
     FoldLeft(LAMBDA sum, e : sum + Size(e), 0, SubSeq(prog, 1, i - 1))]

Word(n) == <<n % 65536, (n \div 65536) % 65536>>
Words(s) == FlattenSeq([i \in DOMAIN s |-> Word(s[i])])
All(n, unit) == [i \in 1..n |-> unit]

\* The second byte, where it holds registers or a count of them.
Registers(e, fmt) ==
  CASE ~e.ones \/ fmt = "kFmt10x" -> 0
    [] e.ones /\ fmt \in {"kFmt35c", "kFmt35ms"} -> \h5F
    [] e.ones /\ fmt = "kFmt3inline" -> \h4F
    [] OTHER -> 255

Callee(e) == IF e.ones THEN 65535 ELSE 1

Assembled(prog, i, start) ==
  LET e == prog[i]
      fmt == dexGetInstrFormat[e.op]
      relative == [k \in DOMAIN e.targets |->
                     start[e.targets[k]] - start[IF e.op > 255 THEN e.link ELSE i]]
      first == <<e.op + 256 * Registers(e, fmt)>>
  IN  CASE e.op = PackedData -> <<\h0100, Len(e.targets)>> \o Word(-1) \o Words(relative)
        [] e.op = SparseData ->
             <<\h0200, Len(e.targets)>> \o Words(e.targets) \o Words(relative)
        [] e.op = ArrayData ->
             <<\h0300, e.array[1]>> \o Word(e.array[2]) \o All(Size(e) - 4, \h0100)
        [] e.op < 256 /\ fmt = "kFmt10t" -> <<e.op + 256 * (relative[1] % 256)>>
        [] e.op < 256 /\ fmt = "kFmt20t" -> <<e.op, relative[1] % 65536>>
        [] e.op < 256 /\ fmt \in {"kFmt21t", "kFmt22t"} -> first \o <<relative[1] % 65536>>
        [] e.op < 256 /\ fmt = "kFmt30t" -> <<e.op>> \o Word(relative[1])
        [] e.op < 256 /\ fmt = "kFmt31t" -> first \o Word(start[e.link] - start[i])
        [] e.op < 256 /\ fmt \in {"kFmt35c", "kFmt3rc"} -> first \o <<Callee(e), 7>>
        [] OTHER -> first \o All(Size(e) - 1, IF e.ones THEN 65535 ELSE 0)

\* What the graph should make of an instruction: where control goes from it, by the
\* table of flags.  The graph knows no optimized instructions.
Kind(e) ==
  LET flags == dexGetInstrFlags[e.op]
  IN  CASE e.op > 255 -> "payload"
        [] e.op <= 255 /\ dexGetInstrFormat[e.op] = "kFmtUnknown" -> "glitch"
        [] e.op <= 255 /\ dexGetInstrWidth[e.op] < 0 -> "seq"
        [] e.op <= 255 /\ dexGetInstrWidth[e.op] > 0 ->
             CASE "Unconditional" \in flags ->
                    IF dexGetInstrFormat[e.op] = "kFmt30t" THEN "goto32" ELSE "goto"
               [] {"Branch", "Continue"} \subseteq flags -> "if"
               [] "Switch" \in flags -> IF e.op = OP_PACKED_SWITCH THEN "packed" ELSE "sparse"
               [] "Return" \in flags -> "ret"
               [] "Invoke" \in flags -> "call"
               [] flags = {"Throw"} -> "throw"
               [] OTHER -> "seq"

Method(prog, methodIdsSize) ==
  LET start == Starts(prog)
  IN  [insns |-> FlattenSeq([i \in DOMAIN prog |-> Assembled(prog, i, start)]),
       methodIdsSize |-> methodIdsSize,
       code |-> [i \in DOMAIN prog |->
                   [kind |-> Kind(prog[i]),
                    targets |-> IF prog[i].op > 255 THEN <<>> ELSE prog[i].targets]],
       start |-> start,
       method_idx |-> [i \in DOMAIN prog |-> Callee(prog[i])]]

BranchOps == Goto \cup If
PlainOps == OpCode \ (BranchOps \cup Switch \cup {\h26})

OfPlain == {<<Nop, Ins(op, ones), Nop, Ret>> : op \in PlainOps, ones \in BOOLEAN}

OfBranch == {<<Nop, Branch(op, t, ones), Nop, Ret>> :
               op \in BranchOps, t \in 1..4, ones \in BOOLEAN}

TargetLists == {<<>>} \cup {<<t>> : t \in 1..4} \cup {<<t, u>> : t \in 1..4, u \in 1..4}
                 \cup {<<4, 3, 1>>, <<1, 3, 4, 1>>}

\* With a nop before the payload, or without.
OfSwitch ==
  UNION {{<<Nop, SwitchTo(\h2B, s, 5), Nop, Ret, Data(PackedData, s, 2), Ret>>,
          <<Nop, SwitchTo(\h2B, s, 6), Nop, Ret, Nop, Data(PackedData, s, 2)>>,
          <<Nop, SwitchTo(\h2C, s, 5), Nop, Ret, Data(SparseData, s, 2)>>,
          <<Ret, Data(SparseData, s, 3), SwitchTo(\h2C, s, 2), Ret>>} : s \in TargetLists}

OfArray ==
  {<<Element(\h26, <<>>, 4, TRUE, <<0, 0>>), Nop, Ret, Array(width, size), Ret>> :
     width \in {1, 2, 4, 8}, size \in 0..3}

\* Two branches, jumps or switches, with a wide instruction between or behind them.
Pool(packed, sparse) ==
  {Branch(op, t, FALSE) : op \in {\h28, \h29, \h2A, \h32, \h38}, t \in 1..4}
    \cup {SwitchTo(\h2B, s, packed) : s \in {<<4>>, <<3, 1>>}}
    \cup {SwitchTo(\h2C, s, sparse) : s \in {<<4>>, <<3, 1>>}}

\* A payload has the targets of the first of its switches.
Payloads(x, y) ==
  <<IF x.op = \h2B THEN Data(PackedData, x.targets, 1) ELSE Data(PackedData, y.targets, 3),
    IF x.op = \h2C THEN Data(SparseData, x.targets, 1) ELSE Data(SparseData, y.targets, 3)>>

OfTwo ==
  {<<x, Ins(\h18, TRUE), y, Ret>> \o Payloads(x, y) : x \in Pool(5, 6), y \in Pool(5, 6)}

Programs ==
  OfPlain \cup OfBranch \cup OfSwitch \cup OfArray
    \cup {p \in OfTwo : p[1].op \notin Switch \/ p[1].op # p[3].op}

\* No switch leads into its own payload.
LeadsToInstructions(prog) ==
  \A i \in DOMAIN prog : \A k \in DOMAIN prog[i].targets :
    prog[prog[i].targets[k]].op <= 255

Calling == {<<Nop, Ins(op, ones), Nop, Ret>> : op \in Invoke, ones \in BOOLEAN}

\* The largest callee is in the file, or is the first that is not.
MCMethods ==
  {Method(p, 65536) : p \in {q \in Programs : LeadsToInstructions(q)}}
    \cup {Method(p, n) : p \in Calling, n \in {1, 65535}}
=============================================================================
