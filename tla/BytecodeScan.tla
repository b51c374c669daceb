----------------------------- MODULE BytecodeScan -----------------------------
(***************************************************************************)
(* The decoding loop of dumpBytecodes and dumpInstruction                  *)
(* (src/dexdump/DexDump.cpp) at the level of code units, with the readers  *)
(* of switch payloads (src/TreeConstructor/TCHelper.cpp).                  *)
(*                                                                         *)
(* MethodGraph counts offsets in instructions; here they are what the code *)
(* has, offsets of units, some of them relative, signed and split over two *)
(* units, and data lies between the instructions.                          *)
(***************************************************************************)
EXTENDS Instructions, FiniteSets

CONSTANT Methods   \* methods: [insns, methodIdsSize, code, start, method_idx]

\* insns are the units of a method, methodIdsSize is how many methods its file has
\* names for; the rest says what an assembler has put there: its instructions as
\* MethodGraph has them, at which units they start, and the method that each calls.

VARIABLES
  method,       \* the method that is dumped
  insnIdx,      \* the unit at which the next instruction starts
  node_vector,  \* the nodes of the instructions before it
  scanning      \* the loop goes on

vars == <<method, insnIdx, node_vector, scanning>>

\* The number of the instruction that starts at a unit, Len + 1 for the end of the
\* code and 0 for what is neither.
Number(offset) ==
  LET numbers == {n \in DOMAIN method.start : method.start[n] = offset}
  IN  IF offset = Len(method.insns) THEN Len(method.start) + 1
      ELSE IF numbers = {} THEN 0
      ELSE CHOOSE n \in numbers : TRUE

MethodCodes == {m.code : m \in Methods}

\* MethodGraph does not tell a NEW from a SEQ, and has no arguments for what is
\* not linked by them.
Graph == INSTANCE MethodGraph WITH
  Codes <- MethodCodes,
  code <- method.code,
  insnIdx <- Number(insnIdx),
  node <- [n \in DOMAIN node_vector |->
             LET type == node_vector[n].opcode_type
                 args == node_vector[n].opt_arg_offset
             IN  [type |-> IF type = "NEW" THEN "SEQ" ELSE type,
                  args |-> IF type \in {"IF", "JMP", "SWITCH"}
                           THEN [k \in DOMAIN args |-> Number(args[k])] ELSE <<>>]],
  taken <- 0,
  clusters <- <<>>,
  next <- [n \in DOMAIN node_vector |-> <<>>],
  phase <- IF scanning THEN "decode" ELSE "cluster"

ASSUME MethodsAssumption ==
  \A m \in Methods :
    /\ m.insns \in Seq(0..65535)
    /\ m.methodIdsSize \in Nat
    /\ m.code \in Seq(Graph!Instruction)
    /\ Graph!Verified(m.code)
    /\ m.start \in [DOMAIN m.code -> 0..(Len(m.insns) - 1)]
    /\ m.method_idx \in [DOMAIN m.code -> 0..65535]

Init ==
  /\ method \in Methods
  /\ insnIdx = 0
  /\ node_vector = <<>>
  /\ scanning = TRUE

-----------------------------------------------------------------------------
insnsSize == Len(method.insns)

\* The unit at an offset; behind the code lies something else.
get2LE(offset) == IF offset \in 0..(insnsSize - 1) THEN method.insns[offset + 1] ELSE 0

get4LE(offset) == s4(get2LE(offset), get2LE(offset + 1))

kPackedSwitchSignature == \h0100
kSparseSwitchSignature == \h0200
kArrayDataSignature == \h0300

\* (Mutant: the last byte of an array of odd length has no unit.)
insnWidthRoundedDown(i) ==
  CASE get2LE(i) = kPackedSwitchSignature -> 4 + get2LE(i + 1) * 2
    [] get2LE(i) = kSparseSwitchSignature -> 2 + get2LE(i + 1) * 4
    [] get2LE(i) = kArrayDataSignature -> 4 + (get4LE(i + 2) * get2LE(i + 1)) \div 2
    [] OTHER -> dexGetInstrWidthAbs(INST_INST(get2LE(i)))

\* The width of what starts at unit i: a payload or an instruction.
insnWidth(i) ==
  CASE get2LE(i) = kPackedSwitchSignature -> 4 + get2LE(i + 1) * 2
    [] get2LE(i) = kSparseSwitchSignature -> 2 + get2LE(i + 1) * 4
    [] get2LE(i) = kArrayDataSignature -> 4 + (get4LE(i + 2) * get2LE(i + 1) + 1) \div 2
    [] OTHER -> dexGetInstrWidthAbs(INST_INST(get2LE(i)))

\* libdex has the same once more, and no call of the tool reaches it.
dexGetInstrOrTableWidthAbs(i) ==
  LET insns(n) == get2LE(i + n)
  IN  CASE insns(0) = kPackedSwitchSignature -> 4 + insns(1) * 2
        [] insns(0) = kSparseSwitchSignature -> 2 + insns(1) * 4
        [] insns(0) = kArrayDataSignature ->
             4 + (insns(1) * (insns(2) + insns(3) * 65536) + 1) \div 2
        [] OTHER -> dexGetInstrWidthAbs(INST_INST(insns(0)))

Decoded(i) == dexDecodeInstruction([n \in 1..3 |-> get2LE(i + n - 1)])

-----------------------------------------------------------------------------
(***************************************************************************)
(* Payloads, at the unit to which a switch leads.  Targets are relative to *)
(* the switch.                                                             *)
(***************************************************************************)
PackedSize(payload) == get2LE(payload + 1) \div 2

get_packed_switch_payload(switch_offset, payload) ==
  [i \in 1..PackedSize(payload) |-> switch_offset + get4LE(payload + 2 + 2 * i)]

\* (Mutant: the keys are taken for the targets.)
get_sparse_switch_keys(switch_offset, payload) ==
  [i \in 1..get2LE(payload + 1) |-> switch_offset + get4LE(payload + 2 * i)]

get_sparse_switch_offsets(switch_offset, payload) ==
  LET size == get2LE(payload + 1)
  IN  [i \in 1..size |-> switch_offset + get4LE(payload + 2 * size + 2 * i)]

\* What the two of them read.
PayloadUnits(opCode, payload) ==
  CASE opCode = OP_PACKED_SWITCH -> payload..(payload + 3 + 2 * PackedSize(payload))
    [] opCode = OP_SPARSE_SWITCH -> payload..(payload + 1 + 4 * get2LE(payload + 1))
    [] OTHER -> {}

-----------------------------------------------------------------------------
(***************************************************************************)
(* dumpInstruction                                                         *)
(***************************************************************************)
OperandOffsets(i, fmt, dec) ==
  CASE fmt \in {"kFmt10t", "kFmt20t"} -> <<i + dec.vA>>
    [] fmt = "kFmt21t" -> <<i + dec.vB>>
    [] fmt = "kFmt22t" -> <<i + dec.vC>>
    [] fmt \in {"kFmt22s", "kFmt22cs"} -> <<dec.vC>>
    [] OTHER -> <<>>

payload_offset(i, fmt, dec) == IF fmt = "kFmt31t" THEN i + dec.vB ELSE 0

SwitchOffsets(i, dec, payload) ==
  CASE dec.opCode = OP_PACKED_SWITCH -> get_packed_switch_payload(i, payload)
    [] dec.opCode = OP_SPARSE_SWITCH -> get_sparse_switch_offsets(i, payload)
    [] OTHER -> <<>>

\* get_method_info throws for a method that the file has no name for; dumpInstruction
\* swallows that, and the node's MethodInfo keeps the method_idx 0.
get_method_info(method_idx) == IF method_idx < method.methodIdsSize THEN method_idx ELSE 0

\* (Mutant: a range of registers is taken for the method.)
CalledByRegister(fmt, dec) ==
  CASE fmt = "kFmt35c" -> get_method_info(dec.vB)
    [] fmt = "kFmt3rc" -> get_method_info(dec.vC)
    [] OTHER -> 0

opt_called_method_info(fmt, dec) ==
  IF \/ fmt = "kFmt35c" /\ dec.opCode # OP_FILLED_NEW_ARRAY
     \/ fmt = "kFmt3rc" /\ dec.opCode # OP_FILLED_NEW_ARRAY_RANGE
  THEN get_method_info(dec.vB)
  ELSE 0

Node(i) ==
  LET dec == Decoded(i)
      fmt == dexGetInstrFormat[dec.opCode]
  IN  [intern_offset |-> i,
       size |-> insnWidth(i),
       opcode_type |-> get_opcode_type(dec.opCode),
       opt_called_method_info |-> opt_called_method_info(fmt, dec),
       opt_arg_offset |->
         OperandOffsets(i, fmt, dec) \o SwitchOffsets(i, dec, payload_offset(i, fmt, dec))]

dumpInstruction ==
  /\ scanning
  /\ insnIdx < insnsSize
  /\ insnWidth(insnIdx) # 0
  /\ node_vector' = Append(node_vector, Node(insnIdx))
  /\ insnIdx' = insnIdx + insnWidth(insnIdx)
  /\ UNCHANGED <<method, scanning>>

EndOfCode ==
  /\ scanning
  /\ insnIdx < insnsSize => insnWidth(insnIdx) = 0
  /\ scanning' = FALSE
  /\ UNCHANGED <<method, insnIdx, node_vector>>

Next == dumpInstruction \/ EndOfCode

Spec == Init /\ [][Next]_vars

-----------------------------------------------------------------------------
(***************************************************************************)
(* Properties                                                              *)
(***************************************************************************)
\* The loop, unit by unit, is the loop of MethodGraph: it comes from one instruction
\* to the next, never into the middle of one or into a payload, gives each the
\* type that the table of flags says, and collects for each branch, jump and switch
\* the instructions that it leads to.
ImplementsDecoding == Graph!Init /\ [][Graph!dumpInstruction \/ Graph!EndOfCode]_(Graph!vars)

\* Whatever the loop comes to, three tables agree about it: the decoder fetches, by
\* the table of formats, nothing behind the instruction's width; a switch reads
\* nothing behind the width of its payload; dexGetInstrOrTableWidthAbs, which libdex
\* has for the same question, gives the same widths; and none goes past the code.
WidthsAgree ==
  LET dec == Decoded(insnIdx)
      fmt == dexGetInstrFormat[dec.opCode]
      payload == payload_offset(insnIdx, fmt, dec)
  IN  scanning /\ insnIdx < insnsSize =>
        /\ dexGetInstrOrTableWidthAbs(insnIdx) = insnWidth(insnIdx)
        /\ insnIdx + insnWidth(insnIdx) <= insnsSize
        /\ insnWidth(insnIdx) # 0 =>
             /\ LastFetched(fmt) < insnWidth(insnIdx)
             /\ \A u \in PayloadUnits(dec.opCode, payload) :
                  u < payload + insnWidth(payload) /\ u < insnsSize

\* Each call, by registers or by a range of them, names the method that it calls; one
\* that the file has no name for is taken for method 0.
CallsNameTheirMethod ==
  \A n \in DOMAIN node_vector :
    node_vector[n].opcode_type = "CALL" =>
      \/ node_vector[n].opt_called_method_info = method.method_idx[n]
      \/ /\ method.method_idx[n] >= method.methodIdsSize
         /\ node_vector[n].opt_called_method_info = 0
=============================================================================
