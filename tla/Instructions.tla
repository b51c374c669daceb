----------------------------- MODULE Instructions -----------------------------
(***************************************************************************)
(* The tables of instructions (src/libdex/InstrUtils.cpp), the decoder of  *)
(* their operands, and the kinds that the graph knows                      *)
(* (src/TreeConstructor/OpcodeType.cpp).  An opcode is a number as in      *)
(* OpCode.h, a code unit a number below 2^16, a format the name that its   *)
(* enumerator has behind kFmt.                                             *)
(***************************************************************************)
EXTENDS Integers, Sequences, TLC

OpCode == 0..255

OP_FILLED_NEW_ARRAY == \h24
OP_FILLED_NEW_ARRAY_RANGE == \h25
OP_PACKED_SWITCH == \h2B
OP_SPARSE_SWITCH == \h2C

-----------------------------------------------------------------------------
(***************************************************************************)
(* dexCreateInstrWidthTable: the widths in code units; negative for what   *)
(* an optimizer writes, 0 for what does not exist.                         *)
(***************************************************************************)
OneUnit ==
  \h00..\h01 \cup {\h04, \h07} \cup \h0A..\h12 \cup {\h1D, \h1E, \h21} \cup \h27..\h28
    \cup \h7B..\h8F \cup \hB0..\hCF

TwoUnits ==
  {\h02, \h05, \h08, \h13, \h15, \h16, \h19, \h1A, \h1C, \h1F, \h20, \h22, \h23, \h29}
    \cup \h2D..\h3D \cup \h44..\h6D \cup \h90..\hAF \cup \hD0..\hE2

ThreeUnits ==
  {\h03, \h06, \h09, \h14, \h17, \h1B} \cup \h24..\h26 \cup \h2A..\h2C
    \cup \h6E..\h72 \cup \h74..\h78

FiveUnits == {\h18}
OptimizedTwoUnits == {\hED} \cup \hF2..\hF7
OptimizedThreeUnits == \hEE..\hF0 \cup \hF8..\hFB

dexGetInstrWidth ==
  [op \in OpCode |->
     CASE op \in OneUnit -> 1
       [] op \in TwoUnits -> 2
       [] op \in ThreeUnits -> 3
       [] op \in FiveUnits -> 5
       [] op \in OptimizedTwoUnits -> -2
       [] op \in OptimizedThreeUnits -> -3
       [] OTHER -> 0]

dexGetInstrWidthAbs(op) ==
  IF dexGetInstrWidth[op] < 0 THEN -dexGetInstrWidth[op] ELSE dexGetInstrWidth[op]

-----------------------------------------------------------------------------
(***************************************************************************)
(* dexCreateInstrFlagsTable: where control may go from an instruction.     *)
(***************************************************************************)
OnlyContinue ==
  \h00..\h0D \cup \h12..\h19 \cup {\h26} \cup \h2D..\h31 \cup \h7B..\h92 \cup \h95..\h9D
    \cup \hA0..\hB2 \cup \hB5..\hBD \cup \hC0..\hD2 \cup \hD5..\hDA \cup \hDD..\hE2

ContinueOrThrow ==
  \h1A..\h25 \cup \h44..\h6D
    \cup {\h93, \h94, \h9E, \h9F, \hB3, \hB4, \hBE, \hBF, \hD3, \hD4, \hDB, \hDC}

OptimizedContinueOrThrow == \hEE..\hEF \cup \hF2..\hF7
Invoke == \h6E..\h72 \cup \h74..\h78
OptimizedInvoke == {\hF0} \cup \hF8..\hFB
Return == \h0E..\h11
Throw == {\h27}
OptimizedThrow == {\hED}
Goto == \h28..\h2A
If == \h32..\h3D
Switch == \h2B..\h2C

dexGetInstrFlags ==
  [op \in OpCode |->
     CASE op \in OnlyContinue -> {"Continue"}
       [] op \in ContinueOrThrow \cup OptimizedContinueOrThrow -> {"Continue", "Throw"}
       [] op \in Invoke \cup OptimizedInvoke -> {"Continue", "Throw", "Invoke"}
       [] op \in Return -> {"Return"}
       [] op \in Throw \cup OptimizedThrow -> {"Throw"}
       [] op \in Goto -> {"Branch", "Unconditional"}
       [] op \in If -> {"Branch", "Continue"}
       [] op \in Switch -> {"Switch", "Continue"}
       [] OTHER -> {}]

-----------------------------------------------------------------------------
(***************************************************************************)
(* dexCreateInstrFormatTable.                                              *)
(***************************************************************************)
FormatsFromGoto ==
  [kFmt10t |-> {\h28},
   kFmt10x |-> {\h00, \h0E},
   kFmt11n |-> {\h12},
   kFmt21h |-> {\h15, \h19},
   kFmt11x |-> \h0A..\h0D \cup \h0F..\h11 \cup {\h1D, \h1E, \h27},
   kFmt12x |-> {\h01, \h04, \h07, \h21} \cup \h7B..\h8F \cup \hB0..\hCF,
   kFmt20t |-> {\h29},
   kFmt30t |-> {\h2A}]

FormatsFromConstString ==
  [kFmt21c |-> {\h1A, \h1C, \h1F, \h22} \cup \h60..\h6D,
   kFmt21s |-> {\h13, \h16},
   kFmt21t |-> \h38..\h3D,
   kFmt31t |-> {\h26, \h2B, \h2C},
   kFmt22b |-> \hD8..\hE2,
   kFmt22c |-> {\h20, \h23} \cup \h52..\h5F,
   kFmt22s |-> \hD0..\hD7,
   kFmt22t |-> \h32..\h37,
   kFmt22x |-> {\h02, \h05, \h08}]

FormatsFromCompare ==
  [kFmt23x |-> \h2D..\h31 \cup \h44..\h51 \cup \h90..\hAF,
   kFmt31i |-> {\h14, \h17},
   kFmt31c |-> {\h1B},
   kFmt32x |-> {\h03, \h06, \h09},
   kFmt35c |-> {\h24, \hF0} \cup \h6E..\h72,
   kFmt3rc |-> {\h25} \cup \h74..\h78,
   kFmt51l |-> {\h18},
   kFmt20bc |-> {\hED},
   kFmt22cs |-> \hF2..\hF7,
   kFmt35ms |-> {\hF8, \hFA},
   kFmt3rms |-> {\hF9, \hFB},
   kFmt3inline |-> {\hEE},
   kFmt3rinline |-> {\hEF}]

Formats == FormatsFromGoto @@ FormatsFromConstString @@ FormatsFromCompare

dexGetInstrFormat ==
  [op \in OpCode |->
     IF \E fmt \in DOMAIN Formats : op \in Formats[fmt]
     THEN CHOOSE fmt \in DOMAIN Formats : op \in Formats[fmt]
     ELSE "kFmtUnknown"]

-----------------------------------------------------------------------------
(***************************************************************************)
(* dexDecodeInstruction.  The signed operands are signed here, for every   *)
(* reader casts them back.  An operand that the code leaves alone is 0; of *)
(* the 64 bits of a kFmt51l, and of the registers of a call, only that     *)
(* they are fetched is kept.                                               *)
(***************************************************************************)
INST_INST(inst) == inst % 256
INST_A(inst) == (inst \div 256) % 16
INST_B(inst) == inst \div 4096
INST_AA(inst) == inst \div 256

Signed(value, width) == IF value < width \div 2 THEN value ELSE value - width

s1(value) == Signed(value, 256)
s2(value) == Signed(value, 65536)
s4(low, high) == s2(high) * 65536 + low

\* The last unit of an instruction that its decoding fetches, by the format; the
\* registers of kFmt35c are fetched even when there are too many of them.
LastFetched(fmt) ==
  CASE fmt \in {"kFmt10x", "kFmt12x", "kFmt11n", "kFmt11x", "kFmt10t", "kFmtUnknown"} -> 0
    [] fmt \in {"kFmt20t", "kFmt20bc", "kFmt21c", "kFmt22x", "kFmt21s", "kFmt21t",
                "kFmt21h", "kFmt23x", "kFmt22b", "kFmt22s", "kFmt22t", "kFmt22c",
                "kFmt22cs"} -> 1
    [] fmt \in {"kFmt30t", "kFmt31t", "kFmt31c", "kFmt32x", "kFmt31i", "kFmt35c",
                "kFmt35ms", "kFmt3inline", "kFmt3rc", "kFmt3rms", "kFmt3rinline"} -> 2
    [] fmt = "kFmt51l" -> 4

\* The operands vA, vB and vC of the instruction in units; FETCH(n) is unit n + 1.
dexDecodeInstruction(units) ==
  LET inst == units[1]
      fetch1 == units[2]
      fetch2 == units[3]
      fmt == dexGetInstrFormat[INST_INST(inst)]
      Dec(vA, vB, vC) == [opCode |-> INST_INST(inst), vA |-> vA, vB |-> vB, vC |-> vC]
  IN  CASE fmt \in {"kFmt10x", "kFmt11x"} -> Dec(INST_AA(inst), 0, 0)
        [] fmt = "kFmt12x" -> Dec(INST_A(inst), INST_B(inst), 0)
        [] fmt = "kFmt11n" -> Dec(INST_A(inst), Signed(INST_B(inst), 16), 0)
        [] fmt = "kFmt10t" -> Dec(s1(INST_AA(inst)), 0, 0)
        [] fmt = "kFmt20t" -> Dec(s2(fetch1), 0, 0)
        [] fmt \in {"kFmt20bc", "kFmt21c", "kFmt22x", "kFmt21h"} ->
             Dec(INST_AA(inst), fetch1, 0)
        [] fmt \in {"kFmt21s", "kFmt21t"} -> Dec(INST_AA(inst), s2(fetch1), 0)
        [] fmt = "kFmt23x" -> Dec(INST_AA(inst), fetch1 % 256, fetch1 \div 256)
        [] fmt = "kFmt22b" -> Dec(INST_AA(inst), fetch1 % 256, s1(fetch1 \div 256))
        [] fmt \in {"kFmt22s", "kFmt22t"} -> Dec(INST_A(inst), INST_B(inst), s2(fetch1))
        [] fmt \in {"kFmt22c", "kFmt22cs"} -> Dec(INST_A(inst), INST_B(inst), fetch1)
        [] fmt = "kFmt30t" -> Dec(s4(fetch1, fetch2), 0, 0)
        [] fmt \in {"kFmt31t", "kFmt31c", "kFmt31i"} ->
             Dec(INST_AA(inst), s4(fetch1, fetch2), 0)
        [] fmt = "kFmt32x" -> Dec(fetch1, fetch2, 0)
        [] fmt \in {"kFmt35c", "kFmt35ms", "kFmt3inline"} ->
             Dec(INST_B(inst), fetch1, 0)
        [] fmt \in {"kFmt3rc", "kFmt3rms", "kFmt3rinline"} ->
             Dec(INST_AA(inst), fetch1, fetch2)
        [] fmt = "kFmt51l" -> Dec(INST_AA(inst), 0, 0)

-----------------------------------------------------------------------------
(***************************************************************************)
(* OpCodeClassifier                                                        *)
(***************************************************************************)
if_opcodes == \h32..\h3D
call_opcodes == \h6E..\h72 \cup \h74..\h78
jmp_opcodes == {\h28, \h29, \h2A}
switch_opcodes == {OP_PACKED_SWITCH, OP_SPARSE_SWITCH}
exception_opcodes == {\h27}
ret_opcodes == \h0E..\h11
new_opcodes == {\h22, \h23, OP_FILLED_NEW_ARRAY, OP_FILLED_NEW_ARRAY_RANGE}

get_opcode_type(op) ==
  CASE op \in if_opcodes -> "IF"
    [] op \in call_opcodes -> "CALL"
    [] op \in jmp_opcodes -> "JMP"
    [] op \in switch_opcodes -> "SWITCH"
    [] op \in exception_opcodes -> "THROW"
    [] op \in ret_opcodes -> "RET"
    [] op \in new_opcodes -> "NEW"
    [] OTHER -> "SEQ"
=============================================================================
