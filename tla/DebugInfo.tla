------------------------------ MODULE DebugInfo ------------------------------
(***************************************************************************)
(* Debug information: what intraVerifyDebugInfoItem                        *)
(* (src/libdex/DexSwapVerify.cpp) lets through and dexDecodeDebugInfo      *)
(* (src/libdex/DexFile.cpp) then reads, with the readers of LEB128         *)
(* (src/libdex/Leb128.h, Leb128.cpp) that both of them use.                *)
(*                                                                         *)
(* Bytes and words are scaled down.  Of a local only is kept what the      *)
(* decoder asks of it; line numbers, of which it asks nothing, are read    *)
(* and forgotten.                                                          *)
(***************************************************************************)
EXTENDS Integers, Sequences, FiniteSets

CONSTANTS
  Items,     \* [bytes, registersSize, insSize, insnsSize, static, params]: a stream and
             \* the method that it is of; params are the sizes of the arguments
  Payload,   \* 2^7: what a byte adds to a number
  MaxBytes,  \* 5: bytes of a number
  Half,      \* 2^16
  Word,      \* 2^32
  stringIdsSize, typeIdsSize

\* A register for each argument, another one for a wide one, and one for this.  (The
\* shorty that is counted agrees with the types that are iterated over.)
Args(method) ==
  Len(method.params) + Cardinality({i \in DOMAIN method.params : method.params[i] = 2})
    + IF method.static THEN 0 ELSE 1

\* Numbers of registers have 16 bits; nobody compares one with the other.
ASSUME ItemsAssumption ==
  \A method \in Items :
    /\ method.bytes \in Seq(0..(2 * Payload - 1))
    /\ method.params \in Seq({1, 2})
    /\ method.registersSize \in Nat /\ method.insnsSize \in Nat /\ method.static \in BOOLEAN
    /\ method.registersSize < Half
    /\ method.insSize \in Nat /\ method.insSize < Half

ASSUME WordsAssumption ==
  /\ Payload \in Nat \ {0} /\ MaxBytes \in Nat \ {0}
  /\ Half \in Nat \ {0} /\ Word \in Nat
  /\ Payload ^ (MaxBytes - 1) < Word /\ Word <= Payload ^ MaxBytes
  /\ Half < Word
  /\ stringIdsSize \in Nat /\ typeIdsSize \in Nat

VARIABLES
  item,        \* the stream and its method
  phase,
  pos,         \* the next byte
  left,        \* names of parameters that are still to be read
  boundaries,  \* history: where the verifier has found the names that it read, with
               \* how many were left, and the opcodes, with none left
  argReg,      \* the register of the next parameter
  address,
  localInReg,  \* the local in each register: [name, descriptor, startAddress, live]
  emitted,     \* the ranges that localCb got
  started,     \* history: how often a local has come to life
  fileSet,     \* history: a DBG_SET_FILE was seen, whose operand stays unread
  far,         \* history: an address did not fit into 16 bits
  overrun      \* what was read or written out of bounds, "no" for nothing

vars == <<item, phase, pos, left, boundaries, argReg, address, localInReg, emitted,
          started, fileSet, far, overrun>>
decoded == <<localInReg, emitted, started>>
strayed == <<fileSet, far>>

DBG_END_SEQUENCE == 0
DBG_ADVANCE_PC == 1
DBG_ADVANCE_LINE == 2
DBG_START_LOCAL == 3
DBG_START_LOCAL_EXTENDED == 4
DBG_END_LOCAL == 5
DBG_RESTART_LOCAL == 6
DBG_SET_PROLOGUE_END == 7
DBG_SET_EPILOGUE_BEGIN == 8
DBG_SET_FILE == 9
DBG_FIRST_SPECIAL == 10
DBG_LINE_RANGE == 15

Registers == 0..(item.registersSize - 1)

Init ==
  /\ item \in Items
  /\ phase = "header"
  /\ pos = 1
  /\ boundaries = {}
  /\ left = 0 /\ argReg = 0 /\ address = 0
  /\ localInReg = [r \in Registers |->
                     [name |-> FALSE, descriptor |-> FALSE, startAddress |-> 0, live |-> FALSE]]
  /\ emitted = <<>>
  /\ started = 0
  /\ fileSet = FALSE /\ far = FALSE
  /\ overrun = "no"

-----------------------------------------------------------------------------
(***************************************************************************)
(* Numbers.  A byte of Payload or more says that another one follows; the  *)
(* last that may follow ends the number whatever it says.                  *)
(***************************************************************************)
fileEnd == Len(item.bytes) + 1

Byte(p) == IF p \in DOMAIN item.bytes THEN item.bytes[p] ELSE 0

\* A byte is read when each one before it announces it.
Bytes(p) ==
  Cardinality({n \in 1..MaxBytes : \A m \in 1..(n - 1) : Byte(p + m - 1) >= Payload})

\* What the n-th byte adds to those behind it, which count Payload times as much.
Digit(p, n) == IF n = MaxBytes THEN Byte(p + n - 1) ELSE Byte(p + n - 1) % Payload

readUnsignedLeb128(p) ==
  LET last[n \in 0..Bytes(p)] ==
        IF n = 0 THEN 0 ELSE Digit(p, Bytes(p) + 1 - n) + Payload * last[n - 1]
  IN  last[Bytes(p)] % Word

After(p) == p + Bytes(p)

\* The last byte has no bit beyond the word, and lies in the file.
readAndVerifyLeb128Ok(p) ==
  /\ After(p) <= fileEnd
  /\ Bytes(p) = MaxBytes =>
       Byte(p + MaxBytes - 1) < Word \div Payload ^ (MaxBytes - 1)

\* Where the number behind n others starts; no opcode has more than four.
Behind(p, n) ==
  CASE n = 0 -> p
    [] n = 1 -> After(p)
    [] n = 2 -> After(After(p))
    [] n = 3 -> After(After(After(p)))
    [] n = 4 -> After(After(After(After(p))))

\* The n-th number behind the opcode at p.
Operand(p, n) == readUnsignedLeb128(Behind(p + 1, n - 1))

-----------------------------------------------------------------------------
(***************************************************************************)
(* The verifier                                                            *)
(***************************************************************************)
StringOrNone(value) == value # 0 => value - 1 < stringIdsSize

VerifyHeader ==
  /\ phase = "header"
  /\ item.bytes # <<>>
  /\ IF /\ readAndVerifyLeb128Ok(1)
        /\ readAndVerifyLeb128Ok(Behind(1, 1))
        /\ readUnsignedLeb128(Behind(1, 1)) <= Half
     THEN /\ phase' = "names"
          /\ left' = readUnsignedLeb128(Behind(1, 1))
          /\ pos' = Behind(1, 2)
     ELSE phase' = "rejected" /\ UNCHANGED <<pos, left>>
  /\ UNCHANGED <<item, boundaries, argReg, address, decoded, strayed, overrun>>

NameOk(p) == readAndVerifyLeb128Ok(p) /\ StringOrNone(readUnsignedLeb128(p))

VerifyName ==
  /\ phase = "names"
  /\ left > 0
  /\ IF NameOk(pos)
     THEN /\ boundaries' = boundaries \cup {<<left, pos>>}
          /\ left' = left - 1
          /\ pos' = Behind(pos, 1)
          /\ UNCHANGED phase
     ELSE phase' = "rejected" /\ UNCHANGED <<pos, left, boundaries>>
  /\ UNCHANGED <<item, argReg, address, decoded, strayed, overrun>>

EndNames ==
  /\ phase = "names"
  /\ left = 0
  /\ phase' = "verify"
  /\ UNCHANGED <<item, pos, left, boundaries, argReg, address, decoded, strayed, overrun>>

\* How many numbers follow an opcode.
Operands(op) ==
  CASE op \in {DBG_ADVANCE_PC, DBG_ADVANCE_LINE, DBG_END_LOCAL, DBG_RESTART_LOCAL,
               DBG_SET_FILE} -> 1
    [] op = DBG_START_LOCAL -> 3
    [] op = DBG_START_LOCAL_EXTENDED -> 4
    [] OTHER -> 0

\* (Mutant: the name of the local is not looked at.)
OperandsOkUnnamed(p) ==
  LET op == Byte(p)
  IN  /\ \A n \in 1..Operands(op) : readAndVerifyLeb128Ok(Behind(p + 1, n - 1))
      /\ op \in {DBG_START_LOCAL, DBG_START_LOCAL_EXTENDED, DBG_END_LOCAL,
                 DBG_RESTART_LOCAL} => Operand(p, 1) < Half
      /\ op \in {DBG_START_LOCAL, DBG_START_LOCAL_EXTENDED} =>
           \A n \in 3..Operands(op) : StringOrNone(Operand(p, n))
      /\ op = DBG_SET_FILE => StringOrNone(Operand(p, 1))

\* A type is compared with the number of strings, a register with 2^16 alone.
OperandsOk(p) ==
  LET op == Byte(p)
  IN  /\ \A n \in 1..Operands(op) : readAndVerifyLeb128Ok(Behind(p + 1, n - 1))
      /\ op \in {DBG_START_LOCAL, DBG_START_LOCAL_EXTENDED, DBG_END_LOCAL,
                 DBG_RESTART_LOCAL} => Operand(p, 1) < Half
      /\ op \in {DBG_START_LOCAL, DBG_START_LOCAL_EXTENDED} =>
           \A n \in 2..Operands(op) : StringOrNone(Operand(p, n))
      /\ op = DBG_SET_FILE => StringOrNone(Operand(p, 1))

VerifyOpcode ==
  /\ phase = "verify"
  /\ pos < fileEnd
  /\ IF ~OperandsOk(pos)
     THEN phase' = "rejected" /\ UNCHANGED <<pos, boundaries>>
     ELSE /\ boundaries' = boundaries \cup {<<left, pos>>}
          /\ IF Byte(pos) = DBG_END_SEQUENCE
             THEN phase' = "start" /\ pos' = 1
             ELSE pos' = Behind(pos + 1, Operands(Byte(pos))) /\ UNCHANGED phase
  /\ UNCHANGED <<item, left, argReg, address, decoded, strayed, overrun>>

\* Nobody asks whether an opcode still lies in the file: of what follows nothing
\* is said.
VerifyBehindFile ==
  /\ phase = "verify"
  /\ pos >= fileEnd
  /\ phase' = "behind"
  /\ UNCHANGED <<item, pos, left, boundaries, argReg, address, decoded, strayed, overrun>>

-----------------------------------------------------------------------------
(***************************************************************************)
(* The decoder, from here on                                               *)
(***************************************************************************)
NoStream ==
  /\ phase = "header"
  /\ item.bytes = <<>>
  /\ phase' = "end"
  /\ UNCHANGED <<item, pos, left, boundaries, argReg, address, decoded, strayed, overrun>>

\* A local comes to life in a register, at the address cut to 16 bits.
Local(name, descriptor) ==
  [name |-> name, descriptor |-> descriptor, startAddress |-> address % Half, live |-> TRUE]

\* argReg of 16 bits: where the arguments begin.
firstArg == (item.registersSize - item.insSize) % Half

ReadHeader ==
  /\ phase = "start"
  /\ left' = readUnsignedLeb128(Behind(1, 1))
  /\ pos' = Behind(1, 2)
  /\ UNCHANGED <<item, boundaries, address, strayed>>

\* The assertions compare insSize with the prototype alone.
AssertFails ==
  /\ ReadHeader
  /\ item.insSize # Args(item)
  /\ phase' = "aborted"
  /\ UNCHANGED <<argReg, decoded, overrun>>

StartStatic ==
  /\ ReadHeader
  /\ item.insSize = Args(item) /\ item.static
  /\ argReg' = firstArg
  /\ phase' = "parameters"
  /\ UNCHANGED <<decoded, overrun>>

StartInstance ==
  /\ ReadHeader
  /\ item.insSize = Args(item) /\ ~item.static /\ firstArg < item.registersSize
  /\ localInReg' = [localInReg EXCEPT ![firstArg] = Local(TRUE, TRUE)]
  /\ started' = started + 1
  /\ argReg' = firstArg + 1
  /\ phase' = "parameters"
  /\ UNCHANGED <<emitted, overrun>>

\* Whether there is a register for this nobody asks.
StartBehind ==
  /\ ReadHeader
  /\ item.insSize = Args(item) /\ ~item.static /\ firstArg >= item.registersSize
  /\ overrun' = "this"
  /\ phase' = "undefined"
  /\ UNCHANGED <<argReg, decoded>>

Start == AssertFails \/ StartStatic \/ StartInstance \/ StartBehind

\* The parameter that is read next, in the order of the prototype.
NextParameter == LET read == readUnsignedLeb128(Behind(1, 1)) - left IN read + 1

\* (argReg stays within 16 bits: the arguments end with the registers.)
TakeName ==
  /\ argReg' = argReg + item.params[NextParameter]
  /\ left' = left - 1
  /\ pos' = Behind(pos, 1)
  /\ IF readUnsignedLeb128(pos) # 0
     THEN /\ localInReg' = [localInReg EXCEPT ![argReg] = Local(TRUE, TRUE)]
          /\ started' = started + 1
          /\ UNCHANGED emitted
     ELSE UNCHANGED decoded

Parameter ==
  /\ phase = "parameters"
  /\ left > 0
  /\ IF argReg >= item.registersSize \/ NextParameter > Len(item.params)
     THEN phase' = "invalid" /\ UNCHANGED <<pos, left, argReg, decoded, overrun>>
     ELSE IF After(pos) <= fileEnd /\ StringOrNone(readUnsignedLeb128(pos))
     THEN TakeName /\ UNCHANGED <<phase, overrun>>
     ELSE /\ phase' = "undefined"
          /\ overrun' = IF After(pos) <= fileEnd THEN "string" ELSE "file"
          /\ UNCHANGED <<pos, left, argReg, decoded>>
  /\ UNCHANGED <<item, boundaries, address, strayed>>

EndParameters ==
  /\ phase = "parameters"
  /\ left = 0
  /\ phase' = "opcodes"
  /\ UNCHANGED <<item, pos, left, boundaries, argReg, address, decoded, strayed, overrun>>

(***************************************************************************)
(* A register that is compared by > may be one behind the array, and a     *)
(* type or a string behind its table; what comes of it is undefined.       *)
(***************************************************************************)
RegisterOpcodes == {DBG_START_LOCAL, DBG_START_LOCAL_EXTENDED, DBG_END_LOCAL, DBG_RESTART_LOCAL}

Refused == Operand(pos, 1) % Half > item.registersSize

Overrun ==
  CASE Operand(pos, 1) % Half = item.registersSize -> "register"
    [] Byte(pos) \in {DBG_START_LOCAL, DBG_START_LOCAL_EXTENDED} /\ ~StringOrNone(Operand(pos, 2)) ->
         "string"
    [] Byte(pos) \in {DBG_START_LOCAL, DBG_START_LOCAL_EXTENDED} /\ Operand(pos, 3) > typeIdsSize ->
         "type"
    [] Byte(pos) = DBG_START_LOCAL_EXTENDED /\ ~StringOrNone(Operand(pos, 4)) -> "string"
    [] OTHER -> "no"

\* How many numbers the decoder reads behind the opcode: none of DBG_SET_FILE, and of
\* an opcode that it refuses the register only.
NumbersRead ==
  CASE Byte(pos) = DBG_SET_FILE -> 0
    [] Byte(pos) \in RegisterOpcodes /\ Refused -> 1
    [] OTHER -> Operands(Byte(pos))

InFile == pos < fileEnd /\ Behind(pos + 1, NumbersRead) <= fileEnd

At(ops) == phase = "opcodes" /\ InFile /\ Byte(pos) \in ops

Advance(n) == pos' = Behind(pos + 1, n)

MoveTo(newAddress) ==
  /\ address' = newAddress % Word
  /\ far' = (far \/ newAddress >= Half)

AdvancePc ==
  /\ At({DBG_ADVANCE_PC})
  /\ MoveTo(address + Operand(pos, 1))
  /\ Advance(1)
  /\ UNCHANGED <<item, phase, left, boundaries, argReg, decoded, fileSet, overrun>>

\* (Mutant: the operand of DBG_ADVANCE_LINE is not read either.)
SkippedNone(op) == 0

\* The operand of DBG_SET_FILE is not read.
Skipped(op) == IF op = DBG_ADVANCE_LINE THEN 1 ELSE 0

SkipOpcode ==
  /\ At({DBG_ADVANCE_LINE, DBG_SET_PROLOGUE_END, DBG_SET_EPILOGUE_BEGIN, DBG_SET_FILE})
  /\ Advance(Skipped(Byte(pos)))
  /\ fileSet' = (fileSet \/ Byte(pos) = DBG_SET_FILE)
  /\ UNCHANGED <<item, phase, left, boundaries, argReg, address, decoded, far, overrun>>

\* posCb may ask for an early end.
SpecialOpcode ==
  /\ phase = "opcodes" /\ InFile /\ Byte(pos) >= DBG_FIRST_SPECIAL
  /\ MoveTo(address + (Byte(pos) - DBG_FIRST_SPECIAL) \div DBG_LINE_RANGE)
  /\ Advance(0)
  /\ phase' \in {"opcodes", "end"}
  /\ UNCHANGED <<item, left, boundaries, argReg, decoded, fileSet, overrun>>

EndSequence ==
  /\ At({DBG_END_SEQUENCE})
  /\ Advance(0)
  /\ phase' = "end"
  /\ UNCHANGED <<item, left, boundaries, argReg, address, decoded, strayed, overrun>>

LocalRange(reg, endAddress) ==
  [reg |-> reg, start |-> localInReg[reg].startAddress, end |-> endAddress]

emitLocalCbIfLive(reg) ==
  emitted' = IF localInReg[reg].live THEN Append(emitted, LocalRange(reg, address)) ELSE emitted

InvalidRegister ==
  /\ At(RegisterOpcodes)
  /\ Refused
  /\ phase' = "invalid"
  /\ UNCHANGED <<item, pos, left, boundaries, argReg, address, decoded, strayed, overrun>>

OutOfBounds ==
  /\ At(RegisterOpcodes)
  /\ ~Refused
  /\ Overrun # "no"
  /\ overrun' = Overrun
  /\ phase' = "undefined"
  /\ UNCHANGED <<item, pos, left, boundaries, argReg, address, decoded, strayed>>

StartLocal ==
  /\ At({DBG_START_LOCAL, DBG_START_LOCAL_EXTENDED})
  /\ ~Refused /\ Overrun = "no"
  /\ LET reg == Operand(pos, 1) % Half
     IN  /\ emitLocalCbIfLive(reg)
         /\ localInReg' = [localInReg EXCEPT ![reg] = Local(Operand(pos, 2) # 0, Operand(pos, 3) # 0)]
  /\ started' = started + 1
  /\ Advance(Operands(Byte(pos)))
  /\ UNCHANGED <<item, phase, left, boundaries, argReg, address, strayed, overrun>>

EndLocal ==
  /\ At({DBG_END_LOCAL})
  /\ ~Refused /\ Overrun = "no"
  /\ LET reg == Operand(pos, 1) % Half
     IN  /\ emitLocalCbIfLive(reg)
         /\ localInReg' = [localInReg EXCEPT ![reg].live = FALSE]
  /\ Advance(1)
  /\ UNCHANGED <<item, phase, left, boundaries, argReg, address, started, strayed, overrun>>

\* (Mutant: the start of a live local is forgotten.)
RestartedAlways(reg) ==
  /\ localInReg' = [localInReg EXCEPT ![reg].startAddress = address % Half, ![reg].live = TRUE]
  /\ started' = started + 1

\* A live local keeps its start.
Restarted(reg) ==
  IF localInReg[reg].live THEN UNCHANGED <<localInReg, started>>
  ELSE /\ localInReg' = [localInReg EXCEPT ![reg].startAddress = address % Half,
                                           ![reg].live = TRUE]
       /\ started' = started + 1

RestartLocal ==
  /\ At({DBG_RESTART_LOCAL})
  /\ ~Refused /\ Overrun = "no"
  /\ LET reg == Operand(pos, 1) % Half
     IN  IF localInReg[reg].name /\ localInReg[reg].descriptor
         THEN Restarted(reg) /\ Advance(1) /\ UNCHANGED phase
         ELSE phase' = "invalid" /\ UNCHANGED <<pos, localInReg, started>>
  /\ UNCHANGED <<item, left, boundaries, argReg, address, emitted, strayed, overrun>>

\* The decoder has lost the stream: an opcode, or a number of it, is behind the file.
DecodeBehindFile ==
  /\ phase = "opcodes"
  /\ ~InFile
  /\ overrun' = "file"
  /\ phase' = "undefined"
  /\ UNCHANGED <<item, pos, left, boundaries, argReg, address, decoded, strayed>>

\* What still lives does so to the end of the code.
EmittedAtEnd ==
  LET upto[n \in 0..item.registersSize] ==
        IF n = 0 THEN emitted
        ELSE IF localInReg[n - 1].live THEN Append(upto[n - 1], LocalRange(n - 1, item.insnsSize))
        ELSE upto[n - 1]
  IN  upto[item.registersSize]

EndLocals ==
  /\ phase = "end"
  /\ emitted' = EmittedAtEnd
  /\ phase' = "done"
  /\ UNCHANGED <<item, pos, left, boundaries, argReg, address, localInReg, started,
                 strayed, overrun>>

Next ==
  \/ VerifyHeader \/ VerifyName \/ EndNames \/ VerifyOpcode \/ VerifyBehindFile
  \/ NoStream \/ Start \/ Parameter \/ EndParameters
  \/ AdvancePc \/ SkipOpcode \/ SpecialOpcode \/ EndSequence
  \/ InvalidRegister \/ OutOfBounds \/ StartLocal \/ EndLocal \/ RestartLocal
  \/ DecodeBehindFile \/ EndLocals

Spec == Init /\ [][Next]_vars

-----------------------------------------------------------------------------
(***************************************************************************)
(* Properties                                                              *)
(***************************************************************************)
\* The decoder finds the names of parameters and the opcodes where the verifier has
\* found them, although it reads numbers without its checks.  A DBG_SET_FILE, whose
\* operand only the verifier reads, ends it: what follows one may be anything.
InStep ==
  phase \in {"parameters", "opcodes"} /\ ~fileSet => <<left, pos>> \in boundaries

\* Of a stream that was verified the decoder reads and writes nothing out of bounds
\* except: the register of this, when there are fewer registers than arguments; a
\* register one behind the last; a type, which is compared with the number of strings,
\* when there are fewer types than strings; and, behind a DBG_SET_FILE, a string, a
\* type or a byte behind the file.
KnownOverruns ==
  /\ overrun = "this" => item.registersSize < item.insSize
  /\ overrun = "type" => fileSet \/ typeIdsSize < stringIdsSize
  /\ overrun \in {"string", "file"} => fileSet

\* Each local that came to life is reported once, with the range of its life, or
\* still lives; at the end of a stream all are reported.  A stream that is invalid, one
\* that is read out of bounds and one at which an assertion fails never get there, and
\* lose what lives.  While addresses fit into 16 bits, which nobody checks, no range of
\* a register starts before the last one has ended.
LocalsAccounted ==
  /\ phase # "done" =>
       started = Len(emitted) + Cardinality({r \in Registers : localInReg[r].live})
  /\ phase = "done" => started = Len(emitted)
  /\ ~far =>
       \A j \in DOMAIN emitted :
         /\ \A i \in 1..(j - 1) :
              emitted[i].reg = emitted[j].reg => emitted[i].end <= emitted[j].start
         /\ localInReg[emitted[j].reg].live /\ phase # "done" =>
              emitted[j].end <= localInReg[emitted[j].reg].startAddress
=============================================================================
