----------------------------- MODULE MCDebugInfo -----------------------------
(***************************************************************************)
(* Streams of up to three opcodes for methods of up to two registers, with bytes *)
(* of five bits, numbers of up to three bytes and words of ten bits.       *)
(***************************************************************************)
EXTENDS DebugInfo

Method(bytes, static, params, registersSize, insSize) ==
  [bytes |-> bytes, registersSize |-> registersSize, insSize |-> insSize, insnsSize |-> 3,
   static |-> static, params |-> params]

\* insSize is what the prototype says.
Item(bytes, static, params) ==
  LET wide == Cardinality({i \in DOMAIN params : params[i] = 2})
  IN  Method(bytes, static, params, 2, Len(params) + wide + IF static THEN 0 ELSE 1)

\* 1, 768 and 1024, which is no word, in as many bytes as there are.
LongOne == <<17, 16, 0>>
LongMost == <<16, 16, 3>>
TooLong == <<16, 16, 4>>

AnyOpcode ==
  {<<DBG_ADVANCE_PC, 2>>, <<DBG_ADVANCE_PC>> \o LongOne, <<DBG_ADVANCE_PC>> \o LongMost,
   <<DBG_ADVANCE_PC>> \o TooLong, <<DBG_ADVANCE_LINE, 15>>, <<DBG_ADVANCE_LINE>> \o LongMost,
   <<DBG_SET_PROLOGUE_END>>, <<DBG_SET_EPILOGUE_BEGIN>>, <<10>>, <<25>>}
    \cup {<<DBG_START_LOCAL, r, n, t>> : r \in 0..3, n \in 0..1, t \in 0..2}
    \cup {<<DBG_START_LOCAL, 0, 3, 1>>, <<DBG_START_LOCAL, 0, 1, 3>>}
    \cup {<<DBG_START_LOCAL>> \o LongOne \o <<1, 1>>}
    \cup {<<DBG_START_LOCAL_EXTENDED, r, 1, 1, s>> : r \in {0, 2}, s \in {0, 1, 3}}
    \cup {<<op, r>> : op \in {DBG_END_LOCAL, DBG_RESTART_LOCAL}, r \in 0..2}
    \cup {<<DBG_END_LOCAL>> \o LongMost}
    \cup {<<DBG_SET_FILE, s>> : s \in 0..3}

LocalOpcode ==
  {<<DBG_ADVANCE_PC, 1>>, <<DBG_START_LOCAL, 0, 1, 1>>, <<DBG_START_LOCAL, 1, 1, 1>>,
   <<DBG_START_LOCAL, 0, 1, 0>>, <<DBG_END_LOCAL, 0>>, <<DBG_END_LOCAL, 1>>,
   <<DBG_RESTART_LOCAL, 0>>, <<DBG_RESTART_LOCAL, 1>>}

Headers == {<<1, 0>>, <<0, 1, 1>>, <<0, 1, 0>>, <<0, 2, 2, 1>>, <<0, 1, 3>>}

End == <<DBG_END_SEQUENCE>>

Two == {h \o x \o y \o e : h \in {<<1, 0>>, <<0, 1, 1>>}, x \in AnyOpcode, y \in AnyOpcode,
                         e \in {End}}
Four == {<<1, 0>> \o w \o x \o y \o z \o End : w \in LocalOpcode, x \in LocalOpcode,
                                              y \in LocalOpcode, z \in LocalOpcode}
One == {h \o x \o e : h \in Headers, x \in AnyOpcode, e \in {End, <<>>}}

MCItems ==
  {Item(bytes, static, params) : bytes \in One, static \in BOOLEAN,
                               params \in {<<>>, <<1>>}}
    \cup {Item(bytes, FALSE, <<1>>) : bytes \in Two \cup Four}
    \cup {Item(<<>>, TRUE, <<>>)}
    \* More arguments than registers, and another number than the prototype says.
    \cup {Item(bytes, static, params) : bytes \in One, static \in BOOLEAN,
                                       params \in {<<2>>, <<1, 1>>, <<1, 2>>}}
    \cup {Method(bytes, static, <<1>>, registers, ins) :
            bytes \in One, static \in BOOLEAN, registers \in 0..2, ins \in 0..3}
=============================================================================
