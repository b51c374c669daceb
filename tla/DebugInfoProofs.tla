--------------------------- MODULE DebugInfoProofs ---------------------------
(***************************************************************************)
(* For any stream of any method, with bytes and words of any size: the     *)
(* decoder stays where the verifier has been.                              *)
(***************************************************************************)
EXTENDS DebugInfo, TLAPS, FiniteSetTheorems, WellFoundedInduction

\* Every set of natural numbers that is not empty has a least one.
LEMMA LeastOf ==
  ASSUME NEW S, S \subseteq Nat, S # {}
  PROVE  \E m \in S : \A i \in S : m <= i
<1> DEFINE less == {p \in Nat \X Nat : p[1] < p[2]}
<1>1. IsWellFoundedOn(less, Nat)
  BY NatLessThanWellFounded DEF OpToRel
<1>2. \A i, j \in Nat : <<i, j>> \notin less => j <= i
  OBVIOUS
<1> HIDE DEF less
<1>3. PICK m \in S : \A i \in S : <<i, m>> \notin less
  BY <1>1, WFMin, Zenon
<1> QED
  BY <1>2, <1>3

\* What is so of the start, and of every number if it is so of the one before, is
\* so of the end.
LEMMA Upwards ==
  ASSUME NEW n \in Nat, NEW T, 0 \in T, \A i \in 1..n : i - 1 \in T => i \in T
  PROVE  \A i \in 0..n : i \in T
<1> DEFINE missing == {i \in 0..n : i \notin T}
<1>1. SUFFICES ASSUME missing # {} PROVE FALSE
  OBVIOUS
<1>2. missing \subseteq Nat
  OBVIOUS
<1>3. PICK m \in missing : \A i \in missing : m <= i
  <2> HIDE DEF missing
  <2> QED
    BY <1>1, <1>2, LeastOf
<1>4. m \in 1..n /\ m - 1 \in 0..n
  OBVIOUS
<1> QED
  BY <1>3, <1>4

\* A function that computes each of its values from the one before exists.
Computes(f, n, S, first, next) ==
  f \in [0..n -> S] /\ f[0] = first /\ \A m \in 1..n : f[m] = next[m][f[m - 1]]

LEMMA Computed ==
  ASSUME NEW n \in Nat, NEW S, NEW first \in S, NEW next,
         \A m \in 1..n : \A v \in S : next[m][v] \in S
  PROVE  \E f : Computes(f, n, S, first, next)
<1> DEFINE Right(f, k) ==
             f \in [0..k -> S] /\ f[0] = first /\ \A m \in 1..k : f[m] = next[m][f[m - 1]]
<1>1. PICK T : T = {k \in 0..n : \E f : Right(f, k)}
  OBVIOUS
<1>2. 0 \in T
  <2>1. PICK f : f = [m \in 0..0 |-> first]
    OBVIOUS
  <2>2. Right(f, 0)
    BY <2>1
  <2> HIDE DEF Right
  <2>3. QED
    BY <1>1, <2>2
<1>3. ASSUME NEW k \in 1..n, k - 1 \in T PROVE k \in T
  <2>1. PICK f : Right(f, k - 1)
    BY <1>1, <1>3
  <2>2. f[k - 1] \in S /\ next[k][f[k - 1]] \in S
    BY <2>1
  <2>3. PICK g : g = [m \in 0..k |-> IF m = k THEN next[k][f[k - 1]] ELSE f[m]]
    OBVIOUS
  <2>4. \A m \in 0..(k - 1) : g[m] = f[m]
    BY <2>3
  <2>5. g \in [0..k -> S] /\ g[0] = first
    BY <2>1, <2>2, <2>3
  <2>6. ASSUME NEW m \in 1..k PROVE g[m] = next[m][g[m - 1]]
    <3>1. g[m - 1] = f[m - 1]
      BY <2>4
    <3>2. CASE m = k
      BY <2>3, <3>1, <3>2
    <3>3. CASE m # k
      BY <2>1, <2>4, <3>1, <3>3
    <3>4. QED
      BY <3>2, <3>3
  <2>7. Right(g, k)
    BY <2>5, <2>6
  <2> HIDE DEF Right
  <2>8. QED
    BY <1>1, <2>7
<1>4. n \in T
  <2>1. \A k \in 0..n : k \in T
    BY <1>2, <1>3, Upwards
  <2>2. QED
    BY <2>1
<1> HIDE DEF Right
<1>5. PICK f : Right(f, n)
  BY <1>1, <1>4
<1>6. QED
  BY <1>5 DEF Right, Computes

\* Every number has a byte, so that what lies behind it lies further on.
LEMMA BytesNumber == ASSUME NEW p PROVE Bytes(p) \in Nat /\ Bytes(p) > 0
<1> DEFINE B == {n \in 1..MaxBytes : \A m \in 1..(n - 1) : Byte(p + m - 1) >= Payload}
<1>1. IsFiniteSet(1..MaxBytes)
  BY FS_Interval, WordsAssumption
<1>2. IsFiniteSet(B) /\ Cardinality(B) \in Nat
  BY <1>1, FS_Subset, FS_CardinalityType
<1>3. 1 \in B
  BY WordsAssumption
<1>4. Cardinality(B) # 0
  BY <1>2, <1>3, FS_EmptySet
<1>5. QED
  BY <1>2, <1>4 DEF Bytes

\* Each number of a name or of an opcode is looked for at a place.
LEMMA BehindType == ASSUME NEW p \in Int, NEW n \in 0..4 PROVE Behind(p, n) \in Int
<1>1. \A q \in Int : After(q) \in Int
  BY BytesNumber DEF After
<1>2. CASE n = 0
  BY <1>2 DEF Behind
<1>3. CASE n = 1
  BY <1>3, <1>1 DEF Behind
<1>4. CASE n = 2
  BY <1>4, <1>1 DEF Behind
<1>5. CASE n = 3
  BY <1>5, <1>1 DEF Behind
<1>6. CASE n = 4
  BY <1>6, <1>1 DEF Behind
<1>7. QED
  BY <1>2, <1>3, <1>4, <1>5, <1>6

\* What is read is a number, of whatever bytes.
LEMMA NumberType ==
  ASSUME item \in Items, NEW p \in Int
  PROVE  readUnsignedLeb128(p) \in Nat
<1>1. PICK k : k = Bytes(p)
  OBVIOUS
<1>2. k \in Nat
  BY <1>1, BytesNumber
<1>3. \A q \in Int : Byte(q) \in Nat
  BY ItemsAssumption, WordsAssumption DEF Byte
<1>4. ASSUME NEW n \in 1..k PROVE Digit(p, k + 1 - n) \in Nat
  <2>1. PICK b : b = Byte(p + (k + 1 - n) - 1)
    OBVIOUS
  <2>2. p + (k + 1 - n) - 1 \in Int
    BY <1>2
  <2>3. b \in Nat
    BY <1>3, <2>1, <2>2
  <2>4. b % Payload \in Nat
    BY <2>3, WordsAssumption
  <2>5. QED
    BY <2>1, <2>3, <2>4 DEF Digit
<1>5. PICK next : next = [n \in 1..k |-> [v \in Nat |-> Digit(p, k + 1 - n) + Payload * v]]
  OBVIOUS
<1>6. \A v \in Nat : Payload * v \in Nat
  BY WordsAssumption
<1>7. ASSUME NEW n \in 1..k, NEW v \in Nat PROVE next[n][v] \in Nat
  <2>1. next[n] = [w \in Nat |-> Digit(p, k + 1 - n) + Payload * w]
    BY <1>5
  <2>2. next[n][v] = Digit(p, k + 1 - n) + Payload * v
    BY <2>1
  <2>3. QED
    BY <1>4, <1>6, <2>2
<1>8. PICK f \in [0..k -> Nat] : f[0] = 0 /\ \A n \in 1..k : f[n] = next[n][f[n - 1]]
  <2>1. \E f : Computes(f, k, Nat, 0, next)
    BY <1>2, <1>7, Computed
  <2>2. QED
    BY <2>1 DEF Computes
<1>9. ASSUME NEW n \in 1..k PROVE f[n] = Digit(p, k + 1 - n) + Payload * f[n - 1]
  <2>1. n - 1 \in 0..k
    BY <1>2
  <2>2. PICK v \in Nat : v = f[n - 1]
    BY <2>1, <1>8
  <2>3. next[n] = [w \in Nat |-> Digit(p, k + 1 - n) + Payload * w]
    BY <1>5
  <2>4. QED
    BY <1>8, <2>2, <2>3
<1>10. f = [n \in 0..k |-> IF n = 0 THEN 0 ELSE Digit(p, k + 1 - n) + Payload * f[n - 1]]
  BY <1>2, <1>8, <1>9
<1> DEFINE last == CHOOSE g : g = [n \in 0..k |->
                     IF n = 0 THEN 0 ELSE Digit(p, k + 1 - n) + Payload * g[n - 1]]
<1>11. last = [n \in 0..k |-> IF n = 0 THEN 0 ELSE Digit(p, k + 1 - n) + Payload * last[n - 1]]
  BY <1>10
<1>12. readUnsignedLeb128(p) = last[k] % Word
  BY <1>1 DEF readUnsignedLeb128
<1> HIDE DEF last
<1>13. PICK T : T = {n \in 0..k : last[n] \in Nat}
  OBVIOUS
<1>14. 0 \in T
  BY <1>2, <1>11, <1>13
<1>15. ASSUME NEW n \in 1..k, n - 1 \in T PROVE n \in T
  <2>1. last[n - 1] \in Nat
    BY <1>13, <1>15
  <2>2. last[n] = Digit(p, k + 1 - n) + Payload * last[n - 1]
    BY <1>2, <1>11
  <2>3. Payload * last[n - 1] \in Nat
    BY <1>6, <2>1
  <2>4. last[n] \in Nat
    BY <1>4, <2>2, <2>3
  <2>5. QED
    BY <1>2, <1>13, <2>4
<1>16. k \in T
  <2>1. \A n \in 0..k : n \in T
    BY <1>2, <1>14, <1>15, Upwards
  <2>2. QED
    BY <1>2, <2>1
<1>17. last[k] \in Nat /\ Word \in Nat /\ Word > 0
  BY <1>13, <1>16, WordsAssumption
<1>18. QED
  BY <1>12, <1>17

LEMMA OperandsType == ASSUME NEW op PROVE Operands(op) \in 0..4
BY DEF Operands

\* An instance method has at least one argument.
LEMMA ArgsType ==
  ASSUME item \in Items
  PROVE  Args(item) \in Nat /\ (~item.static => Args(item) >= 1)
<1>1. item.static \in BOOLEAN /\ item.params \in Seq({1, 2})
  BY ItemsAssumption
<1>2. PICK wide : wide = {i \in DOMAIN item.params : item.params[i] = 2}
  OBVIOUS
<1>3. Len(item.params) \in Nat /\ DOMAIN item.params = 1..Len(item.params)
  BY <1>1
<1>4. IsFiniteSet(1..Len(item.params)) /\ wide \subseteq 1..Len(item.params)
  BY <1>2, <1>3, FS_Interval
<1>5. Cardinality(wide) \in Nat
  BY <1>4, FS_Subset, FS_CardinalityType
<1>6. Args(item) = Len(item.params) + Cardinality(wide) + IF item.static THEN 0 ELSE 1
  BY <1>2 DEF Args
<1>7. QED
  BY <1>3, <1>5, <1>6

\* The numbers that the decoder reads of an opcode that was verified lie in the file.
LEMMA NumbersInFile ==
  ASSUME item \in Items, pos \in Int, pos < fileEnd, OperandsOk(pos)
  PROVE  Behind(pos + 1, NumbersRead) <= fileEnd
<1>1. PICK most, n : most = Operands(Byte(pos)) /\ n = NumbersRead
  OBVIOUS
<1>2. most \in 0..4
  BY <1>1, OperandsType
<1>3. n \in 0..most
  BY <1>1, <1>2 DEF NumbersRead, Operands, RegisterOpcodes, DBG_ADVANCE_PC, DBG_ADVANCE_LINE,
     DBG_START_LOCAL, DBG_START_LOCAL_EXTENDED, DBG_END_LOCAL, DBG_RESTART_LOCAL, DBG_SET_FILE
<1>4. CASE n = 0
  <2>1. Behind(pos + 1, 0) = pos + 1
    BY DEF Behind
  <2>2. fileEnd \in Int
    BY ItemsAssumption DEF fileEnd
  <2>3. QED
    BY <1>1, <1>4, <2>1, <2>2
<1>5. CASE n # 0
  <2>1. n \in 1..most /\ n \in {1, 2, 3, 4}
    BY <1>2, <1>3, <1>5
  <2>2. readAndVerifyLeb128Ok(Behind(pos + 1, n - 1))
    BY <1>1, <2>1 DEF OperandsOk
  <2>3. Behind(pos + 1, n) = After(Behind(pos + 1, n - 1))
    BY <2>1 DEF Behind
  <2>4. QED
    BY <1>1, <2>2, <2>3 DEF readAndVerifyLeb128Ok
<1>6. QED
  BY <1>4, <1>5

(***************************************************************************)
(* What the verifier knows of the places that it has been at: they lie in  *)
(* the file, they are right, and it has been at what follows them or is    *)
(* about to look at it.                                                    *)
(***************************************************************************)
Followed(place, open) ==
  /\ place[2] < fileEnd
  /\ place[1] > 0 =>
       /\ After(place[2]) <= fileEnd
       /\ StringOrNone(readUnsignedLeb128(place[2]))
       /\ <<place[1] - 1, Behind(place[2], 1)>> \in boundaries \cup open
  /\ place[1] = 0 =>
       /\ OperandsOk(place[2])
       /\ Byte(place[2]) # DBG_END_SEQUENCE =>
            <<0, Behind(place[2] + 1, Operands(Byte(place[2])))>> \in boundaries \cup open

Verified(open) ==
  /\ <<readUnsignedLeb128(Behind(1, 1)), Behind(1, 2)>> \in boundaries \cup open
  /\ \A place \in boundaries : Followed(place, open)

IInv ==
  /\ item \in Items
  /\ pos \in Int
  /\ phase = "header" => boundaries = {}
  /\ phase \in {"names", "verify"} => Verified({<<left, pos>>})
  /\ phase \in {"verify", "opcodes"} => left = 0
  /\ phase \in {"start", "parameters", "opcodes"} => Verified({})
  /\ InStep
  /\ KnownOverruns

LEMMA Initially == Init => IInv
BY DEF Init, IInv, InStep, KnownOverruns

\* The stream does not change, and nothing that is read from it.
LEMMA SameStream ==
  ASSUME item' = item
  PROVE  /\ fileEnd' = fileEnd
         /\ \A p : Byte(p)' = Byte(p)
         /\ \A p : Bytes(p)' = Bytes(p) /\ After(p)' = After(p)
         /\ \A p : readUnsignedLeb128(p)' = readUnsignedLeb128(p)
         /\ \A p, n : Behind(p, n)' = Behind(p, n)
         /\ \A p : OperandsOk(p)' = OperandsOk(p)
<1>1. fileEnd' = fileEnd
  BY DEF fileEnd
<1>2. \A p : Byte(p)' = Byte(p)
  BY DEF Byte
<1>3. ASSUME NEW p PROVE Bytes(p)' = Bytes(p) /\ After(p)' = After(p)
  BY DEF After, Bytes, Byte
<1>4. ASSUME NEW p PROVE readUnsignedLeb128(p)' = readUnsignedLeb128(p)
  BY DEF readUnsignedLeb128, Digit, Bytes, Byte
<1>5. ASSUME NEW p, NEW n PROVE Behind(p, n)' = Behind(p, n)
  BY DEF Behind, After, Bytes, Byte
<1>6. ASSUME NEW p PROVE readAndVerifyLeb128Ok(p)' = readAndVerifyLeb128Ok(p)
  BY <1>1 DEF readAndVerifyLeb128Ok, After, Bytes, Byte
<1>7. ASSUME NEW p, NEW n PROVE Operand(p, n)' = Operand(p, n)
  BY DEF Operand, readUnsignedLeb128, Digit, Behind, After, Bytes, Byte
<1>8. ASSUME NEW p PROVE OperandsOk(p)' = OperandsOk(p)
  <2>1. \A n : readAndVerifyLeb128Ok(Behind(p + 1, n - 1))' =
               readAndVerifyLeb128Ok(Behind(p + 1, n - 1))
    BY DEF readAndVerifyLeb128Ok, Behind, After, Bytes, Byte, fileEnd
  <2>2. \A n : Operand(p, n)' = Operand(p, n)
    BY <1>7
  <2>3. QED
    BY <1>2, <2>1, <2>2 DEF OperandsOk, StringOrNone
<1>9. QED
  BY <1>1, <1>2, <1>3, <1>4, <1>5, <1>8

\* Where the stream begins does not change either.
LEMMA SameHeader ==
  ASSUME item' = item
  PROVE  readUnsignedLeb128(Behind(1, 1))' = readUnsignedLeb128(Behind(1, 1))
BY DEF readUnsignedLeb128, Digit, Behind, After, Bytes, Byte

\* What was followed still is, when what was open then is known or open now.
LEMMA FollowedStill ==
  ASSUME item' = item, NEW open, NEW next, boundaries \cup open \subseteq boundaries' \cup next,
         NEW place, Followed(place, open)
  PROVE  Followed(place, next)'
<1>1. fileEnd' = fileEnd
  BY SameStream
<1>2. StringOrNone(readUnsignedLeb128(place[2]))' = StringOrNone(readUnsignedLeb128(place[2]))
  BY SameStream DEF StringOrNone
<1>3. Behind(place[2], 1)' = Behind(place[2], 1) /\ After(place[2])' = After(place[2])
  BY SameStream
<1>4. OperandsOk(place[2])' = OperandsOk(place[2]) /\ Byte(place[2])' = Byte(place[2])
  BY SameStream
<1>5. Behind(place[2] + 1, Operands(Byte(place[2])))' =
        Behind(place[2] + 1, Operands(Byte(place[2])))
  BY <1>4 DEF Behind, After, Bytes, Byte, Operands
<1>6. QED
  BY <1>1, <1>2, <1>3, <1>4, <1>5 DEF Followed

LEMMA VerifiedStill ==
  ASSUME item' = item, NEW open, NEW next, boundaries \cup open \subseteq boundaries' \cup next,
         Verified(open),
         \A place \in boundaries' : place \notin boundaries => Followed(place, next)'
  PROVE  Verified(next)'
<1>1. \A place \in boundaries' : Followed(place, next)'
  BY FollowedStill DEF Verified
<1>2. readUnsignedLeb128(Behind(1, 1))' = readUnsignedLeb128(Behind(1, 1))
  BY SameHeader
<1>3. Behind(1, 2)' = Behind(1, 2)
  BY SameStream
<1>4. QED
  BY <1>1, <1>2, <1>3 DEF Verified

(***************************************************************************)
(* A step of the verifier: the place at hand becomes known, with what it   *)
(* has looked at there, and the next one is at hand.                       *)
(***************************************************************************)
LEMMA VerifierStep ==
  ASSUME IInv,
         VerifyHeader \/ VerifyName \/ EndNames \/ VerifyOpcode \/ VerifyBehindFile
  PROVE  IInv'
<1> PICK next : next = {<<left', pos'>>}
  OBVIOUS
<1> PICK here : here = <<left, pos>>
  OBVIOUS
<1>0. fileEnd \in Int
  BY ItemsAssumption DEF IInv, fileEnd
<1> USE DEF IInv, InStep, KnownOverruns, strayed
<1>1. CASE VerifyHeader
  <2>1. pos' \in Int
    BY <1>1, BehindType DEF VerifyHeader
  <2>2. ASSUME phase' = "names" PROVE Verified(next)'
    <3>1. boundaries' = {} /\ item' = item
      BY <1>1 DEF VerifyHeader
    <3>2. readUnsignedLeb128(Behind(1, 1))' = readUnsignedLeb128(Behind(1, 1))
      BY <3>1, SameHeader
    <3>3. Behind(1, 2)' = Behind(1, 2)
      BY <3>1, SameStream
    <3>4. next = {<<readUnsignedLeb128(Behind(1, 1)), Behind(1, 2)>>}
      BY <1>1, <2>2 DEF VerifyHeader
    <3>5. QED
      BY <3>1, <3>2, <3>3, <3>4 DEF Verified
  <2>3. QED
    BY <1>1, <2>1, <2>2 DEF VerifyHeader, decoded
<1>2. CASE VerifyName
  <2>1. pos' \in Int
    BY <1>2, BehindType DEF VerifyName
  <2>2. ASSUME phase' = "names" PROVE Verified(next)'
    <3>1. /\ item' = item /\ NameOk(pos) /\ left > 0
          /\ boundaries' = boundaries \cup {<<left, pos>>}
          /\ next = {<<left - 1, Behind(pos, 1)>>}
      BY <1>2, <2>2 DEF VerifyName
    <3>2. pos < fileEnd
      <4>1. After(pos) <= fileEnd
        BY <3>1 DEF NameOk, readAndVerifyLeb128Ok
      <4>2. QED
        BY <1>0, <4>1, BytesNumber DEF After
    <3>3. Followed(here, next)
      BY <3>1, <3>2 DEF Followed, NameOk, readAndVerifyLeb128Ok
    <3>4. Followed(here, next)'
      BY <3>1, <3>3, FollowedStill
    <3>5. Verified({here})
      BY <1>2 DEF VerifyName
    <3>6. QED
      BY <3>1, <3>4, <3>5, VerifiedStill
  <2>3. QED
    BY <1>2, <2>1, <2>2 DEF VerifyName, decoded
<1>3. CASE EndNames
  <2>1. Verified({here}) /\ item' = item /\ boundaries' = boundaries /\ next = {here}
    BY <1>3 DEF EndNames
  <2>2. Verified(next)'
    BY <2>1, VerifiedStill
  <2>3. QED
    BY <1>3, <2>2 DEF EndNames, decoded
<1>4. CASE VerifyOpcode
  <2>1. /\ item' = item /\ left' = left /\ left = 0 /\ pos < fileEnd
        /\ Verified({here})
    BY <1>4 DEF VerifyOpcode
  <2>2. CASE ~OperandsOk(pos)
    BY <1>4, <2>1, <2>2 DEF VerifyOpcode, decoded
  <2>3. CASE OperandsOk(pos) /\ Byte(pos) = DBG_END_SEQUENCE
    <3>1. boundaries' = boundaries \cup {here}
      BY <1>4, <2>3 DEF VerifyOpcode
    <3>2. Followed(here, {})
      BY <2>1, <2>3 DEF Followed
    <3>3. Followed(here, {})'
      BY <2>1, <3>1, <3>2, FollowedStill
    <3>4. Verified({})'
      BY <2>1, <3>1, <3>3, VerifiedStill
    <3>5. QED
      BY <1>4, <2>1, <2>3, <3>4 DEF VerifyOpcode, decoded
  <2>4. CASE OperandsOk(pos) /\ Byte(pos) # DBG_END_SEQUENCE
    <3>1. /\ boundaries' = boundaries \cup {here}
          /\ next = {<<0, Behind(pos + 1, Operands(Byte(pos)))>>}
      BY <1>4, <2>1, <2>4 DEF VerifyOpcode
    <3>2. Followed(here, next)
      BY <2>1, <2>4, <3>1 DEF Followed
    <3>3. Followed(here, next)'
      BY <2>1, <3>1, <3>2, FollowedStill
    <3>4. Verified(next)'
      BY <2>1, <3>1, <3>3, VerifiedStill
    <3>5. pos' \in Int
      BY <1>4, <2>4, BehindType, OperandsType DEF VerifyOpcode
    <3>6. QED
      BY <1>4, <2>1, <2>4, <3>4, <3>5 DEF VerifyOpcode, decoded
  <2>5. QED
    BY <2>2, <2>3, <2>4
<1>5. CASE VerifyBehindFile
  BY <1>5 DEF VerifyBehindFile, decoded
<1>6. QED
  BY <1>1, <1>2, <1>3, <1>4, <1>5

(***************************************************************************)
(* The decoder is at a place that is known, and goes on to the one that    *)
(* the verifier has found to follow.                                       *)
(***************************************************************************)
DecoderAction ==
  \/ NoStream \/ Start \/ Parameter \/ EndParameters
  \/ AdvancePc \/ SkipOpcode \/ SpecialOpcode \/ EndSequence
  \/ InvalidRegister \/ OutOfBounds \/ StartLocal \/ EndLocal \/ RestartLocal
  \/ DecodeBehindFile \/ EndLocals

LEMMA VerifiedPlace ==
  ASSUME Verified({}), <<left, pos>> \in boundaries
  PROVE  /\ pos < fileEnd
         /\ left > 0 =>
              /\ After(pos) <= fileEnd
              /\ StringOrNone(readUnsignedLeb128(pos))
              /\ <<left - 1, Behind(pos, 1)>> \in boundaries
         /\ left = 0 =>
              /\ OperandsOk(pos)
              /\ Byte(pos) # DBG_END_SEQUENCE =>
                   <<0, Behind(pos + 1, Operands(Byte(pos)))>> \in boundaries
BY DEF Verified, Followed

\* Where an opcode leads when all its numbers are passed over.
LEMMA Passed ==
  ASSUME Verified({}), <<left, pos>> \in boundaries, left = 0,
         Byte(pos) # DBG_END_SEQUENCE, Advance(Operands(Byte(pos))),
         UNCHANGED <<left, boundaries>>
  PROVE  <<left, pos>>' \in boundaries'
BY VerifiedPlace DEF Advance

LEMMA AdvanceType ==
  ASSUME pos \in Int, NEW n \in 0..4, Advance(n) PROVE pos' \in Int
BY BehindType DEF Advance

LEMMA DecoderStep == ASSUME IInv, DecoderAction PROVE IInv'
<1>0. item' = item /\ boundaries' = boundaries
  BY DEF DecoderAction, NoStream, Start, AssertFails, StartStatic, StartInstance, StartBehind,
         ReadHeader, Parameter, EndParameters, AdvancePc, SkipOpcode,
         SpecialOpcode, EndSequence, InvalidRegister, OutOfBounds, StartLocal, EndLocal,
         RestartLocal, DecodeBehindFile, EndLocals
<1>1. ASSUME Verified({}) PROVE Verified({})'
  BY <1>0, <1>1, VerifiedStill
<1> USE DEF IInv, InStep, KnownOverruns
<1> USE DEF DBG_END_SEQUENCE, DBG_ADVANCE_PC, DBG_ADVANCE_LINE, DBG_START_LOCAL,
         DBG_START_LOCAL_EXTENDED, DBG_END_LOCAL, DBG_RESTART_LOCAL, DBG_SET_PROLOGUE_END,
         DBG_SET_EPILOGUE_BEGIN, DBG_SET_FILE, DBG_FIRST_SPECIAL
<1>2. CASE NoStream
  BY <1>0, <1>2 DEF NoStream, decoded, strayed
<1>3. CASE Start
  <2>1. ReadHeader
    BY <1>3 DEF Start, AssertFails, StartStatic, StartInstance, StartBehind
  <2>2. pos' \in Int
    BY <2>1, BehindType DEF ReadHeader
  <2>3. Verified({}) /\ <<left, pos>>' \in boundaries /\ UNCHANGED fileSet
    BY <1>0, <2>1 DEF ReadHeader, Verified, strayed
  <2>4. \/ phase' \in {"aborted", "parameters"} /\ UNCHANGED overrun
        \/ StartBehind
    BY <1>3 DEF Start, AssertFails, StartStatic, StartInstance
  <2>5. StartBehind => /\ phase' = "undefined" /\ overrun' = "this"
                       /\ item.registersSize < item.insSize
    <3>1. SUFFICES ASSUME StartBehind PROVE item.registersSize < item.insSize
      BY DEF StartBehind
    <3>2. PICK registers, ins : registers = item.registersSize /\ ins = item.insSize
      OBVIOUS
    <3>3. /\ registers \in Nat /\ ins \in Nat /\ registers < Half /\ Half \in Nat
          /\ ins = Args(item) /\ ~item.static
      BY <3>1, <3>2, ItemsAssumption, WordsAssumption DEF StartBehind
    <3>4. ins >= 1
      BY <3>3, ArgsType
    <3>5. (registers - ins) % Half >= registers
      BY <3>1, <3>2 DEF StartBehind, firstArg
    <3>6. registers >= ins => (registers - ins) % Half = registers - ins
      BY <3>3
    <3>7. QED
      BY <3>2, <3>3, <3>4, <3>5, <3>6
  <2>6. QED
    BY <1>0, <1>1, <2>2, <2>3, <2>4, <2>5
<1>4. CASE Parameter
  <2>1. Verified({}) /\ left > 0
    BY <1>4 DEF Parameter
  <2>2. ASSUME ~fileSet
        PROVE  /\ After(pos) <= fileEnd /\ StringOrNone(readUnsignedLeb128(pos))
               /\ <<left - 1, Behind(pos, 1)>> \in boundaries
    BY <1>4, <2>1, <2>2, VerifiedPlace DEF Parameter
  <2>3. pos' \in Int
    <3>1. pos' = pos \/ pos' = Behind(pos, 1)
      BY <1>4 DEF Parameter, TakeName
    <3>2. Behind(pos, 1) \in Int
      BY BehindType
    <3>3. QED
      BY <3>1, <3>2
  <2>4. QED
    BY <1>0, <1>1, <1>4, <2>1, <2>2, <2>3 DEF Parameter, TakeName, strayed
<1>5. CASE EndParameters
  BY <1>0, <1>1, <1>5 DEF EndParameters, decoded, strayed
<1>6. CASE AdvancePc
  <2>1. /\ phase = "opcodes" /\ phase' = phase /\ UNCHANGED <<left, boundaries, overrun>>
        /\ Byte(pos) = DBG_ADVANCE_PC /\ Advance(1)
        /\ UNCHANGED fileSet
    BY <1>6 DEF AdvancePc, At, MoveTo
  <2>2. Operands(Byte(pos)) = 1 /\ Byte(pos) # DBG_END_SEQUENCE
    BY <2>1 DEF Operands
  <2>3. QED
    BY <1>0, <1>1, <2>1, <2>2, Passed, AdvanceType
<1>7. CASE SkipOpcode
  <2>1. /\ phase = "opcodes" /\ phase' = phase /\ UNCHANGED <<left, boundaries, overrun>>
        /\ Byte(pos) \in {DBG_ADVANCE_LINE, DBG_SET_PROLOGUE_END, DBG_SET_EPILOGUE_BEGIN,
                         DBG_SET_FILE}
        /\ Advance(Skipped(Byte(pos)))
        /\ fileSet' = (fileSet \/ Byte(pos) = DBG_SET_FILE)
    BY <1>7 DEF SkipOpcode, At
  <2>2. pos' \in Int
    BY <2>1, AdvanceType DEF Skipped
  <2>3. Byte(pos) # DBG_END_SEQUENCE
    BY <2>1
  <2>4. ~fileSet' => ~fileSet /\ Skipped(Byte(pos)) = Operands(Byte(pos))
    <3>1. ~fileSet' => ~fileSet /\ Byte(pos) # DBG_SET_FILE
      BY <2>1, Zenon
    <3>2. Byte(pos) # DBG_SET_FILE => Skipped(Byte(pos)) = Operands(Byte(pos))
      BY <2>1 DEF Skipped, Operands
    <3>3. QED
      BY <3>1, <3>2
  <2>5. QED
    BY <1>0, <1>1, <2>1, <2>2, <2>3, <2>4, Passed
<1>8. CASE SpecialOpcode
  <2>1. /\ phase = "opcodes" /\ phase' \in {"opcodes", "end"}
        /\ UNCHANGED <<left, boundaries, overrun>>
        /\ Byte(pos) >= DBG_FIRST_SPECIAL /\ Advance(0)
        /\ UNCHANGED fileSet
    BY <1>8 DEF SpecialOpcode, MoveTo
  <2>2. Operands(Byte(pos)) = 0 /\ Byte(pos) # DBG_END_SEQUENCE
    BY <2>1 DEF Operands
  <2>3. QED
    BY <1>0, <1>1, <2>1, <2>2, Passed, AdvanceType
<1>9. CASE EndSequence
  <2>1. pos' \in Int
    BY <1>9, AdvanceType DEF EndSequence
  <2>2. QED
    BY <1>0, <1>9, <2>1 DEF EndSequence, decoded, strayed
<1>10. CASE InvalidRegister
  BY <1>0, <1>1, <1>10 DEF InvalidRegister, decoded, strayed
<1>11. CASE OutOfBounds
  <2>1. /\ phase = "opcodes" /\ phase' = "undefined" /\ overrun' = Overrun
        /\ UNCHANGED <<pos, fileSet>>
    BY <1>11 DEF OutOfBounds, At, strayed
  <2>2. ASSUME ~fileSet PROVE OperandsOk(pos)
    BY <2>1, <2>2, VerifiedPlace
  <2>3. ASSUME OperandsOk(pos) PROVE Overrun # "string"
    <3>1. ASSUME Byte(pos) \in {DBG_START_LOCAL, DBG_START_LOCAL_EXTENDED}
          PROVE  StringOrNone(Operand(pos, 2))
      BY <2>3, <3>1 DEF OperandsOk, Operands
    <3>2. ASSUME Byte(pos) = DBG_START_LOCAL_EXTENDED PROVE StringOrNone(Operand(pos, 4))
      BY <2>3, <3>2 DEF OperandsOk, Operands
    <3>3. QED
      BY <3>1, <3>2 DEF Overrun
  <2>4. ASSUME OperandsOk(pos), Overrun = "type" PROVE typeIdsSize < stringIdsSize
    <3>1. PICK value : value = Operand(pos, 3)
      OBVIOUS
    <3>2. value > typeIdsSize /\ Byte(pos) \in {DBG_START_LOCAL, DBG_START_LOCAL_EXTENDED}
      BY <2>4, <3>1 DEF Overrun
    <3>3. StringOrNone(value)
      BY <2>4, <3>1, <3>2 DEF OperandsOk, Operands
    <3>4. value \in Nat
      <4>1. pos + 1 \in Int
        OBVIOUS
      <4>2. Behind(pos + 1, 2) \in Int
        BY <4>1, BehindType
      <4>3. QED
        BY <3>1, <4>2, NumberType DEF Operand
    <3>5. QED
      BY <3>2, <3>3, <3>4, WordsAssumption DEF StringOrNone
  <2>5. Overrun \in {"no", "register", "string", "type"}
    BY DEF Overrun
  <2>6. QED
    BY <1>0, <2>1, <2>2, <2>3, <2>4, <2>5
<1>12. CASE StartLocal
  <2>1. /\ phase = "opcodes" /\ UNCHANGED <<phase, left, boundaries, fileSet, overrun>>
        /\ Byte(pos) \in {DBG_START_LOCAL, DBG_START_LOCAL_EXTENDED}
        /\ Advance(Operands(Byte(pos)))
    BY <1>12 DEF StartLocal, At, strayed
  <2>2. Byte(pos) # DBG_END_SEQUENCE
    BY <2>1
  <2>3. QED
    BY <1>0, <1>1, <2>1, <2>2, Passed, AdvanceType, OperandsType
<1>13. CASE EndLocal
  <2>1. /\ phase = "opcodes" /\ UNCHANGED <<phase, left, boundaries, fileSet, overrun>>
        /\ Byte(pos) = DBG_END_LOCAL
        /\ Advance(1)
    BY <1>13 DEF EndLocal, At, strayed
  <2>2. Operands(Byte(pos)) = 1 /\ Byte(pos) # DBG_END_SEQUENCE
    BY <2>1 DEF Operands
  <2>3. QED
    BY <1>0, <1>1, <2>1, <2>2, Passed, AdvanceType
<1>14. CASE RestartLocal
  <2>1. /\ phase = "opcodes" /\ UNCHANGED <<left, boundaries, fileSet, overrun>>
        /\ Byte(pos) = DBG_RESTART_LOCAL
        /\ \/ Advance(1) /\ UNCHANGED phase
           \/ phase' = "invalid" /\ UNCHANGED pos
    BY <1>14 DEF RestartLocal, At, strayed
  <2>2. Operands(Byte(pos)) = 1 /\ Byte(pos) # DBG_END_SEQUENCE
    BY <2>1 DEF Operands
  <2>3. QED
    BY <1>0, <1>1, <2>1, <2>2, Passed, AdvanceType
<1>15. CASE DecodeBehindFile
  <2>1. /\ phase = "opcodes" /\ phase' = "undefined" /\ ~InFile /\ overrun' = "file"
        /\ UNCHANGED <<pos, fileSet>>
    BY <1>15 DEF DecodeBehindFile, strayed
  <2>2. ASSUME ~fileSet PROVE InFile
    BY <2>1, <2>2, VerifiedPlace, NumbersInFile DEF InFile
  <2>3. QED
    BY <1>0, <2>1, <2>2
<1>16. CASE EndLocals
  BY <1>0, <1>1, <1>16 DEF EndLocals, strayed
<1>17. QED
  BY <1>2, <1>3, <1>4, <1>5, <1>6, <1>7, <1>8, <1>9, <1>10, <1>11, <1>12, <1>13, <1>14,
     <1>15, <1>16 DEF DecoderAction

LEMMA Step == IInv /\ [Next]_vars => IInv'
<1>1. ASSUME IInv, Next PROVE IInv'
  BY <1>1, VerifierStep, DecoderStep DEF Next, DecoderAction
<1>2. ASSUME IInv, UNCHANGED vars PROVE IInv'
  <2>1. PICK open : open = {<<left, pos>>}
    OBVIOUS
  <2>2. item' = item /\ boundaries' = boundaries
    BY <1>2 DEF vars
  <2>3. /\ Verified({}) => Verified({})'
        /\ Verified(open) => Verified(open)'
    BY <2>2, VerifiedStill
  <2>4. QED
    BY <1>2, <2>1, <2>3 DEF IInv, InStep, KnownOverruns, vars
<1>3. QED
  BY <1>1, <1>2

LEMMA Invariance == Spec => []IInv
BY Initially, Step, PTL DEF Spec

(***************************************************************************)
(* Up to the first DBG_SET_FILE dexDecodeDebugInfo, which reads without    *)
(* the checks of intraVerifyDebugInfoItem, finds names and opcodes where   *)
(* the verifier has found them, whatever registers the method has.         *)
(***************************************************************************)
THEOREM InStepHolds == Spec => []InStep
<1>1. IInv => InStep
  BY DEF IInv
<1>2. QED
  BY Invariance, <1>1, PTL

(***************************************************************************)
(* All that dexDecodeDebugInfo reads or writes out of bounds in a verified *)
(* stream: the register of this, only if there are fewer registers than    *)
(* arguments; the register behind the last; a type, only if there are      *)
(* fewer types than strings or a file was set; a string or a byte behind   *)
(* the file, only if a file was set.  That there are enough registers is   *)
(* not assumed.                                                            *)
(***************************************************************************)
THEOREM KnownOverrunsHolds == Spec => []KnownOverruns
<1>1. IInv => KnownOverruns
  BY DEF IInv
<1>2. QED
  BY Invariance, <1>1, PTL

-----------------------------------------------------------------------------
(***************************************************************************)
(* The locals.  While it fits into 16 bits the address only grows, so that *)
(* what starts now starts behind all that has ended; and each local        *)
(* that came to life was reported or is in a register, where only its own  *)
(* end, the start of the next or the end of the code reports it.           *)
(***************************************************************************)
Live == {r \in Registers : localInReg[r].live}

Locals == [name : BOOLEAN, descriptor : BOOLEAN, startAddress : Nat, live : BOOLEAN]

Ranges == [reg : Registers, start : Nat, end : Nat]

Early == {"header", "names", "verify", "rejected", "behind", "start", "aborted"}

\* Where the decoder is: the parameters come first, and none to a register that a
\* parameter lives in.
Ahead ==
  /\ item \in Items
  /\ address \in Nat /\ argReg \in Nat /\ far \in BOOLEAN
  /\ phase \in Early \cup {"parameters"} => emitted = <<>> /\ address = 0
  /\ phase \in Early => Live = {} /\ started = 0
  /\ phase = "parameters" =>
       left \in 0..readUnsignedLeb128(Behind(1, 1)) /\ \A r \in Live : r < argReg
  /\ ~far => address < Half

\* What has lived and what lives, all of it not behind the address.
Reported ==
  /\ localInReg \in [Registers -> Locals]
  /\ emitted \in Seq(Ranges)
  /\ started \in Nat
  /\ phase # "done" /\ ~far =>
       /\ \A r \in Live : localInReg[r].startAddress <= address
       /\ \A j \in DOMAIN emitted : emitted[j].end <= address
  /\ LocalsAccounted

LocalsInv == Ahead /\ Reported

\* There are as many registers as a method says.
LEMMA RegistersType ==
  ASSUME item \in Items
  PROVE  /\ item.registersSize \in Nat /\ item.insnsSize \in Nat /\ item.static \in BOOLEAN
         /\ IsFiniteSet(Registers)
         /\ firstArg \in Nat
<1>1. /\ item.registersSize \in Nat /\ item.insnsSize \in Nat /\ item.static \in BOOLEAN
      /\ item.insSize \in Nat
  BY ItemsAssumption
<1>2. IsFiniteSet(Registers)
  <2>1. item.registersSize - 1 \in Int
    BY <1>1
  <2>2. QED
    BY <2>1, FS_Interval DEF Registers
<1>3. firstArg \in Nat
  BY <1>1, WordsAssumption DEF firstArg
<1>4. QED
  BY <1>1, <1>2, <1>3

LEMMA LocalsInitially == Init => LocalsInv
<1> SUFFICES ASSUME Init PROVE LocalsInv
  OBVIOUS
<1>1. \A r \in Registers : localInReg[r] = [name |-> FALSE, descriptor |-> FALSE,
                                           startAddress |-> 0, live |-> FALSE]
  BY DEF Init
<1>2. Live = {} /\ {r \in Registers : localInReg[r].live} = {}
  BY <1>1 DEF Live
<1>3. localInReg \in [Registers -> Locals]
  BY DEF Init, Locals
<1>4. Ahead
  <2>1. Half \in Nat /\ 0 < Half
    BY WordsAssumption
  <2>2. /\ item \in Items /\ phase = "header" /\ address = 0 /\ argReg = 0 /\ emitted = <<>>
        /\ started = 0 /\ far = FALSE
    BY DEF Init
  <2>3. QED
    BY <1>2, <2>1, <2>2 DEF Ahead
<1>5. emitted = <<>> /\ emitted \in Seq(Ranges) /\ Len(emitted) = 0 /\ DOMAIN emitted = {}
  BY DEF Init
<1>6. Cardinality({r \in Registers : localInReg[r].live}) = 0
  BY <1>2, FS_EmptySet
<1>7. LocalsAccounted
  BY <1>5, <1>6 DEF Init, LocalsAccounted
<1>8. QED
  BY <1>2, <1>3, <1>4, <1>5, <1>7 DEF LocalsInv, Reported, Init

\* Nothing comes to life and nothing ends.
LEMMA Kept ==
  ASSUME Reported, UNCHANGED <<item, decoded>>, phase # "done", phase' # "done",
         address \in Nat, address' \in Nat,
         ~far' => ~far /\ address <= address'
  PROVE  Reported' /\ Live' = Live
<1>1. Registers' = Registers /\ Live' = Live /\ Ranges' = Ranges /\ Locals' = Locals
  BY DEF Registers, Live, Ranges, Locals, decoded
<1>2. localInReg' = localInReg /\ emitted' = emitted /\ started' = started
  BY DEF decoded
<1>3. LocalsAccounted'
  <2>1. Cardinality({r \in Registers : localInReg[r].live})' =
          Cardinality({r \in Registers : localInReg[r].live})
    BY <1>1, <1>2
  <2>2. QED
    BY <1>2, <2>1 DEF Reported, LocalsAccounted
<1>4. ASSUME ~far', NEW r \in Live PROVE localInReg[r].startAddress <= address'
  <2>1. r \in Registers /\ localInReg[r].startAddress \in Nat
    BY DEF Live, Reported, Locals
  <2>2. localInReg[r].startAddress <= address
    BY <1>4 DEF Reported
  <2>3. QED
    BY <1>4, <2>1, <2>2
<1>5. ASSUME ~far', NEW j \in DOMAIN emitted PROVE emitted[j].end <= address'
  <2>1. emitted[j].end \in Nat
    <3>1. emitted[j] \in Ranges
      BY DEF Reported
    <3>2. QED
      BY <3>1 DEF Ranges
  <2>2. emitted[j].end <= address
    BY <1>5 DEF Reported
  <2>3. QED
    BY <1>5, <2>1, <2>2
<1>6. QED
  BY <1>1, <1>2, <1>3, <1>4, <1>5 DEF Reported

\* A register is written: what lives there is reported, and what comes to life there
\* starts at the address.
LEMMA Rewritten ==
  ASSUME LocalsInv, phase # "done", phase' # "done", UNCHANGED <<item, address, far>>,
         NEW reg \in Registers, NEW local \in Locals,
         localInReg' = [localInReg EXCEPT ![reg] = local],
         emitLocalCbIfLive(reg),
         started' = started + (IF local.live THEN 1 ELSE 0),
         local.live => local.startAddress = address % Half
  PROVE  /\ Reported'
         /\ Live' = IF local.live THEN Live \cup {reg} ELSE Live \ {reg}
         /\ reg \notin Live => emitted' = emitted
<1> DEFINE range == LocalRange(reg, address)
<1>1. Registers' = Registers /\ Ranges' = Ranges /\ Locals' = Locals
  BY DEF Registers, Ranges, Locals
<1>2. /\ localInReg \in [Registers -> Locals] /\ emitted \in Seq(Ranges)
      /\ started \in Nat /\ address \in Nat /\ item \in Items
  BY DEF LocalsInv, Ahead, Reported
<1>3. localInReg' \in [Registers -> Locals]
  BY <1>2
<1>4. /\ localInReg'[reg] = local
      /\ \A r \in Registers : r # reg => localInReg'[r] = localInReg[r]
  BY <1>2
<1>5. Live' = IF local.live THEN Live \cup {reg} ELSE Live \ {reg}
  BY <1>1, <1>4 DEF Live
<1>6. IsFiniteSet(Live) /\ Cardinality(Live) \in Nat
  <2>1. Live \subseteq Registers
    BY DEF Live
  <2>2. QED
    BY <1>2, <2>1, RegistersType, FS_Subset, FS_CardinalityType
<1>7. range \in Ranges /\ range.reg = reg /\ range.end = address
        /\ range.start = localInReg[reg].startAddress
  BY <1>2 DEF LocalRange, Ranges, Locals
<1> HIDE DEF range
<1>8. /\ reg \in Live => emitted' = Append(emitted, range)
      /\ reg \notin Live => emitted' = emitted
  BY DEF emitLocalCbIfLive, Live, range
<1>9. /\ emitted' \in Seq(Ranges)
      /\ Len(emitted') = Len(emitted) + IF reg \in Live THEN 1 ELSE 0
      /\ Len(emitted) \in Nat /\ DOMAIN emitted = 1..Len(emitted)
      /\ DOMAIN emitted' = 1..Len(emitted')
      /\ \A j \in 1..Len(emitted) : emitted'[j] = emitted[j]
      /\ reg \in Live => emitted'[Len(emitted) + 1] = range
  BY <1>2, <1>7, <1>8
<1>10. started = Len(emitted) + Cardinality(Live)
  BY DEF LocalsInv, Reported, LocalsAccounted, Live
<1>11. Cardinality(Live') =
         Cardinality(Live) + (IF local.live THEN 1 ELSE 0) - IF reg \in Live THEN 1 ELSE 0
  <2>1. Cardinality(Live \cup {reg}) = Cardinality(Live) + IF reg \in Live THEN 0 ELSE 1
    <3>1. CASE reg \in Live
      <4>1. Live \cup {reg} = Live
        BY <3>1
      <4>2. Cardinality(Live \cup {reg}) = Cardinality(Live)
        BY <4>1, Zenon
      <4>3. QED
        BY <3>1, <4>2, <1>6
    <3>2. CASE reg \notin Live
      BY <3>2, <1>6, FS_AddElement
    <3>3. QED
      BY <3>1, <3>2
  <2>2. Cardinality(Live \ {reg}) = Cardinality(Live) - IF reg \in Live THEN 1 ELSE 0
    <3>1. CASE reg \in Live
      BY <3>1, <1>6, FS_RemoveElement
    <3>2. CASE reg \notin Live
      <4>1. Live \ {reg} = Live
        BY <3>2
      <4>2. Cardinality(Live \ {reg}) = Cardinality(Live)
        BY <4>1, Zenon
      <4>3. QED
        BY <3>2, <4>2, <1>6
    <3>3. QED
      BY <3>1, <3>2
  <2>3. CASE local.live
    BY <1>5, <1>6, <2>1, <2>3
  <2>4. CASE ~local.live
    BY <1>5, <1>6, <2>2, <2>4
  <2>5. QED
    BY <2>3, <2>4
<1>12. started' = Len(emitted') + Cardinality(Live')
  <2>1. PICK s, l, c : s = started /\ l = Len(emitted) /\ c = Cardinality(Live)
    OBVIOUS
  <2>2. s \in Nat /\ l \in Nat /\ c \in Nat /\ s = l + c
    BY <1>2, <1>6, <1>9, <1>10, <2>1
  <2>3. started' = s + (IF local.live THEN 1 ELSE 0)
    BY <2>1
  <2>4. Len(emitted') = l + IF reg \in Live THEN 1 ELSE 0
    BY <1>9, <2>1
  <2>5. Cardinality(Live') = c + (IF local.live THEN 1 ELSE 0) - IF reg \in Live THEN 1 ELSE 0
    BY <1>11, <2>1
  <2>6. QED
    BY <2>2, <2>3, <2>4, <2>5
<1>13. ASSUME ~far
       PROVE  /\ local.live => local.startAddress = address
              /\ \A r \in Live : localInReg[r].startAddress <= address
              /\ \A j \in 1..Len(emitted) : emitted[j].end <= address
  <2>1. address < Half
    BY <1>13 DEF LocalsInv, Ahead
  <2>2. address % Half = address
    BY <1>2, <2>1, WordsAssumption
  <2>3. QED
    BY <1>9, <1>13, <2>2 DEF LocalsInv, Reported
<1>14. ASSUME ~far, NEW r \in Live' PROVE localInReg'[r].startAddress <= address
  BY <1>2, <1>4, <1>5, <1>13, <1>14 DEF Live
<1>15. ASSUME ~far, NEW j \in 1..Len(emitted') PROVE emitted'[j].end <= address
  <2>1. CASE j \in 1..Len(emitted)
    BY <1>9, <1>13, <1>15, <2>1
  <2>2. CASE j \notin 1..Len(emitted)
    BY <1>2, <1>7, <1>9, <2>2
  <2>3. QED
    BY <2>1, <2>2
<1>16. ASSUME ~far, NEW j \in 1..Len(emitted)
       PROVE  /\ \A i \in 1..(j - 1) :
                   emitted[i].reg = emitted[j].reg => emitted[i].end <= emitted[j].start
              /\ localInReg[emitted[j].reg].live =>
                   emitted[j].end <= localInReg[emitted[j].reg].startAddress
  BY <1>9, <1>16 DEF LocalsInv, Reported, LocalsAccounted
<1>17. ASSUME ~far, NEW j \in 1..Len(emitted')
       PROVE  /\ \A i \in 1..(j - 1) :
                   emitted'[i].reg = emitted'[j].reg => emitted'[i].end <= emitted'[j].start
              /\ localInReg'[emitted'[j].reg].live =>
                   emitted'[j].end <= localInReg'[emitted'[j].reg].startAddress
  <2>1. CASE j \in 1..Len(emitted)
    <3>1. emitted'[j] = emitted[j] /\ \A i \in 1..(j - 1) : emitted'[i] = emitted[i]
      BY <1>9, <2>1
    <3>2. emitted[j].reg \in Registers
      <4>1. emitted[j] \in Ranges
        BY <1>2, <1>9, <2>1
      <4>2. QED
        BY <4>1 DEF Ranges
    <3>3. emitted[j].reg = reg /\ local.live => emitted[j].end <= local.startAddress
      BY <1>13, <1>17, <2>1
    <3>4. QED
      BY <1>4, <1>16, <1>17, <2>1, <3>1, <3>2, <3>3
  <2>2. CASE j \notin 1..Len(emitted)
    <3>1. j = Len(emitted) + 1 /\ reg \in Live
      BY <1>9, <2>2
    <3>2. emitted'[j] = range /\ \A i \in 1..(j - 1) : i \in 1..Len(emitted)
      BY <1>9, <3>1
    <3>3. localInReg[reg].live
      BY <3>1 DEF Live
    <3>4. \A i \in 1..Len(emitted) :
            emitted[i].reg = reg => emitted[i].end <= localInReg[reg].startAddress
      BY <1>16, <1>17, <3>3
    <3>5. local.live => address <= local.startAddress
      BY <1>2, <1>13, <1>17
    <3>6. QED
      BY <1>4, <1>7, <1>9, <3>2, <3>4, <3>5
  <2>3. QED
    BY <2>1, <2>2
<1>18. LocalsAccounted'
  <2>1. Live' = {r \in Registers : localInReg[r].live}'
    BY DEF Live
  <2>2. QED
    BY <1>9, <1>12, <1>17, <2>1 DEF LocalsAccounted
<1>19. started' \in Nat
  BY <1>2
<1>20. QED
  BY <1>1, <1>3, <1>5, <1>8, <1>9, <1>14, <1>15, <1>18, <1>19 DEF Reported

\* What is reported at the end of the code: to what was, a range for each register below
\* m with a local that lives.
Completed(sofar, m) ==
  /\ sofar \in Seq(Ranges)
  /\ Len(sofar) = Len(emitted) + Cardinality({r \in Live : r < m})
  /\ \A j \in 1..Len(emitted) : sofar[j] = emitted[j]
  /\ \A j \in (Len(emitted) + 1)..Len(sofar) :
       /\ sofar[j].reg \in Live /\ sofar[j].reg < m
       /\ sofar[j].start = localInReg[sofar[j].reg].startAddress
       /\ \A i \in (Len(emitted) + 1)..(j - 1) : sofar[i].reg # sofar[j].reg

LEMMA CompletedNone ==
  ASSUME LocalsInv
  PROVE  Completed(emitted, 0)
<1>1. {r \in Live : r < 0} = {}
  <2>1. \A r \in Live : r \in 0..(item.registersSize - 1)
    BY DEF Live, Registers
  <2>2. QED
    BY <2>1, RegistersType DEF LocalsInv, Ahead
<1>2. Cardinality({r \in Live : r < 0}) = 0
  BY <1>1, FS_EmptySet
<1>3. emitted \in Seq(Ranges) /\ Len(emitted) \in Nat
  BY DEF LocalsInv, Reported
<1>4. QED
  BY <1>2, <1>3 DEF Completed

LEMMA CompletedStep ==
  ASSUME LocalsInv, NEW m \in 1..item.registersSize, NEW sofar, Completed(sofar, m - 1),
         NEW next,
         next = IF localInReg[m - 1].live THEN Append(sofar, LocalRange(m - 1, item.insnsSize))
                ELSE sofar
  PROVE  Completed(next, m)
<1>1. /\ item \in Items /\ item.registersSize \in Nat /\ item.insnsSize \in Nat
      /\ localInReg \in [Registers -> Locals] /\ IsFiniteSet(Registers)
      /\ emitted \in Seq(Ranges) /\ Len(emitted) \in Nat
  BY RegistersType DEF LocalsInv, Ahead, Reported
<1>2. m - 1 \in Registers /\ m \in Nat /\ m - 1 \in Nat /\ \A r \in Live : r \in Nat
  BY <1>1 DEF Registers, Live
<1>3. PICK below : below = {r \in Live : r < m - 1}
  OBVIOUS
<1>4. IsFiniteSet(below) /\ Cardinality(below) \in Nat /\ m - 1 \notin below
  <2>1. below \subseteq Registers
    BY <1>3 DEF Live
  <2>2. QED
    BY <1>1, <1>2, <1>3, <2>1, FS_Subset, FS_CardinalityType
<1>5. /\ sofar \in Seq(Ranges) /\ Len(sofar) \in Nat
      /\ Len(sofar) = Len(emitted) + Cardinality(below)
      /\ \A j \in 1..Len(emitted) : sofar[j] = emitted[j]
      /\ \A j \in (Len(emitted) + 1)..Len(sofar) :
           /\ sofar[j].reg \in Live /\ sofar[j].reg < m - 1
           /\ sofar[j].start = localInReg[sofar[j].reg].startAddress
           /\ \A i \in (Len(emitted) + 1)..(j - 1) : sofar[i].reg # sofar[j].reg
  BY <1>3 DEF Completed
<1>6. CASE ~localInReg[m - 1].live
  <2>1. {r \in Live : r < m} = below
    BY <1>2, <1>3, <1>6 DEF Live
  <2>2. next = sofar
    BY <1>6
  <2>3. \A j \in (Len(emitted) + 1)..Len(sofar) : sofar[j].reg < m
    BY <1>2, <1>5
  <2>4. QED
    BY <1>5, <2>1, <2>2, <2>3 DEF Completed
<1>7. CASE localInReg[m - 1].live
  <2>1. PICK range : range = LocalRange(m - 1, item.insnsSize)
    OBVIOUS
  <2>2. /\ range \in Ranges /\ range.reg = m - 1
        /\ range.start = localInReg[m - 1].startAddress
    BY <1>1, <1>2, <2>1 DEF LocalRange, Ranges, Locals
  <2>3. next = Append(sofar, range)
    BY <1>7, <2>1
  <2>4. /\ next \in Seq(Ranges) /\ Len(next) = Len(sofar) + 1
        /\ next[Len(sofar) + 1] = range
        /\ \A j \in 1..Len(sofar) : next[j] = sofar[j]
    BY <1>5, <2>2, <2>3
  <2>5. {r \in Live : r < m} = below \cup {m - 1} /\ m - 1 \in Live
    BY <1>2, <1>3, <1>7 DEF Live
  <2>6. Cardinality(below \cup {m - 1}) = Cardinality(below) + 1
    BY <1>4, FS_AddElement
  <2>7. Len(next) = Len(emitted) + Cardinality({r \in Live : r < m})
    <3>1. Cardinality({r \in Live : r < m}) = Cardinality(below) + 1
      BY <2>5, <2>6, Zenon
    <3>2. QED
      BY <1>1, <1>4, <1>5, <2>4, <3>1
  <2>8. \A j \in 1..Len(emitted) : next[j] = emitted[j]
    BY <1>1, <1>4, <1>5, <2>4
  <2>9. ASSUME NEW j \in (Len(emitted) + 1)..Len(next)
        PROVE  /\ next[j].reg \in Live /\ next[j].reg < m
               /\ next[j].start = localInReg[next[j].reg].startAddress
               /\ \A i \in (Len(emitted) + 1)..(j - 1) : next[i].reg # next[j].reg
    <3>1. \A i \in (Len(emitted) + 1)..(j - 1) :
            i \in (Len(emitted) + 1)..Len(sofar) /\ next[i] = sofar[i]
      BY <1>1, <1>5, <2>4
    <3>2. CASE j \in 1..Len(sofar)
      <4>1. j \in (Len(emitted) + 1)..Len(sofar) /\ next[j] = sofar[j]
        BY <1>1, <1>5, <2>4, <3>2
      <4>2. QED
        BY <1>2, <1>5, <3>1, <4>1
    <3>3. CASE j \notin 1..Len(sofar)
      <4>1. j = Len(sofar) + 1
        BY <1>1, <1>5, <2>4, <3>3
      <4>2. next[j] = range
        BY <2>4, <4>1
      <4>3. \A i \in (Len(emitted) + 1)..(j - 1) : next[i].reg < m - 1 /\ next[i].reg \in Nat
        BY <1>2, <1>5, <3>1
      <4>4. QED
        BY <1>2, <2>2, <2>5, <4>2, <4>3
    <3>4. QED
      BY <3>2, <3>3
  <2>10. QED
    BY <2>4, <2>7, <2>8, <2>9 DEF Completed
<1>8. QED
  BY <1>6, <1>7

LEMMA CompletedAtEnd ==
  ASSUME LocalsInv
  PROVE  Completed(EmittedAtEnd, item.registersSize)
<1>1. PICK n : n = item.registersSize
  OBVIOUS
<1>2. n \in Nat
  BY <1>1, RegistersType DEF LocalsInv, Ahead
<1> DEFINE Longer(sofar, m) ==
             IF localInReg[m - 1].live THEN Append(sofar, LocalRange(m - 1, item.insnsSize))
             ELSE sofar
           upto == CHOOSE f : f = [m \in 0..n |-> IF m = 0 THEN emitted ELSE Longer(f[m - 1], m)]
<1>3. \E f : f = [m \in 0..n |-> IF m = 0 THEN emitted ELSE Longer(f[m - 1], m)]
  <2>1. PICK S : S = Seq(Ranges)
    OBVIOUS
  <2>2. emitted \in S
    BY <2>1 DEF LocalsInv, Reported
  <2>3. ASSUME NEW m \in 1..n, NEW s \in S PROVE Longer(s, m) \in S
    <3>1. LocalRange(m - 1, item.insnsSize) \in Ranges
      <4>1. m - 1 \in Registers
        BY <1>1, <1>2 DEF Registers
      <4>2. localInReg[m - 1].startAddress \in Nat
        BY <4>1 DEF LocalsInv, Reported, Locals
      <4>3. item.insnsSize \in Nat
        BY RegistersType DEF LocalsInv, Ahead
      <4>4. QED
        BY <4>1, <4>2, <4>3 DEF LocalRange, Ranges
    <3>2. QED
      BY <2>1, <3>1
  <2>4. PICK next : next = [m \in 1..n |-> [s \in S |-> Longer(s, m)]]
    OBVIOUS
  <2> HIDE DEF Longer
  <2>5. \A m \in 1..n : \A s \in S : next[m][s] = Longer(s, m)
    BY <2>4
  <2>6. \A m \in 1..n : \A s \in S : next[m][s] \in S
    BY <2>3, <2>5
  <2>7. PICK f : Computes(f, n, S, emitted, next)
    BY <1>2, <2>2, <2>6, Computed
  <2>8. \A m \in 1..n : f[m - 1] \in S
    BY <1>2, <2>7 DEF Computes
  <2>9. \A m \in 1..n : f[m] = Longer(f[m - 1], m)
    BY <2>5, <2>7, <2>8 DEF Computes
  <2>10. f = [m \in 0..n |-> IF m = 0 THEN emitted ELSE Longer(f[m - 1], m)]
    BY <1>2, <2>7, <2>9 DEF Computes
  <2>11. QED
    BY <2>10
<1>4. EmittedAtEnd = upto[n]
  BY <1>1 DEF EmittedAtEnd
<1>5. upto = [m \in 0..n |-> IF m = 0 THEN emitted ELSE Longer(upto[m - 1], m)]
  BY <1>3
<1> HIDE DEF upto, Longer
<1>6. upto[0] = emitted /\ \A m \in 1..n : upto[m] = Longer(upto[m - 1], m)
  BY <1>2, <1>5
<1>7. PICK T : T = {m \in 0..n : Completed(upto[m], m)}
  OBVIOUS
<1>8. 0 \in T
  BY <1>2, <1>6, <1>7, CompletedNone
<1>9. ASSUME NEW m \in 1..n, m - 1 \in T PROVE m \in T
  <2>1. Completed(upto[m - 1], m - 1)
    BY <1>7, <1>9
  <2>2. Completed(upto[m], m)
    BY <1>1, <1>6, <2>1, CompletedStep DEF Longer
  <2>3. QED
    BY <1>2, <1>7, <2>2
<1>10. \A m \in 0..n : m \in T
  BY <1>2, <1>8, <1>9, Upwards
<1>11. QED
  BY <1>1, <1>2, <1>4, <1>7, <1>10

\* The end of the code reports what still lives, which no earlier range of the same
\* register reaches.
LEMMA EndLocalsStep == ASSUME LocalsInv, EndLocals PROVE LocalsInv'
<1>1. PICK all, n, m : all = EmittedAtEnd /\ n = Len(emitted) /\ m = item.registersSize
  OBVIOUS
<1>2. Completed(all, m)
  BY <1>1, CompletedAtEnd
<1>3. /\ phase = "end" /\ emitted' = all /\ phase' = "done"
      /\ item' = item /\ argReg' = argReg /\ address' = address /\ localInReg' = localInReg
      /\ started' = started /\ far' = far
  BY <1>1 DEF EndLocals, strayed
<1>4. /\ item \in Items /\ m \in Nat /\ localInReg \in [Registers -> Locals]
      /\ emitted \in Seq(Ranges) /\ n \in Nat /\ started \in Nat
      /\ DOMAIN emitted = 1..n
  BY <1>1, RegistersType DEF LocalsInv, Ahead, Reported
<1>5. {r \in Live : r < m} = {r \in Registers : localInReg[r].live}
  BY <1>1, <1>4 DEF Live, Registers
<1>6. /\ all \in Seq(Ranges) /\ Len(all) \in Nat /\ DOMAIN all = 1..Len(all)
      /\ Len(all) = n + Cardinality({r \in Registers : localInReg[r].live})
  <2>1. PICK living : living = {r \in Live : r < m}
    OBVIOUS
  <2>2. all \in Seq(Ranges) /\ Len(all) = n + Cardinality(living)
    BY <1>1, <1>2, <2>1 DEF Completed
  <2>3. Cardinality({r \in Registers : localInReg[r].live}) = Cardinality(living)
    BY <1>5, <2>1, Zenon
  <2>4. all \in Seq(Ranges) /\ Len(all) \in Nat /\ DOMAIN all = 1..Len(all)
    BY <2>2
  <2>5. QED
    BY <2>2, <2>3, <2>4
<1>7. started' = Len(emitted')
  BY <1>1, <1>3, <1>6 DEF LocalsInv, Reported, LocalsAccounted
<1>8. ASSUME ~far, NEW j \in 1..Len(all), NEW i \in 1..(j - 1), all[i].reg = all[j].reg
      PROVE  all[i].end <= all[j].start
  <2>1. CASE j \in 1..n
    <3>1. i \in 1..n /\ all[i] = emitted[i] /\ all[j] = emitted[j]
      BY <1>1, <1>2, <1>4, <2>1 DEF Completed
    <3>2. QED
      BY <1>4, <1>8, <2>1, <3>1 DEF LocalsInv, Reported, LocalsAccounted
  <2>2. CASE j \notin 1..n
    <3>1. j \in (n + 1)..Len(all)
      BY <1>4, <1>6, <2>2
    <3>2. /\ all[j].reg \in Live /\ all[j].start = localInReg[all[j].reg].startAddress
          /\ \A k \in (n + 1)..(j - 1) : all[k].reg # all[j].reg
      BY <1>1, <1>2, <3>1 DEF Completed
    <3>3. i \in 1..n
      BY <1>4, <1>6, <1>8, <3>2
    <3>4. all[i] = emitted[i]
      BY <1>1, <1>2, <3>3 DEF Completed
    <3>5. localInReg[emitted[i].reg].live => emitted[i].end <= localInReg[emitted[i].reg].startAddress
      BY <1>3, <1>4, <1>8, <3>3 DEF LocalsInv, Reported, LocalsAccounted
    <3>6. QED
      BY <1>8, <3>2, <3>4, <3>5 DEF Live
  <2>3. QED
    BY <2>1, <2>2
<1>9. LocalsAccounted'
  BY <1>3, <1>6, <1>7, <1>8 DEF LocalsAccounted
<1>10. Registers' = Registers /\ Ranges' = Ranges /\ Locals' = Locals
  BY <1>3 DEF Registers, Ranges, Locals
<1>11. Reported'
  BY <1>3, <1>4, <1>6, <1>9, <1>10 DEF Reported
<1>12. Ahead'
  BY <1>3 DEF LocalsInv, Ahead, Early
<1>13. QED
  BY <1>11, <1>12 DEF LocalsInv

\* A step that neither begins nor ends a life, to a place behind the parameters.
LEMMA PassedOver ==
  ASSUME LocalsInv, UNCHANGED <<item, decoded>>, phase # "done",
         phase' \notin Early \cup {"parameters", "done"},
         address' \in Nat, argReg' \in Nat, far' \in BOOLEAN,
         ~far' => ~far /\ address <= address' /\ address' < Half
  PROVE  LocalsInv'
<1>1. Reported'
  BY Kept DEF LocalsInv, Ahead
<1>2. Ahead'
  BY DEF LocalsInv, Ahead, Early
<1>3. QED
  BY <1>1, <1>2 DEF LocalsInv

LEMMA EarlyStep ==
  ASSUME LocalsInv, UNCHANGED <<item, argReg, address, decoded, far>>, phase \in Early,
         phase' \in Early \cup {"end"}
  PROVE  LocalsInv'
<1>1. phase # "done" /\ phase' # "done" /\ address \in Nat
  BY DEF Early, LocalsInv, Ahead
<1>2. Reported' /\ Live' = Live
  BY <1>1, Kept DEF LocalsInv
<1>3. emitted' = emitted /\ started' = started
  BY DEF decoded
<1>4. Ahead'
  BY <1>2, <1>3 DEF LocalsInv, Ahead, Early
<1>5. QED
  BY <1>2, <1>4 DEF LocalsInv

LEMMA LocalType == ASSUME LocalsInv, NEW name \in BOOLEAN, NEW descriptor \in BOOLEAN
                   PROVE  /\ Local(name, descriptor) \in Locals
                          /\ Local(name, descriptor).live
                          /\ Local(name, descriptor).startAddress = address % Half
<1>1. address % Half \in Nat
  BY WordsAssumption DEF LocalsInv, Ahead
<1>2. QED
  BY <1>1 DEF Local, Locals

LEMMA StartLocalsStep == ASSUME LocalsInv, Start PROVE LocalsInv'
<1>1. PICK reg, read : reg = firstArg /\ read = readUnsignedLeb128(Behind(1, 1))
  OBVIOUS
<1>2. /\ item \in Items /\ phase = "start" /\ Live = {} /\ started = 0 /\ emitted = <<>>
      /\ address = 0
  BY DEF LocalsInv, Ahead, Early, Start, AssertFails, StartStatic, StartInstance, StartBehind,
         ReadHeader
<1>3. reg \in Nat
  BY <1>1, <1>2, RegistersType
<1>4. read \in Nat
  <2>1. Behind(1, 1) \in Int
    BY BehindType
  <2>2. QED
    BY <1>1, <1>2, <2>1, NumberType
<1>5. left' = read /\ item' = item /\ address' = address /\ far' = far
  BY <1>1 DEF Start, AssertFails, StartStatic, StartInstance, StartBehind, ReadHeader, strayed
<1>6. readUnsignedLeb128(Behind(1, 1))' = read
  <2>1. readUnsignedLeb128(Behind(1, 1))' = readUnsignedLeb128(Behind(1, 1))
    BY <1>5, SameHeader
  <2>2. QED
    BY <1>1, <2>1
<1>7. left' \in 0..readUnsignedLeb128(Behind(1, 1))'
  BY <1>4, <1>5, <1>6
<1>8. CASE AssertFails
  BY <1>2, <1>5, <1>8, EarlyStep DEF AssertFails, Early
<1>9. CASE StartBehind
  <2>1. UNCHANGED <<item, decoded, address, argReg, far>> /\ phase' = "undefined"
    BY <1>5, <1>9 DEF StartBehind
  <2>2. QED
    BY <1>2, <2>1, PassedOver DEF LocalsInv, Ahead, Early
<1>10. CASE StartStatic
  <2>1. argReg' = reg /\ phase' = "parameters" /\ UNCHANGED decoded
    BY <1>1, <1>10 DEF StartStatic
  <2>2. Reported' /\ Live' = Live
    BY <1>2, <1>5, <2>1, Kept DEF LocalsInv
  <2>3. emitted' = emitted
    BY <2>1 DEF decoded
  <2>4. Ahead'
    BY <1>2, <1>3, <1>5, <1>7, <2>1, <2>2, <2>3 DEF LocalsInv, Ahead, Early
  <2>5. QED
    BY <2>2, <2>4 DEF LocalsInv
<1>11. CASE StartInstance
  <2>1. PICK local : local = Local(TRUE, TRUE)
    OBVIOUS
  <2>2. /\ argReg' = reg + 1 /\ phase' = "parameters" /\ reg < item.registersSize
        /\ localInReg' = [localInReg EXCEPT ![reg] = local]
        /\ started' = started + 1 /\ emitted' = emitted
    BY <1>1, <1>11, <2>1 DEF StartInstance
  <2>3. local \in Locals /\ local.live /\ local.startAddress = address % Half
    BY <2>1, LocalType
  <2>4. reg \in Registers
    BY <1>2, <1>3, <2>2, RegistersType DEF Registers
  <2>5. ~localInReg[reg].live
    BY <1>2, <2>4 DEF Live
  <2>6. emitLocalCbIfLive(reg)
    BY <2>2, <2>5 DEF emitLocalCbIfLive
  <2>7. Reported' /\ Live' = Live \cup {reg}
    BY <1>2, <1>5, <2>2, <2>3, <2>4, <2>6, Rewritten
  <2>8. \A r \in Live' : r < argReg'
    BY <1>2, <1>3, <2>2, <2>7
  <2>9. Ahead'
    BY <1>2, <1>3, <1>5, <1>7, <2>2, <2>8 DEF LocalsInv, Ahead, Early
  <2>10. QED
    BY <2>7, <2>9 DEF LocalsInv
<1>12. QED
  BY <1>8, <1>9, <1>10, <1>11 DEF Start

LEMMA ParameterStep == ASSUME IInv, LocalsInv, Parameter PROVE LocalsInv'
<1>1. PICK read : read = readUnsignedLeb128(Behind(1, 1))
  OBVIOUS
<1>2. /\ item \in Items /\ phase = "parameters" /\ emitted = <<>> /\ address = 0
      /\ address \in Nat /\ argReg \in Nat /\ far \in BOOLEAN
      /\ left > 0 /\ left \in 0..read /\ \A r \in Live : r < argReg
      /\ ~far => address < Half
  BY <1>1 DEF LocalsInv, Ahead, Early, Parameter
<1>3. item' = item /\ address' = address /\ far' = far
  BY DEF Parameter, strayed
<1>4. CASE UNCHANGED decoded /\ argReg' = argReg /\ phase' \in {"invalid", "undefined"}
  BY <1>2, <1>3, <1>4, PassedOver DEF Early
<1>5. CASE phase' = phase /\ TakeName /\ argReg < item.registersSize
             /\ NextParameter <= Len(item.params)
  <2>1. read \in Nat
    <3>1. Behind(1, 1) \in Int
      BY BehindType
    <3>2. QED
      BY <1>1, <1>2, <3>1, NumberType
  <2>2. NextParameter = read - left + 1
    BY <1>1 DEF NextParameter
  <2>3. NextParameter \in 1..Len(item.params)
    <3>1. item.params \in Seq({1, 2})
      BY <1>2, ItemsAssumption
    <3>2. Len(item.params) \in Nat
      BY <3>1
    <3>3. QED
      BY <1>2, <1>5, <2>1, <2>2, <3>2
  <2>4. item.params[NextParameter] \in {1, 2}
    <3>1. item.params \in Seq({1, 2})
      BY <1>2, ItemsAssumption
    <3>2. QED
      BY <2>3, <3>1
  <2>5. argReg' \in Nat /\ argReg < argReg'
    BY <1>2, <1>5, <2>4 DEF TakeName
  <2>6. readUnsignedLeb128(Behind(1, 1))' = read
    <3>1. readUnsignedLeb128(Behind(1, 1))' = readUnsignedLeb128(Behind(1, 1))
      BY <1>3, SameHeader
    <3>2. QED
      BY <1>1, <3>1
  <2>7. left' \in 0..readUnsignedLeb128(Behind(1, 1))'
    <3>1. left' = left - 1
      BY <1>5 DEF TakeName
    <3>2. QED
      BY <1>2, <2>1, <2>6, <3>1
  <2>8. argReg \in Registers
    BY <1>2, <1>5, RegistersType DEF Registers
  <2>9. /\ Reported'
        /\ Live' = Live \/ Live' = Live \cup {argReg}
        /\ emitted' = <<>>
    <3>1. CASE UNCHANGED decoded
      <4>1. Reported' /\ Live' = Live
        BY <1>2, <1>3, <1>5, <3>1, Kept DEF LocalsInv
      <4>2. QED
        BY <1>2, <3>1, <4>1 DEF decoded
    <3>2. CASE ~UNCHANGED decoded
      <4>1. PICK local : local = Local(TRUE, TRUE)
        OBVIOUS
      <4>2. /\ localInReg' = [localInReg EXCEPT ![argReg] = local]
            /\ started' = started + 1 /\ emitted' = emitted
        BY <1>5, <3>2, <4>1 DEF TakeName
      <4>3. local \in Locals /\ local.live /\ local.startAddress = address % Half
        BY <4>1, LocalType
      <4>4. ~localInReg[argReg].live
        BY <1>2, <2>8 DEF Live
      <4>5. emitLocalCbIfLive(argReg)
        BY <4>2, <4>4 DEF emitLocalCbIfLive
      <4>6. Reported' /\ Live' = Live \cup {argReg}
        BY <1>2, <1>3, <1>5, <2>8, <4>2, <4>3, <4>5, Rewritten
      <4>7. QED
        BY <1>2, <4>2, <4>6
    <3>3. QED
      BY <3>1, <3>2
  <2>10. \A r \in Live' : r < argReg'
    <3>1. \A r \in Live : r \in Nat
      BY <1>2, RegistersType DEF Live, Registers
    <3>2. QED
      BY <1>2, <2>5, <2>9, <3>1
  <2>11. Ahead'
    BY <1>2, <1>3, <1>5, <2>5, <2>7, <2>9, <2>10 DEF Ahead, Early
  <2>12. QED
    BY <2>9, <2>11 DEF LocalsInv
<1>6. QED
  <2>1. \/ argReg >= item.registersSize \/ NextParameter > Len(item.params)
        \/ argReg < item.registersSize /\ NextParameter <= Len(item.params)
    <3>1. item.params \in Seq({1, 2}) /\ item.registersSize \in Nat
      BY <1>2, ItemsAssumption
    <3>2. Len(item.params) \in Nat /\ left \in Int /\ argReg \in Nat
      BY <1>2, <3>1
    <3>3. NextParameter \in Int
      <4>1. Behind(1, 1) \in Int
        BY BehindType
      <4>2. readUnsignedLeb128(Behind(1, 1)) \in Nat
        BY <1>2, <4>1, NumberType
      <4>3. QED
        BY <3>2, <4>2 DEF NextParameter
    <3>4. QED
      BY <3>1, <3>2, <3>3
  <2>2. QED
    BY <1>4, <1>5, <2>1 DEF Parameter

-----------------------------------------------------------------------------
(***************************************************************************)
(* The opcodes                                                             *)
(***************************************************************************)
LEMMA OperandType ==
  ASSUME IInv, LocalsInv, NEW n \in 1..4
  PROVE  Operand(pos, n) \in Nat /\ Byte(pos) \in Nat
<1>1. item \in Items /\ pos \in Int
  BY DEF IInv
<1>2. Behind(pos + 1, n - 1) \in Int
  <2>1. pos + 1 \in Int /\ n - 1 \in 0..4
    BY <1>1
  <2>2. QED
    BY <2>1, BehindType
<1>3. Operand(pos, n) \in Nat
  BY <1>1, <1>2, NumberType DEF Operand
<1>4. Byte(pos) \in Nat
  BY <1>1, ItemsAssumption, WordsAssumption DEF Byte
<1>5. QED
  BY <1>3, <1>4

\* An address that fits grows; one that does not is the end of what is asked.
LEMMA MoveToGrows ==
  ASSUME LocalsInv, NEW newAddress \in Nat, address <= newAddress, MoveTo(newAddress)
  PROVE  /\ address' \in Nat /\ far' \in BOOLEAN
         /\ ~far' => ~far /\ address <= address' /\ address' < Half
<1>1. /\ Half \in Nat /\ Word \in Nat /\ Half < Word
      /\ address \in Nat /\ far \in BOOLEAN
  BY WordsAssumption DEF LocalsInv, Ahead
<1>2. newAddress % Word \in Nat
  BY <1>1
<1>3. newAddress < Half => newAddress % Word = newAddress
  BY <1>1
<1>4. address' = newAddress % Word /\ far' = (far \/ newAddress >= Half)
  BY DEF MoveTo
<1>5. far' \in BOOLEAN
  BY <1>1, <1>4, Zenon
<1>6. ASSUME ~far' PROVE ~far /\ newAddress < Half
  <2>1. ~far /\ ~(newAddress >= Half)
    BY <1>4, <1>6
  <2>2. QED
    BY <1>1, <2>1
<1>7. QED
  BY <1>1, <1>2, <1>3, <1>4, <1>5, <1>6

LEMMA PassedOpcode ==
  ASSUME IInv, LocalsInv,
         \/ EndParameters \/ AdvancePc \/ SkipOpcode \/ SpecialOpcode \/ EndSequence
         \/ InvalidRegister \/ OutOfBounds \/ DecodeBehindFile
  PROVE  LocalsInv'
<1>1. address \in Nat /\ argReg \in Nat /\ far \in BOOLEAN /\ (~far => address < Half)
  BY DEF LocalsInv, Ahead
<1>2. CASE AdvancePc
  <2>1. PICK newAddress : newAddress = address + Operand(pos, 1)
    OBVIOUS
  <2>2. newAddress \in Nat /\ address <= newAddress
    BY <1>1, <2>1, OperandType
  <2>3. MoveTo(newAddress)
    BY <1>2, <2>1 DEF AdvancePc
  <2>4. /\ address' \in Nat /\ far' \in BOOLEAN
        /\ ~far' => ~far /\ address <= address' /\ address' < Half
    BY <2>2, <2>3, MoveToGrows
  <2>5. QED
    BY <1>1, <1>2, <2>4, PassedOver DEF AdvancePc, At, Early
<1>3. CASE SpecialOpcode
  <2>1. PICK by, newAddress :
          by = (Byte(pos) - DBG_FIRST_SPECIAL) \div DBG_LINE_RANGE /\ newAddress = address + by
    OBVIOUS
  <2>2. Byte(pos) - DBG_FIRST_SPECIAL \in Nat
    BY <1>3, OperandType DEF SpecialOpcode, DBG_FIRST_SPECIAL
  <2>3. by \in Nat
    BY <2>1, <2>2 DEF DBG_LINE_RANGE
  <2>4. newAddress \in Nat /\ address <= newAddress
    BY <1>1, <2>1, <2>3
  <2>5. MoveTo(newAddress)
    BY <1>3, <2>1 DEF SpecialOpcode
  <2>6. /\ address' \in Nat /\ far' \in BOOLEAN
        /\ ~far' => ~far /\ address <= address' /\ address' < Half
    BY <2>4, <2>5, MoveToGrows
  <2>7. QED
    BY <1>1, <1>3, <2>6, PassedOver DEF SpecialOpcode, Early
<1>4. CASE SkipOpcode
  BY <1>1, <1>4, PassedOver DEF SkipOpcode, At, Early
<1>5. CASE EndParameters
  BY <1>1, <1>5, PassedOver DEF EndParameters, Early, strayed
<1>6. CASE EndSequence
  BY <1>1, <1>6, PassedOver DEF EndSequence, At, Early, strayed
<1>7. CASE InvalidRegister
  BY <1>1, <1>7, PassedOver DEF InvalidRegister, At, Early, strayed
<1>8. CASE OutOfBounds
  BY <1>1, <1>8, PassedOver DEF OutOfBounds, At, Early, strayed
<1>9. CASE DecodeBehindFile
  BY <1>1, <1>9, PassedOver DEF DecodeBehindFile, Early, strayed
<1>10. QED
  BY <1>2, <1>3, <1>4, <1>5, <1>6, <1>7, <1>8, <1>9

\* A register that is neither refused nor one behind the last is one of the method's.
LEMMA RegisterHere ==
  ASSUME IInv, LocalsInv, ~Refused, Overrun = "no"
  PROVE  Operand(pos, 1) % Half \in Registers
<1>1. PICK reg : reg = Operand(pos, 1) % Half
  OBVIOUS
<1>2. reg \in Nat
  BY <1>1, OperandType, WordsAssumption
<1>3. item.registersSize \in Nat
  BY RegistersType DEF LocalsInv, Ahead
<1>4. ~(reg > item.registersSize)
  BY <1>1 DEF Refused
<1>5. reg # item.registersSize
  BY <1>1 DEF Overrun
<1>6. QED
  BY <1>1, <1>2, <1>3, <1>4, <1>5 DEF Registers

\* What a step among the opcodes that writes a register leaves.
LEMMA OpcodeStep ==
  ASSUME LocalsInv, phase = "opcodes", phase' = "opcodes",
         UNCHANGED <<item, address, far, argReg>>, Reported'
  PROVE  LocalsInv'
BY DEF LocalsInv, Ahead, Early

LEMMA StartLocalStep == ASSUME IInv, LocalsInv, StartLocal PROVE LocalsInv'
<1>1. PICK reg, local : reg = Operand(pos, 1) % Half
                          /\ local = Local(Operand(pos, 2) # 0, Operand(pos, 3) # 0)
  OBVIOUS
<1>2. reg \in Registers
  BY <1>1, RegisterHere DEF StartLocal
<1>3. local \in Locals /\ local.live /\ local.startAddress = address % Half
  BY <1>1, LocalType
<1>4. /\ emitLocalCbIfLive(reg)
      /\ localInReg' = [localInReg EXCEPT ![reg] = local]
      /\ started' = started + 1
      /\ phase = "opcodes" /\ phase' = "opcodes"
      /\ UNCHANGED <<item, address, far, argReg>>
  BY <1>1 DEF StartLocal, At, strayed
<1>5. Reported'
  BY <1>2, <1>3, <1>4, Rewritten
<1>6. QED
  BY <1>4, <1>5, OpcodeStep

LEMMA EndLocalStep == ASSUME IInv, LocalsInv, EndLocal PROVE LocalsInv'
<1>1. PICK reg : reg = Operand(pos, 1) % Half
  OBVIOUS
<1>2. reg \in Registers /\ localInReg[reg] \in Locals /\ localInReg \in [Registers -> Locals]
  BY <1>1, RegisterHere DEF EndLocal, LocalsInv, Reported
<1>3. PICK local : local = [localInReg[reg] EXCEPT !.live = FALSE]
  OBVIOUS
<1>4. local \in Locals /\ local.live = FALSE
  BY <1>2, <1>3 DEF Locals
<1>5. /\ emitLocalCbIfLive(reg)
      /\ localInReg' = [localInReg EXCEPT ![reg] = local]
      /\ started' = started
      /\ phase = "opcodes" /\ phase' = "opcodes"
      /\ UNCHANGED <<item, address, far, argReg>>
  BY <1>1, <1>2, <1>3 DEF EndLocal, At, strayed
<1>6. started' = started + IF local.live THEN 1 ELSE 0
  BY <1>4, <1>5 DEF LocalsInv, Reported
<1>7. Reported'
  BY <1>2, <1>4, <1>5, <1>6, Rewritten
<1>8. QED
  BY <1>5, <1>7, OpcodeStep

LEMMA RestartLocalStep == ASSUME IInv, LocalsInv, RestartLocal PROVE LocalsInv'
<1>1. PICK reg : reg = Operand(pos, 1) % Half
  OBVIOUS
<1>2. reg \in Registers /\ localInReg[reg] \in Locals /\ localInReg \in [Registers -> Locals]
  BY <1>1, RegisterHere DEF RestartLocal, LocalsInv, Reported
<1>3. /\ phase = "opcodes" /\ UNCHANGED <<item, address, far, argReg, emitted>>
      /\ phase' \in {"opcodes", "invalid"}
      /\ ~UNCHANGED <<localInReg, started>> => phase' = "opcodes" /\ Restarted(reg)
  BY <1>1 DEF RestartLocal, At, strayed
<1>4. CASE UNCHANGED <<localInReg, started>>
  <2>1. UNCHANGED decoded
    BY <1>3, <1>4 DEF decoded
  <2>2. QED
    BY <1>3, <2>1, PassedOver DEF LocalsInv, Ahead, Early
<1>5. CASE ~UNCHANGED <<localInReg, started>>
  <2>1. PICK local : local = [name |-> localInReg[reg].name,
                              descriptor |-> localInReg[reg].descriptor,
                              startAddress |-> address % Half, live |-> TRUE]
    OBVIOUS
  <2>2. address % Half \in Nat
    BY WordsAssumption DEF LocalsInv, Ahead
  <2>3. local \in Locals /\ local.live /\ local.startAddress = address % Half
    BY <1>2, <2>1, <2>2 DEF Locals
  <2>4. /\ ~localInReg[reg].live /\ started' = started + 1
        /\ localInReg' = [localInReg EXCEPT ![reg].startAddress = address % Half,
                                            ![reg].live = TRUE]
    BY <1>3, <1>5 DEF Restarted
  <2>5. localInReg' = [localInReg EXCEPT ![reg] = local]
    BY <1>2, <2>1, <2>4 DEF Locals
  <2>6. emitLocalCbIfLive(reg)
    BY <1>3, <2>4 DEF emitLocalCbIfLive
  <2>7. Reported'
    BY <1>2, <1>3, <1>5, <2>3, <2>4, <2>5, <2>6, Rewritten
  <2>8. QED
    BY <1>3, <1>5, <2>7, OpcodeStep
<1>6. QED
  BY <1>4, <1>5

LEMMA LocalsStep == IInv /\ LocalsInv /\ [Next]_vars => LocalsInv'
<1>1. ASSUME IInv, LocalsInv, Next PROVE LocalsInv'
  <2>1. CASE VerifyHeader \/ VerifyName \/ EndNames \/ VerifyOpcode \/ VerifyBehindFile
               \/ NoStream
    <3>1. /\ UNCHANGED <<item, argReg, address, decoded, far>>
          /\ phase \in Early /\ phase' \in Early \cup {"end"}
      BY <2>1 DEF VerifyHeader, VerifyName, EndNames, VerifyOpcode, VerifyBehindFile, NoStream,
                  Early, strayed
    <3>2. QED
      BY <1>1, <3>1, EarlyStep
  <2>2. QED
    BY <1>1, <2>1, StartLocalsStep, ParameterStep, PassedOpcode, StartLocalStep, EndLocalStep,
       RestartLocalStep, EndLocalsStep DEF Next
<1>2. ASSUME LocalsInv, UNCHANGED vars PROVE LocalsInv'
  <2>1. /\ item' = item /\ phase' = phase /\ left' = left /\ argReg' = argReg
        /\ address' = address /\ localInReg' = localInReg /\ emitted' = emitted
        /\ started' = started /\ far' = far
    BY <1>2 DEF vars
  <2>2. readUnsignedLeb128(Behind(1, 1))' = readUnsignedLeb128(Behind(1, 1))
    BY <2>1, SameHeader
  <2>3. /\ Registers' = Registers /\ Live' = Live /\ Ranges' = Ranges /\ Locals' = Locals
        /\ {r \in Registers : localInReg[r].live}' = {r \in Registers : localInReg[r].live}
    BY <2>1 DEF Registers, Live, Ranges, Locals
  <2>4. Ahead'
    BY <1>2, <2>1, <2>2, <2>3 DEF LocalsInv, Ahead, Early
  <2>5. Reported'
    BY <1>2, <2>1, <2>3 DEF LocalsInv, Reported, LocalsAccounted
  <2>6. QED
    BY <2>4, <2>5 DEF LocalsInv
<1>3. QED
  BY <1>1, <1>2

(***************************************************************************)
(* Of each local that dexDecodeDebugInfo brought to life one range was     *)
(* reported, or it still lives, whatever the stream starts over, ends      *)
(* twice or restarts; of a stream that is read to its end all are reported *)
(* (emitLocalCbIfLive and the loop at the end).  Nothing is said of what   *)
(* still lives when the stream is invalid, is read out of bounds or fails  *)
(* an assertion, nor of the order of ranges behind an address that does    *)
(* not fit into 16 bits.                                                   *)
(***************************************************************************)
THEOREM LocalsAccountedHolds == Spec => []LocalsAccounted
<1>1. LocalsInv => LocalsAccounted
  BY DEF LocalsInv, Reported
<1>2. Spec => []LocalsInv
  BY LocalsInitially, LocalsStep, Invariance, PTL DEF Spec
<1>3. QED
  BY <1>1, <1>2, PTL
=============================================================================
