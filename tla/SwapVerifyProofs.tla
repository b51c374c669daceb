--------------------------- MODULE SwapVerifyProofs ---------------------------
(***************************************************************************)
(* For any files: the first pass of dexFixByteOrdering swaps every byte of *)
(* an item once, because its offset only grows, and for the same reason    *)
(* the data map it fills is in order, so that the second pass finds by     *)
(* halves what the first has put there.  What the two passes ask of each   *)
(* item is kept in two further invariants; from these follows what an      *)
(* accepted file is: references lead to items of their types, and what     *)
(* neighbours are compared by makes whole tables sorted.  The other way    *)
(* round, a file of which the format's rules hold is at no point turned    *)
(* down: where the offset of the first pass is, and which classes the      *)
(* second has seen, is all that a fourth invariant has to add.             *)
(***************************************************************************)
EXTENDS SwapVerify, TLAPS, FiniteSetTheorems, WellFoundedInduction

\* Every set of natural numbers that is not empty has a least one.
LEMMA LeastOf ==
  ASSUME NEW S, S \subseteq Nat, S # {}
  PROVE  \E m \in S : \A i \in S : m <= i
<1> DEFINE less == {p \in Nat \X Nat : p[1] < p[2]}
<1>1. IsWellFoundedOn(less, Nat)
  BY NatLessThanWellFounded DEF OpToRel
<1>2. \A i, j \in Nat : <<i, j>> \notin less => j <= i
  OBVIOUS
<1> HIDE DEF less
<1>3. PICK m \in S : \A i \in S : <<i, m>> \notin less
  BY <1>1, WFMin, Zenon
<1> QED
  BY <1>2, <1>3

\* What is so of the start, and of every number if it is so of the one before, is
\* so of the end.
LEMMA Upwards ==
  ASSUME NEW n \in Nat, NEW T, 0 \in T, \A i \in 1..n : i - 1 \in T => i \in T
  PROVE  \A i \in 0..n : i \in T
<1> DEFINE missing == {i \in 0..n : i \notin T}
<1>1. SUFFICES ASSUME missing # {} PROVE FALSE
  OBVIOUS
<1>2. missing \subseteq Nat
  OBVIOUS
<1>3. PICK m \in missing : \A i \in missing : m <= i
  <2> HIDE DEF missing
  <2> QED
    BY <1>1, <1>2, LeastOf
<1>4. m \in 1..n /\ m - 1 \in 0..n
  OBVIOUS
<1> QED
  BY <1>3, <1>4

-----------------------------------------------------------------------------
(***************************************************************************)
(* Files, sections and where their items begin                             *)
(***************************************************************************)
Section(s) ==
  /\ s.offset \in Nat
  /\ Len(s.items) \in Nat
  /\ DOMAIN s.items = 1..Len(s.items)
  /\ \A i \in 1..Len(s.items) : s.items[i].len \in Nat

LEMMA FileType ==
  ASSUME NEW f \in Files
  PROVE  /\ f.headerSize \in Nat /\ f.mapOff \in Nat
         /\ Len(f.map) \in Nat /\ DOMAIN f.map = 1..Len(f.map)
         /\ \A k \in 1..Len(f.map) : Section(f.map[k])
<1>1. /\ f.headerSize \in Nat /\ f.mapOff \in Nat
      /\ f.map \in Seq(Range(f.map))
  BY FilesAssumption
<1>2. Len(f.map) \in Nat /\ DOMAIN f.map = 1..Len(f.map)
  BY <1>1
<1>3. ASSUME NEW k \in 1..Len(f.map) PROVE Section(f.map[k])
  <2>1. PICK s : s = f.map[k]
    OBVIOUS
  <2>2. s \in Range(f.map)
    BY <1>2, <2>1 DEF Range
  <2>3. /\ s.offset \in Nat /\ s.items \in Seq(Range(s.items))
        /\ \A i \in Range(s.items) : i.len \in Nat
    BY <2>2, FilesAssumption
  <2>4. Len(s.items) \in Nat /\ DOMAIN s.items = 1..Len(s.items)
    BY <2>3
  <2>5. \A i \in 1..Len(s.items) : s.items[i].len \in Nat
    BY <2>3, <2>4 DEF Range
  <2>6. QED
    BY <2>1, <2>3, <2>4, <2>5 DEF Section
<1>4. QED
  BY <1>1, <1>2, <1>3

LEMMA AlignedType ==
  ASSUME NEW type, NEW o \in Nat
  PROVE  Aligned(type, o) \in Nat /\ Aligned(type, o) >= o
<1>1. 4 * ((o + 3) \div 4) \in Nat /\ 4 * ((o + 3) \div 4) >= o
  OBVIOUS
<1>2. QED
  BY <1>1 DEF Aligned

\* There is one function only that starts every item behind the one before.
LEMMA StartsStep ==
  ASSUME NEW s, Section(s), NEW i \in 1..Len(s.items)
  PROVE  /\ Starts(s)[i] = Aligned(s.type, Behind(s, i))
         /\ Starts(s)[i] \in Nat /\ Behind(s, i) \in Nat
<1>0. PICK n : n = Len(s.items)
  OBVIOUS
<1> DEFINE At(f, j) == Aligned(s.type, IF j = 1 THEN s.offset ELSE f[j - 1] + s.items[j - 1].len)
           Right(f, m) == f \in [1..m -> Nat] /\ \A j \in 1..m : f[j] = At(f, j)
<1>1. /\ n \in Nat /\ n = Len(s.items) /\ i \in 1..n
      /\ s.offset \in Nat /\ \A j \in 1..n : s.items[j].len \in Nat
  BY <1>0 DEF Section
<1>2. \E f : Right(f, n)
  <2>1. PICK T : T = {m \in 0..n : \E f : Right(f, m)}
    OBVIOUS
  <2>2. 0 \in T
    <3>1. PICK f : f = [j \in 1..0 |-> 0]
      OBVIOUS
    <3>2. Right(f, 0)
      BY <3>1
    <3> HIDE DEF Right
    <3>3. 0 \in 0..n
      BY <1>1
    <3>4. QED
      BY <2>1, <3>2, <3>3
  <2>3. ASSUME NEW m \in 1..n, m - 1 \in T PROVE m \in T
    <3>1. PICK f : Right(f, m - 1)
      BY <2>1, <2>3
    <3>2. m \in Nat /\ m >= 1 /\ m - 1 \in Nat
      BY <1>1
    <3>3. At(f, m) \in Nat
      <4>1. CASE m = 1
        BY <1>1, <4>1, AlignedType
      <4>2. CASE m # 1
        <5>1. m - 1 \in 1..(m - 1) /\ m - 1 \in 1..n
          BY <1>1, <3>2, <4>2
        <5>2. f[m - 1] + s.items[m - 1].len \in Nat
          BY <1>1, <3>1, <5>1
        <5>3. QED
          BY <4>2, <5>2, AlignedType
      <4>3. QED
        BY <4>1, <4>2
    <3>4. PICK g : g = [j \in 1..m |-> IF j = m THEN At(f, m) ELSE f[j]]
      OBVIOUS
    <3>5. \A j \in 1..m : j = m \/ j \in 1..(m - 1)
      BY <3>2
    <3>6. g \in [1..m -> Nat]
      BY <3>1, <3>3, <3>4, <3>5
    <3>7. \A j \in 1..m : j # 1 => g[j - 1] = f[j - 1]
      BY <3>2, <3>4
    <3>8. \A j \in 1..m : At(g, j) = At(f, j)
      BY <3>7
    <3>9. \A j \in 1..m : g[j] = At(f, j)
      BY <3>1, <3>4, <3>5
    <3>10. Right(g, m)
      BY <3>6, <3>8, <3>9
    <3> HIDE DEF Right
    <3>11. m \in 0..n
      BY <1>1
    <3>12. QED
      BY <2>1, <3>10, <3>11
  <2>4. \A m \in 0..n : m \in T
    BY <1>1, <2>2, <2>3, Upwards
  <2> HIDE DEF Right
  <2>5. n \in 0..n
    BY <1>1
  <2>6. QED
    BY <2>1, <2>4, <2>5
<1>3. PICK f : Right(f, n)
  BY <1>2
<1>4. f = [j \in 1..n |-> At(f, j)]
  BY <1>3
<1>5. Starts(s) = [j \in 1..n |-> At(Starts(s), j)]
  BY <1>0, <1>4 DEF Starts
<1> HIDE DEF Right
<1>6. \A j \in 1..n : Starts(s)[j] = Aligned(s.type, Behind(s, j))
  BY <1>5 DEF Behind
<1>7. PICK T : T = {m \in 0..n : m = 0 \/ (Starts(s)[m] \in Nat /\ Behind(s, m) \in Nat)}
  OBVIOUS
<1>8. 0 \in T
  BY <1>1, <1>7
<1>9. ASSUME NEW m \in 1..n, m - 1 \in T PROVE m \in T
  <2>1. m \in Nat /\ m \in 0..n /\ s.items[m].len \in Nat
    BY <1>1
  <2>2. Behind(s, m) \in Nat
    <3>1. CASE m = 1
      BY <1>1, <3>1 DEF Behind
    <3>2. CASE m # 1
      <4>1. m - 1 \in 1..n /\ m - 1 # 0
        BY <1>1, <2>1, <3>2
      <4>2. Starts(s)[m - 1] \in Nat /\ s.items[m - 1].len \in Nat
        BY <1>1, <1>7, <1>9, <4>1
      <4>3. QED
        BY <3>2, <4>2 DEF Behind
    <3>3. QED
      BY <3>1, <3>2
  <2>3. Starts(s)[m] \in Nat
    BY <1>6, <2>2, AlignedType
  <2>4. QED
    BY <1>7, <2>1, <2>2, <2>3
<1>10. \A m \in 0..n : m \in T
  BY <1>1, <1>8, <1>9, Upwards
<1>11. i \in T /\ i # 0
  BY <1>1, <1>10
<1>12. QED
  BY <1>1, <1>6, <1>7, <1>11

-----------------------------------------------------------------------------
(***************************************************************************)
(* What was swapped lies before the offset, each part of it before or      *)
(* behind every other.                                                     *)
(***************************************************************************)
Apart(p, q) == p = q \/ p[2] <= q[1] \/ q[2] <= p[1]

Ordered(parts, end) ==
  /\ \A p \in parts : p \in Nat \X Nat /\ p[1] <= p[2] /\ p[2] <= end
  /\ \A p, q \in parts : Apart(p, q)

LEMMA Extended ==
  ASSUME NEW parts, NEW end \in Nat, Ordered(parts, end),
         NEW from \in Nat, NEW to \in Nat, NEW limit \in Nat,
         end <= from, from <= to, to <= limit
  PROVE  Ordered(parts \cup {<<from, to>>}, limit)
<1>1. \A p \in parts : p \in Nat \X Nat /\ p[1] <= p[2] /\ p[2] <= limit /\ p[2] <= from
  BY DEF Ordered
<1>2. PICK part : part = <<from, to>>
  OBVIOUS
<1>3. part \in Nat \X Nat /\ part[1] = from /\ part[2] = to
  BY <1>2
<1>4. \A p \in parts : Apart(p, part) /\ Apart(part, p)
  BY <1>1, <1>3 DEF Apart
<1>5. \A p, q \in parts : Apart(p, q)
  BY DEF Ordered
<1>6. Apart(part, part)
  BY DEF Apart
<1>7. \A p, q \in parts \cup {part} : Apart(p, q)
  BY <1>4, <1>5, <1>6
<1>8. QED
  BY <1>1, <1>2, <1>3, <1>5, <1>7 DEF Ordered

LEMMA Moved ==
  ASSUME NEW parts, NEW end \in Nat, Ordered(parts, end), NEW limit \in Nat, end <= limit
  PROVE  Ordered(parts, limit)
BY DEF Ordered

InPlace == {"header", "map_list"}   \* swapped before the pass begins

Passed(type) == \E k \in 1..(section - 1) : file.map[k].type = type

Part(type) == IF type = "header" THEN <<0, HeaderSize>>
              ELSE <<file.mapOff, file.mapOff + MapListSize>>

Parts == swapped \cup {Part(type) : type \in {t \in InPlace : Passed(t)}}

SwappedTo(s, n) == \A i \in 1..n : \E p \in swapped : p[1] = Starts(s)[i]

SectionsSwapped(n) ==
  \A k \in 1..n : file.map[k].type \notin InPlace =>
    SwappedTo(file.map[k], Len(file.map[k].items))

Swapping ==
  /\ section \in 1..(Len(file.map) + 1)
  /\ item \in Nat /\ offset \in Nat
  /\ item # 0 =>
       /\ section <= Len(file.map)
       /\ file.map[section].type \notin InPlace
       /\ item \in 1..(Len(file.map[section].items) + 1)
       /\ offset = Behind(file.map[section], item)
       /\ SwappedTo(file.map[section], item - 1)
  /\ Ordered(Parts, offset)
  /\ SectionsSwapped(section - 1)

IInv ==
  /\ file \in Files
  /\ phase \in {"start", "map"} => section = 1 /\ item = 0 /\ offset = 0 /\ swapped = {}
  /\ phase \in {"map", "swap"} => HeaderSize <= file.headerSize
  /\ phase = "swap" => InPlace \subseteq {s.type : s \in Range(file.map)}
  /\ phase = "swap" => Swapping
  /\ SwappedOnce

LEMMA Initially == Init => IInv
BY DEF Init, IInv, SwappedOnce

\* The header and the map list are passed, and every item of the other sections is.
LEMMA PassOver ==
  ASSUME IInv, phase = "swap", section > Len(file.map)
  PROVE  /\ \A p, q \in swapped \cup {<<0, HeaderSize>>,
                                     <<file.mapOff, file.mapOff + MapListSize>>} :
              p = q \/ p[2] <= q[1] \/ q[2] <= p[1]
         /\ \A s \in Range(file.map) : s.type \notin {"header", "map_list"} =>
              \A i \in DOMAIN s.items : \E p \in swapped : p[1] = Starts(s)[i]
<1>1. /\ Len(file.map) \in Nat /\ DOMAIN file.map = 1..Len(file.map)
      /\ \A k \in 1..Len(file.map) : Section(file.map[k])
  BY FileType DEF IInv
<1>2. Swapping /\ section - 1 = Len(file.map)
  BY <1>1 DEF IInv, Swapping
<1>3. \A t \in InPlace : Passed(t)
  BY <1>1, <1>2 DEF IInv, Passed, Range
<1>4. Part("header") \in Parts /\ Part("map_list") \in Parts
  BY <1>3 DEF Parts, InPlace
<1>5. /\ Part("header") = <<0, HeaderSize>>
      /\ Part("map_list") = <<file.mapOff, file.mapOff + MapListSize>>
  BY DEF Part
<1>6. swapped \cup {<<0, HeaderSize>>, <<file.mapOff, file.mapOff + MapListSize>>} \subseteq Parts
  BY <1>4, <1>5 DEF Parts
<1>7. \A p, q \in Parts : p = q \/ p[2] <= q[1] \/ q[2] <= p[1]
  BY <1>2 DEF Swapping, Ordered, Apart
<1>8. ASSUME NEW s \in Range(file.map), s.type \notin {"header", "map_list"},
             NEW i \in DOMAIN s.items
      PROVE  \E p \in swapped : p[1] = Starts(s)[i]
  <2>1. PICK k \in 1..Len(file.map) : s = file.map[k]
    BY <1>1 DEF Range
  <2>2. Section(s) /\ i \in 1..Len(s.items)
    BY <1>1, <2>1 DEF Section
  <2>3. SwappedTo(s, Len(s.items))
    BY <1>2, <1>8, <2>1 DEF Swapping, SectionsSwapped, InPlace
  <2>4. QED
    BY <2>2, <2>3 DEF SwappedTo
<1>9. QED
  BY <1>6, <1>7, <1>8

\* The end of the pass, and every step of the second.
LEMMA Still ==
  ASSUME IInv, file' = file, swapped' = swapped,
         phase' \notin {"start", "map", "swap"},
         phase' \in {"cross", "accepted"} => phase \in {"cross", "accepted"}
  PROVE  IInv'
<1>1. SwappedOnce'
  BY DEF IInv, SwappedOnce, MapListSize
<1>2. QED
  BY <1>1 DEF IInv

\* Neither the file nor what is passed changes while the offset moves on.
LEMMA SameParts ==
  ASSUME file' = file, swapped' = swapped,
         \A type \in InPlace : Passed(type)' <=> Passed(type)
  PROVE  Parts' = Parts
<1>1. \A type : Part(type)' = Part(type)
  BY DEF Part, MapListSize, HeaderSize
<1>2. QED
  BY <1>1 DEF Parts

LEMMA NextSection ==
  ASSUME section \in Nat, section' = section + 1, section >= 1, file' = file
  PROVE  \A type : Passed(type)' <=> Passed(type) \/ file.map[section].type = type
<1>1. \A k : k \in 1..(section' - 1) <=> k \in 1..(section - 1) \/ k = section
  OBVIOUS
<1>2. QED
  BY <1>1 DEF Passed

\* A section is begun.
LEMMA Begin == IInv /\ StartSection => IInv'
<1> SUFFICES ASSUME IInv, StartSection PROVE IInv'
  OBVIOUS
<1>1. PICK s : s = file.map[section]
  OBVIOUS
<1>2. /\ phase = "swap" /\ item = 0 /\ section <= Len(file.map)
      /\ UNCHANGED <<file, swapped>>
  BY DEF StartSection, Fail
<1>3. Swapping /\ section \in 1..Len(file.map) /\ offset \in Nat
  BY <1>2, FileType DEF IInv, Swapping
<1>4. Section(s) /\ s.offset \in Nat /\ file.mapOff \in Nat /\ file.headerSize \in Nat
  BY <1>1, <1>3, FileType DEF IInv, Section
<1>5. CASE ~SectionBegins(s)
  BY <1>1, <1>2, <1>5, Still DEF StartSection, Fail
<1>6. ASSUME SectionBegins(s), s.type \in InPlace PROVE IInv'
  <2>1. /\ section' = section + 1 /\ offset' = EndOfSwappedBefore(s) /\ UNCHANGED <<item, phase>>
        /\ offset <= s.offset /\ checkSection(s)
    BY <1>1, <1>6 DEF StartSection, SectionBegins, InPlace
  <2>2. PICK from, to : Part(s.type) = <<from, to>> /\ from \in Nat /\ to \in Nat
                        /\ offset <= from /\ from <= to /\ offset' \in Nat /\ to <= offset'
    <3>1. CASE s.type = "header"
      <4>1. s.offset = 0 /\ offset' = file.headerSize /\ Part(s.type) = <<0, HeaderSize>>
        BY <2>1, <3>1 DEF checkSection, IdTypes, EndOfSwappedBefore, Part
      <4>2. HeaderSize <= file.headerSize /\ HeaderSize \in Nat
        BY <1>2 DEF IInv, HeaderSize
      <4>3. QED
        BY <1>3, <1>4, <2>1, <4>1, <4>2
    <3>2. CASE s.type = "map_list"
      <4>1. /\ s.offset = file.mapOff /\ offset' = s.offset + MapListSize
            /\ Part(s.type) = <<file.mapOff, file.mapOff + MapListSize>>
        BY <2>1, <3>2 DEF checkSection, IdTypes, EndOfSwappedBefore, Part
      <4>2. MapListSize \in Nat
        BY FileType DEF IInv, MapListSize
      <4>3. QED
        BY <1>3, <1>4, <2>1, <4>1, <4>2
    <3>3. QED
      BY <1>6, <3>1, <3>2 DEF InPlace
  <2>3. Parts' \subseteq Parts \cup {<<from, to>>}
    <3>1. \A type : Part(type)' = Part(type)
      BY <1>2 DEF Part, MapListSize, HeaderSize
    <3>2. \A type : Passed(type)' => Passed(type) \/ type = s.type
      BY <1>1, <1>2, <1>3, <2>1, NextSection
    <3>3. QED
      BY <1>2, <2>2, <3>1, <3>2 DEF Parts
  <2>4. PICK limit, parts : limit = offset' /\ parts = Parts
    OBVIOUS
  <2>5. Ordered(parts \cup {<<from, to>>}, limit)
    BY <1>3, <2>2, <2>4, Extended DEF Swapping
  <2>6. Ordered(Parts', offset')
    BY <2>3, <2>4, <2>5 DEF Ordered
  <2>7. Ordered(Parts, offset)'
    BY <2>6 DEF Ordered, Apart
  <2>8. SectionsSwapped(section - 1)'
    <3>1. \A k \in 1..(section' - 1) : k \in 1..(section - 1) \/ k = section
      BY <1>3, <2>1
    <3>2. \A k \in 1..(section' - 1) : file.map[k].type \notin InPlace =>
            SwappedTo(file.map[k], Len(file.map[k].items))
      BY <1>1, <1>3, <1>6, <3>1 DEF Swapping, SectionsSwapped
    <3>3. QED
      BY <1>2, <3>2 DEF SectionsSwapped, SwappedTo
  <2>9. Swapping'
    BY <1>2, <1>3, <2>1, <2>2, <2>7, <2>8 DEF Swapping
  <2>10. QED
    BY <1>2, <2>1, <2>9 DEF IInv, SwappedOnce
<1>7. ASSUME SectionBegins(s), s.type \notin InPlace PROVE IInv'
  <2>1. /\ section' = section /\ offset' = s.offset /\ item' = 1 /\ UNCHANGED phase
        /\ offset <= s.offset
    BY <1>1, <1>7 DEF StartSection, SectionBegins, InPlace
  <2>2. Parts' = Parts
    <3>1. \A type : Passed(type)' <=> Passed(type)
      BY <1>2, <2>1 DEF Passed
    <3>2. QED
      BY <1>2, <3>1, SameParts
  <2>3. PICK limit, parts : limit = offset' /\ parts = Parts
    OBVIOUS
  <2>4. Ordered(parts, limit)
    BY <1>3, <1>4, <2>1, <2>3, Moved DEF Swapping
  <2>5. Ordered(Parts, offset)'
    BY <2>2, <2>3, <2>4 DEF Ordered, Apart
  <2>6. SectionsSwapped(section - 1)'
    BY <1>2, <1>3, <2>1 DEF Swapping, SectionsSwapped, SwappedTo
  <2>7. /\ offset' = Behind(file.map[section], item)'
        /\ SwappedTo(file.map[section], item - 1)'
        /\ item' \in 1..(Len(file'.map[section'].items) + 1)
    BY <1>1, <1>2, <1>4, <2>1 DEF Behind, SwappedTo, Section
  <2>8. Swapping'
    BY <1>1, <1>2, <1>3, <1>4, <1>7, <2>1, <2>5, <2>6, <2>7 DEF Swapping
  <2>9. QED
    BY <1>2, <2>1, <2>8 DEF IInv, SwappedOnce
<1>8. QED
  BY <1>5, <1>6, <1>7

\* An item is swapped.
LEMMA Swap == IInv /\ SwapItem => IInv'
<1> SUFFICES ASSUME IInv, SwapItem PROVE IInv'
  OBVIOUS
<1>1. PICK s : s = file.map[section]
  OBVIOUS
<1>2. /\ phase = "swap" /\ section <= Len(file.map) /\ item \in DOMAIN s.items
      /\ UNCHANGED <<file, section>>
  BY <1>1 DEF SwapItem, Fail
<1>3. Swapping /\ section \in 1..Len(file.map) /\ offset \in Nat /\ item \in Nat
  BY <1>2, FileType DEF IInv, Swapping
<1>4. Section(s) /\ item \in 1..Len(s.items) /\ item # 0 /\ Len(s.items) \in Nat
      /\ s.items[item].len \in Nat
  BY <1>1, <1>2, <1>3, FileType DEF IInv, Section
<1>5. PICK start, end : start = ItemStart(s) /\ end = start + s.items[item].len
  OBVIOUS
<1>6. CASE phase' = "failed" /\ swapped' = swapped
  BY <1>2, <1>6, Still
<1>7. ASSUME /\ offset' = end /\ item' = item + 1
             /\ swapped' = swapped \cup {<<start, end>>}
             /\ phase' = phase
      PROVE  IInv'
  <2>1. offset = Behind(s, item) /\ SwappedTo(s, item - 1) /\ s.type \notin InPlace
    BY <1>1, <1>3, <1>4 DEF Swapping
  <2>2. start = Starts(s)[item] /\ start \in Nat
    BY <1>4, <1>5, <2>1, StartsStep DEF ItemStart
  <2>3. start >= offset
    BY <1>3, <1>5, AlignedType DEF ItemStart
  <2>4. end \in Nat /\ start <= end
    BY <1>4, <1>5, <2>2
  <2>5. PICK parts, o : parts = Parts /\ o = offset
    OBVIOUS
  <2>6. Ordered(parts \cup {<<start, end>>}, end)
    <3>1. Ordered(parts, o) /\ o \in Nat /\ o <= start /\ end <= end
      BY <1>3, <2>2, <2>3, <2>4, <2>5 DEF Swapping
    <3>2. QED
      BY <2>2, <2>4, <3>1, Extended
  <2>7. Parts' = parts \cup {<<start, end>>}
    <3>1. \A type : (Part(type)' = Part(type)) /\ (Passed(type)' <=> Passed(type))
      BY <1>2 DEF Part, MapListSize, HeaderSize, Passed
    <3>2. QED
      BY <1>7, <2>5, <3>1 DEF Parts
  <2>8. Ordered(Parts, offset)'
    BY <1>7, <2>6, <2>7 DEF Ordered, Apart
  <2>9. SectionsSwapped(section - 1)'
    BY <1>2, <1>3, <1>7 DEF Swapping, SectionsSwapped, SwappedTo
  <2>10. \A i \in 1..item : \E p \in swapped' : p[1] = Starts(s)[i]
    <3>1. \A i \in 1..item : i = item \/ i \in 1..(item - 1)
      BY <1>3
    <3>2. <<start, end>> \in swapped' /\ <<start, end>>[1] = Starts(s)[item]
      BY <1>7, <2>2
    <3>3. QED
      BY <1>7, <2>1, <3>1, <3>2 DEF SwappedTo
  <2>11. SwappedTo(file.map[section], item - 1)'
    <3>1. item' - 1 = item
      BY <1>3, <1>7
    <3>2. QED
      BY <1>1, <1>2, <2>10, <3>1 DEF SwappedTo
  <2>12. item' \in Nat /\ item' # 1 /\ item' - 1 = item /\ item' \in 1..(Len(s.items) + 1)
    BY <1>3, <1>4, <1>7
  <2>13. offset' = Behind(s, item')
    BY <1>5, <1>7, <2>2, <2>12 DEF Behind
  <2>14. offset' = Behind(file.map[section], item)'
    BY <1>1, <1>2, <2>13 DEF Behind
  <2>15. Swapping'
    BY <1>1, <1>2, <1>3, <1>7, <2>1, <2>4, <2>8, <2>9, <2>11, <2>12, <2>14 DEF Swapping
  <2>16. QED
    BY <1>2, <1>7, <2>15 DEF IInv, SwappedOnce
<1>8. QED
  BY <1>1, <1>5, <1>6, <1>7 DEF SwapItem, Fail

\* A section is left.
LEMMA End == IInv /\ EndSection => IInv'
<1> SUFFICES ASSUME IInv, EndSection PROVE IInv'
  OBVIOUS
<1>1. PICK s : s = file.map[section]
  OBVIOUS
<1>2. /\ phase = "swap" /\ section <= Len(file.map) /\ item > Len(s.items)
      /\ UNCHANGED <<file, swapped>>
  BY <1>1 DEF EndSection, Fail
<1>3. Swapping /\ section \in 1..Len(file.map) /\ offset \in Nat /\ item \in Nat
      /\ Len(s.items) \in Nat
  BY <1>1, <1>2, FileType DEF IInv, Swapping, Section
<1>4. item = Len(s.items) + 1 /\ item # 0 /\ item - 1 = Len(s.items)
  BY <1>1, <1>2, <1>3 DEF Swapping
<1>5. CASE phase' = "failed"
  BY <1>2, <1>5, Still
<1>6. ASSUME section' = section + 1, item' = 0, UNCHANGED <<phase, offset>> PROVE IInv'
  <2>1. s.type \notin InPlace /\ SwappedTo(s, Len(s.items))
    BY <1>1, <1>3, <1>4 DEF Swapping
  <2>2. \A type \in InPlace : Passed(type)' <=> Passed(type)
    BY <1>1, <1>2, <1>3, <1>6, <2>1, NextSection
  <2>3. Parts' = Parts
    BY <1>2, <2>2, SameParts
  <2>4. Ordered(Parts, offset)'
    BY <1>3, <1>6, <2>3 DEF Swapping, Ordered, Apart
  <2>5. SectionsSwapped(section - 1)'
    <3>1. \A k \in 1..(section' - 1) : k \in 1..(section - 1) \/ k = section
      BY <1>3, <1>6
    <3>2. \A k \in 1..(section' - 1) : file.map[k].type \notin InPlace =>
            SwappedTo(file.map[k], Len(file.map[k].items))
      BY <1>1, <1>3, <2>1, <3>1 DEF Swapping, SectionsSwapped
    <3>3. QED
      BY <1>2, <3>2 DEF SectionsSwapped, SwappedTo
  <2>6. Swapping'
    BY <1>2, <1>3, <1>6, <2>4, <2>5 DEF Swapping
  <2>7. QED
    BY <1>2, <1>6, <2>6 DEF IInv, SwappedOnce
<1>7. QED
  BY <1>1, <1>5, <1>6 DEF EndSection, Fail

LEMMA Step == IInv /\ [Next]_vars => IInv'
<1> SUFFICES ASSUME IInv, [Next]_vars PROVE IInv'
  OBVIOUS
<1>1. CASE CheckHeader
  BY <1>1 DEF CheckHeader, Fail, swapDexHeader, IInv, SwappedOnce
<1>2. CASE CheckMap
  <2>1. CASE phase' = "failed"
    BY <1>2, <2>1 DEF CheckMap, Fail, IInv, SwappedOnce
  <2>2. CASE phase' = "swap"
    <3>1. /\ phase = "map" /\ UNCHANGED <<file, section, item, offset, swapped>>
          /\ {"header", "map_list"} \subseteq {s.type : s \in Range(file.map)}
      BY <1>2, <2>2 DEF CheckMap, Fail, swapMap
    <3>2. /\ section = 1 /\ item = 0 /\ offset = 0 /\ swapped = {}
          /\ HeaderSize <= file.headerSize /\ Len(file.map) \in Nat
      BY <3>1, FileType DEF IInv
    <3>3. \A type : ~Passed(type)'
      BY <3>1, <3>2 DEF Passed
    <3>4. Parts' = {}
      BY <3>1, <3>2, <3>3 DEF Parts
    <3>5. Ordered(Parts, offset)'
      BY <3>4 DEF Ordered
    <3>6. SectionsSwapped(section - 1)'
      BY <3>1, <3>2 DEF SectionsSwapped
    <3>7. Swapping'
      BY <3>1, <3>2, <3>5, <3>6 DEF Swapping
    <3>8. QED
      BY <2>2, <3>1, <3>2, <3>7 DEF IInv, SwappedOnce, InPlace
  <2>3. QED
    BY <1>2, <2>1, <2>2 DEF CheckMap, Fail
<1>3. CASE StartSection
  BY <1>3, Begin
<1>4. CASE SwapItem
  BY <1>4, Swap
<1>5. CASE EndSection
  BY <1>5, End
<1>6. CASE EndSwap
  <2>1. /\ phase = "swap" /\ section > Len(file.map) /\ phase' = "cross"
        /\ UNCHANGED <<file, swapped>>
    BY <1>6 DEF EndSwap
  <2>2. SwappedOnce'
    BY <2>1, PassOver DEF SwappedOnce, MapListSize, HeaderSize
  <2>3. QED
    BY <2>1, <2>2 DEF IInv
<1>7. CASE CrossItem
  BY <1>7, Still DEF CrossItem, Crossing, Fail
<1>8. CASE CrossItemUnverified
  BY <1>8, Still DEF CrossItemUnverified, Crossing
<1>9. CASE EndCrossSection
  BY <1>9, Still DEF EndCrossSection, Crossing
<1>10. CASE Accept
  BY <1>10, Still DEF Accept
<1>11. CASE Overrun
  BY <1>11, Still DEF Overrun
<1>12. CASE UNCHANGED vars
  <2>1. UNCHANGED <<file, phase, section, item, offset, swapped>>
    BY <1>12 DEF vars
  <2>2. CASE phase \in {"start", "map", "swap"}
    <3>1. /\ \A type : (Part(type)' = Part(type)) /\ (Passed(type)' <=> Passed(type))
      BY <2>1 DEF Part, Passed, MapListSize, HeaderSize
    <3>2. Parts' = Parts
      BY <2>1, <3>1, SameParts
    <3>3. Swapping => Ordered(Parts, offset)' /\ SectionsSwapped(section - 1)'
      BY <2>1, <3>2 DEF Swapping, Ordered, Apart, SectionsSwapped, SwappedTo
    <3>4. Swapping => Swapping'
      BY <2>1, <3>3 DEF Swapping, SwappedTo, Behind
    <3>5. QED
      BY <2>1, <2>2, <3>4 DEF IInv, SwappedOnce
  <2>3. CASE phase \notin {"start", "map", "swap"}
    BY <2>1, <2>3, Still
  <2>4. QED
    BY <2>2, <2>3
<1>13. QED
  BY <1>1, <1>2, <1>3, <1>4, <1>5, <1>6, <1>7, <1>8, <1>9, <1>10, <1>11, <1>12 DEF Next

(***************************************************************************)
(* Of a file that swapEverythingButHeaderAndMap lets through every item    *)
(* was swapped, and no byte twice (SWAP_OFFSET and the offsets that the    *)
(* sections have in the map), whatever the map says.                       *)
(***************************************************************************)
THEOREM SwappedOnceHolds == Spec => []SwappedOnce
<1>1. IInv => SwappedOnce
  BY DEF IInv
<1>2. QED
  BY Initially, Step, <1>1, PTL DEF Spec

-----------------------------------------------------------------------------
(***************************************************************************)
(* The binary search of dexDataMapGet, over a rigid map d.                 *)
(***************************************************************************)
Ranges(d) == (1..(Len(d) + 1)) \X (0..Len(d))
Guess(r) == (r[1] + r[2]) \div 2
Lower(r) == <<r[1], Guess(r) - 1>>
Upper(r) == <<Guess(r) + 1, r[2]>>
Size(r) == IF r[2] < r[1] THEN 0 ELSE r[2] - r[1] + 1

\* The answer in a range, given those in its halves.
Halved(d, o, f, r) ==
  IF r[2] < r[1] THEN None
  ELSE IF o < d[Guess(r)].offset THEN f[Lower(r)]
  ELSE IF o > d[Guess(r)].offset THEN f[Upper(r)]
  ELSE d[Guess(r)].type

LEMMA Halves ==
  ASSUME NEW d, Len(d) \in Nat, NEW r \in Ranges(d), r[1] <= r[2]
  PROVE  /\ Guess(r) \in 1..Len(d) /\ r[1] <= Guess(r) /\ Guess(r) <= r[2]
         /\ Lower(r) \in Ranges(d) /\ Upper(r) \in Ranges(d)
         /\ Size(Lower(r)) < Size(r) /\ Size(Upper(r)) < Size(r)
         /\ Size(Lower(r)) \in Nat /\ Size(Upper(r)) \in Nat
<1>1. PICK a, b : r = <<a, b>> /\ a \in 1..(Len(d) + 1) /\ b \in 0..Len(d)
  BY DEF Ranges
<1>2. PICK g : g = (a + b) \div 2 /\ g \in Nat /\ a <= g /\ g <= b
  BY <1>1
<1>3. /\ r[1] = a /\ r[2] = b /\ Guess(r) = g
      /\ Lower(r) = <<a, g - 1>> /\ Upper(r) = <<g + 1, b>>
  BY <1>1, <1>2 DEF Guess, Lower, Upper
<1>4. g \in 1..Len(d) /\ g - 1 \in 0..Len(d) /\ g + 1 \in 1..(Len(d) + 1)
  BY <1>1, <1>2
<1>5. Lower(r) \in Ranges(d) /\ Upper(r) \in Ranges(d)
  BY <1>1, <1>3, <1>4 DEF Ranges
<1>6. Size(r) = b - a + 1
  BY <1>1, <1>2, <1>3 DEF Size
<1>7. Size(Lower(r)) \in Nat /\ Size(Lower(r)) < b - a + 1
  <2>1. Size(Lower(r)) = IF g - 1 < a THEN 0 ELSE (g - 1) - a + 1
    BY <1>3 DEF Size
  <2>2. QED
    BY <1>1, <1>2, <2>1
<1>8. Size(Upper(r)) \in Nat /\ Size(Upper(r)) < b - a + 1
  <2>1. Size(Upper(r)) = IF b < g + 1 THEN 0 ELSE b - (g + 1) + 1
    BY <1>3 DEF Size
  <2>2. QED
    BY <1>1, <1>2, <2>1
<1>9. QED
  BY <1>2, <1>3, <1>4, <1>5, <1>6, <1>7, <1>8

LEMMA SizeType ==
  ASSUME NEW d, Len(d) \in Nat, NEW r \in Ranges(d)
  PROVE  /\ Size(r) \in 0..Len(d)
         /\ Size(r) = 0 <=> ~(r[1] <= r[2])
BY DEF Ranges, Size

Answers(d, o, f, n) == \A r \in Ranges(d) : Size(r) <= n => f[r] = Halved(d, o, f, r)

IsSearch(d, o, f) == f = [r \in Ranges(d) |-> Halved(d, o, f, r)]

LEMMA SearchExists ==
  ASSUME NEW d, Len(d) \in Nat, NEW o
  PROVE  \E f : IsSearch(d, o, f)
<1>1. PICK n \in Nat : n = Len(d)
  OBVIOUS
<1>2. PICK T : T = {m \in 0..n : \E f : DOMAIN f = Ranges(d) /\ Answers(d, o, f, m)}
  OBVIOUS
<1>3. 0 \in T
  <2>1. PICK f : f = [r \in Ranges(d) |-> None]
    OBVIOUS
  <2>2. ASSUME NEW r \in Ranges(d), Size(r) <= 0 PROVE f[r] = Halved(d, o, f, r)
    <3>1. ~(r[1] <= r[2]) /\ r[1] \in Nat /\ r[2] \in Nat
      BY <2>2, SizeType DEF Ranges
    <3>2. QED
      BY <2>1, <3>1 DEF Halved
  <2>3. QED
    BY <1>1, <1>2, <2>1, <2>2 DEF Answers
<1>4. ASSUME NEW m \in 1..n, m - 1 \in T PROVE m \in T
  <2>1. PICK f : DOMAIN f = Ranges(d) /\ Answers(d, o, f, m - 1)
    BY <1>2, <1>4
  <2>2. PICK g : g = [r \in Ranges(d) |-> IF Size(r) = m THEN Halved(d, o, f, r) ELSE f[r]]
    OBVIOUS
  <2>3. ASSUME NEW r \in Ranges(d), Size(r) <= m PROVE g[r] = Halved(d, o, g, r)
    <3>1. Halved(d, o, g, r) = Halved(d, o, f, r)
      <4>1. CASE ~(r[1] <= r[2])
        BY <4>1 DEF Halved, Ranges
      <4>2. CASE r[1] <= r[2]
        <5>1. /\ Lower(r) \in Ranges(d) /\ Upper(r) \in Ranges(d)
              /\ Size(Lower(r)) # m /\ Size(Upper(r)) # m
          BY <1>1, <2>3, <4>2, Halves, SizeType
        <5>2. g[Lower(r)] = f[Lower(r)] /\ g[Upper(r)] = f[Upper(r)]
          BY <2>2, <5>1
        <5>3. QED
          BY <5>2 DEF Halved
      <4>3. QED
        BY <4>1, <4>2
    <3>2. CASE Size(r) = m
      BY <2>2, <3>1, <3>2
    <3>3. CASE Size(r) # m
      <4>1. Size(r) <= m - 1
        BY <1>1, <2>3, <3>3, SizeType
      <4>2. g[r] = f[r] /\ f[r] = Halved(d, o, f, r)
        BY <2>1, <2>2, <3>3, <4>1 DEF Answers
      <4>3. QED
        BY <3>1, <4>2
    <3>4. QED
      BY <3>2, <3>3
  <2>4. DOMAIN g = Ranges(d) /\ Answers(d, o, g, m)
    BY <2>2, <2>3 DEF Answers
  <2>5. m \in 0..n
    BY <1>1
  <2>6. QED
    BY <1>2, <2>4, <2>5
<1>5. \A m \in 0..n : m \in T
  BY <1>1, <1>3, <1>4, Upwards
<1>6. PICK f : DOMAIN f = Ranges(d) /\ Answers(d, o, f, n)
  BY <1>1, <1>2, <1>5
<1>7. PICK g : g = [r \in Ranges(d) |-> f[r]]
  OBVIOUS
<1>8. \A r \in Ranges(d) : Size(r) <= n
  BY <1>1, SizeType
<1>9. ASSUME NEW r \in Ranges(d) PROVE g[r] = Halved(d, o, g, r)
  <2>1. f[r] = Halved(d, o, f, r) /\ g[r] = f[r]
    BY <1>6, <1>7, <1>8 DEF Answers
  <2>2. Halved(d, o, g, r) = Halved(d, o, f, r)
    <3>1. CASE ~(r[1] <= r[2])
      BY <3>1 DEF Halved, Ranges
    <3>2. CASE r[1] <= r[2]
      <4>1. Lower(r) \in Ranges(d) /\ Upper(r) \in Ranges(d)
        BY <1>1, <3>2, Halves
      <4>2. g[Lower(r)] = f[Lower(r)] /\ g[Upper(r)] = f[Upper(r)]
        BY <1>7, <4>1
      <4>3. QED
        BY <4>2 DEF Halved
    <3>3. QED
      BY <3>1, <3>2
  <2>3. QED
    BY <2>1, <2>2
<1>10. g = [r \in Ranges(d) |-> Halved(d, o, g, r)]
  BY <1>7, <1>9
<1>11. QED
  BY <1>10 DEF IsSearch

LEMMA Searched ==
  ASSUME NEW o, NEW d, d = dataMap, Len(d) \in Nat
  PROVE  \E g : /\ Answers(d, o, g, Len(d))
                /\ dexDataMapGet(o) = g[<<1, Len(d)>>]
<1>1. PICK f : IsSearch(d, o, f)
  BY SearchExists
<1>2. PICK g : g = CHOOSE h : h = [r \in Ranges(d) |-> Halved(d, o, h, r)]
  OBVIOUS
<1>3. g = [r \in Ranges(d) |-> Halved(d, o, g, r)]
  BY <1>1, <1>2 DEF IsSearch
<1>4. dexDataMapGet(o) = g[<<1, Len(d)>>]
  BY <1>2 DEF dexDataMapGet, Halved, Guess, Lower, Upper, Ranges
<1>5. \A r \in Ranges(d) : g[r] = Halved(d, o, g, r)
  BY <1>3
<1>6. Answers(d, o, g, Len(d))
  BY <1>5 DEF Answers
<1>7. QED
  BY <1>4, <1>6

\* What dexDataMapAdd lets through is in the order of the offsets.
InOrder(d) ==
  /\ Len(d) \in Nat
  /\ \A i \in 1..Len(d) : d[i].offset \in Nat
  /\ \A i, j \in 1..Len(d) : i < j => d[i].offset < d[j].offset

\* The answer for an offset, if only entries in a range are asked for.
IsAnswer(d, o, answer, r) ==
  /\ \A i \in r[1]..r[2] : d[i].offset = o => answer = d[i].type
  /\ (\A i \in r[1]..r[2] : d[i].offset # o) => answer = None

LEMMA HalfEnough ==
  ASSUME NEW d, InOrder(d), NEW o \in Nat, NEW f, NEW r \in Ranges(d),
         r[1] <= r[2],
         IsAnswer(d, o, f[Lower(r)], Lower(r)), IsAnswer(d, o, f[Upper(r)], Upper(r))
  PROVE  IsAnswer(d, o, Halved(d, o, f, r), r)
<1>1. PICK a, b : r[1] = a /\ r[2] = b
  OBVIOUS
<1>2. PICK g : g = Guess(r)
  OBVIOUS
<1>3. /\ a \in 1..(Len(d) + 1) /\ b \in 0..Len(d) /\ g \in 1..Len(d) /\ a <= g /\ g <= b
      /\ Len(d) \in Nat
  BY <1>1, <1>2, Halves DEF Ranges, InOrder
<1>4. PICK n : n = Len(d) /\ n \in Nat /\ a..b \subseteq 1..n
  BY <1>3
<1>5. /\ Lower(r)[1] = a /\ Lower(r)[2] = g - 1
      /\ Upper(r)[1] = g + 1 /\ Upper(r)[2] = b
  BY <1>1, <1>2 DEF Lower, Upper
<1>6. /\ \A i \in 1..n : d[i].offset \in Nat
      /\ \A i, j \in 1..n : i < j => d[i].offset < d[j].offset
  BY <1>4 DEF InOrder
<1>7. d[g].offset \in Nat /\ g \in a..b
  BY <1>3, <1>4, <1>6
<1>8. CASE o < d[g].offset
  <2>1. \A i \in a..b : i \in a..(g - 1) \/ d[i].offset # o
    <3>1. SUFFICES ASSUME NEW i \in a..b, i \notin a..(g - 1) PROVE d[i].offset # o
      OBVIOUS
    <3>2. i = g \/ g < i
      BY <1>3, <3>1
    <3>3. i \in 1..n /\ g \in 1..n
      BY <1>3, <1>4
    <3>4. d[i].offset \in Nat /\ d[g].offset <= d[i].offset
      BY <1>6, <1>7, <3>2, <3>3
    <3>5. QED
      BY <1>7, <1>8, <3>4
  <2>2. \A i \in a..(g - 1) : i \in a..b
    BY <1>3
  <2>3. Halved(d, o, f, r) = f[Lower(r)]
    BY <1>1, <1>2, <1>3, <1>8 DEF Halved
  <2>4. /\ \A i \in a..(g - 1) : d[i].offset = o => f[Lower(r)] = d[i].type
        /\ (\A i \in a..(g - 1) : d[i].offset # o) => f[Lower(r)] = None
    BY <1>5 DEF IsAnswer
  <2>5. QED
    BY <1>1, <2>1, <2>2, <2>3, <2>4 DEF IsAnswer
<1>9. CASE o > d[g].offset
  <2>1. \A i \in a..b : i \in (g + 1)..b \/ d[i].offset # o
    <3>1. SUFFICES ASSUME NEW i \in a..b, i \notin (g + 1)..b PROVE d[i].offset # o
      OBVIOUS
    <3>2. i = g \/ i < g
      BY <1>3, <3>1
    <3>3. i \in 1..n /\ g \in 1..n
      BY <1>3, <1>4
    <3>4. d[i].offset \in Nat /\ d[i].offset <= d[g].offset
      BY <1>6, <1>7, <3>2, <3>3
    <3>5. QED
      BY <1>7, <1>9, <3>4
  <2>2. \A i \in (g + 1)..b : i \in a..b
    BY <1>3
  <2>3. Halved(d, o, f, r) = f[Upper(r)]
    BY <1>1, <1>2, <1>3, <1>7, <1>9 DEF Halved
  <2>4. /\ \A i \in (g + 1)..b : d[i].offset = o => f[Upper(r)] = d[i].type
        /\ (\A i \in (g + 1)..b : d[i].offset # o) => f[Upper(r)] = None
    BY <1>5 DEF IsAnswer
  <2>5. QED
    BY <1>1, <2>1, <2>2, <2>3, <2>4 DEF IsAnswer
<1>10. CASE o = d[g].offset
  <2>1. Halved(d, o, f, r) = d[g].type
    BY <1>1, <1>2, <1>3, <1>7, <1>10 DEF Halved
  <2>2. \A i \in a..b : d[i].offset = o => i = g
    <3>1. SUFFICES ASSUME NEW i \in a..b, i # g PROVE d[i].offset # o
      OBVIOUS
    <3>2. i < g \/ g < i
      BY <1>3, <3>1
    <3>3. i \in 1..n /\ g \in 1..n
      BY <1>3, <1>4
    <3>4. QED
      BY <1>6, <1>7, <1>10, <3>2, <3>3
  <2>3. QED
    BY <1>1, <1>7, <1>10, <2>1, <2>2 DEF IsAnswer
<1>11. QED
  BY <1>7, <1>8, <1>9, <1>10

\* dexDataMapGet finds the entry of an offset if there is one.
LEMMA Found ==
  ASSUME NEW o \in Nat, InOrder(dataMap)
  PROVE  IsAnswer(dataMap, o, dexDataMapGet(o), <<1, Len(dataMap)>>)
<1>1. PICK d : d = dataMap
  OBVIOUS
<1>2. InOrder(d) /\ Len(d) \in Nat
  BY <1>1 DEF InOrder
<1>3. PICK n \in Nat : n = Len(d)
  BY <1>2
<1>4. PICK g : Answers(d, o, g, n) /\ dexDataMapGet(o) = g[<<1, n>>]
  BY <1>1, <1>2, <1>3, Searched
<1>5. PICK T : T = {m \in 0..n : \A r \in Ranges(d) : Size(r) <= m => IsAnswer(d, o, g[r], r)}
  OBVIOUS
<1>6. \A r \in Ranges(d) : Size(r) <= n /\ g[r] = Halved(d, o, g, r)
  BY <1>2, <1>3, <1>4, SizeType DEF Answers
<1>7. 0 \in T
  <2>1. ASSUME NEW r \in Ranges(d), Size(r) <= 0 PROVE IsAnswer(d, o, g[r], r)
    <3>1. ~(r[1] <= r[2]) /\ r[1] \in Nat /\ r[2] \in Nat
      BY <1>2, <2>1, SizeType DEF Ranges
    <3>2. g[r] = None
      BY <1>6, <3>1 DEF Halved
    <3>3. QED
      BY <3>1, <3>2 DEF IsAnswer
  <2>2. QED
    BY <1>3, <1>5, <2>1
<1>8. ASSUME NEW m \in 1..n, m - 1 \in T PROVE m \in T
  <2>1. ASSUME NEW r \in Ranges(d), Size(r) <= m PROVE IsAnswer(d, o, g[r], r)
    <3>1. CASE r[1] <= r[2]
      <4>1. /\ Lower(r) \in Ranges(d) /\ Upper(r) \in Ranges(d)
            /\ Size(Lower(r)) <= m - 1 /\ Size(Upper(r)) <= m - 1
        <5>1. Size(r) \in Nat
          BY <1>2, SizeType
        <5>2. QED
          BY <1>2, <1>3, <2>1, <3>1, <5>1, Halves
      <4>2. IsAnswer(d, o, g[Lower(r)], Lower(r)) /\ IsAnswer(d, o, g[Upper(r)], Upper(r))
        BY <1>5, <1>8, <4>1
      <4>3. QED
        BY <1>2, <1>6, <3>1, <4>2, HalfEnough
    <3>2. CASE ~(r[1] <= r[2])
      <4>1. Size(r) = 0
        BY <1>2, <3>2, SizeType
      <4>2. QED
        BY <1>5, <1>7, <4>1
    <3>3. QED
      BY <3>1, <3>2
  <2>2. m \in 0..n
    BY <1>3
  <2>3. QED
    BY <1>5, <2>1, <2>2
<1>9. \A m \in 0..n : m \in T
  BY <1>3, <1>7, <1>8, Upwards
<1>10. n \in T /\ <<1, n>> \in Ranges(d)
  BY <1>3, <1>9 DEF Ranges
<1>11. IsAnswer(d, o, g[<<1, n>>], <<1, n>>)
  BY <1>5, <1>6, <1>10
<1>12. QED
  BY <1>1, <1>3, <1>4, <1>11

-----------------------------------------------------------------------------
(***************************************************************************)
(* What the pass puts into the data map                                    *)
(***************************************************************************)
Known == \A s \in Range(file.map) : s.type \in IdTypes \cup DataTypes \cup {"header"}

InDataMap == [offset : Nat, type : DataTypes \ {"map_list"}]

IsData(s) == s.type \notin IdTypes \cup InPlace

Entered(s, n) ==
  \A i \in 1..n : \E j \in 1..Len(dataMap) : dataMap[j].offset = Starts(s)[i]

\* An entry stands for an item that begins at its offset.
Stands(entry) ==
  \E k \in 1..Len(file.map) :
    /\ file.map[k].type = entry.type
    /\ \E i \in 1..Len(file.map[k].items) : Starts(file.map[k])[i] = entry.offset

SectionsEntered(n) ==
  \A k \in 1..n : IsData(file.map[k]) => Entered(file.map[k], Len(file.map[k].items))

MapInv ==
  /\ dataMap \in Seq(InDataMap)
  /\ InOrder(dataMap)
  /\ \A j \in 1..Len(dataMap) : Stands(dataMap[j])
  /\ phase \in {"start", "map"} => dataMap = <<>>
  /\ phase \in {"swap", "cross"} => Known
  /\ phase = "swap" =>
       /\ \A j \in 1..Len(dataMap) : dataMap[j].offset <= offset
       /\ SectionsEntered(section - 1)
       /\ item # 0 /\ IsData(file.map[section]) => Entered(file.map[section], item - 1)
  /\ phase = "cross" => SectionsEntered(Len(file.map))

LEMMA MapInitially == Init => MapInv
<1> SUFFICES ASSUME Init PROVE MapInv
  OBVIOUS
<1>1. /\ dataMap = <<>> /\ phase = "start"
  BY DEF Init
<1>2. dataMap \in Seq(InDataMap) /\ Len(dataMap) = 0
  BY <1>1
<1>3. InOrder(dataMap)
  BY <1>2 DEF InOrder
<1>4. QED
  BY <1>1, <1>2, <1>3 DEF MapInv

\* dexDataMapAdd, called with offsets that do not decrease, keeps the order.
LEMMA Added ==
  ASSUME NEW d, d = dataMap, d \in Seq(InDataMap), InOrder(d), NEW start \in Nat,
         NEW type \in DataTypes \ {"map_list"},
         \A j \in 1..Len(d) : d[j].offset <= start,
         NEW e, e = dexDataMapAdd(start, type)
  PROVE  /\ e \in Seq(InDataMap) /\ InOrder(e)
         /\ \A j \in 1..Len(e) : e[j].offset <= start
         /\ \E j \in 1..Len(e) : e[j].offset = start
         /\ \A j \in 1..Len(d) : j \in 1..Len(e) /\ e[j] = d[j]
         /\ \A j \in 1..Len(e) :
              \/ j \in 1..Len(d) /\ e[j] = d[j]
              \/ e[j] = [offset |-> start, type |-> type]
<1>1. PICK n \in Nat : n = Len(d)
  BY DEF InOrder
<1>2. PICK entry : entry = [offset |-> start, type |-> type]
  OBVIOUS
<1>3. entry \in InDataMap /\ entry.offset = start
  BY <1>2 DEF InDataMap
<1>4. \A j \in 1..n : d[j].offset \in Nat /\ d[j].offset <= start
  BY <1>1 DEF InOrder
<1>5. CASE d # <<>> /\ d[n].offset >= start
  <2>1. e = d
    BY <1>1, <1>5 DEF dexDataMapAdd
  <2>2. n \in 1..n
    BY <1>1, <1>5
  <2>3. d[n].offset = start
    BY <1>4, <1>5, <2>2
  <2>4. QED
    BY <1>1, <2>1, <2>2, <2>3
<1>6. CASE ~(d # <<>> /\ d[n].offset >= start)
  <2>1. e = Append(d, entry)
    BY <1>1, <1>2, <1>6 DEF dexDataMapAdd
  <2>2. e \in Seq(InDataMap) /\ Len(e) = n + 1
    BY <1>1, <1>3, <2>1
  <2>3. e[n + 1] = entry /\ \A j \in 1..n : e[j] = d[j]
    BY <1>1, <1>3, <2>1
  <2>4. \A j \in 1..(n + 1) : j \in 1..n \/ j = n + 1
    BY <1>1
  <2>5. \A j \in 1..n : d[j].offset < start
    <3>1. SUFFICES ASSUME NEW j \in 1..n PROVE d[j].offset < start
      OBVIOUS
    <3>2. n \in 1..n /\ d # <<>> /\ d[n].offset \in Nat /\ d[n].offset < start
      BY <1>1, <1>4, <1>6, <3>1
    <3>3. j = n \/ j < n
      BY <1>1, <3>1
    <3>4. d[j].offset <= d[n].offset /\ d[j].offset \in Nat
      BY <1>1, <1>4, <3>1, <3>2, <3>3 DEF InOrder
    <3>5. QED
      BY <3>2, <3>4
  <2>6. \A j \in 1..(n + 1) : e[j].offset \in Nat /\ e[j].offset <= start
    BY <1>3, <1>4, <2>3, <2>4
  <2>7. \A i, j \in 1..(n + 1) : i < j => e[i].offset < e[j].offset
    <3>1. SUFFICES ASSUME NEW i \in 1..(n + 1), NEW j \in 1..(n + 1), i < j
                   PROVE  e[i].offset < e[j].offset
      OBVIOUS
    <3>2. i \in 1..n
      BY <1>1, <3>1
    <3>3. CASE j \in 1..n
      BY <1>1, <2>3, <3>1, <3>2, <3>3 DEF InOrder
    <3>4. CASE j = n + 1
      BY <1>3, <2>3, <2>5, <3>2, <3>4
    <3>5. QED
      BY <2>4, <3>3, <3>4
  <2>8. n + 1 \in 1..(n + 1) /\ \A j \in 1..n : j \in 1..(n + 1)
    BY <1>1
  <2>9. InOrder(e)
    BY <1>1, <2>2, <2>6, <2>7 DEF InOrder
  <2>10. \E j \in 1..Len(e) : e[j].offset = start
    BY <1>3, <2>2, <2>3, <2>8
  <2>11. QED
    BY <1>1, <1>2, <2>2, <2>3, <2>4, <2>6, <2>8, <2>9, <2>10
<1>7. QED
  BY <1>5, <1>6

LEMMA SameEntries ==
  ASSUME file' = file, dataMap' = dataMap
  PROVE  /\ Known' <=> Known
         /\ \A entry : Stands(entry)' <=> Stands(entry)
         /\ \A s, n : Entered(s, n)' <=> Entered(s, n)
         /\ \A n : SectionsEntered(n)' <=> SectionsEntered(n)
         /\ InOrder(dataMap)' <=> InOrder(dataMap)
BY DEF Known, Stands, Entered, SectionsEntered, InOrder

\* Every step that does not touch the map and stays out of the first pass.
LEMMA MapStill ==
  ASSUME MapInv, file' = file, dataMap' = dataMap,
         phase' \notin {"start", "map", "swap"}, phase' = "cross" => phase = "cross"
  PROVE  MapInv'
<1>1. /\ Known' <=> Known
      /\ \A entry : Stands(entry)' <=> Stands(entry)
      /\ SectionsEntered(Len(file.map))' <=> SectionsEntered(Len(file.map))
      /\ InOrder(dataMap)' <=> InOrder(dataMap)
  BY SameEntries DEF Known, Stands, SectionsEntered, Entered
<1>2. (\A j \in 1..Len(dataMap) : Stands(dataMap[j]))'
  BY <1>1 DEF MapInv, Stands
<1>3. QED
  BY <1>1, <1>2 DEF MapInv

\* A section is begun: the offset does not go back.
LEMMA MapBegin == IInv /\ MapInv /\ StartSection => MapInv'
<1> SUFFICES ASSUME IInv, MapInv, StartSection PROVE MapInv'
  OBVIOUS
<1>1. PICK s : s = file.map[section]
  OBVIOUS
<1>2. /\ phase = "swap" /\ item = 0 /\ section <= Len(file.map)
      /\ UNCHANGED <<file, dataMap>>
  BY DEF StartSection, Fail
<1>3. Swapping /\ section \in 1..Len(file.map) /\ offset \in Nat
  BY <1>2, FileType DEF IInv, Swapping
<1>4. Section(s) /\ s.offset \in Nat /\ file.mapOff \in Nat /\ file.headerSize \in Nat
  BY <1>1, <1>3, FileType DEF IInv, Section
<1>5. CASE ~SectionBegins(s)
  BY <1>1, <1>2, <1>5, MapStill DEF StartSection, Fail
<1>6. ASSUME SectionBegins(s) PROVE MapInv'
  <2>1. /\ offset <= s.offset /\ checkSection(s) /\ UNCHANGED phase
        /\ \/ s.type \in InPlace /\ section' = section + 1
             /\ offset' = EndOfSwappedBefore(s) /\ UNCHANGED item
           \/ s.type \notin InPlace /\ section' = section
             /\ offset' = s.offset /\ item' = 1
    BY <1>1, <1>6 DEF StartSection, SectionBegins, InPlace
  <2>2. offset' \in Nat /\ offset <= offset'
    <3>1. CASE s.type = "header"
      <4>1. s.offset = 0 /\ offset' = file.headerSize
        BY <2>1, <3>1 DEF checkSection, IdTypes, EndOfSwappedBefore, InPlace
      <4>2. QED
        BY <1>3, <1>4, <2>1, <4>1
    <3>2. CASE s.type = "map_list"
      <4>1. offset' = s.offset + MapListSize
        BY <2>1, <3>2 DEF EndOfSwappedBefore, InPlace
      <4>2. MapListSize \in Nat
        BY FileType DEF IInv, MapListSize
      <4>3. QED
        BY <1>3, <1>4, <2>1, <4>1, <4>2
    <3>3. CASE s.type \notin InPlace
      BY <1>4, <2>1, <3>3
    <3>4. QED
      BY <3>1, <3>2, <3>3 DEF InPlace
  <2>3. \A j \in 1..Len(dataMap) : dataMap[j].offset <= offset'
    <3>1. \A j \in 1..Len(dataMap) : dataMap[j].offset \in Nat /\ dataMap[j].offset <= offset
      BY <1>2 DEF MapInv, InOrder
    <3>2. QED
      BY <1>3, <2>2, <3>1
  <2>4. SectionsEntered(section' - 1)
    <3>1. CASE section' = section
      BY <1>2, <3>1 DEF MapInv
    <3>2. CASE section' = section + 1 /\ s.type \in InPlace
      <4>1. \A k \in 1..(section' - 1) : k \in 1..(section - 1) \/ k = section
        BY <1>3, <3>2
      <4>2. ~IsData(file.map[section])
        BY <1>1, <3>2 DEF IsData
      <4>3. SectionsEntered(section - 1)
        BY <1>2 DEF MapInv
      <4>4. QED
        BY <4>1, <4>2, <4>3 DEF SectionsEntered
    <3>3. QED
      BY <2>1, <3>1, <3>2
  <2>5. item' # 0 => Entered(file.map[section'], item' - 1)
    <3>1. item' # 0 => item' - 1 = 0
      BY <1>2, <2>1
    <3>2. QED
      BY <3>1 DEF Entered
  <2>6. SectionsEntered(section - 1)'
    BY <1>2, <2>4 DEF SectionsEntered, Entered
  <2>7. (item # 0 /\ IsData(file.map[section]) => Entered(file.map[section], item - 1))'
    BY <1>2, <2>5 DEF Entered
  <2>8. /\ Known' /\ InOrder(dataMap)'
        /\ (\A j \in 1..Len(dataMap) : Stands(dataMap[j]))'
    BY <1>2, SameEntries DEF MapInv, Stands
  <2>9. (\A j \in 1..Len(dataMap) : dataMap[j].offset <= offset)'
    BY <1>2, <2>3
  <2>10. dataMap' \in Seq(InDataMap) /\ phase' = "swap"
    BY <1>2, <2>1 DEF MapInv
  <2>11. QED
    BY <2>6, <2>7, <2>8, <2>9, <2>10 DEF MapInv
<1>7. QED
  BY <1>5, <1>6

\* An item is swapped: if it is data, it is in the map then.
LEMMA MapSwap == IInv /\ MapInv /\ SwapItem => MapInv'
<1> SUFFICES ASSUME IInv, MapInv, SwapItem PROVE MapInv'
  OBVIOUS
<1>1. PICK s, i : s = file.map[section] /\ i = item
  OBVIOUS
<1>2. /\ phase = "swap" /\ section <= Len(file.map) /\ item \in DOMAIN s.items
      /\ UNCHANGED <<file, section>>
  BY <1>1 DEF SwapItem, Fail
<1>3. Swapping /\ section \in 1..Len(file.map) /\ offset \in Nat /\ item \in Nat
      /\ Len(file.map) \in Nat
  BY <1>2, FileType DEF IInv, Swapping
<1>4. /\ Section(s) /\ i \in 1..Len(s.items) /\ i # 0 /\ Len(s.items) \in Nat
      /\ s.items[i].len \in Nat
  <2>1. Section(s)
    BY <1>1, <1>3, FileType DEF IInv
  <2>2. i \in DOMAIN s.items
    BY <1>1, <1>2
  <2>3. QED
    BY <2>1, <2>2 DEF Section
<1>5. PICK start, end : start = ItemStart(s) /\ end = start + s.items[i].len
  OBVIOUS
<1>6. CASE phase' = "failed" /\ dataMap' = dataMap
  BY <1>2, <1>6, MapStill
<1>7. ASSUME /\ dataMap' = IF isDataSectionType(s.type) THEN dexDataMapAdd(start, s.type)
                           ELSE dataMap
             /\ offset' = end /\ item' = item + 1
             /\ phase' = phase
      PROVE  MapInv'
  <2>1. offset = Behind(s, i) /\ s.type \notin InPlace
    BY <1>1, <1>3, <1>4 DEF Swapping
  <2>2. start = Starts(s)[i] /\ start \in Nat
    BY <1>4, <1>5, <2>1, StartsStep DEF ItemStart
  <2>3. start >= offset /\ end \in Nat /\ start <= end
    <3>1. start >= offset
      BY <1>3, <1>5, AlignedType DEF ItemStart
    <3>2. QED
      BY <1>4, <1>5, <2>2, <3>1
  <2>4. PICK d, e : d = dataMap /\ e = dataMap'
    OBVIOUS
  <2>5. /\ d \in Seq(InDataMap) /\ InOrder(d)
        /\ \A j \in 1..Len(d) : d[j].offset \in Nat /\ d[j].offset <= start
    <3>1. d \in Seq(InDataMap) /\ InOrder(d)
      BY <2>4 DEF MapInv
    <3>2. \A j \in 1..Len(d) : d[j].offset \in Nat /\ d[j].offset <= offset
      BY <1>2, <2>4, <3>1 DEF MapInv, InOrder
    <3>3. QED
      BY <1>3, <2>2, <2>3, <3>1, <3>2
  <2>6. /\ e \in Seq(InDataMap) /\ InOrder(e)
        /\ \A j \in 1..Len(e) : e[j].offset <= start
        /\ IsData(s) => \E j \in 1..Len(e) : e[j].offset = start
        /\ \A j \in 1..Len(d) : j \in 1..Len(e) /\ e[j] = d[j]
        /\ \A j \in 1..Len(e) :
             \/ j \in 1..Len(d) /\ e[j] = d[j]
             \/ e[j] = [offset |-> start, type |-> s.type]
    <3>1. CASE isDataSectionType(s.type)
      <4>1. s \in Range(file.map)
        BY <1>1, <1>3, FileType DEF IInv, Range
      <4>2. s.type \in DataTypes \ {"map_list"}
        BY <1>2, <2>1, <3>1, <4>1 DEF MapInv, Known, isDataSectionType, InPlace
      <4>3. e = dexDataMapAdd(start, s.type)
        BY <1>7, <2>4, <3>1
      <4>4. PICK type : type = s.type
        OBVIOUS
      <4>5. QED
        BY <2>2, <2>4, <2>5, <4>2, <4>3, <4>4, Added
    <3>2. CASE ~isDataSectionType(s.type)
      <4>1. ~IsData(s) /\ e = d
        BY <1>7, <2>4, <3>2 DEF isDataSectionType, IsData, InPlace
      <4>2. QED
        BY <2>5, <4>1
    <3>3. QED
      BY <3>1, <3>2
  <2>7. \A j \in 1..Len(e) : Stands(e[j])'
    <3>1. Stands([offset |-> start, type |-> s.type])
      BY <1>1, <1>3, <1>4, <2>2 DEF Stands
    <3>2. \A j \in 1..Len(d) : Stands(d[j])
      BY <2>4 DEF MapInv
    <3>3. \A j \in 1..Len(e) : Stands(e[j])
      BY <2>6, <3>1, <3>2
    <3>4. QED
      BY <1>2, <3>3 DEF Stands
  <2>8. \A t, n : Entered(t, n) => Entered(t, n)'
    BY <2>4, <2>6 DEF Entered
  <2>9. SectionsEntered(section - 1)'
    <3>1. SectionsEntered(section - 1)
      BY <1>2 DEF MapInv
    <3>2. QED
      BY <1>2, <2>8, <3>1 DEF SectionsEntered
  <2>10. IsData(s) => Entered(s, i)'
    <3>1. SUFFICES ASSUME IsData(s) PROVE Entered(s, i)'
      OBVIOUS
    <3>2. Entered(s, i - 1)'
      <4>1. Entered(s, i - 1)
        BY <1>1, <1>2, <1>4, <3>1 DEF MapInv
      <4>2. QED
        BY <2>8, <4>1
    <3>3. \A m \in 1..i : m = i \/ m \in 1..(i - 1)
      BY <1>4
    <3>4. \E j \in 1..Len(dataMap') : dataMap'[j].offset = Starts(s)[i]
      BY <2>2, <2>4, <2>6, <3>1
    <3>5. QED
      BY <3>2, <3>3, <3>4 DEF Entered
  <2>11. (item # 0 /\ IsData(file.map[section]) => Entered(file.map[section], item - 1))'
    <3>1. item' - 1 = i
      BY <1>1, <1>3, <1>7
    <3>2. QED
      BY <1>1, <1>2, <2>10, <3>1 DEF Entered
  <2>12. (\A j \in 1..Len(dataMap) : dataMap[j].offset <= offset)'
    <3>1. \A j \in 1..Len(e) : e[j].offset \in Nat /\ e[j].offset <= start
      BY <2>6 DEF InOrder
    <3>2. \A j \in 1..Len(e) : e[j].offset <= end
      BY <2>2, <2>3, <3>1
    <3>3. QED
      BY <1>7, <2>4, <3>2
  <2>13. Known'
    BY <1>2 DEF MapInv, Known
  <2>14. /\ dataMap' \in Seq(InDataMap) /\ InOrder(dataMap)'
         /\ (\A j \in 1..Len(dataMap) : Stands(dataMap[j]))'
    BY <2>4, <2>6, <2>7 DEF InOrder, Stands
  <2>15. phase' = "swap"
    BY <1>2, <1>7
  <2>16. QED
    BY <2>9, <2>11, <2>12, <2>13, <2>14, <2>15 DEF MapInv
<1>8. QED
  BY <1>1, <1>5, <1>6, <1>7 DEF SwapItem, Fail

\* A section is left: all of its items are in the map.
LEMMA MapEnd == IInv /\ MapInv /\ EndSection => MapInv'
<1> SUFFICES ASSUME IInv, MapInv, EndSection PROVE MapInv'
  OBVIOUS
<1>1. PICK s : s = file.map[section]
  OBVIOUS
<1>2. /\ phase = "swap" /\ section <= Len(file.map) /\ item > Len(s.items)
      /\ UNCHANGED <<file, dataMap>>
  BY <1>1 DEF EndSection, Fail
<1>3. Swapping /\ section \in 1..Len(file.map) /\ item \in Nat /\ Len(s.items) \in Nat
  BY <1>1, <1>2, FileType DEF IInv, Swapping, Section
<1>4. item # 0 /\ item - 1 = Len(s.items)
  BY <1>1, <1>2, <1>3 DEF Swapping
<1>5. CASE phase' = "failed"
  BY <1>2, <1>5, MapStill
<1>6. ASSUME section' = section + 1, item' = 0, UNCHANGED <<phase, offset>> PROVE MapInv'
  <2>1. SectionsEntered(section - 1) /\ (IsData(s) => Entered(s, Len(s.items)))
    BY <1>1, <1>2, <1>4 DEF MapInv
  <2>2. SectionsEntered(section)
    <3>1. \A k \in 1..section : k \in 1..(section - 1) \/ k = section
      BY <1>3
    <3>2. QED
      BY <1>1, <2>1, <3>1 DEF SectionsEntered
  <2>3. SectionsEntered(section - 1)'
    <3>1. section' - 1 = section
      BY <1>3, <1>6
    <3>2. QED
      BY <1>2, <2>2, <3>1 DEF SectionsEntered, Entered
  <2>4. /\ Known' /\ InOrder(dataMap)'
        /\ (\A j \in 1..Len(dataMap) : Stands(dataMap[j]))'
    BY <1>2, SameEntries DEF MapInv, Stands
  <2>5. (\A j \in 1..Len(dataMap) : dataMap[j].offset <= offset)'
    BY <1>2, <1>6 DEF MapInv
  <2>6. dataMap' \in Seq(InDataMap) /\ phase' = "swap" /\ item' = 0
    BY <1>2, <1>6 DEF MapInv
  <2>7. QED
    BY <2>3, <2>4, <2>5, <2>6 DEF MapInv
<1>7. QED
  BY <1>1, <1>5, <1>6 DEF EndSection, Fail

LEMMA MapStep == IInv /\ MapInv /\ [Next]_vars => MapInv'
<1> SUFFICES ASSUME IInv, MapInv, [Next]_vars PROVE MapInv'
  OBVIOUS
<1>1. CASE UNCHANGED <<file, dataMap>> /\ phase' = "failed"
  BY <1>1, MapStill
<1>2. CASE CheckHeader \/ CheckMap
  <2>1. UNCHANGED <<file, dataMap, section, item, offset>> /\ phase \in {"start", "map"}
    BY <1>2 DEF CheckHeader, CheckMap, Fail
  <2>2. phase' = "swap" => Known'
    BY <1>2 DEF CheckHeader, CheckMap, Fail, swapMap, Known
  <2>3. dataMap = <<>> /\ section = 1 /\ item = 0
    BY <2>1 DEF MapInv, IInv
  <2>4. /\ InOrder(dataMap)' /\ (\A j \in 1..Len(dataMap) : Stands(dataMap[j]))'
        /\ (\A j \in 1..Len(dataMap) : dataMap[j].offset <= offset)'
        /\ dataMap' \in Seq(InDataMap) /\ SectionsEntered(section - 1)'
    BY <2>1, <2>3 DEF MapInv, InOrder, SectionsEntered
  <2>5. phase' \in {"map", "swap", "failed"}
    BY <1>2 DEF CheckHeader, CheckMap, Fail
  <2>6. QED
    BY <2>1, <2>2, <2>3, <2>4, <2>5 DEF MapInv
<1>3. CASE StartSection
  BY <1>3, MapBegin
<1>4. CASE SwapItem
  BY <1>4, MapSwap
<1>5. CASE EndSection
  BY <1>5, MapEnd
<1>6. CASE EndSwap
  <2>1. /\ phase = "swap" /\ section > Len(file.map) /\ phase' = "cross"
        /\ UNCHANGED <<file, dataMap>>
    BY <1>6 DEF EndSwap
  <2>2. section - 1 = Len(file.map)
    BY <2>1, FileType DEF IInv, Swapping
  <2>3. SectionsEntered(Len(file.map)) /\ Known
    BY <2>1, <2>2 DEF MapInv
  <2>4. SectionsEntered(Len(file.map))'
    BY <2>1, <2>3 DEF SectionsEntered, Entered
  <2>5. /\ Known' /\ InOrder(dataMap)'
        /\ (\A j \in 1..Len(dataMap) : Stands(dataMap[j]))'
        /\ dataMap' \in Seq(InDataMap)
    BY <2>1, <2>3, SameEntries DEF MapInv, Stands
  <2>6. QED
    BY <2>1, <2>4, <2>5 DEF MapInv
<1>7. CASE CrossItem \/ CrossItemUnverified \/ EndCrossSection \/ Accept \/ Overrun
  BY <1>7, MapStill DEF CrossItem, CrossItemUnverified, EndCrossSection, Accept, Overrun,
                        Crossing, Fail
<1>8. CASE UNCHANGED vars
  <2>1. UNCHANGED <<file, dataMap, phase, section, item, offset>>
    BY <1>8 DEF vars
  <2>2. /\ SectionsEntered(section - 1)' <=> SectionsEntered(section - 1)
        /\ SectionsEntered(Len(file.map))' <=> SectionsEntered(Len(file.map))
        /\ Entered(file.map[section], item - 1)' <=> Entered(file.map[section], item - 1)
    BY <2>1 DEF SectionsEntered, Entered
  <2>3. /\ Known' <=> Known
        /\ InOrder(dataMap)' <=> InOrder(dataMap)
        /\ (\A j \in 1..Len(dataMap) : Stands(dataMap[j]))'
    BY <2>1, SameEntries DEF MapInv, Stands
  <2>4. QED
    BY <2>1, <2>2, <2>3 DEF MapInv
<1>9. QED
  BY <1>2, <1>3, <1>4, <1>5, <1>6, <1>7, <1>8 DEF Next

LEMMA BeginsThere ==
  ASSUME NEW f, f = file, f \in Files, NEW type, NEW o
  PROVE  ItemsAt(type, o) # {} <=>
           \E k \in 1..Len(f.map) :
             /\ f.map[k].type = type
             /\ \E i \in 1..Len(f.map[k].items) : Starts(f.map[k])[i] = o
<1>1. /\ Len(f.map) \in Nat /\ DOMAIN f.map = 1..Len(f.map)
      /\ \A k \in 1..Len(f.map) : DOMAIN f.map[k].items = 1..Len(f.map[k].items)
  BY FileType DEF Section
<1>2. ItemsAt(type, o) # {} <=>
        \E s \in Range(f.map) : s.type = type /\ \E i \in DOMAIN s.items : Starts(s)[i] = o
  BY DEF ItemsAt, Sections
<1>3. QED
  BY <1>1, <1>2 DEF Range

\* With all of the first pass behind it, the map is complete, and so is the search.
LEMMA MapComplete == IInv /\ MapInv => DataMapComplete
<1> SUFFICES ASSUME IInv, MapInv, phase = "cross", NEW o \in 0..file.fileLen
             PROVE  IF \E t \in DataTypes \ {"map_list"} : ItemsAt(t, o) # {}
                    THEN ItemsAt(dexDataMapGet(o), o) # {}
                    ELSE dexDataMapGet(o) = None
  BY DEF DataMapComplete
<1>1. PICK f, d, answer : f = file /\ d = dataMap /\ answer = dexDataMapGet(o)
  OBVIOUS
<1>2. f \in Files /\ o \in Nat
  BY <1>1, FilesAssumption DEF IInv
<1>3. /\ d \in Seq(InDataMap) /\ InOrder(d) /\ SectionsEntered(Len(f.map))
      /\ \A j \in 1..Len(d) : Stands(d[j])
  BY <1>1 DEF MapInv
<1>4. /\ \A j \in 1..Len(d) : d[j].offset = o => answer = d[j].type
      /\ (\A j \in 1..Len(d) : d[j].offset # o) => answer = None
  <2>1. IsAnswer(dataMap, o, dexDataMapGet(o), <<1, Len(dataMap)>>)
    BY <1>1, <1>2, <1>3, Found
  <2>2. QED
    BY <1>1, <2>1 DEF IsAnswer
<1>5. \A j \in 1..Len(d) : d[j].type \in DataTypes \ {"map_list"}
  <2>1. \A j \in 1..Len(d) : d[j] \in InDataMap
    BY <1>3 DEF InOrder
  <2>2. QED
    BY <2>1 DEF InDataMap
<1>6. \A j \in 1..Len(d) : d[j].offset = o => ItemsAt(d[j].type, o) # {}
  <2>1. SUFFICES ASSUME NEW j \in 1..Len(d), d[j].offset = o
                 PROVE  ItemsAt(d[j].type, o) # {}
    OBVIOUS
  <2>2. PICK type : type = d[j].type
    OBVIOUS
  <2>3. Stands(d[j])
    BY <1>3
  <2>4. \E k \in 1..Len(f.map) :
          /\ f.map[k].type = type
          /\ \E i \in 1..Len(f.map[k].items) : Starts(f.map[k])[i] = o
    BY <1>1, <2>1, <2>2, <2>3 DEF Stands
  <2>5. QED
    BY <1>1, <1>2, <2>2, <2>4, BeginsThere
<1>7. ASSUME NEW t \in DataTypes \ {"map_list"}, ItemsAt(t, o) # {}
      PROVE  \E j \in 1..Len(d) : d[j].offset = o
  <2>1. PICK k \in 1..Len(f.map) :
          /\ f.map[k].type = t
          /\ \E i \in 1..Len(f.map[k].items) : Starts(f.map[k])[i] = o
    BY <1>1, <1>2, <1>7, BeginsThere
  <2>2. IsData(f.map[k])
    BY <2>1 DEF IsData, DataTypes, IdTypes, InPlace
  <2>3. QED
    BY <1>1, <1>3, <2>1, <2>2 DEF SectionsEntered, Entered
<1>8. CASE \E t \in DataTypes \ {"map_list"} : ItemsAt(t, o) # {}
  <2>1. PICK j \in 1..Len(d) : d[j].offset = o
    BY <1>7, <1>8
  <2>2. ItemsAt(answer, o) # {}
    BY <1>4, <1>6, <2>1
  <2>3. QED
    BY <1>1, <1>8, <2>2
<1>9. CASE ~\E t \in DataTypes \ {"map_list"} : ItemsAt(t, o) # {}
  BY <1>1, <1>4, <1>5, <1>6, <1>9
<1>10. QED
  BY <1>8, <1>9

(***************************************************************************)
(* What dexDataMapAdd has put into the map in the first pass dexDataMapGet *)
(* finds in the second, and nothing else, whatever items a file has and    *)
(* wherever they lie.                                                      *)
(***************************************************************************)
THEOREM DataMapCompleteHolds == Spec => []DataMapComplete
<1>1. Init => IInv /\ MapInv
  BY Initially, MapInitially
<1>2. IInv /\ MapInv /\ [Next]_vars => (IInv /\ MapInv)'
  BY Step, MapStep
<1>3. QED
  BY MapComplete, <1>1, <1>2, PTL DEF Spec

-----------------------------------------------------------------------------
(***************************************************************************)
(* What the first pass has looked at                                       *)
(***************************************************************************)
Intra(s, n) == \A i \in 1..n : IntraVerify(s.type, s.items[i])

SectionsIntra(n) ==
  \A k \in 1..n :
    /\ checkSection(file.map[k])
    /\ file.map[k].type \notin InPlace => Intra(file.map[k], Len(file.map[k].items))

\* What swapMap makes sure of: one section after the other, no two of a type, one of the
\* header, and no entries of a table that is not there.
Mapped ==
  /\ \A i \in 1..(Len(file.map) - 1) : file.map[i].offset < file.map[i + 1].offset
  /\ \E s \in Range(file.map) : s.type = "header"
  /\ \A i, j \in DOMAIN file.map : file.map[i].type = file.map[j].type => i = j
  /\ \A t \in IdTypes : Sections(t) = {} => file.ids[t].size = 0

IntraInv ==
  /\ phase \in {"swap", "cross", "undefined", "accepted"} => Mapped
  /\ phase = "swap" =>
       /\ SectionsIntra(section - 1)
       /\ item # 0 => checkSection(file.map[section]) /\ Intra(file.map[section], item - 1)
  /\ phase \in {"cross", "undefined", "accepted"} => SectionsIntra(Len(file.map))

\* The visitors of the first pass, and the checks of bounds, look at nothing but the file.
LEMMA SameIntra ==
  ASSUME file' = file
  PROVE  /\ Mapped' <=> Mapped
         /\ \A s : checkSection(s)' <=> checkSection(s)
         /\ \A type, i : IntraVerify(type, i)' <=> IntraVerify(type, i)
<1>1. Mapped' <=> Mapped
  BY DEF Mapped, Sections
<1>2. ASSUME NEW s PROVE checkSection(s)' <=> checkSection(s)
  BY DEF checkSection, DataEnd
<1>3. ASSUME NEW type, NEW i PROVE IntraVerify(type, i)' <=> IntraVerify(type, i)
  BY DEF IntraVerify, swapStringIdItem, swapTypeIdItem, swapProtoIdItem, swapFieldIdItem,
         swapMethodIdItem, swapClassDefItem, swapTypeList, swapAnnotationSetRefList,
         swapAnnotationSetItem, intraVerifyClassDataItem, verifyClassDataItem0, verifyFields,
         verifyMethods, swapCodeItem, swapTriesAndCatches, setHandlerOffsAndVerify, HandlerOffs,
         intraVerifyStringDataItem, intraVerifyDebugInfoItem, intraVerifyAnnotationItem,
         verifyEncodedAnnotation, verifyEncodedValues, intraVerifyEncodedArrayItem,
         swapAnnotationsDirectoryItem, swapAnnotations, AllIndex, Index, IndexOrNone
<1>4. QED
  BY <1>1, <1>2, <1>3

LEMMA IntraInitially == Init => IntraInv
BY DEF Init, IntraInv

LEMMA IntraStep == IInv /\ IntraInv /\ [Next]_vars => IntraInv'
<1> SUFFICES ASSUME IInv, IntraInv, [Next]_vars PROVE IntraInv'
  OBVIOUS
<1>1. file' = file
  BY DEF Next, vars, CheckHeader, CheckMap, StartSection, SwapItem, EndSection, EndSwap, CrossItem,
         CrossItemUnverified, EndCrossSection, Accept, Overrun, Fail
<1>2. /\ Mapped' <=> Mapped
      /\ \A s : checkSection(s)' <=> checkSection(s)
      /\ \A type, i : IntraVerify(type, i)' <=> IntraVerify(type, i)
  BY <1>1, SameIntra
<1>3. ASSUME NEW s, NEW n PROVE Intra(s, n)' <=> Intra(s, n)
  BY <1>2 DEF Intra
<1>4. ASSUME NEW n PROVE SectionsIntra(n)' <=> SectionsIntra(n)
  BY <1>1, <1>2, <1>3 DEF SectionsIntra
<1>5. CASE phase' = "failed" \/ phase' = "overrun" \/ phase' = "map" \/ phase' = "start"
  BY <1>5 DEF IntraInv
<1>6. CASE CheckMap /\ phase' = "swap"
  <2>1. Mapped /\ section' = 1 /\ item' = 0
    BY <1>6 DEF CheckMap, Fail, IInv, swapMap, Mapped
  <2>2. SectionsIntra(0)
    BY DEF SectionsIntra
  <2>3. SectionsIntra(section - 1)'
    <3>1. SectionsIntra(0)'
      BY <1>4, <2>2
    <3>2. (section - 1)' = 0
      BY <2>1
    <3>3. QED
      BY <3>1, <3>2 DEF SectionsIntra
  <2>4. QED
    BY <1>2, <1>6, <2>1, <2>3 DEF IntraInv
<1>7. CASE StartSection /\ phase' = "swap"
  <2>1. PICK s : s = file.map[section]
    OBVIOUS
  <2>2. /\ phase = "swap" /\ checkSection(s)
        /\ \/ s.type \in InPlace /\ section' = section + 1 /\ item' = item /\ item = 0
           \/ section' = section /\ item' = 1
    BY <1>7, <2>1 DEF StartSection, SectionBegins, Fail, InPlace
  <2>3. section \in Nat /\ Mapped /\ SectionsIntra(section - 1)
    BY <2>2 DEF IInv, Swapping, IntraInv
  <2>4. CASE s.type \in InPlace /\ section' = section + 1 /\ item' = item /\ item = 0
    <3>1. SectionsIntra(section)
      <4>1. \A k \in 1..section : k \in 1..(section - 1) \/ k = section
        BY <2>3
      <4>2. QED
        BY <2>1, <2>2, <2>3, <2>4, <4>1 DEF SectionsIntra
    <3>2. (section - 1)' = section
      BY <2>3, <2>4
    <3>3. SectionsIntra(section - 1)'
      BY <1>1, <1>2, <1>3, <3>1, <3>2 DEF SectionsIntra
    <3>4. QED
      BY <1>2, <1>7, <2>3, <2>4, <3>3 DEF IntraInv
  <2>5. CASE section' = section /\ item' = 1
    <3>1. SectionsIntra(section - 1)'
      BY <1>1, <1>2, <1>3, <2>3, <2>5 DEF SectionsIntra
    <3>2. checkSection(file.map[section])'
      BY <1>1, <1>2, <2>1, <2>2, <2>5
    <3>3. Intra(file.map[section], item - 1)'
      BY <2>5 DEF Intra
    <3>4. QED
      BY <1>2, <1>7, <2>3, <3>1, <3>2, <3>3 DEF IntraInv
  <2>6. QED
    BY <2>2, <2>4, <2>5
<1>8. CASE SwapItem /\ phase' = "swap"
  <2>1. PICK s : s = file.map[section]
    OBVIOUS
  <2>2. /\ phase = "swap" /\ item \in DOMAIN s.items /\ IntraVerify(s.type, s.items[item])
        /\ section' = section /\ item' = item + 1 /\ section <= Len(file.map)
    BY <1>8, <2>1 DEF SwapItem, Fail
  <2>3. section \in Nat /\ Mapped /\ SectionsIntra(section - 1) /\ item \in Nat
    BY <2>2 DEF IInv, Swapping, IntraInv
  <2>4. item # 0
    <3>1. section \in 1..Len(file.map)
      BY <2>2, FileType DEF IInv, Swapping
    <3>2. DOMAIN s.items = 1..Len(s.items)
      BY <2>1, <3>1, FileType DEF IInv, Section
    <3>3. QED
      BY <2>2, <3>2
  <2>5. checkSection(s) /\ Intra(s, item - 1)
    BY <2>1, <2>2, <2>4 DEF IntraInv
  <2>6. Intra(s, item)
    <3>1. \A i \in 1..item : i \in 1..(item - 1) \/ i = item
      BY <2>3
    <3>2. QED
      BY <2>2, <2>5, <3>1 DEF Intra
  <2>7. SectionsIntra(section - 1)'
    BY <1>1, <1>2, <1>3, <2>2, <2>3 DEF SectionsIntra
  <2>8. file.map[section]' = s
    BY <1>1, <2>1, <2>2
  <2>9. (item - 1)' = item
    BY <2>2, <2>3
  <2>10. checkSection(file.map[section])'
    BY <1>1, <1>2, <2>1, <2>2, <2>5
  <2>11. Intra(file.map[section], item - 1)'
    BY <1>2, <2>6, <2>8, <2>9 DEF Intra
  <2>12. QED
    BY <1>2, <1>8, <2>3, <2>7, <2>10, <2>11 DEF IntraInv
<1>9. CASE EndSection /\ phase' = "swap"
  <2>1. PICK s : s = file.map[section]
    OBVIOUS
  <2>2. /\ phase = "swap" /\ section <= Len(file.map) /\ item > Len(s.items)
        /\ section' = section + 1 /\ item' = 0
    BY <1>9, <2>1 DEF EndSection, Fail
  <2>3. section \in Nat /\ Mapped /\ SectionsIntra(section - 1) /\ item \in Nat
    BY <2>2 DEF IInv, Swapping, IntraInv
  <2>4. section \in 1..Len(file.map)
    BY <2>2, FileType DEF IInv, Swapping
  <2>5. Len(s.items) \in Nat
    BY <2>1, <2>4, FileType DEF IInv, Section
  <2>6. item # 0 /\ item = Len(s.items) + 1
    <3>1. item # 0
      BY <2>2, <2>3, <2>5
    <3>2. item \in 1..(Len(s.items) + 1)
      BY <2>1, <2>2, <3>1 DEF IInv, Swapping
    <3>3. QED
      BY <2>2, <2>5, <3>1, <3>2
  <2>7. checkSection(s) /\ Intra(s, Len(s.items))
    <3>1. item - 1 = Len(s.items)
      BY <2>5, <2>6
    <3>2. QED
      BY <2>1, <2>2, <2>6, <3>1 DEF IntraInv
  <2>8. SectionsIntra(section)
    <3>1. \A k \in 1..section : k \in 1..(section - 1) \/ k = section
      BY <2>3
    <3>2. QED
      BY <2>1, <2>3, <2>7, <3>1 DEF SectionsIntra
  <2>9. (section - 1)' = section
    BY <2>2, <2>3
  <2>10. SectionsIntra(section - 1)'
    BY <1>1, <1>2, <1>3, <2>8, <2>9 DEF SectionsIntra
  <2>11. QED
    BY <1>2, <1>9, <2>2, <2>3, <2>10 DEF IntraInv
<1>10. CASE EndSwap
  <2>1. phase = "swap" /\ section > Len(file.map) /\ phase' = "cross"
    BY <1>10 DEF EndSwap
  <2>2. section - 1 = Len(file.map)
    BY <2>1, FileType DEF IInv, Swapping
  <2>3. SectionsIntra(Len(file.map)) /\ Mapped
    BY <2>1, <2>2 DEF IntraInv
  <2>4. SectionsIntra(Len(file.map))'
    BY <1>1, <1>2, <1>3, <2>3 DEF SectionsIntra
  <2>5. QED
    BY <1>2, <2>1, <2>3, <2>4 DEF IntraInv
<1>11. CASE phase \in {"cross", "undefined", "accepted"}
              /\ phase' \in {"cross", "undefined", "accepted"}
  <2>1. SectionsIntra(Len(file.map))'
    BY <1>1, <1>2, <1>3, <1>11 DEF SectionsIntra, IntraInv
  <2>2. QED
    BY <1>2, <1>11, <2>1 DEF IntraInv
<1>12. CASE UNCHANGED vars
  <2>1. section' = section /\ item' = item /\ phase' = phase
    BY <1>12 DEF vars
  <2>2. /\ SectionsIntra(section - 1)' <=> SectionsIntra(section - 1)
        /\ SectionsIntra(Len(file.map))' <=> SectionsIntra(Len(file.map))
        /\ checkSection(file.map[section])' <=> checkSection(file.map[section])
        /\ Intra(file.map[section], item - 1)' <=> Intra(file.map[section], item - 1)
    BY <1>1, <1>2, <2>1 DEF SectionsIntra, Intra
  <2>3. QED
    BY <1>2, <2>1, <2>2 DEF IntraInv
<1>13. QED
  <2>1. CASE CheckHeader
    BY <2>1, <1>5 DEF CheckHeader, Fail
  <2>2. CASE CheckMap
    BY <2>2, <1>5, <1>6 DEF CheckMap, Fail
  <2>3. CASE StartSection
    BY <2>3, <1>5, <1>7 DEF StartSection, Fail
  <2>4. CASE SwapItem
    BY <2>4, <1>5, <1>8 DEF SwapItem, Fail
  <2>5. CASE EndSection
    BY <2>5, <1>5, <1>9 DEF EndSection, Fail
  <2>6. CASE CrossItem \/ CrossItemUnverified \/ EndCrossSection \/ Accept \/ Overrun
    BY <2>6, <1>5, <1>11 DEF CrossItem, CrossItemUnverified, EndCrossSection, Accept, Overrun,
                             Crossing, Fail
  <2>7. QED
    BY <1>10, <1>12, <2>1, <2>2, <2>3, <2>4, <2>5, <2>6 DEF Next

-----------------------------------------------------------------------------
(***************************************************************************)
(* What the second pass has looked at                                      *)
(***************************************************************************)
CrossedItem(s, i) ==
  /\ Readable(s.type, s.items[i])
  /\ \E before :
       /\ s.type = "class_def" => {s.items[j].classIdx : j \in 1..(i - 1)} \subseteq before
       /\ CrossVerify(s.type, s.items[i], IF i = 1 THEN None ELSE s.items[i - 1], before)

Crossed(s, n) == s.type \in CrossTypes => \A i \in 1..n : CrossedItem(s, i)

SectionsCrossed(n) == \A k \in 1..n : Crossed(file.map[k], Len(file.map[k].items))

CrossInv ==
  /\ phase \in {"cross", "undefined"} =>
       /\ section \in 1..(Len(file.map) + 1) /\ item \in Nat \ {0}
       /\ SectionsCrossed(section - 1)
       /\ section <= Len(file.map) /\ file.map[section].type \in CrossTypes =>
            /\ item <= Len(file.map[section].items) + 1
            /\ Crossed(file.map[section], item - 1)
            /\ file.map[section].type = "class_def" =>
                 {file.map[section].items[j].classIdx : j \in 1..(item - 1)} \subseteq defined
  /\ phase = "undefined" =>
       /\ section <= Len(file.map) /\ file.map[section].type \in CrossTypes
       /\ item <= Len(file.map[section].items)
       /\ ~Readable(file.map[section].type, file.map[section].items[item])
  /\ phase = "accepted" => SectionsCrossed(Len(file.map))

\* The visitors of the second pass look at nothing but the file and the data map.
LEMMA SameLookup ==
  ASSUME file' = file, dataMap' = dataMap
  PROVE  /\ \A o, type : dexDataMapVerify(o, type)' <=> dexDataMapVerify(o, type)
         /\ \A o, type : dexDataMapVerify0Ok(o, type)' <=> dexDataMapVerify0Ok(o, type)
         /\ \A type : Sections(type)' = Sections(type)
         /\ \A o, type : ItemsAt(type, o)' = ItemsAt(type, o)
         /\ \A o, type : ItemAt(type, o)' = ItemAt(type, o)
         /\ \A type, idx : Entry(type, idx)' = Entry(type, idx)
         /\ \A type, idx : HasEntry(type, idx)' <=> HasEntry(type, idx)
         /\ \A o : TypeList(o)' = TypeList(o)
         /\ \A o : StringAt(o)' = StringAt(o)
         /\ \A idx : String(idx)' = String(idx)
         /\ \A idx : Descriptor(idx)' = Descriptor(idx)
<1>1. ASSUME NEW o PROVE dexDataMapGet(o)' = dexDataMapGet(o)
  BY DEF dexDataMapGet
<1>2. ASSUME NEW o, NEW type PROVE dexDataMapVerify(o, type)' <=> dexDataMapVerify(o, type)
  BY <1>1 DEF dexDataMapVerify
<1>3. ASSUME NEW o, NEW type
      PROVE  dexDataMapVerify0Ok(o, type)' <=> dexDataMapVerify0Ok(o, type)
  BY <1>2 DEF dexDataMapVerify0Ok
<1>4. ASSUME NEW type PROVE Sections(type)' = Sections(type)
  BY DEF Sections
<1>5. ASSUME NEW type, NEW o PROVE ItemsAt(type, o)' = ItemsAt(type, o)
  BY DEF ItemsAt, Sections
<1>6. ASSUME NEW type, NEW o PROVE ItemAt(type, o)' = ItemAt(type, o)
  BY DEF ItemAt, ItemsAt, Sections
<1>7. ASSUME NEW type, NEW idx PROVE Entry(type, idx)' = Entry(type, idx)
  BY DEF Entry, Sections
<1>8. ASSUME NEW type, NEW idx PROVE HasEntry(type, idx)' <=> HasEntry(type, idx)
  BY DEF HasEntry, Sections
<1>9. ASSUME NEW o PROVE TypeList(o)' = TypeList(o)
  BY DEF TypeList, ItemAt, ItemsAt, Sections
<1>10. ASSUME NEW o PROVE StringAt(o)' = StringAt(o)
  BY DEF StringAt, ItemAt, ItemsAt, Sections
<1>11. ASSUME NEW idx PROVE String(idx)' = String(idx)
  BY DEF String, Entry, StringAt, ItemAt, ItemsAt, Sections
<1>12. ASSUME NEW idx PROVE Descriptor(idx)' = Descriptor(idx)
  BY DEF Descriptor, String, Entry, StringAt, ItemAt, ItemsAt, Sections
<1>13. QED
  BY <1>2, <1>3, <1>4, <1>5, <1>6, <1>7, <1>8, <1>9, <1>10, <1>11, <1>12

LEMMA SameReadable ==
  ASSUME file' = file, dataMap' = dataMap, NEW type, NEW i
  PROVE  Readable(type, i)' <=> Readable(type, i)
<1>1. ASSUME NEW idx PROVE StringReadable(idx)' <=> StringReadable(idx)
  BY SameLookup DEF StringReadable
<1>2. ASSUME NEW idx PROVE TypeReadable(idx)' <=> TypeReadable(idx)
  BY <1>1, SameLookup DEF TypeReadable
<1>3. ASSUME NEW o, NEW t PROVE VerifiedOff(o, t)' = VerifiedOff(o, t)
  BY SameLookup DEF VerifiedOff
<1>4. ASSUME NEW o PROVE ListedTypes(o)' = ListedTypes(o)
  BY <1>3 DEF ListedTypes
<1>5. TypesRead(type, i)' = TypesRead(type, i)
  BY <1>4 DEF TypesRead
<1>6. FieldsRead(type, i)' = FieldsRead(type, i)
  BY <1>3 DEF FieldsRead
<1>7. \A f : HasEntry("field_id", f)' <=> HasEntry("field_id", f)
  BY SameLookup
<1>8. StringsRead(type, i)' = StringsRead(type, i)
  BY DEF StringsRead
<1>9. QED
  BY <1>1, <1>2, <1>5, <1>6, <1>7, <1>8 DEF Readable

LEMMA SameCross ==
  ASSUME file' = file, dataMap' = dataMap, NEW type \in CrossTypes, NEW i, NEW p, NEW d
  PROVE  CrossVerify(type, i, p, d)' <=> CrossVerify(type, i, p, d)
<1>1. crossVerifyStringIdItem(i, p)' <=> crossVerifyStringIdItem(i, p)
  BY SameLookup DEF crossVerifyStringIdItem
<1>2. crossVerifyTypeIdItem(i, p)' <=> crossVerifyTypeIdItem(i, p)
  BY SameLookup DEF crossVerifyTypeIdItem
<1>3. crossVerifyProtoIdItem(i, p)' <=> crossVerifyProtoIdItem(i, p)
  BY SameLookup DEF crossVerifyProtoIdItem, ProtoOrder
<1>4. crossVerifyFieldIdItem(i, p)' <=> crossVerifyFieldIdItem(i, p)
  BY SameLookup DEF crossVerifyFieldIdItem
<1>5. crossVerifyMethodIdItem(i, p)' <=> crossVerifyMethodIdItem(i, p)
  BY SameLookup DEF crossVerifyMethodIdItem
<1>6. ASSUME NEW fields, NEW methods
      PROVE  FirstDefiner(fields, methods)' = FirstDefiner(fields, methods)
  BY SameLookup DEF FirstDefiner
<1>7. crossVerifyClassDefItem(i, d)' <=> crossVerifyClassDefItem(i, d)
  <2>1. ASSUME NEW o, NEW c
        PROVE  /\ verifyClassDataIsForDef(o, c)' <=> verifyClassDataIsForDef(o, c)
               /\ verifyAnnotationsDirectoryIsForDef(o, c)'
                    <=> verifyAnnotationsDirectoryIsForDef(o, c)
    BY <1>6, SameLookup DEF verifyClassDataIsForDef, verifyAnnotationsDirectoryIsForDef,
         findFirstClassDataDefiner, findFirstAnnotationsDirectoryDefiner
  <2>2. QED
    BY <2>1, SameLookup DEF crossVerifyClassDefItem
<1>8. crossVerifyAnnotationsDirectoryItem(i)' <=> crossVerifyAnnotationsDirectoryItem(i)
  BY <1>6, SameLookup DEF crossVerifyAnnotationsDirectoryItem,
       findFirstAnnotationsDirectoryDefiner, verifyFieldDefiner, verifyMethodDefiner
<1>9. crossVerifyAnnotationSetRefList(i)' <=> crossVerifyAnnotationSetRefList(i)
  BY SameLookup DEF crossVerifyAnnotationSetRefList
<1>10. crossVerifyAnnotationSetItem(i)' <=> crossVerifyAnnotationSetItem(i)
  BY SameLookup DEF crossVerifyAnnotationSetItem, annotationItemTypeIdx
<1>11. crossVerifyClassDataItem(i)' <=> crossVerifyClassDataItem(i)
  BY <1>6, SameLookup DEF crossVerifyClassDataItem, findFirstClassDataDefiner,
       verifyFieldDefiner, verifyMethodDefiner
<1>12. QED
  BY <1>1, <1>2, <1>3, <1>4, <1>5, <1>7, <1>8, <1>9, <1>10, <1>11
     DEF CrossVerify, CrossTypes, IdTypes

LEMMA CrossInitially == Init => CrossInv
BY DEF Init, CrossInv

LEMMA CrossStep == IInv /\ CrossInv /\ [Next]_vars => CrossInv'
<1> SUFFICES ASSUME IInv, CrossInv, [Next]_vars,
                    phase' \in {"cross", "undefined", "accepted"}
             PROVE  CrossInv'
  BY DEF CrossInv
<1>1. PICK m, n : m = file.map /\ n = Len(m)
  OBVIOUS
<1>2. /\ n \in Nat
      /\ \A k \in 1..n : Len(m[k].items) \in Nat /\ DOMAIN m[k].items = 1..Len(m[k].items)
  BY <1>1, FileType DEF IInv, Section
<1>3. CASE EndSwap
  <2>1. phase' = "cross" /\ section' = 1 /\ item' = 1 /\ file' = file
    BY <1>3 DEF EndSwap
  <2>2. (section - 1)' = 0 /\ (item - 1)' = 0
    BY <2>1
  <2>3. SectionsCrossed(section - 1)' /\ Crossed(file.map[section], item - 1)'
    BY <2>1, <2>2 DEF SectionsCrossed, Crossed
  <2>4. {file.map[section].items[j].classIdx : j \in 1..(item - 1)}' = {}
    BY <2>2
  <2>5. /\ section' \in 1..(n + 1) /\ item' \in Nat \ {0} /\ Len(file.map)' = n
        /\ section' <= n => item' <= Len(m[section'].items) + 1
    BY <1>1, <1>2, <2>1
  <2>6. QED
    BY <1>1, <2>1, <2>3, <2>4, <2>5 DEF CrossInv
<1>4. CASE UNCHANGED <<file, dataMap>> /\ phase \in {"cross", "undefined", "accepted"}
  <2>1. ASSUME NEW s, NEW i, s.type \in CrossTypes PROVE CrossedItem(s, i)' <=> CrossedItem(s, i)
    BY <1>4, <2>1, SameReadable, SameCross DEF CrossedItem
  <2>2. ASSUME NEW s, NEW k PROVE Crossed(s, k)' <=> Crossed(s, k)
    BY <2>1 DEF Crossed
  <2>3. ASSUME NEW k PROVE SectionsCrossed(k)' <=> SectionsCrossed(k)
    BY <1>4, <2>2 DEF SectionsCrossed
  <2>4. \A type, i : Readable(type, i)' <=> Readable(type, i)
    BY <1>4, SameReadable
  <2>5. m = file.map' /\ n = Len(file.map')
    BY <1>1, <1>4
  <2>6. phase \in {"cross", "undefined"} =>
          /\ section \in 1..(n + 1) /\ item \in Nat \ {0}
          /\ SectionsCrossed(section - 1)
          /\ section <= n /\ m[section].type \in CrossTypes =>
               /\ item <= Len(m[section].items) + 1
               /\ Crossed(m[section], item - 1)
               /\ m[section].type = "class_def" =>
                    {m[section].items[j].classIdx : j \in 1..(item - 1)} \subseteq defined
    BY <1>1 DEF CrossInv
  <2>7. CASE EndCrossSection
    <3>1. /\ phase = "cross" /\ phase' = "cross" /\ section <= n
          /\ section' = section + 1 /\ item' = 1
          /\ m[section].type \notin CrossTypes \/ item > Len(m[section].items)
      BY <1>1, <2>7 DEF EndCrossSection, Crossing
    <3>2. section \in 1..n
      BY <1>2, <2>6, <3>1
    <3>3. Crossed(m[section], Len(m[section].items))
      <4>1. CASE m[section].type \notin CrossTypes
        BY <4>1 DEF Crossed
      <4>2. CASE m[section].type \in CrossTypes
        <5>1. item - 1 = Len(m[section].items)
          BY <1>2, <2>6, <3>1, <3>2, <4>2
        <5>2. QED
          BY <2>6, <3>1, <4>2, <5>1
      <4>3. QED
        BY <4>1, <4>2
    <3>4. SectionsCrossed(section)
      <4>1. \A k \in 1..section : k \in 1..(section - 1) \/ k = section
        BY <3>2
      <4>2. QED
        BY <1>1, <2>6, <3>1, <3>3, <4>1 DEF SectionsCrossed
    <3>5. (section - 1)' = section /\ (item - 1)' = 0
      BY <3>1, <3>2
    <3>6. SectionsCrossed(section - 1)'
      BY <2>2, <2>5, <1>1, <3>4, <3>5 DEF SectionsCrossed
    <3>7. Crossed(file.map[section], item - 1)'
      BY <3>5 DEF Crossed
    <3>8. {file.map[section].items[j].classIdx : j \in 1..(item - 1)}' = {}
      BY <3>5
    <3>9. /\ section' \in 1..(n + 1) /\ item' \in Nat \ {0}
          /\ section' <= n => item' <= Len(m[section'].items) + 1
      BY <1>2, <3>1, <3>2
    <3>10. QED
      BY <2>5, <3>1, <3>6, <3>7, <3>8, <3>9 DEF CrossInv
  <2>8. CASE CrossItem /\ phase' = "cross"
    <3>1. PICK s : s = m[section]
      OBVIOUS
    <3>2. /\ phase = "cross" /\ section <= n /\ section' = section /\ item' = item + 1
          /\ s.type \in CrossTypes /\ item <= Len(s.items)
          /\ Readable(s.type, s.items[item])
          /\ CrossVerify(s.type, s.items[item], Previous(s), defined)
          /\ defined' = IF s.type = "class_def" THEN defined \cup {s.items[item].classIdx}
                        ELSE defined
      BY <1>1, <2>8, <3>1 DEF CrossItem, Crossing, Fail
    <3>3. section \in 1..n /\ item \in Nat \ {0} /\ Len(s.items) \in Nat
      BY <1>2, <2>6, <3>1, <3>2
    <3>4. /\ Crossed(s, item - 1)
          /\ s.type = "class_def" => {s.items[j].classIdx : j \in 1..(item - 1)} \subseteq defined
      BY <2>6, <3>1, <3>2
    <3>5. CrossedItem(s, item)
      BY <3>2, <3>4 DEF CrossedItem, Previous
    <3>6. \A i \in 1..item : i \in 1..(item - 1) \/ i = item
      BY <3>3
    <3>7. Crossed(s, item)
      BY <3>2, <3>4, <3>5, <3>6 DEF Crossed
    <3>8. s.type = "class_def" => {s.items[j].classIdx : j \in 1..item} \subseteq defined'
      BY <3>2, <3>4, <3>6
    <3>9. (item - 1)' = item /\ (file.map[section])' = s
      BY <2>5, <3>1, <3>2, <3>3
    <3>10. Crossed(file.map[section], item - 1)'
      BY <2>1, <3>7, <3>9 DEF Crossed
    <3>11. SectionsCrossed(section - 1)'
      BY <1>1, <2>2, <2>5, <2>6, <3>2 DEF SectionsCrossed
    <3>12. /\ section' \in 1..(n + 1) /\ item' \in Nat \ {0}
           /\ item' <= Len(s.items) + 1
      BY <1>2, <3>2, <3>3
    <3>13. s.type = "class_def" =>
             {file.map[section].items[j].classIdx : j \in 1..(item - 1)}' \subseteq defined'
      BY <3>8, <3>9
    <3>14. QED
      BY <2>5, <2>8, <3>9, <3>10, <3>11, <3>12, <3>13 DEF CrossInv
  <2>9. CASE UNCHANGED <<section, item, defined>>
    <3>1. /\ SectionsCrossed(section - 1)' <=> SectionsCrossed(section - 1)
          /\ SectionsCrossed(Len(file.map))' <=> SectionsCrossed(Len(file.map))
          /\ Crossed(file.map[section], item - 1)' <=> Crossed(file.map[section], item - 1)
      BY <1>1, <2>2, <2>5, <2>9 DEF SectionsCrossed, Crossed
    <3>2. CASE CrossItemUnverified
      BY <1>1, <2>4, <2>5, <2>6, <2>9, <3>1, <3>2 DEF CrossItemUnverified, Crossing, CrossInv
    <3>3. CASE Accept
      <4>1. section - 1 = n
        BY <1>1, <1>2, <2>6, <3>3 DEF Accept
      <4>2. SectionsCrossed(Len(file.map))
        BY <1>1, <2>6, <3>3, <4>1 DEF Accept
      <4>3. QED
        BY <3>1, <3>3, <4>2 DEF Accept, CrossInv
    <3>4. CASE phase' = phase
      BY <1>1, <2>4, <2>5, <2>9, <3>1, <3>4 DEF CrossInv
    <3>5. QED
      BY <1>4, <2>9, <3>2, <3>3, <3>4
         DEF Next, vars, CheckHeader, CheckMap, StartSection, SwapItem, EndSection, EndSwap,
             CrossItem, EndCrossSection, Overrun, Fail, Crossing
  <2>10. QED
    BY <1>4, <2>7, <2>8, <2>9
       DEF Next, vars, CheckHeader, CheckMap, StartSection, SwapItem, EndSection, EndSwap,
           CrossItem, CrossItemUnverified, EndCrossSection, Accept, Overrun, Fail, Crossing
<1>5. QED
  BY <1>3, <1>4 DEF Next, vars, CheckHeader, CheckMap, StartSection, SwapItem, EndSection, EndSwap,
       CrossItem, CrossItemUnverified, EndCrossSection, Accept, Overrun, Fail, Crossing

-----------------------------------------------------------------------------
(***************************************************************************)
(* What can be looked up after the first pass                              *)
(***************************************************************************)
Checked == file \in Files /\ Mapped /\ SectionsIntra(Len(file.map))

Visited(type, i) == IntraVerify(type, i) /\ Fields(type, i) /\ i # None

LEMMA SectionIs ==
  ASSUME Checked, NEW type, type \notin InPlace, NEW s \in Sections(type)
  PROVE  /\ Sections(type) = {s} /\ s.type = type /\ Section(s) /\ checkSection(s)
         /\ \A i \in 1..Len(s.items) : Visited(type, s.items[i]) /\ s.items[i].len > 0
<1>1. /\ Len(file.map) \in Nat /\ DOMAIN file.map = 1..Len(file.map)
      /\ \A k \in 1..Len(file.map) : Section(file.map[k])
  BY FileType DEF Checked
<1>2. PICK k \in 1..Len(file.map) : s = file.map[k] /\ s.type = type
  BY <1>1 DEF Sections, Range
<1>3. ASSUME NEW r \in Sections(type) PROVE r = s
  <2>1. PICK j \in 1..Len(file.map) : r = file.map[j] /\ r.type = type
    BY <1>1 DEF Sections, Range
  <2>2. j = k
    BY <1>1, <1>2, <2>1 DEF Checked, Mapped
  <2>3. QED
    BY <1>2, <2>1, <2>2
<1>4. Section(s) /\ checkSection(s) /\ Intra(s, Len(s.items))
  BY <1>1, <1>2 DEF Checked, SectionsIntra
<1>5. ASSUME NEW i \in 1..Len(s.items)
      PROVE  Fields(type, s.items[i]) /\ s.items[i] # None /\ s.items[i].len > 0
  <2>1. s \in Range(file.map)
    BY <1>1, <1>2 DEF Range
  <2>2. PICK x : x = s.items[i]
    OBVIOUS
  <2>3. x \in Range(s.items)
    BY <1>4, <2>2 DEF Section, Range
  <2>4. x # None /\ x.len \in Nat \ {0} /\ Fields(s.type, x)
    BY <2>1, <2>3, FilesAssumption DEF Checked
  <2>5. QED
    BY <1>2, <2>2, <2>4
<1>6. QED
  BY <1>2, <1>3, <1>4, <1>5 DEF Intra, Visited

\* What CHECK_INDEX lets through is in the table, which the header says the size of.
LEMMA IndexHas ==
  ASSUME Checked, NEW type \in IdTypes, NEW idx \in Number, Index(idx, type)
  PROVE  idx \in Nat /\ HasEntry(type, idx)
<1>1. idx \in Nat /\ idx < file.ids[type].size
  BY DEF Number, Index
<1>2. Sections(type) # {}
  BY <1>1 DEF Checked, Mapped
<1>3. PICK s \in Sections(type) : TRUE
  BY <1>2
<1>4. s.type = type /\ checkSection(s)
  BY <1>3, SectionIs DEF IdTypes, InPlace
<1>5. Len(s.items) = file.ids[type].size
  BY <1>4 DEF checkSection, IdTypes
<1>6. QED
  BY <1>1, <1>3, <1>5 DEF HasEntry

LEMMA EntryIs ==
  ASSUME Checked, NEW type \in IdTypes, NEW idx \in Nat, HasEntry(type, idx)
  PROVE  /\ Visited(type, Entry(type, idx))
         /\ \E s \in Sections(type) :
              idx + 1 \in 1..Len(s.items) /\ Entry(type, idx) = s.items[idx + 1]
<1>1. PICK s \in Sections(type) : idx < Len(s.items)
  BY DEF HasEntry
<1>2. /\ Sections(type) = {s} /\ Section(s)
      /\ \A i \in 1..Len(s.items) : Visited(type, s.items[i])
  BY <1>1, SectionIs DEF IdTypes, InPlace
<1>3. idx + 1 \in 1..Len(s.items)
  BY <1>1, <1>2 DEF Section
<1>4. Entry(type, idx) = s.items[idx + 1]
  BY <1>2 DEF Entry
<1>5. QED
  BY <1>1, <1>2, <1>3, <1>4

LEMMA ItemIs ==
  ASSUME Checked, NEW type, type \notin InPlace, NEW o, NEW i \in ItemsAt(type, o)
  PROVE  /\ Visited(type, i)
         /\ \E s \in Sections(type) : \E k \in 1..Len(s.items) :
              i = s.items[k] /\ Starts(s)[k] = o
<1>1. PICK s \in Sections(type) : \E k \in DOMAIN s.items : i = s.items[k] /\ Starts(s)[k] = o
  BY DEF ItemsAt
<1>2. Section(s) /\ \A k \in 1..Len(s.items) : Visited(type, s.items[k])
  BY <1>1, SectionIs
<1>3. QED
  BY <1>1, <1>2 DEF Section

LEMMA ItemThere ==
  ASSUME NEW type, NEW o, ItemsAt(type, o) # {}
  PROVE  ItemAt(type, o) \in ItemsAt(type, o)
BY DEF ItemAt

\* What dexDataMapVerify says of an offset is so: an item of the type begins there.
LEMMA Verifies ==
  ASSUME IInv, MapInv, NEW o \in Nat, NEW type \in DataTypes, dexDataMapVerify(o, type)
  PROVE  ItemsAt(type, o) # {}
<1>1. PICK f, d : f = file /\ d = dataMap
  OBVIOUS
<1>2. /\ d \in Seq(InDataMap) /\ InOrder(d)
      /\ \A j \in 1..Len(d) : Stands(d[j])
  BY <1>1 DEF MapInv
<1>3. IsAnswer(dataMap, o, dexDataMapGet(o), <<1, Len(dataMap)>>)
  BY <1>1, <1>2, Found
<1>4. dexDataMapGet(o) = type /\ type # None
  BY NoneAssumption DEF dexDataMapVerify
<1>5. PICK j \in 1..Len(d) : d[j].offset = o /\ d[j].type = type
  BY <1>1, <1>2, <1>3, <1>4 DEF IsAnswer
<1>6. \E k \in 1..Len(f.map) :
        /\ f.map[k].type = type
        /\ \E i \in 1..Len(f.map[k].items) : Starts(f.map[k])[i] = o
  BY <1>1, <1>2, <1>5 DEF Stands
<1>7. f \in Files
  BY <1>1 DEF IInv
<1>8. QED
  BY <1>1, <1>6, <1>7, BeginsThere

-----------------------------------------------------------------------------
(***************************************************************************)
(* What the second pass reads                                              *)
(***************************************************************************)
StringsThere ==
  \A s \in Sections("string_id") : \A i \in 1..Len(s.items) :
    ItemsAt("string_data", s.items[i].stringDataOff) # {}

LEMMA StringIsReadable ==
  ASSUME Checked, StringsThere, NEW idx \in Number, Index(idx, "string_id")
  PROVE  StringReadable(idx)
<1>1. idx \in Nat /\ HasEntry("string_id", idx)
  BY IndexHas DEF IdTypes
<1>2. PICK s \in Sections("string_id") :
        idx + 1 \in 1..Len(s.items) /\ Entry("string_id", idx) = s.items[idx + 1]
  BY <1>1, EntryIs DEF IdTypes
<1>3. QED
  BY <1>1, <1>2 DEF StringsThere, StringReadable

LEMMA TypeIsReadable ==
  ASSUME Checked, StringsThere, NEW idx \in Number, Index(idx, "type_id")
  PROVE  TypeReadable(idx)
<1>1. idx \in Nat /\ HasEntry("type_id", idx)
  BY IndexHas DEF IdTypes
<1>2. Visited("type_id", Entry("type_id", idx))
  BY <1>1, EntryIs DEF IdTypes
<1>3. PICK e : e = Entry("type_id", idx)
  OBVIOUS
<1>4. e.descriptorIdx \in Number /\ Index(e.descriptorIdx, "string_id")
  BY <1>2, <1>3 DEF Visited, Fields, IntraVerify, swapTypeIdItem
<1>5. StringReadable(e.descriptorIdx)
  BY <1>4, StringIsReadable
<1>6. QED
  BY <1>1, <1>3, <1>5 DEF TypeReadable

\* A list that the data map vouches for holds types.
LEMMA ListIsReadable ==
  ASSUME IInv, MapInv, Checked, NEW o \in Nat, NEW idx \in ListedTypes(o)
  PROVE  idx \in Number /\ Index(idx, "type_id")
<1>1. PICK l \in VerifiedOff(o, "type_list") : idx \in Range(l.list)
  BY DEF ListedTypes
<1>2. o # 0 /\ dexDataMapVerify0Ok(o, "type_list") /\ l = ItemAt("type_list", o)
  BY <1>1 DEF VerifiedOff
<1>3. dexDataMapVerify(o, "type_list")
  BY <1>2 DEF dexDataMapVerify0Ok
<1>4. l \in ItemsAt("type_list", o)
  BY <1>2, <1>3, Verifies, ItemThere DEF DataTypes
<1>5. Visited("type_list", l)
  BY <1>4, ItemIs DEF InPlace
<1>6. Range(l.list) \subseteq Number /\ AllIndex(l.list, "type_id")
  BY <1>5 DEF Visited, Fields, List, IntraVerify, swapTypeList
<1>7. PICK k \in DOMAIN l.list : idx = l.list[k]
  BY <1>1 DEF Range
<1>8. QED
  BY <1>1, <1>6, <1>7 DEF AllIndex

\* Of the fields of a class the second pass looks up those of which the first has
\* checked the index, and the instance fields.
LEMMA DataFieldsThere ==
  ASSUME Checked, NEW d, Visited("class_data", d),
         \A f \in Range(d.instanceFields) : Index(f.idx, "field_id"),
         NEW idx \in DataFields(d)
  PROVE  HasEntry("field_id", idx)
<1>1. /\ d.staticFields \in Seq(Range(d.staticFields))
      /\ d.instanceFields \in Seq(Range(d.instanceFields))
      /\ \A f \in Range(d.staticFields) \cup Range(d.instanceFields) : f.idx \in Nat
      /\ AllIndex(Indices(d.staticFields), "field_id")
  BY DEF Visited, Fields, Listed, IntraVerify, intraVerifyClassDataItem, verifyClassDataItem0,
         verifyFields
<1>2. PICK f \in Range(d.staticFields \o d.instanceFields) : idx = f.idx
  BY DEF DataFields
<1>3. f \in Range(d.staticFields) \/ f \in Range(d.instanceFields)
  <2>1. PICK a, b : a = d.staticFields /\ b = d.instanceFields
    OBVIOUS
  <2>2. PICK A, B : A = Range(a) /\ B = Range(b)
    OBVIOUS
  <2>3. a \in Seq(A) /\ b \in Seq(B)
    BY <1>1, <2>1, <2>2
  <2>4. PICK k \in DOMAIN (a \o b) : f = (a \o b)[k]
    BY <1>2, <2>1 DEF Range
  <2>5. f \in A \/ f \in B
    BY <2>3, <2>4
  <2>6. QED
    BY <2>1, <2>2, <2>5
<1>4. \A g \in Range(d.staticFields) : Index(g.idx, "field_id")
  <2>1. ASSUME NEW k \in DOMAIN d.staticFields PROVE Index(d.staticFields[k].idx, "field_id")
    <3>1. k \in DOMAIN Indices(d.staticFields)
            /\ Indices(d.staticFields)[k] = d.staticFields[k].idx
      BY DEF Indices
    <3>2. QED
      BY <1>1, <3>1 DEF AllIndex
  <2>2. QED
    BY <2>1 DEF Range
<1>5. Index(idx, "field_id") /\ idx \in Number
  BY <1>1, <1>2, <1>3, <1>4 DEF Number
<1>6. QED
  BY <1>5, IndexHas DEF IdTypes

\* The sections that need the strings come behind them.
StringsFirst ==
  \A type \in {"type_id", "proto_id", "field_id", "method_id", "class_def"} :
    Sections(type) # {} => Position(type) >= Position("string_id")

InstanceFieldsIndexed ==
  \A d \in Items("class_data") : \A f \in Range(d.instanceFields) : Index(f.idx, "field_id")

LEMMA CodedFields ==
  ASSUME Checked, InstanceFieldsIndexed, NEW o, NEW d \in ItemsAt("class_data", o),
         NEW idx \in DataFields(d)
  PROVE  HasEntry("field_id", idx)
<1>1. /\ Visited("class_data", d)
      /\ \E s \in Sections("class_data") : \E k \in 1..Len(s.items) : d = s.items[k]
  <2>1. "class_data" \notin InPlace
    BY DEF InPlace
  <2>2. Visited("class_data", d)
    BY <2>1, ItemIs
  <2>3. \E s \in Sections("class_data") : \E k \in 1..Len(s.items) :
          d = s.items[k]
    BY <2>1, ItemIs
  <2>4. QED
    BY <2>2, <2>3
<1>2. PICK s \in Sections("class_data"), k \in Nat : k \in 1..Len(s.items) /\ d = s.items[k]
  BY <1>1
<1>3. Section(s)
  BY <1>2, SectionIs DEF InPlace
<1>4. d \in Items("class_data")
  BY <1>2, <1>3 DEF Items, Range, Section
<1>5. QED
  BY <1>1, <1>4, DataFieldsThere DEF InstanceFieldsIndexed

\* Everything that the visitor of an item reads is there.
LEMMA ItemIsReadable ==
  ASSUME IInv, MapInv, Checked, InstanceFieldsIndexed, NEW type \in CrossTypes,
         type \in {"type_id", "proto_id", "field_id", "method_id", "class_def"} => StringsThere,
         NEW s \in Sections(type), NEW k \in 1..Len(s.items)
  PROVE  Readable(type, s.items[k])
<1>1. PICK i : i = s.items[k]
  OBVIOUS
<1>2. Visited(type, i) /\ Section(s)
  BY <1>1, SectionIs DEF InPlace, CrossTypes, IdTypes
<1>3. ASSUME NEW t \in TypesRead(type, i) PROVE TypeReadable(t)
  <2>1. type \in {"proto_id", "field_id", "method_id", "class_def"}
    BY <1>3 DEF TypesRead
  <2>2. t \in Number /\ Index(t, "type_id")
    <3>1. CASE type = "proto_id"
      <4>1. i.returnTypeIdx \in Number /\ Index(i.returnTypeIdx, "type_id") /\ i.parametersOff \in Nat
        BY <1>2, <3>1 DEF Visited, Fields, IntraVerify, swapProtoIdItem
      <4>2. t = i.returnTypeIdx \/ t \in ListedTypes(i.parametersOff)
        BY <1>3, <3>1 DEF TypesRead
      <4>3. QED
        BY <4>1, <4>2, ListIsReadable
    <3>2. CASE type = "field_id"
      BY <1>2, <1>3, <3>2 DEF TypesRead, Visited, Fields, IntraVerify, swapFieldIdItem
    <3>3. CASE type = "method_id"
      BY <1>2, <1>3, <3>3 DEF TypesRead, Visited, Fields, IntraVerify, swapMethodIdItem
    <3>4. CASE type = "class_def"
      <4>1. /\ i.classIdx \in Number /\ Index(i.classIdx, "type_id")
            /\ i.superclassIdx \in Number /\ IndexOrNone(i.superclassIdx, "type_id")
            /\ i.interfacesOff \in Nat
        BY <1>2, <3>4 DEF Visited, Fields, IntraVerify, swapClassDefItem
      <4>2. \/ t = i.classIdx
            \/ (t = i.superclassIdx /\ t # NoIndex)
            \/ t \in ListedTypes(i.interfacesOff)
        BY <1>3, <3>4 DEF TypesRead
      <4>3. QED
        BY <4>1, <4>2, ListIsReadable DEF IndexOrNone
    <3>5. QED
      BY <2>1, <3>1, <3>2, <3>3, <3>4
  <2>3. QED
    BY <2>1, <2>2, TypeIsReadable
<1>4. ASSUME NEW idx \in StringsRead(type, i) PROVE StringReadable(idx)
  <2>1. type \in {"type_id", "proto_id", "field_id", "method_id"}
    BY <1>4 DEF StringsRead
  <2>2. idx \in Number /\ Index(idx, "string_id")
    BY <1>2, <1>4, <2>1 DEF StringsRead, Visited, Fields, IntraVerify, swapTypeIdItem,
       swapProtoIdItem, swapFieldIdItem, swapMethodIdItem
  <2>3. QED
    BY <2>1, <2>2, StringIsReadable
<1>5. ASSUME NEW f \in FieldsRead(type, i) PROVE HasEntry("field_id", f)
  <2>1. CASE type = "class_data"
    <3>1. i \in Items("class_data")
      BY <1>1, <1>2, <2>1 DEF Items, Range, Section
    <3>2. f \in DataFields(i)
      BY <1>5, <2>1 DEF FieldsRead
    <3>3. QED
      BY <1>2, <2>1, <3>1, <3>2, DataFieldsThere DEF InstanceFieldsIndexed
  <2>2. CASE type = "class_def"
    <3>1. PICK d \in VerifiedOff(i.classDataOff, "class_data") : f \in DataFields(d)
      BY <1>5, <2>2 DEF FieldsRead
    <3>2. PICK o : o = i.classDataOff
      OBVIOUS
    <3>3. o \in Nat
      BY <1>2, <2>2, <3>2 DEF Visited, Fields
    <3>4. dexDataMapVerify(o, "class_data") /\ d = ItemAt("class_data", o)
      BY <3>1, <3>2 DEF VerifiedOff, dexDataMapVerify0Ok
    <3>5. d \in ItemsAt("class_data", o)
      BY <3>3, <3>4, Verifies, ItemThere DEF DataTypes
    <3>6. QED
      BY <3>1, <3>5, CodedFields
  <2>3. CASE type = "annotations_directory"
    <3>1. PICK a \in Range(i.fields) : f = a.idx
      BY <1>5, <2>3 DEF FieldsRead
    <3>2. PICK l : l = i.fields
      OBVIOUS
    <3>3. PICK n \in DOMAIN l : a = l[n]
      BY <3>1, <3>2 DEF Range
    <3>4. AllIndex(Indices(l), "field_id") /\ f \in Nat
      BY <1>2, <2>3, <3>1, <3>2
         DEF Visited, Fields, IntraVerify, swapAnnotationsDirectoryItem, swapAnnotations
    <3>5. Index(f, "field_id")
      BY <3>1, <3>3, <3>4 DEF AllIndex, Indices
    <3>6. QED
      BY <3>4, <3>5, IndexHas DEF Number, IdTypes
  <2>4. QED
    BY <1>5, <2>1, <2>2, <2>3 DEF FieldsRead
<1>6. QED
  BY <1>1, <1>3, <1>4, <1>5 DEF Readable

\* When the strings come first they have been looked at before what needs them.
LEMMA StringsWereFirst ==
  ASSUME IInv, MapInv, Checked, StringsFirst, NEW k \in 1..Len(file.map),
         SectionsCrossed(k - 1),
         file.map[k].type \in {"type_id", "proto_id", "field_id", "method_id", "class_def"}
  PROVE  StringsThere
<1> SUFFICES ASSUME NEW s \in Sections("string_id"), NEW i \in 1..Len(s.items)
             PROVE  ItemsAt("string_data", s.items[i].stringDataOff) # {}
  BY DEF StringsThere
<1>1. PICK n, type : n = Len(file.map) /\ type = file.map[k].type
  OBVIOUS
<1>2. n \in Nat /\ DOMAIN file.map = 1..n
  BY <1>1, FileType DEF Checked
<1>3. PICK j \in 1..n : s = file.map[j] /\ file.map[j].type = "string_id"
  BY <1>1, <1>2 DEF Sections, Range
<1>4. Position("string_id") = j
  <2>1. Sections("string_id") # {}
    OBVIOUS
  <2>2. \A l \in DOMAIN file.map : file.map[l].type = "string_id" => l = j
    BY <1>2, <1>3 DEF Checked, Mapped
  <2>3. QED
    BY <1>2, <1>3, <2>1, <2>2 DEF Position
<1>5. Position(type) = k /\ Sections(type) # {}
  <2>1. Sections(type) # {}
    BY <1>1, <1>2 DEF Sections, Range
  <2>2. \A l \in DOMAIN file.map : file.map[l].type = type => l = k
    BY <1>1, <1>2 DEF Checked, Mapped
  <2>3. QED
    BY <1>1, <1>2, <2>1, <2>2 DEF Position
<1>6. k >= j
  BY <1>1, <1>4, <1>5 DEF StringsFirst
<1>7. j \in 1..(k - 1)
  BY <1>1, <1>2, <1>3, <1>6
<1>8. CrossedItem(s, i)
  BY <1>3, <1>7 DEF SectionsCrossed, Crossed, CrossTypes, IdTypes
<1>9. PICK x : x = s.items[i]
  OBVIOUS
<1>10. dexDataMapVerify(x.stringDataOff, "string_data")
  BY <1>3, <1>8, <1>9 DEF CrossedItem, CrossVerify, crossVerifyStringIdItem
<1>11. Visited("string_id", x)
  BY <1>9, SectionIs DEF InPlace
<1>12. x.stringDataOff \in Nat
  BY <1>11 DEF Visited, Fields
<1>13. QED
  BY <1>9, <1>10, <1>12, Verifies DEF DataTypes

LEMMA ReadsAreVerified == IInv /\ MapInv /\ IntraInv /\ CrossInv => ReadsVerified
<1> SUFFICES ASSUME IInv, MapInv, IntraInv, CrossInv, phase = "undefined",
                    StringsFirst, InstanceFieldsIndexed
             PROVE  FALSE
  <2>1. ASSUME ~ \E t \in {"type_id", "proto_id", "field_id", "method_id", "class_def"} :
                     Sections(t) # {} /\ Position(t) < Position("string_id"),
               file \in Files
        PROVE  StringsFirst
    <3>1. Len(file.map) \in Nat /\ DOMAIN file.map = 1..Len(file.map)
      BY <2>1, FileType
    <3>2. ASSUME NEW type PROVE Position(type) \in Int
      <4>1. CASE Sections(type) = {}
        BY <4>1 DEF Position
      <4>2. CASE Sections(type) # {}
        <5>1. \E k \in DOMAIN file.map : file.map[k].type = type
          BY <4>2 DEF Sections, Range
        <5>2. QED
          BY <3>1, <4>2, <5>1 DEF Position
      <4>3. QED
        BY <4>1, <4>2
    <3>3. QED
      BY <2>1, <3>2 DEF StringsFirst
  <2>2. QED
    BY <2>1 DEF ReadsVerified, InstanceFieldsIndexed, IInv
<1>1. Checked
  BY DEF IInv, IntraInv, Checked
<1>2. PICK s, type : s = file.map[section] /\ type = s.type
  OBVIOUS
<1>3. /\ section \in 1..Len(file.map) /\ item \in Nat \ {0} /\ SectionsCrossed(section - 1)
      /\ type \in CrossTypes /\ item <= Len(s.items) /\ ~Readable(type, s.items[item])
  BY <1>2, FileType DEF CrossInv, IInv
<1>4. Section(s) /\ s \in Sections(type)
  <2>1. DOMAIN file.map = 1..Len(file.map) /\ Section(s)
    BY <1>1, <1>2, <1>3, FileType DEF Checked
  <2>2. QED
    BY <1>2, <1>3, <2>1 DEF Sections, Range
<1>5. item \in 1..Len(s.items)
  BY <1>3, <1>4 DEF Section
<1>6. type \in {"type_id", "proto_id", "field_id", "method_id", "class_def"} => StringsThere
  BY <1>1, <1>2, <1>3, StringsWereFirst
<1>7. QED
  BY <1>1, <1>3, <1>4, <1>5, <1>6, ItemIsReadable

LEMMA PassesInvariance == Spec => [](IInv /\ MapInv /\ IntraInv /\ CrossInv)
<1>1. Init => IInv /\ MapInv /\ IntraInv /\ CrossInv
  BY Initially, MapInitially, IntraInitially, CrossInitially
<1>2. IInv /\ MapInv /\ IntraInv /\ CrossInv /\ [Next]_vars =>
        (IInv /\ MapInv /\ IntraInv /\ CrossInv)'
  BY Step, MapStep, IntraStep, CrossStep
<1>3. QED
  BY <1>1, <1>2, PTL DEF Spec

(***************************************************************************)
(* crossVerifyEverything reads through no index and no offset that nothing *)
(* has verified, unless the strings come behind what needs them or an      *)
(* instance field has a bad index (verifyClassDataItem0 drops the          *)
(* verdict): for any file, with any items anywhere.                        *)
(***************************************************************************)
THEOREM ReadsVerifiedHolds == Spec => []ReadsVerified
BY PassesInvariance, ReadsAreVerified, PTL

-----------------------------------------------------------------------------
(***************************************************************************)
(* What the second pass adds up to                                         *)
(***************************************************************************)
Accepted == IInv /\ MapInv /\ Checked /\ SectionsCrossed(Len(file.map))

LEMMA AcceptedIs == IInv /\ MapInv /\ IntraInv /\ CrossInv /\ phase = "accepted" => Accepted
BY DEF Accepted, Checked, IInv, IntraInv, CrossInv

LEMMA CrossedIs ==
  ASSUME Accepted, NEW type \in CrossTypes, NEW s \in Sections(type), NEW k \in 1..Len(s.items)
  PROVE  Visited(type, s.items[k]) /\ CrossedItem(s, k) /\ s.type = type
<1>1. Checked /\ type \notin InPlace
  BY DEF Accepted, CrossTypes, IdTypes, InPlace
<1>2. Visited(type, s.items[k]) /\ s.type = type
  BY <1>1, SectionIs
<1>3. PICK j \in 1..Len(file.map) : s = file.map[j]
  <2>1. DOMAIN file.map = 1..Len(file.map)
    BY <1>1, FileType DEF Checked
  <2>2. QED
    BY <2>1 DEF Sections, Range
<1>4. CrossedItem(s, k)
  BY <1>2, <1>3 DEF Accepted, SectionsCrossed, Crossed
<1>5. QED
  BY <1>2, <1>4

\* What holds of neighbours, and of the first and the last if it does of the first and
\* the second and of the second and the last, holds of any two.
LEMMA Chain ==
  ASSUME NEW n \in Nat, NEW R, \A i \in 1..(n - 1) : <<i, i + 1>> \in R,
         \A i, j, k \in 1..n : <<i, j>> \in R /\ <<j, k>> \in R => <<i, k>> \in R
  PROVE  \A i, j \in 1..n : i < j => <<i, j>> \in R
<1> TAKE i, j \in 1..n
<1> HAVE i < j
<1>1. PICK T : T = {d \in 0..n : i + 1 + d \in 1..n => <<i, i + 1 + d>> \in R}
  OBVIOUS
<1>2. 0 \in T
  <2>1. i \in 1..(n - 1) /\ i + 1 + 0 = i + 1 /\ 0 \in 0..n
    OBVIOUS
  <2>2. QED
    BY <1>1, <2>1
<1>3. ASSUME NEW d \in 1..n, d - 1 \in T PROVE d \in T
  <2>1. i + 1 + (d - 1) = i + d /\ i + 1 + d = (i + d) + 1 /\ d \in 0..n
    OBVIOUS
  <2>2. CASE i + 1 + d \in 1..n
    <3>1. i + d \in 1..n /\ i + d \in 1..(n - 1)
      BY <2>2
    <3>2. <<i, i + d>> \in R
      BY <1>1, <1>3, <2>1, <3>1
    <3>3. <<i + d, (i + d) + 1>> \in R
      BY <3>1
    <3>4. <<i, (i + d) + 1>> \in R
      BY <2>1, <2>2, <3>1, <3>2, <3>3
    <3>5. QED
      BY <1>1, <2>1, <3>4
  <2>3. QED
    BY <1>1, <2>1, <2>2
<1>4. j - i - 1 \in 0..n /\ i + 1 + (j - i - 1) = j
  OBVIOUS
<1>5. j - i - 1 \in T
  BY <1>2, <1>3, <1>4, Upwards
<1>6. QED
  BY <1>1, <1>4, <1>5

\* The items of a section begin one behind the other, none before the section.
LEMMA StartsRise ==
  ASSUME NEW s, Section(s), \A i \in 1..Len(s.items) : s.items[i].len > 0
  PROVE  /\ \A i, j \in 1..Len(s.items) : i < j => Starts(s)[i] < Starts(s)[j]
         /\ \A i \in 1..Len(s.items) : Starts(s)[i] >= s.offset
<1>1. PICK n : n = Len(s.items)
  OBVIOUS
<1>2. /\ n \in Nat /\ s.offset \in Nat
      /\ \A i \in 1..n : s.items[i].len \in Nat /\ s.items[i].len > 0
  BY <1>1 DEF Section
<1>3. ASSUME NEW i \in 1..n
      PROVE  /\ Starts(s)[i] \in Nat /\ Behind(s, i) \in Nat
             /\ Starts(s)[i] >= Behind(s, i)
  BY <1>1, StartsStep, AlignedType
<1>4. PICK R : R = {p \in (1..n) \X (1..n) : Starts(s)[p[1]] < Starts(s)[p[2]]}
  OBVIOUS
<1>5. ASSUME NEW i \in 1..(n - 1) PROVE <<i, i + 1>> \in R
  <2>1. i \in 1..n /\ i + 1 \in 1..n /\ i + 1 # 1 /\ (i + 1) - 1 = i
    BY <1>2
  <2>2. Behind(s, i + 1) = Starts(s)[i] + s.items[i].len
    BY <2>1 DEF Behind
  <2>3. Starts(s)[i] < Starts(s)[i + 1]
    BY <1>2, <1>3, <2>1, <2>2
  <2>4. QED
    BY <1>4, <2>1, <2>3
<1>6. ASSUME NEW i \in 1..n, NEW j \in 1..n, NEW k \in 1..n, <<i, j>> \in R, <<j, k>> \in R
      PROVE  <<i, k>> \in R
  <2>1. Starts(s)[i] < Starts(s)[j] /\ Starts(s)[j] < Starts(s)[k]
    BY <1>4, <1>6
  <2>2. Starts(s)[i] < Starts(s)[k]
    BY <1>3, <2>1
  <2>3. QED
    BY <1>4, <2>2
<1>7. \A i, j \in 1..n : i < j => <<i, j>> \in R
  BY <1>2, <1>5, <1>6, Chain
<1>8. \A i, j \in 1..n : i < j => Starts(s)[i] < Starts(s)[j]
  BY <1>4, <1>7
<1>9. ASSUME NEW i \in 1..n PROVE Starts(s)[i] >= s.offset
  <2>1. 1 \in 1..n /\ Behind(s, 1) = s.offset
    BY <1>2 DEF Behind
  <2>2. Starts(s)[1] \in Nat /\ Starts(s)[1] >= s.offset
    BY <1>3, <2>1
  <2>3. CASE i = 1
    BY <2>2, <2>3
  <2>4. CASE i # 1
    <3>1. 1 < i /\ Starts(s)[1] < Starts(s)[i]
      BY <1>8, <2>1, <2>4
    <3>2. QED
      BY <1>2, <1>3, <2>2, <3>1
  <2>5. QED
    BY <2>3, <2>4
<1>10. QED
  BY <1>1, <1>8, <1>9

\* No two items of a type begin at the same offset.
LEMMA OneItem ==
  ASSUME Checked, NEW type, type \notin InPlace, NEW o, NEW i \in ItemsAt(type, o)
  PROVE  ItemAt(type, o) = i
<1>1. PICK s \in Sections(type) : \E k \in 1..Len(s.items) : i = s.items[k] /\ Starts(s)[k] = o
  BY ItemIs
<1>2. PICK k \in 1..Len(s.items) : i = s.items[k] /\ Starts(s)[k] = o
  BY <1>1
<1>3. /\ Sections(type) = {s} /\ Section(s)
      /\ \A j \in 1..Len(s.items) : s.items[j].len > 0
  BY SectionIs
<1>4. \A j \in 1..Len(s.items) : Starts(s)[j] = o => j = k
  <2>1. Len(s.items) \in Nat
    BY <1>3 DEF Section
  <2>2. \A j \in 1..Len(s.items) : Starts(s)[j] \in Nat
    BY <1>3, StartsStep
  <2>3. \A j, l \in 1..Len(s.items) : j < l => Starts(s)[j] < Starts(s)[l]
    BY <1>3, StartsRise
  <2>4. QED
    BY <1>2, <2>1, <2>2, <2>3
<1>5. PICK e : e = ItemAt(type, o)
  OBVIOUS
<1>6. e \in ItemsAt(type, o)
  BY <1>5, ItemThere
<1>7. PICK r \in Sections(type) : \E j \in 1..Len(r.items) : e = r.items[j] /\ Starts(r)[j] = o
  BY <1>6, ItemIs
<1>8. r = s
  BY <1>3
<1>9. QED
  BY <1>2, <1>4, <1>5, <1>7, <1>8

\* At offset 0 is the header.
LEMMA AfterHeader ==
  ASSUME Checked, NEW type, type \notin InPlace, NEW o, ItemsAt(type, o) # {}
  PROVE  o \in Nat /\ o > 0
<1>1. PICK n : n = Len(file.map)
  OBVIOUS
<1>2. /\ n \in Nat /\ DOMAIN file.map = 1..n
      /\ \A k \in 1..n : Section(file.map[k]) /\ checkSection(file.map[k])
  BY <1>1, FileType DEF Checked, SectionsIntra
<1>3. \A k \in 1..n : file.map[k].offset \in Nat
  BY <1>2 DEF Section
<1>4. PICK h \in 1..n : file.map[h].type = "header"
  BY <1>2 DEF Checked, Mapped, Range
<1>5. file.map[h].offset = 0
  <2>1. PICK s : s = file.map[h]
    OBVIOUS
  <2>2. checkSection(s) /\ s.type = "header"
    BY <1>2, <1>4, <2>1
  <2>3. s.offset = 0
    BY <2>2 DEF checkSection, IdTypes
  <2>4. QED
    BY <2>1, <2>3
<1>6. PICK R : R = {p \in (1..n) \X (1..n) : file.map[p[1]].offset < file.map[p[2]].offset}
  OBVIOUS
<1>7. ASSUME NEW k \in 1..(n - 1) PROVE <<k, k + 1>> \in R
  <2>1. k \in 1..n /\ k + 1 \in 1..n
    BY <1>2
  <2>2. file.map[k].offset < file.map[k + 1].offset
    BY <1>1 DEF Checked, Mapped
  <2>3. QED
    BY <1>6, <2>1, <2>2
<1>8. ASSUME NEW i \in 1..n, NEW j \in 1..n, NEW k \in 1..n, <<i, j>> \in R, <<j, k>> \in R
      PROVE  <<i, k>> \in R
  <2>1. file.map[i].offset < file.map[j].offset /\ file.map[j].offset < file.map[k].offset
    BY <1>6, <1>8
  <2>2. file.map[i].offset < file.map[k].offset
    BY <1>3, <2>1
  <2>3. QED
    BY <1>6, <2>2
<1>9. \A i, j \in 1..n : i < j => <<i, j>> \in R
  BY <1>2, <1>7, <1>8, Chain
<1>10. \A i, j \in 1..n : i < j => file.map[i].offset < file.map[j].offset
  BY <1>6, <1>9
<1>11. PICK i \in ItemsAt(type, o) : TRUE
  OBVIOUS
<1>12. PICK s \in Sections(type) : \E j \in 1..Len(s.items) : i = s.items[j] /\ Starts(s)[j] = o
  BY ItemIs
<1>13. PICK j \in 1..Len(s.items) : Starts(s)[j] = o
  BY <1>12
<1>14. Section(s) /\ s.type = type /\ \A l \in 1..Len(s.items) : s.items[l].len > 0
  BY SectionIs
<1>15. PICK k \in 1..n : s = file.map[k]
  BY <1>2 DEF Sections, Range
<1>16. k # h
  BY <1>4, <1>14, <1>15 DEF InPlace
<1>17. s.offset > 0
  <2>1. CASE k < h
    BY <1>3, <1>5, <1>10, <2>1
  <2>2. CASE h < k
    BY <1>5, <1>10, <1>15, <2>2
  <2>3. QED
    BY <1>16, <2>1, <2>2
<1>18. o >= s.offset /\ o \in Nat
  BY <1>13, <1>14, StartsRise, StartsStep
<1>19. s.offset \in Nat
  BY <1>14 DEF Section
<1>20. QED
  BY <1>17, <1>18, <1>19

LEMMA Joined ==
  ASSUME NEW s, NEW t, s \in Seq(Range(s)), t \in Seq(Range(t))
  PROVE  Range(s \o t) = Range(s) \cup Range(t)
<1>1. PICK S, T : S = Range(s) /\ T = Range(t)
  OBVIOUS
<1>2. s \in Seq(S) /\ t \in Seq(T)
  BY <1>1
<1>3. /\ Len(s) \in Nat /\ DOMAIN s = 1..Len(s) /\ Len(t) \in Nat /\ DOMAIN t = 1..Len(t)
      /\ DOMAIN (s \o t) = 1..(Len(s) + Len(t))
  BY <1>2
<1>4. \A i \in DOMAIN s : i \in DOMAIN (s \o t) /\ (s \o t)[i] = s[i]
  BY <1>2, <1>3
<1>5. \A i \in DOMAIN t : Len(s) + i \in DOMAIN (s \o t) /\ (s \o t)[Len(s) + i] = t[i]
  BY <1>2, <1>3
<1>6. \A i \in DOMAIN (s \o t) : i \in DOMAIN s \/ i - Len(s) \in DOMAIN t
  BY <1>3
<1>7. \A i \in DOMAIN (s \o t) : (s \o t)[i] \in Range(s) \cup Range(t)
  <2>1. ASSUME NEW i \in DOMAIN (s \o t), i - Len(s) \in DOMAIN t
        PROVE  (s \o t)[i] \in Range(t)
    <3>1. i = Len(s) + (i - Len(s))
      BY <1>3
    <3>2. (s \o t)[i] = t[i - Len(s)]
      BY <1>5, <2>1, <3>1
    <3>3. QED
      BY <2>1, <3>2 DEF Range
  <2>2. QED
    BY <1>4, <1>6, <2>1 DEF Range
<1>8. QED
  BY <1>4, <1>5, <1>7 DEF Range

\* Every offset in an item that the second pass has visited leads to an item.
LEMMA OffsetLeads ==
  ASSUME Accepted, NEW o \in Nat, NEW type \in DataTypes,
         dexDataMapVerify(o, type) \/ (o # 0 /\ dexDataMapVerify0Ok(o, type))
  PROVE  ItemsAt(type, o) # {}
BY Verifies DEF Accepted, dexDataMapVerify0Ok

LEMMA ReferencesFollowed == ~BigEndian /\ Accepted => ReferencesLead
<1> SUFFICES ASSUME ~BigEndian, Accepted, NEW s \in Range(file.map), NEW x \in Range(s.items),
                    NEW r \in References(s.type, x)
             PROVE  ItemsAt(r[2], r[1]) # {}
  BY DEF ReferencesLead
<1>1. PICK type : type = s.type
  OBVIOUS
<1>2. r \in References(type, x)
  BY <1>1
<1>3. type \in {"string_id", "proto_id", "class_def", "annotation_set_ref_list", "annotation_set",
                "class_data", "annotations_directory"}
  BY <1>2 DEF References
<1>4. s \in Sections(type) /\ type \in CrossTypes
  BY <1>1, <1>3 DEF Sections, CrossTypes, IdTypes
<1>5. PICK k \in 1..Len(s.items) : x = s.items[k]
  <2>1. Section(s)
    BY <1>3, <1>4, SectionIs DEF Accepted, InPlace
  <2>2. QED
    BY <2>1 DEF Section, Range
<1>6. Fields(type, x) /\ CrossedItem(s, k)
  BY <1>4, <1>5, CrossedIs DEF Visited
<1>7. PICK previous, before : CrossVerify(type, x, previous, before)
  BY <1>1, <1>5, <1>6 DEF CrossedItem
<1>8. CASE type = "string_id"
  <2>1. r = <<x.stringDataOff, "string_data">>
    BY <1>2, <1>8 DEF References
  <2>2. x.stringDataOff \in Nat /\ dexDataMapVerify(x.stringDataOff, "string_data")
    BY <1>6, <1>7, <1>8 DEF Fields, CrossVerify, crossVerifyStringIdItem
  <2>3. QED
    BY <2>1, <2>2, OffsetLeads DEF DataTypes
<1>9. CASE type = "proto_id"
  <2>1. r = <<x.parametersOff, "type_list">> /\ x.parametersOff # 0
    BY <1>2, <1>9 DEF References
  <2>2. x.parametersOff \in Nat /\ dexDataMapVerify0Ok(x.parametersOff, "type_list")
    BY <1>6, <1>7, <1>9 DEF Fields, CrossVerify, crossVerifyProtoIdItem
  <2>3. QED
    BY <2>1, <2>2, OffsetLeads DEF DataTypes
<1>10. CASE type = "class_def"
  <2>1. /\ r[1] # 0
        /\ \/ r = <<x.interfacesOff, "type_list">>
           \/ r = <<x.annotationsOff, "annotations_directory">>
           \/ r = <<x.classDataOff, "class_data">>
           \/ r = <<x.staticValuesOff, "encoded_array">>
    BY <1>2, <1>10 DEF References
  <2>2. {x.interfacesOff, x.annotationsOff, x.classDataOff, x.staticValuesOff} \subseteq Nat
    BY <1>6, <1>10 DEF Fields
  <2>3. crossVerifyClassDefItem(x, before)
    BY <1>7, <1>10 DEF CrossVerify
  <2>4. /\ dexDataMapVerify0Ok(x.interfacesOff, "type_list")
        /\ dexDataMapVerify0Ok(x.annotationsOff, "annotations_directory")
        /\ dexDataMapVerify0Ok(x.classDataOff, "class_data")
        /\ dexDataMapVerify0Ok(x.staticValuesOff, "encoded_array")
    BY <2>3 DEF crossVerifyClassDefItem, StaticValuesOff
  <2>5. QED
    BY <2>1, <2>2, <2>4, OffsetLeads DEF DataTypes
<1>11. CASE type = "annotation_set_ref_list"
  <2>1. PICK o \in Range(x.list) \ {0} : r = <<o, "annotation_set">>
    BY <1>2, <1>11 DEF References
  <2>2. o \in Nat /\ dexDataMapVerify0Ok(o, "annotation_set")
    BY <1>6, <1>7, <1>11 DEF Fields, List, CrossVerify, crossVerifyAnnotationSetRefList
  <2>3. QED
    BY <2>1, <2>2, OffsetLeads DEF DataTypes
<1>12. CASE type = "annotation_set"
  <2>1. PICK o \in Range(x.entries) \ {0} : r = <<o, "annotation">>
    BY <1>2, <1>12 DEF References
  <2>2. o \in Nat /\ dexDataMapVerify0Ok(o, "annotation")
    BY <1>6, <1>7, <1>12 DEF Fields, List, CrossVerify, crossVerifyAnnotationSetItem
  <2>3. QED
    BY <2>1, <2>2, OffsetLeads DEF DataTypes
<1>13. CASE type = "class_data"
  <2>1. PICK m \in Range(x.directMethods \o x.virtualMethods) :
          r = <<m.codeOff, "code">> /\ m.codeOff # 0
    BY <1>2, <1>13 DEF References
  <2>2. dexDataMapVerify0Ok(m.codeOff, "code")
    BY <1>7, <1>13 DEF CrossVerify, crossVerifyClassDataItem
  <2>3. m \in Range(x.directMethods) \cup Range(x.virtualMethods)
    BY <1>6, <1>13, Joined DEF Fields, Listed
  <2>4. m.codeOff \in Nat
    BY <1>6, <1>13, <2>3 DEF Fields
  <2>5. QED
    BY <2>1, <2>2, <2>4, OffsetLeads DEF DataTypes
<1>14. CASE type = "annotations_directory"
  <2>1. crossVerifyAnnotationsDirectoryItem(x)
    BY <1>7, <1>14 DEF CrossVerify
  <2>2. /\ x.classAnnotationsOff \in Nat
        /\ \A a \in Range(x.fields) \cup Range(x.methods) \cup Range(x.parameters) :
             a.annotationsOff \in Nat
        /\ Range(x.fields \o x.methods) = Range(x.fields) \cup Range(x.methods)
    BY <1>6, <1>14, Joined DEF Fields, Listed
  <2>3. \/ \E a \in Range(x.fields \o x.methods) : r = <<a.annotationsOff, "annotation_set">>
        \/ \E a \in Range(x.parameters) : r = <<a.annotationsOff, "annotation_set_ref_list">>
        \/ (r = <<x.classAnnotationsOff, "annotation_set">> /\ x.classAnnotationsOff # 0)
    BY <1>2, <1>14 DEF References
  <2>4. CASE \E a \in Range(x.fields \o x.methods) : r = <<a.annotationsOff, "annotation_set">>
    <3>1. PICK a \in Range(x.fields) \cup Range(x.methods) :
            r = <<a.annotationsOff, "annotation_set">>
      BY <2>2, <2>4
    <3>2. dexDataMapVerify(a.annotationsOff, "annotation_set")
      BY <2>1 DEF crossVerifyAnnotationsDirectoryItem
    <3>3. QED
      BY <2>2, <3>1, <3>2, OffsetLeads DEF DataTypes
  <2>5. CASE \E a \in Range(x.parameters) : r = <<a.annotationsOff, "annotation_set_ref_list">>
    <3>1. PICK a \in Range(x.parameters) : r = <<a.annotationsOff, "annotation_set_ref_list">>
      BY <2>5
    <3>2. dexDataMapVerify(a.annotationsOff, "annotation_set_ref_list")
      BY <2>1 DEF crossVerifyAnnotationsDirectoryItem
    <3>3. QED
      BY <2>2, <3>1, <3>2, OffsetLeads DEF DataTypes
  <2>6. CASE r = <<x.classAnnotationsOff, "annotation_set">> /\ x.classAnnotationsOff # 0
    <3>1. dexDataMapVerify0Ok(x.classAnnotationsOff, "annotation_set")
      BY <2>1 DEF crossVerifyAnnotationsDirectoryItem
    <3>2. QED
      BY <2>2, <2>6, <3>1, OffsetLeads DEF DataTypes
  <2>7. QED
    BY <2>3, <2>4, <2>5, <2>6
<1>15. QED
  BY <1>3, <1>8, <1>9, <1>10, <1>11, <1>12, <1>13, <1>14

\* No two tries of a code item overlap.
LEMMA TriesApart == Accepted => OneTryAtATime
<1> DEFINE covered(t) == t.startAddr..(t.startAddr + t.insnCount - 1)
<1> SUFFICES ASSUME Accepted, NEW c \in Items("code")
             PROVE  /\ \A j, k \in DOMAIN c.tries : j # k =>
                         covered(c.tries[j]) \cap covered(c.tries[k]) = {}
                    /\ \A t \in Range(c.tries) :
                         /\ covered(t) \subseteq 0..(c.insnsSize - 1)
                         /\ \E h \in Range(c.handlers) :
                              h.off = t.handlerOff /\ Range(h.addrs) \subseteq 0..(c.insnsSize - 1)
  BY DEF OneTryAtATime
<1>1. Visited("code", c)
  <2>1. PICK s \in Sections("code") : c \in Range(s.items)
    BY DEF Items
  <2>2. Section(s) /\ \A i \in 1..Len(s.items) : Visited("code", s.items[i])
    BY <2>1, SectionIs DEF Accepted, InPlace
  <2>3. QED
    BY <2>1, <2>2 DEF Range, Section
<1>2. PICK tries, size : tries = c.tries /\ size = c.insnsSize
  OBVIOUS
<1>3. /\ size \in Nat /\ tries \in Seq(Range(tries))
      /\ \A t \in Range(tries) : t.startAddr \in Nat /\ t.insnCount \in Nat
      /\ \A h \in Range(c.handlers) : List(h.addrs, Nat)
  BY <1>1, <1>2 DEF Visited, Fields, Listed
<1>4. PICK n : n = Len(tries)
  OBVIOUS
<1>5. n \in Nat /\ DOMAIN tries = 1..n
  BY <1>3, <1>4
<1>6. \A i \in 1..n : tries[i].startAddr \in Nat /\ tries[i].insnCount \in Nat
  BY <1>3, <1>5 DEF Range
<1>7. CASE n = 0
  BY <1>2, <1>5, <1>7 DEF Range
<1>8. CASE n # 0
  <2>1. swapTriesAndCatches(c)
    <3>1. tries # <<>>
      BY <1>4, <1>8
    <3>2. QED
      BY <1>1, <1>2, <3>1 DEF Visited, IntraVerify, swapCodeItem
  <2>2. /\ setHandlerOffsAndVerify(c)
        /\ \A i \in 1..n :
             /\ i > 1 => tries[i].startAddr >= tries[i - 1].startAddr + tries[i - 1].insnCount
             /\ tries[i].handlerOff \in HandlerOffs(c)
             /\ tries[i].startAddr + tries[i].insnCount <= size
    BY <1>2, <1>5, <2>1 DEF swapTriesAndCatches
  <2>3. PICK R : R = {p \in (1..n) \X (1..n) :
                        tries[p[1]].startAddr + tries[p[1]].insnCount <= tries[p[2]].startAddr}
    OBVIOUS
  <2>4. ASSUME NEW i \in 1..(n - 1) PROVE <<i, i + 1>> \in R
    <3>1. i \in 1..n /\ i + 1 \in 1..n /\ i + 1 > 1 /\ (i + 1) - 1 = i
      BY <1>5
    <3>2. tries[i].startAddr + tries[i].insnCount <= tries[i + 1].startAddr
      BY <1>6, <2>2, <3>1
    <3>3. QED
      BY <2>3, <3>1, <3>2
  <2>5. ASSUME NEW i \in 1..n, NEW j \in 1..n, NEW k \in 1..n, <<i, j>> \in R, <<j, k>> \in R
        PROVE  <<i, k>> \in R
    <3>1. /\ tries[i].startAddr + tries[i].insnCount <= tries[j].startAddr
          /\ tries[j].startAddr + tries[j].insnCount <= tries[k].startAddr
      BY <2>3, <2>5
    <3>2. tries[i].startAddr + tries[i].insnCount <= tries[k].startAddr
      BY <1>6, <3>1
    <3>3. QED
      BY <2>3, <3>2
  <2>6. \A i, j \in 1..n : i < j => <<i, j>> \in R
    BY <1>5, <2>4, <2>5, Chain
  <2>7. ASSUME NEW j \in 1..n, NEW k \in 1..n, j < k
        PROVE  covered(tries[j]) \cap covered(tries[k]) = {}
    <3>1. tries[j].startAddr + tries[j].insnCount <= tries[k].startAddr
      BY <2>3, <2>6, <2>7
    <3>2. QED
      BY <1>6, <3>1
  <2>8. ASSUME NEW j \in 1..n, NEW k \in 1..n, j # k
        PROVE  covered(tries[j]) \cap covered(tries[k]) = {}
    <3>1. j < k \/ k < j
      BY <2>8
    <3> HIDE DEF covered
    <3>2. QED
      BY <2>7, <3>1
  <2>9. ASSUME NEW i \in 1..n
        PROVE  /\ covered(tries[i]) \subseteq 0..(size - 1)
               /\ \E h \in Range(c.handlers) :
                    h.off = tries[i].handlerOff /\ Range(h.addrs) \subseteq 0..(size - 1)
    <3>1. covered(tries[i]) \subseteq 0..(size - 1)
      BY <1>3, <1>6, <2>2
    <3>2. PICK h \in Range(c.handlers) : h.off = tries[i].handlerOff
      BY <2>2 DEF HandlerOffs
    <3>3. Range(h.addrs) \subseteq Nat /\ \A a \in Range(h.addrs) : a < size
      BY <1>2, <1>3, <2>2 DEF setHandlerOffsAndVerify, List
    <3>4. Range(h.addrs) \subseteq 0..(size - 1)
      BY <1>3, <3>3
    <3>5. QED
      BY <3>1, <3>2, <3>4
  <2>10. \A t \in Range(tries) : \E i \in 1..n : t = tries[i]
    BY <1>5 DEF Range
  <2> HIDE DEF covered
  <2>11. \A j, k \in DOMAIN tries : j # k => covered(tries[j]) \cap covered(tries[k]) = {}
    BY <1>5, <2>8
  <2>12. ASSUME NEW t \in Range(tries)
         PROVE  /\ covered(t) \subseteq 0..(size - 1)
                /\ \E h \in Range(c.handlers) :
                     h.off = t.handlerOff /\ Range(h.addrs) \subseteq 0..(size - 1)
    <3>1. PICK i \in 1..n : t = tries[i]
      BY <2>10
    <3>2. QED
      BY <2>9, <3>1
  <2>13. QED
    BY <1>2, <2>11, <2>12
<1>9. QED
  BY <1>7, <1>8

-----------------------------------------------------------------------------
(***************************************************************************)
(* The members of a class                                                  *)
(***************************************************************************)
\* The class that an entry of the tables of members names.
LEMMA MemberHasClass ==
  ASSUME Checked, NEW type \in {"field_id", "method_id"}, NEW idx \in Nat, HasEntry(type, idx)
  PROVE  Entry(type, idx).classIdx # NoIndex
<1>1. PICK e : e = Entry(type, idx)
  OBVIOUS
<1>2. Visited(type, e)
  BY <1>1, EntryIs DEF IdTypes
<1>3. Index(e.classIdx, "type_id")
  BY <1>2 DEF Visited, IntraVerify, swapFieldIdItem, swapMethodIdItem
<1>4. QED
  BY <1>1, <1>3 DEF Index

\* If all members of two lists are of the class of the first of them, and it is that of
\* a definition or none, then they are of the class of the definition.
LEMMA OfOneClass ==
  ASSUME Checked, NEW fields, NEW methods, NEW class,
         fields \in Seq(Range(fields)), methods \in Seq(Range(methods)),
         \A f \in Range(fields) : f.idx \in Nat /\ HasEntry("field_id", f.idx)
                                   /\ verifyFieldDefiner(FirstDefiner(fields, methods), f.idx),
         \A m \in Range(methods) : m.idx \in Nat /\ HasEntry("method_id", m.idx)
                                   /\ verifyMethodDefiner(FirstDefiner(fields, methods), m.idx),
         FirstDefiner(fields, methods) \in {class, NoIndex}
  PROVE  /\ \A f \in Range(fields) : Entry("field_id", f.idx).classIdx = class
         /\ \A m \in Range(methods) : Entry("method_id", m.idx).classIdx = class
<1>1. ASSUME NEW f \in Range(fields) PROVE Entry("field_id", f.idx).classIdx = class
  <2>1. f.idx \in Nat /\ HasEntry("field_id", f.idx)
    OBVIOUS
  <2>2. Entry("field_id", f.idx).classIdx # NoIndex
    BY <2>1, MemberHasClass
  <2>3. QED
    BY <2>2 DEF verifyFieldDefiner
<1>2. ASSUME NEW m \in Range(methods) PROVE Entry("method_id", m.idx).classIdx = class
  <2>1. m.idx \in Nat /\ HasEntry("method_id", m.idx)
    OBVIOUS
  <2>2. Entry("method_id", m.idx).classIdx # NoIndex
    BY <2>1, MemberHasClass
  <2>3. QED
    BY <2>2 DEF verifyMethodDefiner
<1>3. QED
  BY <1>1, <1>2

LEMMA JoinedSeq ==
  ASSUME NEW s, NEW t, s \in Seq(Range(s)), t \in Seq(Range(t))
  PROVE  s \o t \in Seq(Range(s \o t))
<1>1. PICK S, T : S = Range(s) /\ T = Range(t)
  OBVIOUS
<1>2. s \in Seq(S \cup T) /\ t \in Seq(S \cup T)
  BY <1>1
<1>3. PICK u : u = s \o t
  OBVIOUS
<1>4. u \in Seq(S \cup T)
  BY <1>2, <1>3
<1>5. Len(u) \in Nat /\ DOMAIN u = 1..Len(u) /\ u \in [1..Len(u) -> S \cup T]
  BY <1>4
<1>6. \A i \in 1..Len(u) : u[i] \in Range(u)
  BY <1>5 DEF Range
<1>7. u \in [1..Len(u) -> Range(u)]
  BY <1>5, <1>6
<1>8. PICK n, U : n = Len(u) /\ U = Range(u)
  OBVIOUS
<1>9. n \in Nat /\ u \in [1..n -> U]
  BY <1>5, <1>7, <1>8
<1>10. u \in Seq(U)
  BY <1>9
<1>11. QED
  BY <1>3, <1>8, <1>10

\* What CHECK_INDEX has let through one by one.
LEMMA IndexInList ==
  ASSUME NEW list, NEW type, AllIndex(Indices(list), type), NEW x \in Range(list)
  PROVE  Index(x.idx, type)
<1>1. PICK k \in DOMAIN list : x = list[k]
  BY DEF Range
<1>2. k \in DOMAIN Indices(list) /\ Indices(list)[k] = x.idx
  BY <1>1 DEF Indices
<1>3. QED
  BY <1>2 DEF AllIndex

\* What the second pass has made sure of for the members of a class.
LEMMA DataOfItsClass ==
  ASSUME Accepted, NEW o, NEW d \in ItemsAt("class_data", o), NEW class,
         verifyClassDataIsForDef(o, class)
  PROVE  /\ \A f \in Range(d.staticFields \o d.instanceFields) :
              Entry("field_id", f.idx).classIdx = class
         /\ \A m \in Range(d.directMethods \o d.virtualMethods) :
              Entry("method_id", m.idx).classIdx = class
<1>1. Checked /\ "class_data" \notin InPlace /\ "class_data" \in CrossTypes
  BY DEF Accepted, InPlace, CrossTypes
<1>2. o # 0
  BY <1>1, AfterHeader
<1>3. PICK fields, methods : fields = d.staticFields \o d.instanceFields
                             /\ methods = d.directMethods \o d.virtualMethods
  OBVIOUS
<1>4. ItemAt("class_data", o) = d
  BY <1>1, OneItem
<1>5. FirstDefiner(fields, methods) \in {class, NoIndex}
  BY <1>2, <1>3, <1>4 DEF verifyClassDataIsForDef, findFirstClassDataDefiner
<1>6. PICK s \in Sections("class_data") : \E k \in 1..Len(s.items) : d = s.items[k] /\ Starts(s)[k] = o
  BY <1>1, ItemIs
<1>7. PICK k \in 1..Len(s.items) : d = s.items[k]
  BY <1>6
<1>8. Visited("class_data", d) /\ CrossedItem(s, k) /\ s.type = "class_data"
  BY <1>1, <1>7, CrossedIs
<1>9. crossVerifyClassDataItem(d)
  BY <1>7, <1>8 DEF CrossedItem, CrossVerify
<1>10. Readable("class_data", d)
  BY <1>7, <1>8 DEF CrossedItem
<1>11. /\ d.staticFields \in Seq(Range(d.staticFields))
       /\ d.instanceFields \in Seq(Range(d.instanceFields))
       /\ d.directMethods \in Seq(Range(d.directMethods))
       /\ d.virtualMethods \in Seq(Range(d.virtualMethods))
       /\ \A f \in Range(d.staticFields) \cup Range(d.instanceFields) : f.idx \in Nat
       /\ \A m \in Range(d.directMethods) \cup Range(d.virtualMethods) : m.idx \in Nat
       /\ AllIndex(Indices(d.directMethods), "method_id")
       /\ AllIndex(Indices(d.virtualMethods), "method_id")
  BY <1>8 DEF Visited, Fields, Listed, IntraVerify, intraVerifyClassDataItem, verifyClassDataItem0,
     verifyMethods
<1>12. /\ fields \in Seq(Range(fields)) /\ methods \in Seq(Range(methods))
       /\ Range(fields) = Range(d.staticFields) \cup Range(d.instanceFields)
       /\ Range(methods) = Range(d.directMethods) \cup Range(d.virtualMethods)
  BY <1>3, <1>11, Joined, JoinedSeq
<1>13. ASSUME NEW f \in Range(fields)
       PROVE  /\ f.idx \in Nat /\ HasEntry("field_id", f.idx)
              /\ verifyFieldDefiner(FirstDefiner(fields, methods), f.idx)
  <2>1. f.idx \in Nat
    BY <1>11, <1>12
  <2>2. f.idx \in DataFields(d)
    BY <1>3 DEF DataFields
  <2>3. HasEntry("field_id", f.idx)
    BY <1>10, <2>2 DEF Readable, FieldsRead
  <2>4. verifyFieldDefiner(FirstDefiner(fields, methods), f.idx)
    BY <1>3, <1>9 DEF crossVerifyClassDataItem, findFirstClassDataDefiner
  <2>5. QED
    BY <2>1, <2>3, <2>4
<1>14. ASSUME NEW m \in Range(methods)
       PROVE  /\ m.idx \in Nat /\ HasEntry("method_id", m.idx)
              /\ verifyMethodDefiner(FirstDefiner(fields, methods), m.idx)
  <2>1. m.idx \in Nat
    BY <1>11, <1>12
  <2>2. Index(m.idx, "method_id")
    BY <1>11, <1>12, IndexInList
  <2>3. HasEntry("method_id", m.idx)
    BY <1>1, <2>1, <2>2, IndexHas DEF Number, IdTypes
  <2>4. verifyMethodDefiner(FirstDefiner(fields, methods), m.idx)
    BY <1>3, <1>9 DEF crossVerifyClassDataItem, findFirstClassDataDefiner
  <2>5. QED
    BY <2>1, <2>3, <2>4
<1>15. QED
  BY <1>1, <1>3, <1>5, <1>12, <1>13, <1>14, OfOneClass

LEMMA DirectoryOfItsClass ==
  ASSUME Accepted, NEW o, NEW d \in ItemsAt("annotations_directory", o), NEW class,
         verifyAnnotationsDirectoryIsForDef(o, class)
  PROVE  /\ \A a \in Range(d.fields) : Entry("field_id", a.idx).classIdx = class
         /\ \A a \in Range(d.methods \o d.parameters) :
              Entry("method_id", a.idx).classIdx = class
<1>1. Checked /\ "annotations_directory" \notin InPlace /\ "annotations_directory" \in CrossTypes
  BY DEF Accepted, InPlace, CrossTypes
<1>2. o # 0
  BY <1>1, AfterHeader
<1>3. PICK fields, methods : fields = d.fields /\ methods = d.methods \o d.parameters
  OBVIOUS
<1>4. ItemAt("annotations_directory", o) = d
  BY <1>1, OneItem
<1>5. FirstDefiner(fields, methods) \in {class, NoIndex}
  BY <1>2, <1>3, <1>4
     DEF verifyAnnotationsDirectoryIsForDef, findFirstAnnotationsDirectoryDefiner
<1>6. PICK s \in Sections("annotations_directory") :
         \E k \in 1..Len(s.items) : d = s.items[k] /\ Starts(s)[k] = o
  BY <1>1, ItemIs
<1>7. PICK k \in 1..Len(s.items) : d = s.items[k]
  BY <1>6
<1>8. Visited("annotations_directory", d) /\ CrossedItem(s, k) /\ s.type = "annotations_directory"
  BY <1>1, <1>7, CrossedIs
<1>9. crossVerifyAnnotationsDirectoryItem(d)
  BY <1>7, <1>8 DEF CrossedItem, CrossVerify
<1>10. /\ d.fields \in Seq(Range(d.fields)) /\ d.methods \in Seq(Range(d.methods))
       /\ d.parameters \in Seq(Range(d.parameters))
       /\ \A a \in Range(d.fields) \cup Range(d.methods) \cup Range(d.parameters) : a.idx \in Nat
       /\ AllIndex(Indices(d.fields), "field_id")
       /\ AllIndex(Indices(d.methods), "method_id")
       /\ AllIndex(Indices(d.parameters), "method_id")
  BY <1>8 DEF Visited, Fields, Listed, IntraVerify, swapAnnotationsDirectoryItem, swapAnnotations
<1>11. /\ fields \in Seq(Range(fields)) /\ methods \in Seq(Range(methods))
       /\ Range(methods) = Range(d.methods) \cup Range(d.parameters)
  BY <1>3, <1>10, Joined, JoinedSeq
<1>12. ASSUME NEW a \in Range(fields)
       PROVE  /\ a.idx \in Nat /\ HasEntry("field_id", a.idx)
              /\ verifyFieldDefiner(FirstDefiner(fields, methods), a.idx)
  <2>1. a.idx \in Nat /\ Index(a.idx, "field_id")
    BY <1>3, <1>10, IndexInList
  <2>2. HasEntry("field_id", a.idx)
    BY <1>1, <2>1, IndexHas DEF Number, IdTypes
  <2>3. verifyFieldDefiner(FirstDefiner(fields, methods), a.idx)
    BY <1>3, <1>9
       DEF crossVerifyAnnotationsDirectoryItem, findFirstAnnotationsDirectoryDefiner
  <2>4. QED
    BY <2>1, <2>2, <2>3
<1>13. ASSUME NEW a \in Range(methods)
       PROVE  /\ a.idx \in Nat /\ HasEntry("method_id", a.idx)
              /\ verifyMethodDefiner(FirstDefiner(fields, methods), a.idx)
  <2>1. a.idx \in Nat /\ Index(a.idx, "method_id")
    BY <1>10, <1>11, IndexInList
  <2>2. HasEntry("method_id", a.idx)
    BY <1>1, <2>1, IndexHas DEF Number, IdTypes
  <2>3. verifyMethodDefiner(FirstDefiner(fields, methods), a.idx)
    BY <1>3, <1>9, <1>11
       DEF crossVerifyAnnotationsDirectoryItem, findFirstAnnotationsDirectoryDefiner
  <2>4. QED
    BY <2>1, <2>2, <2>3
<1>14. /\ \A a \in Range(fields) : Entry("field_id", a.idx).classIdx = class
       /\ \A a \in Range(methods) : Entry("method_id", a.idx).classIdx = class
  <2>1. fields \in Seq(Range(fields)) /\ methods \in Seq(Range(methods))
    BY <1>11
  <2>2. QED
    BY <1>1, <1>5, <1>12, <1>13, <2>1, OfOneClass
<1>15. QED
  BY <1>3, <1>14

LEMMA ClassesAreTheirOwn == Accepted => OfItsClass
<1> SUFFICES ASSUME Accepted, NEW s \in Sections("class_def"), NEW k \in DOMAIN s.items,
                    NEW c, c = s.items[k]
             PROVE  /\ \A j \in DOMAIN s.items \ {k} : s.items[j].classIdx # c.classIdx
                    /\ \A d \in ItemsAt("class_data", c.classDataOff) :
                         /\ \A f \in Range(d.staticFields \o d.instanceFields) :
                              Entry("field_id", f.idx).classIdx = c.classIdx
                         /\ \A m \in Range(d.directMethods \o d.virtualMethods) :
                              Entry("method_id", m.idx).classIdx = c.classIdx
                    /\ \A d \in ItemsAt("annotations_directory", c.annotationsOff) :
                         /\ \A f \in Range(d.fields) :
                              Entry("field_id", f.idx).classIdx = c.classIdx
                         /\ \A m \in Range(d.methods \o d.parameters) :
                              Entry("method_id", m.idx).classIdx = c.classIdx
  BY DEF OfItsClass
<1>1. Checked /\ "class_def" \notin InPlace /\ "class_def" \in CrossTypes
  BY DEF Accepted, InPlace, CrossTypes, IdTypes
<1>2. Len(s.items) \in Nat /\ DOMAIN s.items = 1..Len(s.items) /\ s.type = "class_def"
  BY <1>1, SectionIs DEF Section
<1>3. ASSUME NEW j \in DOMAIN s.items
      PROVE  \E before : /\ {s.items[l].classIdx : l \in 1..(j - 1)} \subseteq before
                         /\ crossVerifyClassDefItem(s.items[j], before)
  <2>1. CrossedItem(s, j)
    BY <1>1, <1>2, CrossedIs
  <2>2. QED
    BY <1>2, <2>1 DEF CrossedItem, CrossVerify
<1>4. ASSUME NEW i \in DOMAIN s.items, NEW j \in DOMAIN s.items, i < j
      PROVE  s.items[i].classIdx # s.items[j].classIdx
  <2>1. PICK before : /\ {s.items[l].classIdx : l \in 1..(j - 1)} \subseteq before
                      /\ crossVerifyClassDefItem(s.items[j], before)
    BY <1>3
  <2>2. i \in 1..(j - 1)
    BY <1>2, <1>4
  <2>3. s.items[i].classIdx \in before
    BY <2>1, <2>2
  <2>4. s.items[j].classIdx \notin before
    BY <2>1 DEF crossVerifyClassDefItem
  <2>5. QED
    BY <2>3, <2>4
<1>5. \A j \in DOMAIN s.items \ {k} : s.items[j].classIdx # c.classIdx
  <2>1. ASSUME NEW j \in DOMAIN s.items \ {k} PROVE s.items[j].classIdx # s.items[k].classIdx
    <3>1. j < k \/ k < j
      BY <1>2
    <3>2. QED
      BY <1>4, <3>1
  <2>2. QED
    BY <2>1
<1>6. /\ verifyClassDataIsForDef(c.classDataOff, c.classIdx)
      /\ verifyAnnotationsDirectoryIsForDef(c.annotationsOff, c.classIdx)
  BY <1>3 DEF crossVerifyClassDefItem
<1>7. QED
  BY <1>5, <1>6, DataOfItsClass, DirectoryOfItsClass

-----------------------------------------------------------------------------
(***************************************************************************)
(* The order of names                                                      *)
(***************************************************************************)
\* A sequence of numbers.
IsKey(s) == \E n \in Nat : DOMAIN s = 1..n /\ \A i \in 1..n : s[i] \in Nat

LEMMA LexTransitive ==
  ASSUME NEW s, NEW t, NEW u, IsKey(s), IsKey(t), IsKey(u), LexLess(s, t), LexLess(t, u)
  PROVE  LexLess(s, u)
<1>1. PICK l \in Nat : DOMAIN s = 1..l /\ \A i \in 1..l : s[i] \in Nat
  BY DEF IsKey
<1>2. PICK m \in Nat : DOMAIN t = 1..m /\ \A i \in 1..m : t[i] \in Nat
  BY DEF IsKey
<1>3. PICK n \in Nat : DOMAIN u = 1..n /\ \A i \in 1..n : u[i] \in Nat
  BY DEF IsKey
<1>4. PICK a \in 1..m : /\ \A j \in 1..(a - 1) : j \in 1..l /\ s[j] = t[j]
                        /\ a \in 1..l => s[a] < t[a]
  BY <1>1, <1>2 DEF LexLess
<1>5. PICK b \in 1..n : /\ \A j \in 1..(b - 1) : j \in 1..m /\ t[j] = u[j]
                        /\ b \in 1..m => t[b] < u[b]
  BY <1>2, <1>3 DEF LexLess
<1>6. CASE a < b
  <2>1. a \in 1..(b - 1) /\ a \in 1..n
    BY <1>6
  <2>2. t[a] = u[a]
    BY <1>5, <2>1
  <2>3. \A j \in 1..(a - 1) : j \in 1..l /\ s[j] = u[j]
    BY <1>4, <1>5, <1>6
  <2>4. a \in 1..l => s[a] < u[a]
    BY <1>4, <2>2
  <2>5. QED
    BY <1>1, <1>3, <2>1, <2>3, <2>4 DEF LexLess
<1>7. CASE ~(a < b)
  <2>1. b \in 1..m /\ t[b] < u[b]
    BY <1>2, <1>5, <1>7
  <2>2. \A j \in 1..(b - 1) : j \in 1..l /\ s[j] = u[j]
    BY <1>4, <1>5, <1>7
  <2>3. b \in 1..l => s[b] < u[b]
    <3>1. CASE b = a
      <4>1. b \in 1..l => s[b] < t[b]
        BY <1>4, <3>1
      <4>2. QED
        BY <1>1, <1>2, <1>3, <2>1, <4>1
    <3>2. CASE b # a
      <4>1. s[b] = t[b]
        BY <1>4, <1>7, <3>2
      <4>2. QED
        BY <2>1, <4>1
    <3>3. QED
      BY <3>1, <3>2
  <2>4. QED
    BY <1>1, <1>3, <2>2, <2>3 DEF LexLess
<1>8. QED
  BY <1>6, <1>7

\* What goes up with the members of a key, each the same for the same, keeps the order.
LEMMA LexMapped ==
  ASSUME NEW s, NEW t, NEW n \in Nat, DOMAIN t = 1..n, NEW f, NEW g, DOMAIN f = DOMAIN s,
         DOMAIN g = DOMAIN t, LexLess(s, t),
         \A i \in DOMAIN s \cap DOMAIN t :
           (s[i] = t[i] => f[i] = g[i]) /\ (s[i] < t[i] => f[i] < g[i])
  PROVE  LexLess(f, g)
<1>1. PICK i \in DOMAIN t : /\ \A j \in 1..(i - 1) : j \in DOMAIN s /\ s[j] = t[j]
                            /\ i \in DOMAIN s => s[i] < t[i]
  BY DEF LexLess
<1>2. \A j \in 1..(i - 1) : j \in DOMAIN t
  OBVIOUS
<1>3. \A j \in 1..(i - 1) : j \in DOMAIN f /\ f[j] = g[j]
  BY <1>1, <1>2
<1>4. i \in DOMAIN f => f[i] < g[i]
  BY <1>1
<1>5. QED
  BY <1>3, <1>4 DEF LexLess

\* Keys each before the next are in order.
LEMMA KeysRise ==
  ASSUME NEW n \in Nat, NEW key, \A i \in 1..n : IsKey(key[i]),
         \A i \in 1..(n - 1) : LexLess(key[i], key[i + 1])
  PROVE  \A i, j \in 1..n : i < j => LexLess(key[i], key[j])
<1>1. PICK R : R = {p \in (1..n) \X (1..n) : LexLess(key[p[1]], key[p[2]])}
  OBVIOUS
<1>2. \A i \in 1..(n - 1) : <<i, i + 1>> \in R
  BY <1>1
<1>3. ASSUME NEW i \in 1..n, NEW j \in 1..n, NEW k \in 1..n, <<i, j>> \in R, <<j, k>> \in R
      PROVE  <<i, k>> \in R
  <2>1. LexLess(key[i], key[j]) /\ LexLess(key[j], key[k])
    BY <1>1, <1>3
  <2>2. LexLess(key[i], key[k])
    BY <2>1, LexTransitive
  <2>3. QED
    BY <1>1, <2>2
<1>4. \A i, j \in 1..n : i < j => <<i, j>> \in R
  BY <1>2, <1>3, Chain
<1>5. QED
  BY <1>1, <1>4

\* Numbers each below the next are in order.
LEMMA NumbersRise ==
  ASSUME NEW n \in Nat, NEW f, \A i \in 1..n : f[i] \in Nat, \A i \in 1..(n - 1) : f[i] < f[i + 1]
  PROVE  \A i, j \in 1..n : i < j => f[i] < f[j]
<1>1. PICK R : R = {p \in (1..n) \X (1..n) : f[p[1]] < f[p[2]]}
  OBVIOUS
<1>2. \A i \in 1..(n - 1) : <<i, i + 1>> \in R
  BY <1>1
<1>3. ASSUME NEW i \in 1..n, NEW j \in 1..n, NEW k \in 1..n, <<i, j>> \in R, <<j, k>> \in R
      PROVE  <<i, k>> \in R
  <2>1. f[i] < f[j] /\ f[j] < f[k]
    BY <1>1, <1>3
  <2>2. f[i] < f[k]
    BY <2>1
  <2>3. QED
    BY <1>1, <2>2
<1>4. \A i, j \in 1..n : i < j => <<i, j>> \in R
  BY <1>2, <1>3, Chain
<1>5. QED
  BY <1>1, <1>4

\* What the visitor of an entry of a table has compared it with is the entry before.
LEMMA Neighbours ==
  ASSUME Accepted, NEW type \in IdTypes, NEW s \in Sections(type)
  PROVE  /\ Len(s.items) \in Nat /\ DOMAIN s.items = 1..Len(s.items)
         /\ \A i \in 1..Len(s.items) :
              /\ Visited(type, s.items[i])
              /\ \E previous, before : CrossVerify(type, s.items[i], previous, before)
         /\ \A i \in 1..(Len(s.items) - 1) :
              /\ s.items[i] # None
              /\ \E before : CrossVerify(type, s.items[i + 1], s.items[i], before)
<1>1. Checked /\ type \notin InPlace /\ type \in CrossTypes
  BY DEF Accepted, InPlace, CrossTypes, IdTypes
<1>2. Section(s)
  BY <1>1, SectionIs
<1>3. Len(s.items) \in Nat /\ DOMAIN s.items = 1..Len(s.items)
  BY <1>2 DEF Section
<1>4. ASSUME NEW i \in 1..Len(s.items)
      PROVE  /\ Visited(type, s.items[i])
             /\ \E before :
                  CrossVerify(type, s.items[i], IF i = 1 THEN None ELSE s.items[i - 1], before)
  BY <1>1, CrossedIs DEF CrossedItem
<1>5. ASSUME NEW i \in 1..(Len(s.items) - 1)
      PROVE  /\ s.items[i] # None
             /\ \E before : CrossVerify(type, s.items[i + 1], s.items[i], before)
  <2>1. i \in 1..Len(s.items) /\ i + 1 \in 1..Len(s.items) /\ i + 1 # 1 /\ (i + 1) - 1 = i
    BY <1>3
  <2>2. s.items[i] # None
    BY <1>4, <2>1 DEF Visited
  <2>3. QED
    BY <1>4, <2>1, <2>2
<1>6. QED
  BY <1>3, <1>4, <1>5

LEMMA StringsInOrder ==
  ASSUME Accepted, NEW s \in Sections("string_id")
  PROVE  /\ \A i \in 1..Len(s.items) : StringAt(s.items[i].stringDataOff).rank \in Nat
         /\ \A i, j \in 1..Len(s.items) : i < j =>
              StringAt(s.items[i].stringDataOff).rank < StringAt(s.items[j].stringDataOff).rank
<1>1. PICK n : n = Len(s.items)
  OBVIOUS
<1>2. n \in Nat
  BY <1>1, Neighbours DEF IdTypes
<1>3. PICK f : f = [i \in 1..n |-> StringAt(s.items[i].stringDataOff).rank]
  OBVIOUS
<1>4. ASSUME NEW i \in 1..n PROVE f[i] \in Nat
  <2>1. PICK o : o = s.items[i].stringDataOff
    OBVIOUS
  <2>2. o \in Nat /\ dexDataMapVerify(o, "string_data")
    BY <1>1, <2>1, Neighbours
       DEF IdTypes, Visited, Fields, CrossVerify, crossVerifyStringIdItem
  <2>3. ItemAt("string_data", o) \in ItemsAt("string_data", o)
    BY <2>2, OffsetLeads, ItemThere DEF DataTypes
  <2>4. Visited("string_data", ItemAt("string_data", o))
    BY <2>3, ItemIs DEF Accepted, InPlace
  <2>5. StringAt(o).rank \in Nat
    BY <2>4 DEF Visited, Fields, StringAt
  <2>6. QED
    BY <1>3, <2>1, <2>5
<1>5. ASSUME NEW i \in 1..(n - 1) PROVE f[i] < f[i + 1]
  <2>1. i \in 1..n /\ i + 1 \in 1..n
    BY <1>2
  <2>2. PICK x, y : x = s.items[i] /\ y = s.items[i + 1]
    OBVIOUS
  <2>3. x # None /\ crossVerifyStringIdItem(y, x)
    BY <1>1, <2>2, Neighbours DEF IdTypes, CrossVerify
  <2>4. StringAt(x.stringDataOff).rank < StringAt(y.stringDataOff).rank
    BY <2>3 DEF crossVerifyStringIdItem
  <2>5. QED
    BY <1>3, <2>1, <2>2, <2>4
<1>6. \A i, j \in 1..n : i < j => f[i] < f[j]
  BY <1>2, <1>4, <1>5, NumbersRise
<1>7. \A i \in 1..n : f[i] = StringAt(s.items[i].stringDataOff).rank
  BY <1>3
<1>8. QED
  BY <1>1, <1>4, <1>6, <1>7

\* The indices of strings are in the order of the strings.
LEMMA RankRises ==
  ASSUME Accepted, NEW a \in Number, NEW b \in Number,
         Index(a, "string_id"), Index(b, "string_id")
  PROVE  /\ a \in Nat /\ b \in Nat /\ Rank(a) \in Nat /\ Rank(b) \in Nat
         /\ a < b => Rank(a) < Rank(b)
<1>1. Checked /\ "string_id" \in IdTypes /\ "string_id" \notin InPlace
  BY DEF Accepted, IdTypes, InPlace
<1>2. a \in Nat /\ b \in Nat /\ HasEntry("string_id", a) /\ HasEntry("string_id", b)
  BY <1>1, IndexHas
<1>3. PICK s \in Sections("string_id") :
        a + 1 \in 1..Len(s.items) /\ Entry("string_id", a) = s.items[a + 1]
  BY <1>1, <1>2, EntryIs
<1>4. PICK r \in Sections("string_id") :
        b + 1 \in 1..Len(r.items) /\ Entry("string_id", b) = r.items[b + 1]
  BY <1>1, <1>2, EntryIs
<1>5. r = s
  BY <1>1, SectionIs
<1>6. /\ Rank(a) = StringAt(s.items[a + 1].stringDataOff).rank
      /\ Rank(b) = StringAt(s.items[b + 1].stringDataOff).rank
  BY <1>3, <1>4, <1>5 DEF Rank, String
<1>7. Rank(a) \in Nat /\ Rank(b) \in Nat
  BY <1>3, <1>4, <1>5, <1>6, StringsInOrder
<1>8. ASSUME a < b PROVE Rank(a) < Rank(b)
  <2>1. a + 1 < b + 1
    BY <1>2, <1>8
  <2>2. QED
    BY <1>3, <1>4, <1>5, <1>6, <2>1, StringsInOrder
<1>9. QED
  BY <1>2, <1>7, <1>8

LEMMA TypesInOrder ==
  ASSUME Accepted, NEW s \in Sections("type_id")
  PROVE  /\ \A i \in 1..Len(s.items) : /\ s.items[i].descriptorIdx \in Nat
                                       /\ Index(s.items[i].descriptorIdx, "string_id")
         /\ \A i, j \in 1..Len(s.items) : i < j =>
              s.items[i].descriptorIdx < s.items[j].descriptorIdx
<1>1. PICK n : n = Len(s.items)
  OBVIOUS
<1>2. n \in Nat
  BY <1>1, Neighbours DEF IdTypes
<1>3. PICK f : f = [i \in 1..n |-> s.items[i].descriptorIdx]
  OBVIOUS
<1>4. ASSUME NEW i \in 1..n PROVE f[i] \in Nat /\ Index(s.items[i].descriptorIdx, "string_id")
  <2>1. PICK x : x = s.items[i]
    OBVIOUS
  <2>2. Visited("type_id", x)
    BY <1>1, <2>1, Neighbours DEF IdTypes
  <2>3. x.descriptorIdx \in Number /\ Index(x.descriptorIdx, "string_id")
    BY <2>2 DEF Visited, Fields, IntraVerify, swapTypeIdItem
  <2>4. x.descriptorIdx \in Nat
    BY <2>3, IndexHas DEF Accepted, IdTypes
  <2>5. QED
    BY <1>3, <2>1, <2>3, <2>4
<1>5. ASSUME NEW i \in 1..(n - 1) PROVE f[i] < f[i + 1]
  <2>1. i \in 1..n /\ i + 1 \in 1..n
    BY <1>2
  <2>2. PICK x, y : x = s.items[i] /\ y = s.items[i + 1]
    OBVIOUS
  <2>3. x # None /\ crossVerifyTypeIdItem(y, x)
    BY <1>1, <2>2, Neighbours DEF IdTypes, CrossVerify
  <2>4. x.descriptorIdx < y.descriptorIdx
    BY <2>3 DEF crossVerifyTypeIdItem
  <2>5. QED
    BY <1>3, <2>1, <2>2, <2>4
<1>6. \A i, j \in 1..n : i < j => f[i] < f[j]
  BY <1>2, <1>4, <1>5, NumbersRise
<1>7. \A i \in 1..n : f[i] = s.items[i].descriptorIdx
  BY <1>3
<1>8. QED
  BY <1>1, <1>4, <1>6, <1>7

\* So are the indices of types, in the order of their descriptors.
LEMMA TypeRankRises ==
  ASSUME Accepted, NEW a \in Number, NEW b \in Number, Index(a, "type_id"), Index(b, "type_id")
  PROVE  /\ a \in Nat /\ b \in Nat /\ TypeRank(a) \in Nat /\ TypeRank(b) \in Nat
         /\ a < b => TypeRank(a) < TypeRank(b)
<1>1. Checked /\ "type_id" \in IdTypes /\ "type_id" \notin InPlace
  BY DEF Accepted, IdTypes, InPlace
<1>2. a \in Nat /\ b \in Nat /\ HasEntry("type_id", a) /\ HasEntry("type_id", b)
  BY <1>1, IndexHas
<1>3. PICK s \in Sections("type_id") :
        a + 1 \in 1..Len(s.items) /\ Entry("type_id", a) = s.items[a + 1]
  BY <1>1, <1>2, EntryIs
<1>4. PICK r \in Sections("type_id") :
        b + 1 \in 1..Len(r.items) /\ Entry("type_id", b) = r.items[b + 1]
  BY <1>1, <1>2, EntryIs
<1>5. r = s
  BY <1>1, SectionIs
<1>6. PICK x, y : x = s.items[a + 1].descriptorIdx /\ y = s.items[b + 1].descriptorIdx
  OBVIOUS
<1>7. TypeRank(a) = Rank(x) /\ TypeRank(b) = Rank(y)
  BY <1>3, <1>4, <1>5, <1>6 DEF TypeRank
<1>8. x \in Nat /\ y \in Nat /\ Index(x, "string_id") /\ Index(y, "string_id")
  BY <1>3, <1>4, <1>5, <1>6, TypesInOrder
<1>9. Rank(x) \in Nat /\ Rank(y) \in Nat /\ (x < y => Rank(x) < Rank(y))
  BY <1>8, RankRises DEF Number
<1>10. ASSUME a < b PROVE x < y
  <2>1. a + 1 < b + 1
    BY <1>2, <1>10
  <2>2. QED
    BY <1>3, <1>4, <1>5, <1>6, <2>1, TypesInOrder
<1>11. QED
  BY <1>2, <1>7, <1>9, <1>10

\* The key of a member: its class, its name, and what tells it from others of its name.
LEMMA MemberKey ==
  ASSUME NEW a \in Nat, NEW b \in Nat, NEW c \in Nat
  PROVE  IsKey(<<a, b, c>>)
<1>1. 3 \in Nat /\ DOMAIN <<a, b, c>> = 1..3
  OBVIOUS
<1>2. \A i \in 1..3 : <<a, b, c>>[i] \in Nat
  OBVIOUS
<1>3. QED
  BY <1>1, <1>2 DEF IsKey

LEMMA MembersCompared ==
  ASSUME Accepted, NEW x, NEW y, NEW last, NEW next, NEW lastRank, NEW nextRank,
         \A i \in {x, y} : /\ i.classIdx \in Number /\ Index(i.classIdx, "type_id")
                           /\ i.nameIdx \in Number /\ Index(i.nameIdx, "string_id"),
         last = next => lastRank = nextRank, last < next => lastRank < nextRank,
         LexLess(<<x.classIdx, x.nameIdx, last>>, <<y.classIdx, y.nameIdx, next>>)
  PROVE  LexLess(MemberRank(x, lastRank), MemberRank(y, nextRank))
<1>1. PICK s, t : s = <<x.classIdx, x.nameIdx, last>> /\ t = <<y.classIdx, y.nameIdx, next>>
  OBVIOUS
<1>2. PICK f, g : f = MemberRank(x, lastRank) /\ g = MemberRank(y, nextRank)
  OBVIOUS
<1>3. /\ DOMAIN s = 1..3 /\ DOMAIN t = 1..3
      /\ s[1] = x.classIdx /\ s[2] = x.nameIdx /\ s[3] = last
      /\ t[1] = y.classIdx /\ t[2] = y.nameIdx /\ t[3] = next
  BY <1>1
<1>4. /\ DOMAIN f = 1..3 /\ DOMAIN g = 1..3
      /\ f[1] = TypeRank(x.classIdx) /\ f[2] = Rank(x.nameIdx) /\ f[3] = lastRank
      /\ g[1] = TypeRank(y.classIdx) /\ g[2] = Rank(y.nameIdx) /\ g[3] = nextRank
  BY <1>2 DEF MemberRank
<1>5. x.classIdx < y.classIdx => TypeRank(x.classIdx) < TypeRank(y.classIdx)
  BY TypeRankRises
<1>6. x.nameIdx < y.nameIdx => Rank(x.nameIdx) < Rank(y.nameIdx)
  BY RankRises
<1>7. ASSUME NEW i \in 1..3 PROVE (s[i] = t[i] => f[i] = g[i]) /\ (s[i] < t[i] => f[i] < g[i])
  <2>1. i = 1 \/ i = 2 \/ i = 3
    OBVIOUS
  <2>2. CASE i = 1
    BY <1>3, <1>4, <1>5, <2>2
  <2>3. CASE i = 2
    BY <1>3, <1>4, <1>6, <2>3
  <2>4. CASE i = 3
    BY <1>3, <1>4, <2>4
  <2>5. QED
    BY <2>1, <2>2, <2>3, <2>4
<1>8. LexLess(s, t) /\ 3 \in Nat
  BY <1>1
<1>9. LexLess(f, g)
  BY <1>3, <1>4, <1>7, <1>8, LexMapped
<1>10. QED
  BY <1>2, <1>9

LEMMA FieldsInOrder ==
  ASSUME Accepted, NEW s \in Sections("field_id")
  PROVE  \A i, j \in DOMAIN s.items : i < j =>
           LexLess(MemberRank(s.items[i], TypeRank(s.items[i].typeIdx)),
                   MemberRank(s.items[j], TypeRank(s.items[j].typeIdx)))
<1>1. PICK n : n = Len(s.items)
  OBVIOUS
<1>2. n \in Nat /\ DOMAIN s.items = 1..n
  BY <1>1, Neighbours DEF IdTypes
<1>3. PICK key : key = [i \in 1..n |-> MemberRank(s.items[i], TypeRank(s.items[i].typeIdx))]
  OBVIOUS
<1>4. ASSUME NEW i \in 1..n, NEW x, x = s.items[i]
      PROVE  /\ x.classIdx \in Number /\ Index(x.classIdx, "type_id")
             /\ x.nameIdx \in Number /\ Index(x.nameIdx, "string_id")
             /\ x.typeIdx \in Number /\ Index(x.typeIdx, "type_id")
  <2>1. Visited("field_id", x)
    BY <1>1, <1>4, Neighbours DEF IdTypes
  <2>2. QED
    BY <2>1 DEF Visited, Fields, IntraVerify, swapFieldIdItem
<1>5. ASSUME NEW i \in 1..n PROVE IsKey(key[i])
  <2>1. PICK x : x = s.items[i]
    OBVIOUS
  <2>2. TypeRank(x.classIdx) \in Nat /\ Rank(x.nameIdx) \in Nat /\ TypeRank(x.typeIdx) \in Nat
    BY <1>4, <2>1, RankRises, TypeRankRises
  <2>3. key[i] = <<TypeRank(x.classIdx), Rank(x.nameIdx), TypeRank(x.typeIdx)>>
    BY <1>3, <2>1 DEF MemberRank
  <2>4. QED
    BY <2>2, <2>3, MemberKey
<1>6. ASSUME NEW i \in 1..(n - 1) PROVE LexLess(key[i], key[i + 1])
  <2>1. i \in 1..n /\ i + 1 \in 1..n
    BY <1>2
  <2>2. PICK x, y : x = s.items[i] /\ y = s.items[i + 1]
    OBVIOUS
  <2>3. x # None /\ crossVerifyFieldIdItem(y, x)
    BY <1>1, <2>2, Neighbours DEF IdTypes, CrossVerify
  <2>4. LexLess(<<x.classIdx, x.nameIdx, x.typeIdx>>, <<y.classIdx, y.nameIdx, y.typeIdx>>)
    BY <2>3 DEF crossVerifyFieldIdItem
  <2>5. \A z \in {x, y} : /\ z.classIdx \in Number /\ Index(z.classIdx, "type_id")
                          /\ z.nameIdx \in Number /\ Index(z.nameIdx, "string_id")
                          /\ z.typeIdx \in Number /\ Index(z.typeIdx, "type_id")
    BY <1>4, <2>1, <2>2
  <2>6. x.typeIdx < y.typeIdx => TypeRank(x.typeIdx) < TypeRank(y.typeIdx)
    BY <2>5, TypeRankRises
  <2>7. x.typeIdx = y.typeIdx => TypeRank(x.typeIdx) = TypeRank(y.typeIdx)
    OBVIOUS
  <2>8. LexLess(MemberRank(x, TypeRank(x.typeIdx)), MemberRank(y, TypeRank(y.typeIdx)))
    BY <2>4, <2>5, <2>6, <2>7, MembersCompared
  <2>9. QED
    BY <1>3, <2>1, <2>2, <2>8
<1>7. \A i, j \in 1..n : i < j => LexLess(key[i], key[j])
  BY <1>2, <1>5, <1>6, KeysRise
<1>8. QED
  BY <1>2, <1>3, <1>7

LEMMA MethodsInOrder ==
  ASSUME Accepted, NEW s \in Sections("method_id")
  PROVE  \A i, j \in DOMAIN s.items : i < j =>
           LexLess(MemberRank(s.items[i], s.items[i].protoIdx),
                   MemberRank(s.items[j], s.items[j].protoIdx))
<1>1. PICK n : n = Len(s.items)
  OBVIOUS
<1>2. n \in Nat /\ DOMAIN s.items = 1..n
  BY <1>1, Neighbours DEF IdTypes
<1>3. PICK key : key = [i \in 1..n |-> MemberRank(s.items[i], s.items[i].protoIdx)]
  OBVIOUS
<1>4. ASSUME NEW i \in 1..n, NEW x, x = s.items[i]
      PROVE  /\ x.classIdx \in Number /\ Index(x.classIdx, "type_id")
             /\ x.nameIdx \in Number /\ Index(x.nameIdx, "string_id")
             /\ x.protoIdx \in Nat
  <2>1. Visited("method_id", x)
    BY <1>1, <1>4, Neighbours DEF IdTypes
  <2>2. QED
    BY <2>1 DEF Visited, Fields, IntraVerify, swapMethodIdItem, Index, Number
<1>5. ASSUME NEW i \in 1..n PROVE IsKey(key[i])
  <2>1. PICK x : x = s.items[i]
    OBVIOUS
  <2>2. TypeRank(x.classIdx) \in Nat /\ Rank(x.nameIdx) \in Nat /\ x.protoIdx \in Nat
    BY <1>4, <2>1, RankRises, TypeRankRises
  <2>3. key[i] = <<TypeRank(x.classIdx), Rank(x.nameIdx), x.protoIdx>>
    BY <1>3, <2>1 DEF MemberRank
  <2>4. QED
    BY <2>2, <2>3, MemberKey
<1>6. ASSUME NEW i \in 1..(n - 1) PROVE LexLess(key[i], key[i + 1])
  <2>1. i \in 1..n /\ i + 1 \in 1..n
    BY <1>2
  <2>2. PICK x, y : x = s.items[i] /\ y = s.items[i + 1]
    OBVIOUS
  <2>3. x # None /\ crossVerifyMethodIdItem(y, x)
    BY <1>1, <2>2, Neighbours DEF IdTypes, CrossVerify
  <2>4. LexLess(<<x.classIdx, x.nameIdx, x.protoIdx>>, <<y.classIdx, y.nameIdx, y.protoIdx>>)
    BY <2>3 DEF crossVerifyMethodIdItem
  <2>5. \A z \in {x, y} : /\ z.classIdx \in Number /\ Index(z.classIdx, "type_id")
                          /\ z.nameIdx \in Number /\ Index(z.nameIdx, "string_id")
    BY <1>4, <2>1, <2>2
  <2>6. LexLess(MemberRank(x, x.protoIdx), MemberRank(y, y.protoIdx))
    BY <2>4, <2>5, MembersCompared
  <2>7. QED
    BY <1>3, <2>1, <2>2, <2>6
<1>7. \A i, j \in 1..n : i < j => LexLess(key[i], key[j])
  BY <1>2, <1>5, <1>6, KeysRise
<1>8. QED
  BY <1>2, <1>3, <1>7

\* A list of parameters, if there is one, is of types.
LEMMA ListOfTypes ==
  ASSUME Checked, NEW o \in Nat, o = 0 \/ ItemsAt("type_list", o) # {}
  PROVE  /\ TypeList(o) \in Seq(Number)
         /\ \A k \in DOMAIN TypeList(o) : Index(TypeList(o)[k], "type_id")
<1>1. CASE o = 0
  BY <1>1 DEF TypeList
<1>2. CASE o # 0
  <2>1. PICK i : i = ItemAt("type_list", o)
    OBVIOUS
  <2>2. i \in ItemsAt("type_list", o)
    BY <1>2, <2>1, ItemThere
  <2>3. Visited("type_list", i)
    BY <2>2, ItemIs DEF InPlace
  <2>4. PICK l : l = i.list
    OBVIOUS
  <2>5. l \in Seq(Range(l)) /\ Range(l) \subseteq Number /\ AllIndex(l, "type_id")
    BY <2>3, <2>4 DEF Visited, Fields, List, Listed, IntraVerify, swapTypeList
  <2>6. PICK R : R = Range(l)
    OBVIOUS
  <2>7. l \in Seq(Number)
    BY <2>5, <2>6
  <2>8. TypeList(o) = l
    BY <1>2, <2>1, <2>4 DEF TypeList
  <2>9. QED
    BY <2>5, <2>7, <2>8 DEF AllIndex
<1>3. QED
  BY <1>1, <1>2

\* The types of a prototype, and their ranks.
Types(x) == <<x.returnTypeIdx>> \o TypeList(x.parametersOff)

TypeRanks(x) ==
  [k \in 1..(1 + Len(TypeList(x.parametersOff))) |->
     TypeRank(IF k = 1 THEN x.returnTypeIdx ELSE TypeList(x.parametersOff)[k - 1])]

LEMMA TypesOfProto ==
  ASSUME Checked, NEW x, Visited("proto_id", x),
         x.parametersOff = 0 \/ ItemsAt("type_list", x.parametersOff) # {}
  PROVE  \E n \in Nat :
           /\ DOMAIN Types(x) = 1..n /\ DOMAIN TypeRanks(x) = 1..n
           /\ \A i \in 1..n : /\ Types(x)[i] \in Number /\ Index(Types(x)[i], "type_id")
                              /\ TypeRanks(x)[i] = TypeRank(Types(x)[i])
<1>1. PICK o, r : o = x.parametersOff /\ r = x.returnTypeIdx
  OBVIOUS
<1>2. r \in Number /\ Index(r, "type_id") /\ o \in Nat
  BY <1>1 DEF Visited, Fields, IntraVerify, swapProtoIdItem
<1>3. o = 0 \/ ItemsAt("type_list", o) # {}
  BY <1>1
<1>4. PICK l : l = TypeList(o)
  OBVIOUS
<1>5. l \in Seq(Number) /\ \A i \in DOMAIN l : Index(l[i], "type_id")
  BY <1>2, <1>3, <1>4, ListOfTypes
<1>6. PICK n \in Nat : n = 1 + Len(l)
  BY <1>5
<1>7. PICK t : t = <<r>> \o l
  OBVIOUS
<1>8. /\ DOMAIN t = 1..n
      /\ \A i \in 1..n : t[i] = IF i = 1 THEN r ELSE l[i - 1]
  BY <1>2, <1>5, <1>6, <1>7
<1>9. \A i \in 1..n : t[i] \in Number /\ Index(t[i], "type_id")
  <2>1. \A i \in 1..n : i # 1 => i - 1 \in DOMAIN l
    BY <1>5, <1>6
  <2>2. QED
    BY <1>2, <1>5, <1>8, <2>1
<1>10. Types(x) = t
  BY <1>1, <1>4, <1>7 DEF Types
<1>11. TypeRanks(x) = [i \in 1..n |-> TypeRank(IF i = 1 THEN r ELSE l[i - 1])]
  BY <1>1, <1>4, <1>6 DEF TypeRanks
<1>12. /\ DOMAIN TypeRanks(x) = 1..n
       /\ \A i \in 1..n : TypeRanks(x)[i] = TypeRank(t[i])
  BY <1>8, <1>11
<1>13. QED
  BY <1>8, <1>9, <1>10, <1>12

\* So it is for a prototype that has been accepted.
LEMMA TypesOfAccepted ==
  ASSUME Accepted, NEW s \in Sections("proto_id"), NEW k \in 1..Len(s.items),
         NEW x, x = s.items[k]
  PROVE  Visited("proto_id", x) /\ (x.parametersOff = 0 \/ ItemsAt("type_list", x.parametersOff) # {})
<1>1. /\ Visited("proto_id", x)
      /\ \E previous, before : CrossVerify("proto_id", x, previous, before)
  BY Neighbours DEF IdTypes
<1>2. x.parametersOff \in Nat /\ dexDataMapVerify0Ok(x.parametersOff, "type_list")
  BY <1>1 DEF Visited, Fields, CrossVerify, crossVerifyProtoIdItem
<1>3. QED
  BY <1>1, <1>2, OffsetLeads DEF DataTypes

LEMMA ProtosInOrder ==
  ASSUME Accepted, NEW s \in Sections("proto_id")
  PROVE  \A i, j \in DOMAIN s.items : i < j => LexLess(TypeRanks(s.items[i]), TypeRanks(s.items[j]))
<1>1. PICK n : n = Len(s.items)
  OBVIOUS
<1>2. n \in Nat /\ DOMAIN s.items = 1..n
  BY <1>1, Neighbours DEF IdTypes
<1>3. PICK key : key = [i \in 1..n |-> TypeRanks(s.items[i])]
  OBVIOUS
<1>4. ASSUME NEW i \in 1..n PROVE IsKey(key[i])
  <2>1. PICK x : x = s.items[i]
    OBVIOUS
  <2>2. PICK m \in Nat :
          /\ DOMAIN TypeRanks(x) = 1..m
          /\ \A k \in 1..m : /\ Types(x)[k] \in Number /\ Index(Types(x)[k], "type_id")
                             /\ TypeRanks(x)[k] = TypeRank(Types(x)[k])
    BY <1>1, <2>1, TypesOfAccepted, TypesOfProto DEF Accepted
  <2>3. \A k \in 1..m : TypeRanks(x)[k] \in Nat
    BY <2>2, TypeRankRises
  <2>4. key[i] = TypeRanks(x)
    BY <1>3, <2>1
  <2>5. QED
    BY <2>2, <2>3, <2>4 DEF IsKey
<1>5. ASSUME NEW i \in 1..(n - 1) PROVE LexLess(key[i], key[i + 1])
  <2>1. i \in 1..n /\ i + 1 \in 1..n
    BY <1>2
  <2>2. PICK x, y : x = s.items[i] /\ y = s.items[i + 1]
    OBVIOUS
  <2>3. x # None /\ crossVerifyProtoIdItem(y, x)
    BY <1>1, <2>2, Neighbours DEF IdTypes, CrossVerify
  <2>4. LexLess(Types(x), Types(y))
    BY <2>3 DEF crossVerifyProtoIdItem, ProtoOrder, Types
  <2>5. PICK l \in Nat :
          /\ DOMAIN Types(x) = 1..l /\ DOMAIN TypeRanks(x) = 1..l
          /\ \A k \in 1..l : /\ Types(x)[k] \in Number /\ Index(Types(x)[k], "type_id")
                             /\ TypeRanks(x)[k] = TypeRank(Types(x)[k])
    BY <1>1, <2>1, <2>2, TypesOfAccepted, TypesOfProto DEF Accepted
  <2>6. PICK m \in Nat :
          /\ DOMAIN Types(y) = 1..m /\ DOMAIN TypeRanks(y) = 1..m
          /\ \A k \in 1..m : /\ Types(y)[k] \in Number /\ Index(Types(y)[k], "type_id")
                             /\ TypeRanks(y)[k] = TypeRank(Types(y)[k])
    BY <1>1, <2>1, <2>2, TypesOfAccepted, TypesOfProto DEF Accepted
  <2>7. \A k \in DOMAIN Types(x) \cap DOMAIN Types(y) :
          /\ Types(x)[k] = Types(y)[k] => TypeRanks(x)[k] = TypeRanks(y)[k]
          /\ Types(x)[k] < Types(y)[k] => TypeRanks(x)[k] < TypeRanks(y)[k]
    BY <2>5, <2>6, TypeRankRises
  <2>8. LexLess(TypeRanks(x), TypeRanks(y))
    BY <2>4, <2>5, <2>6, <2>7, LexMapped
  <2>9. QED
    BY <1>3, <2>1, <2>2, <2>8
<1>6. \A i, j \in 1..n : i < j => LexLess(key[i], key[j])
  BY <1>2, <1>4, <1>5, KeysRise
<1>7. QED
  BY <1>2, <1>3, <1>6

LEMMA NamesInOrder == Accepted => InOrderOfNames
<1> SUFFICES ASSUME Accepted PROVE InOrderOfNames
  OBVIOUS
<1>1. ASSUME NEW a \in Nat, NEW b \in Nat, a < b PROVE LexLess(<<a>>, <<b>>)
  BY <1>1 DEF LexLess
<1>2. ASSUME NEW s \in Sections("string_id"), NEW i \in DOMAIN s.items, NEW j \in DOMAIN s.items,
             i < j
      PROVE  LexLess(<<StringAt(s.items[i].stringDataOff).rank>>,
                     <<StringAt(s.items[j].stringDataOff).rank>>)
  <2>1. i \in 1..Len(s.items) /\ j \in 1..Len(s.items)
    BY Neighbours DEF IdTypes
  <2>2. PICK a, b : /\ a = StringAt(s.items[i].stringDataOff).rank
                    /\ b = StringAt(s.items[j].stringDataOff).rank
    OBVIOUS
  <2>3. a \in Nat /\ b \in Nat /\ a < b
    BY <1>2, <2>1, <2>2, StringsInOrder
  <2>4. QED
    BY <1>1, <2>2, <2>3
<1>3. ASSUME NEW s \in Sections("type_id"), NEW i \in DOMAIN s.items, NEW j \in DOMAIN s.items,
             i < j
      PROVE  LexLess(<<Rank(s.items[i].descriptorIdx)>>, <<Rank(s.items[j].descriptorIdx)>>)
  <2>1. i \in 1..Len(s.items) /\ j \in 1..Len(s.items)
    BY Neighbours DEF IdTypes
  <2>2. PICK a, b : a = s.items[i].descriptorIdx /\ b = s.items[j].descriptorIdx
    OBVIOUS
  <2>3. /\ a \in Nat /\ b \in Nat /\ a < b
        /\ Index(a, "string_id") /\ Index(b, "string_id")
    BY <1>3, <2>1, <2>2, TypesInOrder
  <2>4. Rank(a) \in Nat /\ Rank(b) \in Nat /\ Rank(a) < Rank(b)
    BY <2>3, RankRises DEF Number
  <2>5. QED
    BY <1>1, <2>2, <2>4
<1>4. QED
  BY <1>2, <1>3, ProtosInOrder, FieldsInOrder, MethodsInOrder DEF InOrderOfNames, TypeRanks

(***************************************************************************)
(* A file that passes both passes is sound, whatever is in it: every       *)
(* offset leads to the start of an item of the right type, the tables are  *)
(* in the order of names, a class has one definition and members of its    *)
(* own, and no two tries of a method overlap.  Not so where the bytes of   *)
(* a file have to be swapped: swapClassDefItem leaves out staticValuesOff. *)
(***************************************************************************)
THEOREM AcceptedIsSoundHolds == ~BigEndian => (Spec => []AcceptedIsSound)
<1> SUFFICES ASSUME ~BigEndian PROVE Spec => []AcceptedIsSound
  OBVIOUS
<1>1. IInv /\ MapInv /\ IntraInv /\ CrossInv => AcceptedIsSound
  BY AcceptedIs, ReferencesFollowed, NamesInOrder, ClassesAreTheirOwn, TriesApart
     DEF AcceptedIsSound
<1>2. QED
  BY <1>1, PassesInvariance, PTL

-----------------------------------------------------------------------------
(***************************************************************************)
(* What the format asks for is enough                                      *)
(***************************************************************************)
Formatted == file \in Files /\ AsTheFormatSays

\* What is known of the sections of such a file, one by one.
LEMMA FormatSection ==
  ASSUME Formatted, NEW k \in 1..Len(file.map)
  PROVE  /\ Len(file.map) \in Nat /\ DOMAIN file.map = 1..Len(file.map)
         /\ Section(file.map[k]) /\ Len(file.map[k].items) \in Nat \ {0}
         /\ file.map[k] \in Range(file.map)
         /\ file.map[k].type \in IdTypes \cup DataTypes \cup {"header"}
         /\ \A i \in 1..Len(file.map[k].items) :
              /\ file.map[k].items[i].len \in Nat \ {0}
              /\ Fields(file.map[k].type, file.map[k].items[i])
              /\ file.map[k].items[i] \in Range(file.map[k].items)
         /\ \A j \in 1..Len(file.map) : file.map[j].type = file.map[k].type => j = k
<1>1. PICK s : s = file.map[k]
  OBVIOUS
<1>2. /\ Len(file.map) \in Nat /\ DOMAIN file.map = 1..Len(file.map) /\ Section(s)
  BY <1>1, FileType DEF Formatted
<1>3. s \in Range(file.map)
  BY <1>1, <1>2 DEF Range
<1>4. /\ s.type \in IdTypes \cup DataTypes \cup {"header"} /\ s.items # <<>>
      /\ \A j \in DOMAIN file.map \ {k} : file.map[j].type # s.type
  BY <1>1, <1>2 DEF Formatted, AsTheFormatSays, SectionsLaidOut
<1>5. s.items \in Seq(Range(s.items))
  BY <1>3, FilesAssumption DEF Formatted
<1>6. Len(s.items) \in Nat \ {0}
  <2>1. PICK l, R : l = s.items /\ l \in Seq(R)
    BY <1>5
  <2>2. l # <<>> => Len(l) \in Nat \ {0}
    BY <2>1
  <2>3. QED
    BY <1>4, <2>1, <2>2
<1>7. ASSUME NEW i \in 1..Len(s.items)
      PROVE  /\ s.items[i].len \in Nat \ {0} /\ Fields(s.type, s.items[i])
             /\ s.items[i] \in Range(s.items)
  <2>1. PICK x : x = s.items[i]
    OBVIOUS
  <2>2. x \in Range(s.items)
    BY <1>2, <2>1 DEF Section, Range
  <2>3. QED
    BY <1>3, <2>1, <2>2, FilesAssumption DEF Formatted
<1>8. QED
  BY <1>1, <1>2, <1>3, <1>4, <1>6, <1>7

\* Where the items of a section begin and end.
LEMMA BehindRises ==
  ASSUME NEW s, Section(s), \A i \in 1..Len(s.items) : s.items[i].len \in Nat \ {0}
  PROVE  /\ \A i \in 1..Len(s.items) :
              /\ Starts(s)[i] \in Nat /\ Behind(s, i) \in Nat /\ Behind(s, i + 1) \in Nat
              /\ Behind(s, i + 1) = Starts(s)[i] + s.items[i].len
              /\ s.offset <= Starts(s)[i] /\ Behind(s, i) <= Starts(s)[i]
              /\ Starts(s)[i] < Behind(s, i + 1)
              /\ Behind(s, i + 1) <= Behind(s, Len(s.items) + 1)
         /\ Behind(s, 1) = s.offset
<1>1. PICK n : n = Len(s.items)
  OBVIOUS
<1>2. n \in Nat /\ s.offset \in Nat
  BY <1>1 DEF Section
<1>3. /\ \A i, j \in 1..n : i < j => Starts(s)[i] < Starts(s)[j]
      /\ \A i \in 1..n : Starts(s)[i] >= s.offset
  BY <1>1, StartsRise
<1>4. ASSUME NEW i \in 1..n
      PROVE  /\ Starts(s)[i] \in Nat /\ Behind(s, i) \in Nat /\ Behind(s, i) <= Starts(s)[i]
             /\ Behind(s, i + 1) = Starts(s)[i] + s.items[i].len
             /\ Behind(s, i + 1) \in Nat /\ Starts(s)[i] < Behind(s, i + 1)
  <2>1. Starts(s)[i] \in Nat /\ Behind(s, i) \in Nat /\ Behind(s, i) <= Starts(s)[i]
    BY <1>1, StartsStep, AlignedType
  <2>2. i + 1 # 1 /\ (i + 1) - 1 = i
    OBVIOUS
  <2>3. Behind(s, i + 1) = Starts(s)[i] + s.items[i].len
    BY <2>2 DEF Behind
  <2>4. QED
    BY <1>1, <2>1, <2>3
<1>5. ASSUME NEW i \in 1..n PROVE Behind(s, i + 1) <= Behind(s, n + 1)
  <2>1. CASE i = n
    <3>1. Behind(s, i + 1) \in Nat
      BY <1>4
    <3>2. QED
      BY <2>1, <3>1
  <2>2. CASE i < n
    <3>1. i + 1 \in 1..n /\ n \in 1..n
      BY <1>2, <2>2
    <3>2. Behind(s, i + 1) <= Starts(s)[i + 1]
      BY <1>4, <3>1
    <3>3. Starts(s)[i + 1] <= Starts(s)[n]
      <4>1. PICK a, b : a = Starts(s)[i + 1] /\ b = Starts(s)[n]
        OBVIOUS
      <4>2. a \in Nat /\ b \in Nat
        BY <1>4, <3>1, <4>1
      <4>3. i + 1 < n => a < b
        BY <1>3, <3>1, <4>1
      <4>4. i + 1 = n => a = b
        BY <4>1
      <4>5. i + 1 < n \/ i + 1 = n
        BY <1>2, <3>1
      <4>6. QED
        BY <4>1, <4>2, <4>3, <4>4, <4>5
    <3>4. Starts(s)[n] < Behind(s, n + 1) /\ Behind(s, n + 1) \in Nat /\ Starts(s)[n] \in Nat
      BY <1>4, <3>1
    <3>5. Behind(s, i + 1) \in Nat /\ Starts(s)[i + 1] \in Nat
      BY <1>4, <3>1
    <3>6. QED
      BY <3>2, <3>3, <3>4, <3>5
  <2>3. QED
    BY <1>2, <2>1, <2>2
<1>6. QED
  BY <1>1, <1>3, <1>4, <1>5 DEF Behind

\* The header lies at the start, the map list where the header says.
LEMMA InPlaceAre ==
  ASSUME Formatted
  PROVE  /\ \E k \in 1..Len(file.map) : file.map[k].type = "header"
         /\ \E k \in 1..Len(file.map) : file.map[k].type = "map_list"
         /\ \A k \in 1..Len(file.map) :
              /\ file.map[k].type = "header" =>
                   file.map[k].offset = 0 /\ Len(file.map[k].items) = 1
              /\ file.map[k].type = "map_list" =>
                   file.map[k].offset = file.mapOff /\ Len(file.map[k].items) = 1
         /\ file.headerSize = 112 /\ file.mapOff \in Nat /\ MapListSize \in Nat \ {0}
<1>1. Len(file.map) \in Nat /\ DOMAIN file.map = 1..Len(file.map)
  BY FileType DEF Formatted
<1>2. PICK h \in 1..Len(file.map) : /\ file.map[h].type = "header"
                                    /\ file.map[h].offset = 0 /\ Len(file.map[h].items) = 1
  BY <1>1 DEF Formatted, AsTheFormatSays, SectionsLaidOut, Sections, Range
<1>3. PICK l \in 1..Len(file.map) : /\ file.map[l].type = "map_list"
                                    /\ file.map[l].offset = file.mapOff
                                    /\ Len(file.map[l].items) = 1
  BY <1>1 DEF Formatted, AsTheFormatSays, SectionsLaidOut, Sections, Range
<1>4. \A k, j \in 1..Len(file.map) : file.map[j].type = file.map[k].type => j = k
  BY FormatSection
<1>5. file.headerSize = 112
  BY DEF Formatted, AsTheFormatSays, SectionsLaidOut, HeaderSize
<1>6. file.mapOff \in Nat
  BY FileType DEF Formatted
<1>7. MapListSize \in Nat \ {0}
  BY <1>1 DEF MapListSize
<1>8. QED
  BY <1>2, <1>3, <1>4, <1>5, <1>6, <1>7

\* The sections lie one behind the other.
LEMMA SectionsApart ==
  ASSUME Formatted
  PROVE  /\ \A k \in 1..Len(file.map) :
              /\ file.map[k].offset \in Nat /\ EndOf(file.map[k]) \in Nat
              /\ file.map[k].offset < EndOf(file.map[k])
         /\ \A i, j \in 1..Len(file.map) : i < j => EndOf(file.map[i]) <= file.map[j].offset
<1>1. PICK n \in Nat : n = Len(file.map)
  BY FileType DEF Formatted
<1>2. ASSUME NEW k \in 1..n
      PROVE  /\ file.map[k].offset \in Nat /\ EndOf(file.map[k]) \in Nat
             /\ file.map[k].offset < EndOf(file.map[k])
  <2>1. PICK s : s = file.map[k]
    OBVIOUS
  <2>2. /\ Section(s) /\ Len(s.items) \in Nat \ {0}
        /\ \A i \in 1..Len(s.items) : s.items[i].len \in Nat \ {0}
    BY <1>1, <2>1, FormatSection
  <2>3. s.offset \in Nat
    BY <2>2 DEF Section
  <2>4. CASE s.type = "header"
    <3>1. s.offset = 0 /\ EndOf(s) = 112
      BY <1>1, <2>1, <2>4, InPlaceAre DEF EndOf, EndOfSwappedBefore
    <3>2. QED
      BY <2>1, <3>1
  <2>5. CASE s.type = "map_list"
    <3>1. EndOf(s) = s.offset + MapListSize
      BY <2>5 DEF EndOf, EndOfSwappedBefore
    <3>2. QED
      BY <2>1, <2>3, <3>1, InPlaceAre
  <2>6. CASE s.type \notin {"header", "map_list"}
    <3>1. EndOf(s) = Behind(s, Len(s.items) + 1)
      BY <2>6 DEF EndOf
    <3>2. Len(s.items) \in 1..Len(s.items)
      BY <2>2
    <3>3. /\ Starts(s)[Len(s.items)] \in Nat /\ Behind(s, Len(s.items) + 1) \in Nat
          /\ s.offset <= Starts(s)[Len(s.items)]
          /\ Starts(s)[Len(s.items)] < Behind(s, Len(s.items) + 1)
      BY <2>2, <3>2, BehindRises
    <3>4. QED
      BY <2>1, <2>3, <3>1, <3>3
  <2>7. QED
    BY <2>4, <2>5, <2>6
<1>3. PICK R : R = {p \in (1..n) \X (1..n) : EndOf(file.map[p[1]]) <= file.map[p[2]].offset}
  OBVIOUS
<1>4. ASSUME NEW i \in 1..(n - 1) PROVE <<i, i + 1>> \in R
  <2>1. i \in 1..n /\ i + 1 \in 1..n /\ i + 1 # 1 /\ (i + 1) - 1 = i
    OBVIOUS
  <2>2. DOMAIN file.map = 1..n
    BY <1>1, FileType DEF Formatted
  <2>3. EndOf(file.map[i]) <= file.map[i + 1].offset
    BY <2>1, <2>2 DEF Formatted, AsTheFormatSays, SectionsLaidOut
  <2>4. QED
    BY <1>3, <2>1, <2>3
<1>5. ASSUME NEW i \in 1..n, NEW j \in 1..n, NEW k \in 1..n, <<i, j>> \in R, <<j, k>> \in R
      PROVE  <<i, k>> \in R
  <2>1. EndOf(file.map[i]) <= file.map[j].offset /\ EndOf(file.map[j]) <= file.map[k].offset
    BY <1>3, <1>5
  <2>2. EndOf(file.map[i]) <= file.map[k].offset
    BY <1>2, <2>1
  <2>3. QED
    BY <1>3, <2>2
<1>6. \A i, j \in 1..n : i < j => <<i, j>> \in R
  BY <1>4, <1>5, Chain
<1>7. \A i, j \in 1..n : i < j => EndOf(file.map[i]) <= file.map[j].offset
  BY <1>3, <1>6
<1>8. QED
  BY <1>1, <1>2, <1>7

LEMMA FormatNumbers ==
  ASSUME Formatted
  PROVE  /\ file.fileSize \in Nat /\ file.fileLen \in Nat /\ DataEnd \in Nat
         /\ file.dataOff \in Nat
         /\ DataEnd <= file.fileSize /\ file.fileSize <= file.fileLen
         /\ \A k \in 1..Len(file.map) :
              /\ EndOf(file.map[k]) <= file.fileSize
              /\ file.map[k].type \in DataTypes => EndOf(file.map[k]) <= DataEnd
<1>1. /\ file.fileSize \in Nat /\ file.fileLen \in Nat
      /\ file.dataOff \in Nat /\ file.dataSize \in Nat
  BY FilesAssumption DEF Formatted
<1>2. DataEnd \in Nat
  BY <1>1 DEF DataEnd
<1>3. DataEnd <= file.fileSize /\ file.fileSize <= file.fileLen
  BY DEF Formatted, AsTheFormatSays, SectionsLaidOut
<1>4. ASSUME NEW k \in 1..Len(file.map)
      PROVE  /\ EndOf(file.map[k]) <= file.fileSize
             /\ file.map[k].type \in DataTypes => EndOf(file.map[k]) <= DataEnd
  <2>1. k \in DOMAIN file.map
    BY FormatSection
  <2>2. EndOf(file.map[k]) <= IF file.map[k].type \in DataTypes THEN DataEnd ELSE file.fileSize
    BY <2>1 DEF Formatted, AsTheFormatSays, SectionsLaidOut
  <2>3. EndOf(file.map[k]) \in Nat
    BY SectionsApart
  <2>4. CASE file.map[k].type \in DataTypes
    <3>1. EndOf(file.map[k]) <= DataEnd
      BY <2>2, <2>4
    <3>2. QED
      BY <1>1, <1>2, <1>3, <2>3, <3>1
  <2>5. CASE file.map[k].type \notin DataTypes
    BY <2>2, <2>5
  <2>6. QED
    BY <2>4, <2>5
<1>5. QED
  BY <1>1, <1>2, <1>3, <1>4

LEMMA HeaderPasses == Formatted => swapDexHeader
<1> SUFFICES ASSUME Formatted PROVE swapDexHeader
  OBVIOUS
<1>1. file.mapOff # 0
  <2>1. PICK h \in 1..Len(file.map) : file.map[h].type = "header"
    BY InPlaceAre
  <2>2. PICK l \in 1..Len(file.map) : file.map[l].type = "map_list"
    BY InPlaceAre
  <2>3. file.map[h].offset = 0 /\ file.map[l].offset = file.mapOff /\ file.mapOff \in Nat
    BY <2>1, <2>2, InPlaceAre
  <2>4. h # l
    BY <2>1, <2>2
  <2>5. /\ h < l => EndOf(file.map[h]) <= file.map[l].offset
        /\ l < h => EndOf(file.map[l]) <= file.map[h].offset
    BY SectionsApart
  <2>6. /\ EndOf(file.map[h]) \in Nat /\ EndOf(file.map[l]) \in Nat
        /\ file.map[h].offset < EndOf(file.map[h]) /\ file.map[l].offset < EndOf(file.map[l])
    BY SectionsApart
  <2>7. h < l \/ l < h
    BY <2>4
  <2>8. QED
    BY <2>3, <2>5, <2>6, <2>7
<1>2. file.fileSize <= file.fileLen /\ DataEnd <= file.fileLen
  BY FormatNumbers
<1>3. file.checked /\ file.headerSize >= HeaderSize
  BY DEF Formatted, AsTheFormatSays, SectionsLaidOut, HeaderSize
<1>4. file.linkOff + file.linkSize <= file.fileLen
  <2>1. file.linkOff + file.linkSize <= file.fileSize
    BY DEF Formatted, AsTheFormatSays, SectionsLaidOut
  <2>2. /\ file.linkOff \in Nat /\ file.linkSize \in Nat
        /\ file.fileSize \in Nat /\ file.fileLen \in Nat /\ file.fileSize <= file.fileLen
    BY FilesAssumption, FormatNumbers DEF Formatted
  <2>3. QED
    BY <2>1, <2>2
<1>5. QED
  BY <1>1, <1>2, <1>3, <1>4 DEF swapDexHeader, DataEnd

LEMMA MapPasses == Formatted => swapMap
<1> SUFFICES ASSUME Formatted PROVE swapMap
  OBVIOUS
<1>1. Len(file.map) \in Nat /\ DOMAIN file.map = 1..Len(file.map)
  BY FileType DEF Formatted
<1>2. file.mapOff + MapListSize <= file.fileLen
  <2>1. PICK l \in 1..Len(file.map) : file.map[l].type = "map_list"
    BY InPlaceAre
  <2>2. EndOf(file.map[l]) = file.mapOff + MapListSize
    BY <2>1, InPlaceAre DEF EndOf, EndOfSwappedBefore
  <2>3. EndOf(file.map[l]) <= file.fileSize /\ EndOf(file.map[l]) \in Nat
    BY FormatNumbers, SectionsApart
  <2>4. QED
    BY <2>2, <2>3, FormatNumbers
<1>3. ASSUME NEW i \in 1..(Len(file.map) - 1)
      PROVE  file.map[i].offset < file.map[i + 1].offset
  <2>1. i \in 1..Len(file.map) /\ i + 1 \in 1..Len(file.map) /\ i < i + 1
    BY <1>1
  <2>2. EndOf(file.map[i]) <= file.map[i + 1].offset
    BY <2>1, SectionsApart
  <2>3. /\ file.map[i].offset < EndOf(file.map[i]) /\ EndOf(file.map[i]) \in Nat
        /\ file.map[i].offset \in Nat /\ file.map[i + 1].offset \in Nat
    BY <2>1, SectionsApart
  <2>4. QED
    BY <2>2, <2>3
<1>4. ASSUME NEW s \in Range(file.map)
      PROVE  s.offset < file.fileSize /\ s.type \in IdTypes \cup DataTypes \cup {"header"}
  <2>1. PICK k \in 1..Len(file.map) : s = file.map[k]
    BY <1>1 DEF Range
  <2>2. /\ s.offset < EndOf(s) /\ EndOf(s) \in Nat /\ s.offset \in Nat
        /\ EndOf(s) <= file.fileSize /\ file.fileSize \in Nat
    BY <2>1, SectionsApart, FormatNumbers
  <2>3. s.offset < file.fileSize
    BY <2>2
  <2>4. QED
    BY <2>1, <2>3, FormatSection
<1>5. \A i, j \in DOMAIN file.map : file.map[i].type = file.map[j].type => i = j
  BY <1>1, FormatSection
<1>6. {"header", "map_list"} \subseteq {s.type : s \in Range(file.map)}
  BY <1>1, InPlaceAre DEF Range
<1>7. /\ ItemCount(file.map) <= file.dataSize
      /\ \A t \in IdTypes : Sections(t) = {} => file.ids[t].off = 0 /\ file.ids[t].size = 0
  BY DEF Formatted, AsTheFormatSays, SectionsLaidOut
<1>8. QED
  BY <1>2, <1>3, <1>4, <1>5, <1>6, <1>7 DEF swapMap

\* The section that is next begins behind the one before.
LEMMA SectionPasses ==
  ASSUME Formatted, NEW k \in 1..Len(file.map),
         offset = IF k = 1 THEN 0 ELSE EndOf(file.map[k - 1])
  PROVE  SectionBegins(file.map[k])
<1>1. PICK s : s = file.map[k]
  OBVIOUS
<1>2. k \in DOMAIN file.map /\ s \in Range(file.map)
  BY <1>1, FormatSection
<1>3. offset <= s.offset /\ Padding(offset, s.offset)
  BY <1>1, <1>2 DEF Formatted, AsTheFormatSays, SectionsLaidOut
<1>4. checkSection(s)
  <2>1. CASE s.type \in {"header", "map_list"}
    <3>1. /\ s.type = "header" => s.offset = 0 /\ Len(s.items) = 1
          /\ s.type = "map_list" => s.offset = file.mapOff /\ Len(s.items) = 1
      BY <1>1, InPlaceAre
    <3>2. QED
      BY <2>1, <3>1 DEF checkSection, IdTypes
  <2>2. CASE s.type \in IdTypes
    <3>1. s \in Sections(s.type)
      BY <1>2 DEF Sections
    <3>2. PICK r \in Sections(s.type) :
            file.ids[s.type].off = r.offset /\ file.ids[s.type].size = Len(r.items)
      BY <2>2, <3>1 DEF Formatted, AsTheFormatSays, SectionsLaidOut
    <3>3. r = s
      <4>1. PICK j \in 1..Len(file.map) : r = file.map[j]
        BY <3>2, FormatSection DEF Sections, Range
      <4>2. r.type = s.type
        BY <3>2 DEF Sections
      <4>3. QED
        BY <1>1, <4>1, <4>2, FormatSection
    <3>4. s.type # "header" /\ s.type # "map_list"
      BY <2>2 DEF IdTypes
    <3>5. QED
      BY <2>2, <3>2, <3>3, <3>4 DEF checkSection
  <2>3. CASE s.type \in DataTypes \ {"map_list"}
    <3>1. file.dataOff <= s.offset
      BY <1>1, <1>2, <2>3 DEF Formatted, AsTheFormatSays, SectionsLaidOut
    <3>2. /\ s.offset < EndOf(s) /\ EndOf(s) <= DataEnd /\ DataEnd \in Nat
          /\ s.offset \in Nat /\ EndOf(s) \in Nat
      BY <1>1, <2>3, SectionsApart, FormatNumbers
    <3>3. s.offset < DataEnd
      BY <3>2
    <3>4. s.type \notin IdTypes /\ s.type # "header" /\ s.type # "map_list"
      BY <2>3 DEF IdTypes, DataTypes
    <3>5. QED
      BY <3>1, <3>3, <3>4 DEF checkSection
  <2>4. QED
    BY <1>1, <2>1, <2>2, <2>3, FormatSection
<1>5. QED
  BY <1>1, <1>3, <1>4 DEF SectionBegins

\* Of the tries of a method that go up and of which one at most is in force at an
\* instruction, each begins where the one before ends, or behind.
LEMMA CodePasses ==
  ASSUME Formatted, NEW c \in Items("code"), Fields("code", c)
  PROVE  swapCodeItem(c)
<1> SUFFICES ASSUME c.tries # <<>> PROVE swapTriesAndCatches(c)
  BY DEF swapCodeItem
<1>1. PICK size, tries, handlers, n :
        /\ size = c.insnsSize /\ tries = c.tries /\ handlers = c.handlers /\ n = Len(tries)
  OBVIOUS
<1>2. size \in Nat /\ tries \in Seq(Range(tries))
  BY <1>1 DEF Fields, Listed
<1>3. n \in Nat \ {0} /\ DOMAIN tries = 1..n
  <2>1. PICK S : S = Range(tries)
    OBVIOUS
  <2>2. tries \in Seq(S) /\ tries # <<>>
    BY <1>1, <1>2, <2>1
  <2>3. QED
    BY <1>1, <2>2
<1>4. \A j \in 1..n : tries[j].startAddr \in Nat /\ tries[j].insnCount \in Nat
  <2>1. \A j \in 1..n : tries[j] \in Range(tries)
    BY <1>3 DEF Range
  <2>2. \A t \in Range(tries) : t.startAddr \in Nat /\ t.insnCount \in Nat
    BY <1>1 DEF Fields
  <2>3. QED
    BY <2>1, <2>2
<1> DEFINE covered(t) == t.startAddr..(t.startAddr + t.insnCount - 1)
<1>5. /\ \A j, k \in 1..n : j # k => covered(tries[j]) \cap covered(tries[k]) = {}
      /\ \A t \in Range(tries) :
           /\ covered(t) \subseteq 0..(size - 1)
           /\ \E h \in Range(handlers) :
                h.off = t.handlerOff /\ Range(h.addrs) \subseteq 0..(size - 1)
  BY <1>1, <1>3 DEF Formatted, AsTheFormatSays, RightByThemselves, OneTryAtATime
<1>6. /\ c.wellFormed
      /\ \A h \in Range(handlers) :
           AllIndex(h.types, "type_id") /\ Range(h.addrs) \subseteq 0..(size - 1)
      /\ \A t \in Range(tries) : t.insnCount # 0
      /\ \A j, k \in 1..n : j < k => tries[j].startAddr < tries[k].startAddr
  BY <1>1, <1>3 DEF Formatted, AsTheFormatSays, RightByThemselves
<1>7. handlers # <<>>
  <2>1. tries[1] \in Range(tries)
    BY <1>3 DEF Range
  <2>2. PICK h \in Range(handlers) : TRUE
    BY <1>5, <2>1
  <2>3. QED
    BY <2>2 DEF Range
<1>8. setHandlerOffsAndVerify(c)
  <2>1. ASSUME NEW h \in Range(handlers), NEW a \in Range(h.addrs) PROVE a < size
    <3>1. a \in 0..(size - 1)
      BY <1>6, <2>1
    <3>2. QED
      BY <1>2, <3>1
  <2>2. QED
    BY <1>1, <1>6, <2>1 DEF setHandlerOffsAndVerify
<1>9. ASSUME NEW i \in 1..n
      PROVE  /\ i > 1 => tries[i].startAddr >= tries[i - 1].startAddr + tries[i - 1].insnCount
             /\ tries[i].startAddr < size
             /\ tries[i].handlerOff \in HandlerOffs(c)
             /\ tries[i].startAddr + tries[i].insnCount <= size
  <2>1. PICK t, a, m : t = tries[i] /\ a = t.startAddr /\ m = t.insnCount
    OBVIOUS
  <2>2. t \in Range(tries)
    BY <1>3, <2>1 DEF Range
  <2>3. a \in Nat /\ m \in Nat /\ m # 0
    BY <1>4, <1>6, <2>1, <2>2
  <2>4. a..(a + m - 1) \subseteq 0..(size - 1)
    BY <1>5, <2>1, <2>2
  <2>5. a \in 0..(size - 1) /\ a + m - 1 \in 0..(size - 1)
    <3>1. a \in a..(a + m - 1) /\ a + m - 1 \in a..(a + m - 1)
      BY <2>3
    <3>2. QED
      BY <2>4, <3>1
  <2>6. a < size /\ a + m <= size
    BY <1>2, <2>3, <2>5
  <2>7. t.handlerOff \in HandlerOffs(c)
    BY <1>1, <1>5, <2>2 DEF HandlerOffs
  <2>8. ASSUME i > 1 PROVE a >= tries[i - 1].startAddr + tries[i - 1].insnCount
    <3>1. PICK r, b, l : r = tries[i - 1] /\ b = r.startAddr /\ l = r.insnCount
      OBVIOUS
    <3>2. i - 1 \in 1..n /\ i - 1 < i /\ i - 1 # i
      BY <1>3, <2>8
    <3>3. b \in Nat /\ l \in Nat /\ b < a
      BY <1>4, <1>6, <2>1, <3>1, <3>2
    <3>4. (b..(b + l - 1)) \cap (a..(a + m - 1)) = {}
      BY <1>5, <2>1, <3>1, <3>2
    <3>5. a \in a..(a + m - 1)
      BY <2>3
    <3>6. a \notin b..(b + l - 1)
      BY <3>4, <3>5
    <3>7. a >= b + l
      BY <2>3, <3>3, <3>6
    <3>8. QED
      BY <3>1, <3>7
  <2>9. QED
    BY <2>1, <2>6, <2>7, <2>8
<1>10. QED
  BY <1>1, <1>3, <1>6, <1>7, <1>8, <1>9 DEF swapTriesAndCatches

LEMMA IntraPasses ==
  ASSUME Formatted, NEW k \in 1..Len(file.map), file.map[k].type \notin InPlace,
         NEW i \in 1..Len(file.map[k].items)
  PROVE  IntraVerify(file.map[k].type, file.map[k].items[i])
<1>1. PICK s, x : s = file.map[k] /\ x = s.items[i]
  OBVIOUS
<1>2. s \in Range(file.map) /\ x \in Range(s.items) /\ Fields(s.type, x)
  BY <1>1, FormatSection
<1>3. CASE s.type = "code"
  <2>1. s \in Sections("code")
    BY <1>2, <1>3 DEF Sections
  <2>2. x \in Items("code")
    BY <1>2, <2>1 DEF Items
  <2>3. swapCodeItem(x)
    BY <1>2, <1>3, <2>2, CodePasses
  <2>4. IntraVerify("code", x)
    BY <2>3 DEF IntraVerify
  <2>5. QED
    BY <1>1, <1>3, <2>4
<1>4. CASE s.type # "code"
  BY <1>1, <1>2, <1>4 DEF Formatted, AsTheFormatSays, RightByThemselves, InPlace
<1>5. QED
  BY <1>3, <1>4

LEMMA ItemPasses ==
  ASSUME Formatted, NEW k \in 1..Len(file.map), file.map[k].type \notin InPlace,
         NEW i \in 1..Len(file.map[k].items), offset = Behind(file.map[k], i)
  PROVE  /\ Padding(offset, ItemStart(file.map[k]))
         /\ ItemStart(file.map[k]) + file.map[k].items[i].len <= file.fileLen
         /\ IntraVerify(file.map[k].type, file.map[k].items[i])
<1>1. PICK s : s = file.map[k]
  OBVIOUS
<1>2. /\ Section(s) /\ Len(s.items) \in Nat \ {0}
      /\ \A j \in 1..Len(s.items) : s.items[j].len \in Nat \ {0}
  BY <1>1, FormatSection
<1>3. ItemStart(s) = Starts(s)[i]
  BY <1>1, <1>2, StartsStep DEF ItemStart
<1>4. Padding(Behind(s, i), Starts(s)[i])
  <2>1. k \in DOMAIN file.map /\ i \in DOMAIN s.items
    BY <1>1, <1>2, FormatSection DEF Section
  <2>2. QED
    BY <1>1, <2>1 DEF Formatted, AsTheFormatSays, SectionsLaidOut, InPlace
<1>5. Starts(s)[i] + s.items[i].len <= file.fileLen
  <2>1. EndOf(s) = Behind(s, Len(s.items) + 1)
    BY <1>1 DEF EndOf, InPlace
  <2>2. EndOf(s) <= file.fileSize /\ EndOf(s) \in Nat
    BY <1>1, FormatNumbers, SectionsApart
  <2>3. /\ Behind(s, i + 1) = Starts(s)[i] + s.items[i].len /\ Behind(s, i + 1) \in Nat
        /\ Behind(s, i + 1) <= Behind(s, Len(s.items) + 1)
    BY <1>1, <1>2, BehindRises
  <2>4. QED
    BY <2>1, <2>2, <2>3, FormatNumbers
<1>6. QED
  BY <1>1, <1>3, <1>4, <1>5, IntraPasses

-----------------------------------------------------------------------------
\* In the second pass, of a file as the format says it.
SecondPass == IInv /\ MapInv /\ Checked /\ Formatted /\ phase = "cross"

\* The data map knows what begins where, since no two sections have a place in common.
LEMMA Vouched ==
  ASSUME SecondPass, NEW type \in DataTypes \ {"map_list"}, NEW o, ItemsAt(type, o) # {}
  PROVE  dexDataMapVerify(o, type)
<1>1. PICK f, d : f = file /\ d = dataMap
  OBVIOUS
<1>2. f \in Files
  BY <1>1 DEF SecondPass, Formatted
<1>3. PICK k \in 1..Len(f.map) : /\ f.map[k].type = type
                                 /\ \E i \in 1..Len(f.map[k].items) : Starts(f.map[k])[i] = o
  BY <1>1, <1>2, BeginsThere
<1>4. PICK i \in 1..Len(f.map[k].items) : Starts(f.map[k])[i] = o
  BY <1>3
<1>5. ASSUME NEW l \in 1..Len(f.map), f.map[l].type \in DataTypes \ {"map_list"},
             NEW j \in 1..Len(f.map[l].items)
      PROVE  /\ Starts(f.map[l])[j] \in Nat
             /\ f.map[l].offset \in Nat /\ EndOf(f.map[l]) \in Nat
             /\ f.map[l].offset <= Starts(f.map[l])[j] /\ Starts(f.map[l])[j] < EndOf(f.map[l])
  <2>1. PICK s : s = f.map[l]
    OBVIOUS
  <2>2. /\ Section(s) /\ Len(s.items) \in Nat \ {0}
        /\ \A m \in 1..Len(s.items) : s.items[m].len \in Nat \ {0}
    BY <1>1, <1>5, <2>1, FormatSection DEF SecondPass
  <2>3. EndOf(s) = Behind(s, Len(s.items) + 1)
    BY <1>5, <2>1 DEF EndOf, DataTypes
  <2>4. s.offset \in Nat /\ EndOf(s) \in Nat
    BY <1>1, <1>5, <2>1, SectionsApart DEF SecondPass
  <2>5. /\ Starts(s)[j] \in Nat /\ Behind(s, j + 1) \in Nat
        /\ s.offset <= Starts(s)[j] /\ Starts(s)[j] < Behind(s, j + 1)
        /\ Behind(s, j + 1) <= Behind(s, Len(s.items) + 1)
    BY <1>5, <2>1, <2>2, BehindRises
  <2>6. Starts(s)[j] < EndOf(s)
    BY <2>3, <2>4, <2>5
  <2>7. QED
    BY <2>1, <2>4, <2>5, <2>6
<1>6. o \in Nat
  BY <1>3, <1>4, <1>5
<1>7. /\ d \in Seq(InDataMap) /\ InOrder(d) /\ SectionsEntered(Len(f.map))
      /\ \A j \in 1..Len(d) : Stands(d[j])
  BY <1>1 DEF SecondPass, MapInv
<1>8. PICK j \in 1..Len(d) : d[j].offset = o
  <2>1. IsData(f.map[k])
    BY <1>3 DEF IsData, DataTypes, IdTypes, InPlace
  <2>2. QED
    BY <1>1, <1>4, <1>7, <2>1 DEF SectionsEntered, Entered
<1>9. dexDataMapGet(o) = d[j].type
  <2>1. IsAnswer(dataMap, o, dexDataMapGet(o), <<1, Len(dataMap)>>)
    BY <1>1, <1>6, <1>7, Found
  <2>2. QED
    BY <1>1, <1>8, <2>1 DEF IsAnswer
<1>10. d[j].type = type
  <2>1. d[j] \in InDataMap
    BY <1>7 DEF InOrder
  <2>2. d[j].type \in DataTypes \ {"map_list"}
    BY <2>1 DEF InDataMap
  <2>3. PICK l \in 1..Len(f.map) :
          /\ f.map[l].type = d[j].type
          /\ \E m \in 1..Len(f.map[l].items) : Starts(f.map[l])[m] = o
    BY <1>1, <1>7, <1>8 DEF Stands
  <2>4. /\ f.map[l].offset \in Nat /\ EndOf(f.map[l]) \in Nat
        /\ f.map[l].offset <= o /\ o < EndOf(f.map[l])
    BY <1>5, <2>2, <2>3
  <2>5. /\ f.map[k].offset \in Nat /\ EndOf(f.map[k]) \in Nat
        /\ f.map[k].offset <= o /\ o < EndOf(f.map[k])
    BY <1>3, <1>4, <1>5
  <2>6. /\ k < l => EndOf(f.map[k]) <= f.map[l].offset
        /\ l < k => EndOf(f.map[l]) <= f.map[k].offset
    BY <1>1, SectionsApart DEF SecondPass
  <2>7. ~(k < l) /\ ~(l < k)
    BY <1>6, <2>4, <2>5, <2>6
  <2>8. k = l
    BY <2>7
  <2>9. QED
    BY <1>3, <2>3, <2>8
<1>11. QED
  BY <1>9, <1>10 DEF dexDataMapVerify

LEMMA ReferenceLeads ==
  ASSUME SecondPass, NEW type, NEW s \in Sections(type), NEW x \in Range(s.items),
         NEW r \in References(type, x)
  PROVE  ItemsAt(r[2], r[1]) # {}
BY DEF Sections, SecondPass, Formatted, AsTheFormatSays, ReferencesLead

LEMMA FormatStrings == SecondPass => StringsThere
<1> SUFFICES ASSUME SecondPass, NEW s \in Sections("string_id"), NEW i \in 1..Len(s.items)
             PROVE  ItemsAt("string_data", s.items[i].stringDataOff) # {}
  BY DEF StringsThere
<1>1. PICK x : x = s.items[i]
  OBVIOUS
<1>2. x \in Range(s.items)
  <2>1. Section(s)
    BY SectionIs DEF SecondPass, InPlace
  <2>2. QED
    BY <1>1, <2>1 DEF Section, Range
<1>3. <<x.stringDataOff, "string_data">> \in References("string_id", x)
  BY DEF References
<1>4. QED
  BY <1>1, <1>2, <1>3, ReferenceLeads

\* InOrderOfNames, table by table.
NamesRise ==
  /\ \A s \in Sections("string_id") : \A i, j \in DOMAIN s.items : i < j =>
       LexLess(<<StringAt(s.items[i].stringDataOff).rank>>,
               <<StringAt(s.items[j].stringDataOff).rank>>)
  /\ \A s \in Sections("type_id") : \A i, j \in DOMAIN s.items : i < j =>
       LexLess(<<Rank(s.items[i].descriptorIdx)>>, <<Rank(s.items[j].descriptorIdx)>>)
  /\ \A s \in Sections("proto_id") : \A i, j \in DOMAIN s.items : i < j =>
       LexLess(TypeRanks(s.items[i]), TypeRanks(s.items[j]))
  /\ \A s \in Sections("field_id") : \A i, j \in DOMAIN s.items : i < j =>
       LexLess(MemberRank(s.items[i], TypeRank(s.items[i].typeIdx)),
               MemberRank(s.items[j], TypeRank(s.items[j].typeIdx)))
  /\ \A s \in Sections("method_id") : \A i, j \in DOMAIN s.items : i < j =>
       LexLess(MemberRank(s.items[i], s.items[i].protoIdx),
               MemberRank(s.items[j], s.items[j].protoIdx))

LEMMA TableByTable == InOrderOfNames <=> NamesRise
BY DEF InOrderOfNames, NamesRise, TypeRanks

LEMMA FormatOrder == SecondPass => NamesRise
BY TableByTable DEF SecondPass, Formatted, AsTheFormatSays

LEMMA OneBefore == ASSUME NEW a, NEW b, LexLess(<<a>>, <<b>>) PROVE a < b
BY DEF LexLess

\* A table's keys tell its entries apart, and are in the same order.
LEMMA KeysTellApart ==
  ASSUME NEW n \in Nat, NEW key, \A i \in 1..n : key[i] \in Nat,
         \A i, j \in 1..n : i < j => key[i] < key[j]
  PROVE  \A i, j \in 1..n : (i < j <=> key[i] < key[j]) /\ (i = j <=> key[i] = key[j])
<1> TAKE i, j \in 1..n
<1>1. key[i] \in Nat /\ key[j] \in Nat
  OBVIOUS
<1>2. i < j => key[i] < key[j]
  OBVIOUS
<1>3. j < i => key[j] < key[i]
  OBVIOUS
<1>4. i < j \/ i = j \/ j < i
  OBVIOUS
<1>5. i = j => key[i] = key[j]
  OBVIOUS
<1>6. QED
  BY <1>1, <1>2, <1>3, <1>4, <1>5

LEMMA FormatRank ==
  ASSUME SecondPass, NEW a \in Number, NEW b \in Number,
         Index(a, "string_id"), Index(b, "string_id")
  PROVE  /\ a \in Nat /\ b \in Nat
         /\ a < b <=> Rank(a) < Rank(b)
         /\ a = b <=> Rank(a) = Rank(b)
<1>1. Checked /\ "string_id" \in IdTypes /\ "string_id" \notin InPlace
  BY DEF SecondPass, IdTypes, InPlace
<1>2. a \in Nat /\ b \in Nat /\ HasEntry("string_id", a) /\ HasEntry("string_id", b)
  BY <1>1, IndexHas
<1>3. PICK s \in Sections("string_id") :
        a + 1 \in 1..Len(s.items) /\ Entry("string_id", a) = s.items[a + 1]
  BY <1>1, <1>2, EntryIs
<1>4. PICK r \in Sections("string_id") :
        b + 1 \in 1..Len(r.items) /\ Entry("string_id", b) = r.items[b + 1]
  BY <1>1, <1>2, EntryIs
<1>5. r = s /\ Section(s)
  BY <1>1, SectionIs
<1>6. PICK n \in Nat : n = Len(s.items) /\ DOMAIN s.items = 1..n
  BY <1>5 DEF Section
<1>7. PICK key : key = [i \in 1..n |-> StringAt(s.items[i].stringDataOff).rank]
  OBVIOUS
<1>8. ASSUME NEW i \in 1..n PROVE key[i] \in Nat
  <2>1. PICK o : o = s.items[i].stringDataOff
    OBVIOUS
  <2>2. ItemsAt("string_data", o) # {}
    BY <1>6, <2>1, FormatStrings DEF StringsThere
  <2>3. ItemAt("string_data", o) \in ItemsAt("string_data", o)
    BY <2>2, ItemThere
  <2>4. Visited("string_data", ItemAt("string_data", o))
    BY <1>1, <2>3, ItemIs DEF InPlace
  <2>5. StringAt(o).rank \in Nat
    BY <2>4 DEF Visited, Fields, StringAt
  <2>6. QED
    BY <1>7, <2>1, <2>5
<1>9. ASSUME NEW i \in 1..n, NEW j \in 1..n, i < j PROVE key[i] < key[j]
  <2>1. LexLess(<<StringAt(s.items[i].stringDataOff).rank>>,
                <<StringAt(s.items[j].stringDataOff).rank>>)
    BY <1>6, <1>9, FormatOrder DEF NamesRise
  <2>2. QED
    BY <1>7, <2>1, OneBefore
<1>10. \A i, j \in 1..n : (i < j <=> key[i] < key[j]) /\ (i = j <=> key[i] = key[j])
  BY <1>8, <1>9, KeysTellApart
<1>11. a + 1 \in 1..n /\ b + 1 \in 1..n
  BY <1>3, <1>4, <1>5, <1>6
<1>12. Rank(a) = key[a + 1] /\ Rank(b) = key[b + 1]
  BY <1>3, <1>4, <1>5, <1>7, <1>11 DEF Rank, String
<1>13. /\ a + 1 < b + 1 <=> key[a + 1] < key[b + 1]
       /\ a + 1 = b + 1 <=> key[a + 1] = key[b + 1]
  BY <1>10, <1>11
<1>14. (a + 1 < b + 1 <=> a < b) /\ (a + 1 = b + 1 <=> a = b)
  BY <1>2
<1>15. QED
  BY <1>2, <1>12, <1>13, <1>14

LEMMA RankIsNumber ==
  ASSUME SecondPass, NEW a \in Number, Index(a, "string_id")
  PROVE  Rank(a) \in Nat
<1>1. Checked /\ "string_id" \in IdTypes /\ "string_id" \notin InPlace
  BY DEF SecondPass, IdTypes, InPlace
<1>2. a \in Nat /\ HasEntry("string_id", a)
  BY <1>1, IndexHas
<1>3. PICK s \in Sections("string_id") :
        a + 1 \in 1..Len(s.items) /\ Entry("string_id", a) = s.items[a + 1]
  BY <1>1, <1>2, EntryIs
<1>4. PICK o : o = s.items[a + 1].stringDataOff
  OBVIOUS
<1>5. ItemsAt("string_data", o) # {}
  BY <1>3, <1>4, FormatStrings DEF StringsThere
<1>6. ItemAt("string_data", o) \in ItemsAt("string_data", o)
  BY <1>5, ItemThere
<1>7. Visited("string_data", ItemAt("string_data", o))
  BY <1>1, <1>6, ItemIs DEF InPlace
<1>8. StringAt(o).rank \in Nat
  BY <1>7 DEF Visited, Fields, StringAt
<1>9. QED
  BY <1>3, <1>4, <1>8 DEF Rank, String

LEMMA FormatTypeRank ==
  ASSUME SecondPass, NEW a \in Number, NEW b \in Number,
         Index(a, "type_id"), Index(b, "type_id")
  PROVE  /\ a \in Nat /\ b \in Nat
         /\ a < b <=> TypeRank(a) < TypeRank(b)
         /\ a = b <=> TypeRank(a) = TypeRank(b)
<1>1. Checked /\ "type_id" \in IdTypes /\ "type_id" \notin InPlace
  BY DEF SecondPass, IdTypes, InPlace
<1>2. a \in Nat /\ b \in Nat /\ HasEntry("type_id", a) /\ HasEntry("type_id", b)
  BY <1>1, IndexHas
<1>3. PICK s \in Sections("type_id") :
        a + 1 \in 1..Len(s.items) /\ Entry("type_id", a) = s.items[a + 1]
  BY <1>1, <1>2, EntryIs
<1>4. PICK r \in Sections("type_id") :
        b + 1 \in 1..Len(r.items) /\ Entry("type_id", b) = r.items[b + 1]
  BY <1>1, <1>2, EntryIs
<1>5. r = s /\ Section(s) /\ \A i \in 1..Len(s.items) : Visited("type_id", s.items[i])
  BY <1>1, SectionIs
<1>6. PICK n \in Nat : n = Len(s.items) /\ DOMAIN s.items = 1..n
  BY <1>5 DEF Section
<1>7. PICK key : key = [i \in 1..n |-> Rank(s.items[i].descriptorIdx)]
  OBVIOUS
<1>8. ASSUME NEW i \in 1..n PROVE key[i] \in Nat
  <2>1. PICK x : x = s.items[i].descriptorIdx
    OBVIOUS
  <2>2. x \in Number /\ Index(x, "string_id")
    BY <1>5, <1>6, <2>1 DEF Visited, Fields, IntraVerify, swapTypeIdItem
  <2>3. QED
    BY <1>7, <2>1, <2>2, RankIsNumber
<1>9. ASSUME NEW i \in 1..n, NEW j \in 1..n, i < j PROVE key[i] < key[j]
  <2>1. LexLess(<<Rank(s.items[i].descriptorIdx)>>, <<Rank(s.items[j].descriptorIdx)>>)
    BY <1>6, <1>9, FormatOrder DEF NamesRise
  <2>2. QED
    BY <1>7, <2>1, OneBefore
<1>10. \A i, j \in 1..n : (i < j <=> key[i] < key[j]) /\ (i = j <=> key[i] = key[j])
  BY <1>8, <1>9, KeysTellApart
<1>11. a + 1 \in 1..n /\ b + 1 \in 1..n
  BY <1>3, <1>4, <1>5, <1>6
<1>12. TypeRank(a) = key[a + 1] /\ TypeRank(b) = key[b + 1]
  BY <1>3, <1>4, <1>5, <1>7, <1>11 DEF TypeRank
<1>13. /\ a + 1 < b + 1 <=> key[a + 1] < key[b + 1]
       /\ a + 1 = b + 1 <=> key[a + 1] = key[b + 1]
  BY <1>10, <1>11
<1>14. (a + 1 < b + 1 <=> a < b) /\ (a + 1 = b + 1 <=> a = b)
  BY <1>2
<1>15. QED
  BY <1>2, <1>12, <1>13, <1>14

\* An item of such a file, and the one before it.
LEMMA FormatItem ==
  ASSUME SecondPass, NEW type, type \notin InPlace, NEW s \in Sections(type),
         NEW k \in 1..Len(s.items)
  PROVE  /\ Len(s.items) \in Nat /\ DOMAIN s.items = 1..Len(s.items)
         /\ Visited(type, s.items[k]) /\ s.items[k] \in Range(s.items)
         /\ s.items[k] \in Items(type) /\ s.type = type /\ k \in DOMAIN s.items
         /\ k # 1 => /\ k - 1 \in DOMAIN s.items /\ k - 1 < k /\ k - 1 \in 1..Len(s.items)
                     /\ Visited(type, s.items[k - 1])
<1>1. Section(s) /\ s.type = type /\ \A i \in 1..Len(s.items) : Visited(type, s.items[i])
  BY SectionIs DEF SecondPass
<1>2. PICK n : n = Len(s.items)
  OBVIOUS
<1>3. n \in Nat /\ DOMAIN s.items = 1..n
  BY <1>1, <1>2 DEF Section
<1>4. s.items[k] \in Range(s.items)
  BY <1>2, <1>3 DEF Range
<1>5. s.items[k] \in Items(type)
  BY <1>4 DEF Items
<1>6. k # 1 => k - 1 \in 1..n /\ k - 1 < k
  BY <1>2, <1>3
<1>7. QED
  BY <1>1, <1>2, <1>3, <1>4, <1>5, <1>6

LEMMA StringIdPasses ==
  ASSUME SecondPass, NEW s \in Sections("string_id"), NEW k \in 1..Len(s.items),
         NEW previous, k = 1 => previous = None, k # 1 => previous = s.items[k - 1]
  PROVE  crossVerifyStringIdItem(s.items[k], previous)
<1>1. PICK x : x = s.items[k]
  OBVIOUS
<1>2. "string_id" \notin InPlace
  BY DEF InPlace
<1>3. ItemsAt("string_data", x.stringDataOff) # {}
  BY <1>1, FormatStrings DEF StringsThere
<1>4. dexDataMapVerify(x.stringDataOff, "string_data")
  BY <1>3, Vouched DEF DataTypes
<1>5. ASSUME k # 1
      PROVE  StringAt(previous.stringDataOff).rank < StringAt(x.stringDataOff).rank
  <2>1. k - 1 \in DOMAIN s.items /\ k \in DOMAIN s.items /\ k - 1 < k
    BY <1>2, <1>5, FormatItem
  <2>2. LexLess(<<StringAt(s.items[k - 1].stringDataOff).rank>>,
                <<StringAt(s.items[k].stringDataOff).rank>>)
    BY <2>1, FormatOrder DEF NamesRise
  <2>3. QED
    BY <1>1, <1>5, <2>2, OneBefore
<1>6. QED
  BY <1>1, <1>4, <1>5 DEF crossVerifyStringIdItem

LEMMA TypeIdPasses ==
  ASSUME SecondPass, NEW s \in Sections("type_id"), NEW k \in 1..Len(s.items),
         NEW previous, k = 1 => previous = None, k # 1 => previous = s.items[k - 1]
  PROVE  crossVerifyTypeIdItem(s.items[k], previous)
<1>1. PICK x : x = s.items[k]
  OBVIOUS
<1>2. "type_id" \notin InPlace
  BY DEF InPlace
<1>3. x \in Items("type_id") /\ Visited("type_id", x)
  BY <1>1, <1>2, FormatItem
<1>4. dexIsValidTypeDescriptor(String(x.descriptorIdx).descriptor)
  BY <1>3 DEF SecondPass, Formatted, AsTheFormatSays, StringsFit
<1>5. ASSUME k # 1 PROVE previous.descriptorIdx < x.descriptorIdx
  <2>1. /\ k - 1 \in DOMAIN s.items /\ k \in DOMAIN s.items /\ k - 1 < k
        /\ Visited("type_id", previous) /\ previous = s.items[k - 1]
    BY <1>2, <1>5, FormatItem
  <2>2. LexLess(<<Rank(s.items[k - 1].descriptorIdx)>>, <<Rank(s.items[k].descriptorIdx)>>)
    BY <2>1, FormatOrder DEF NamesRise
  <2>3. PICK a, b : a = previous.descriptorIdx /\ b = x.descriptorIdx
    OBVIOUS
  <2>4. Rank(a) < Rank(b)
    BY <1>1, <2>1, <2>2, <2>3, OneBefore
  <2>5. a \in Number /\ b \in Number /\ Index(a, "string_id") /\ Index(b, "string_id")
    BY <1>3, <2>1, <2>3 DEF Visited, Fields, IntraVerify, swapTypeIdItem
  <2>6. QED
    BY <2>3, <2>4, <2>5, FormatRank
<1>6. QED
  BY <1>1, <1>4, <1>5 DEF crossVerifyTypeIdItem

LEMMA FormatTypes ==
  ASSUME SecondPass, NEW s \in Sections("proto_id"), NEW k \in 1..Len(s.items)
  PROVE  /\ s.items[k].parametersOff = 0 \/ ItemsAt("type_list", s.items[k].parametersOff) # {}
         /\ \E n \in Nat :
              /\ DOMAIN Types(s.items[k]) = 1..n /\ DOMAIN TypeRanks(s.items[k]) = 1..n
              /\ \A i \in 1..n :
                   /\ Types(s.items[k])[i] \in Number /\ Index(Types(s.items[k])[i], "type_id")
                   /\ TypeRanks(s.items[k])[i] = TypeRank(Types(s.items[k])[i])
<1>1. PICK x : x = s.items[k]
  OBVIOUS
<1>2. Visited("proto_id", x) /\ x \in Range(s.items)
  BY <1>1, FormatItem DEF InPlace
<1>3. ASSUME x.parametersOff # 0 PROVE ItemsAt("type_list", x.parametersOff) # {}
  <2>1. <<x.parametersOff, "type_list">> \in References("proto_id", x)
    BY <1>3 DEF References
  <2>2. QED
    BY <1>2, <2>1, ReferenceLeads
<1>4. Checked
  BY DEF SecondPass
<1>5. QED
  BY <1>1, <1>2, <1>3, <1>4, TypesOfProto

LEMMA ProtoIdPasses ==
  ASSUME SecondPass, NEW s \in Sections("proto_id"), NEW k \in 1..Len(s.items),
         NEW previous, k = 1 => previous = None, k # 1 => previous = s.items[k - 1]
  PROVE  crossVerifyProtoIdItem(s.items[k], previous)
<1>1. PICK x : x = s.items[k]
  OBVIOUS
<1>2. "proto_id" \notin InPlace
  BY DEF InPlace
<1>3. x \in Items("proto_id") /\ Visited("proto_id", x)
  BY <1>1, <1>2, FormatItem
<1>4. dexDataMapVerify0Ok(x.parametersOff, "type_list")
  BY <1>1, FormatTypes, Vouched DEF DataTypes, dexDataMapVerify0Ok
<1>5. LET shorty == String(x.shortyIdx).shorty
          types == <<x.returnTypeIdx>> \o TypeList(x.parametersOff)
      IN  /\ Len(shorty) = Len(types)
          /\ \A i \in DOMAIN types : shortyDescMatch(shorty[i], Descriptor(types[i]), i = 1)
  BY <1>3 DEF SecondPass, Formatted, AsTheFormatSays, StringsFit
<1>6. ASSUME k # 1 PROVE LexLess(Types(previous), Types(x))
  <2>1. /\ k - 1 \in DOMAIN s.items /\ k \in DOMAIN s.items /\ k - 1 < k
        /\ k - 1 \in 1..Len(s.items) /\ previous = s.items[k - 1]
    BY <1>2, <1>6, FormatItem
  <2>2. LexLess(TypeRanks(previous), TypeRanks(x))
    BY <1>1, <2>1, FormatOrder DEF NamesRise
  <2>3. PICK l \in Nat :
          /\ DOMAIN Types(previous) = 1..l /\ DOMAIN TypeRanks(previous) = 1..l
          /\ \A i \in 1..l : /\ Types(previous)[i] \in Number /\ Index(Types(previous)[i], "type_id")
                             /\ TypeRanks(previous)[i] = TypeRank(Types(previous)[i])
    BY <2>1, FormatTypes
  <2>4. PICK m \in Nat :
          /\ DOMAIN Types(x) = 1..m /\ DOMAIN TypeRanks(x) = 1..m
          /\ \A i \in 1..m : /\ Types(x)[i] \in Number /\ Index(Types(x)[i], "type_id")
                             /\ TypeRanks(x)[i] = TypeRank(Types(x)[i])
    BY <1>1, FormatTypes
  <2>5. \A i \in DOMAIN TypeRanks(previous) \cap DOMAIN TypeRanks(x) :
          /\ TypeRanks(previous)[i] = TypeRanks(x)[i] => Types(previous)[i] = Types(x)[i]
          /\ TypeRanks(previous)[i] < TypeRanks(x)[i] => Types(previous)[i] < Types(x)[i]
    BY <2>3, <2>4, FormatTypeRank
  <2>6. QED
    BY <2>2, <2>3, <2>4, <2>5, LexMapped
<1>7. previous # None => ProtoOrder(previous, x)
  BY <1>6 DEF ProtoOrder, Types
<1>8. QED
  BY <1>1, <1>4, <1>5, <1>7 DEF crossVerifyProtoIdItem

\* A member's class, name and what else tells it apart, in the order of what they stand for.
LEMMA FormatMembers ==
  ASSUME SecondPass, NEW x, NEW y, NEW last, NEW next, NEW lastRank, NEW nextRank,
         \A i \in {x, y} : /\ i.classIdx \in Number /\ Index(i.classIdx, "type_id")
                           /\ i.nameIdx \in Number /\ Index(i.nameIdx, "string_id"),
         lastRank = nextRank => last = next, lastRank < nextRank => last < next,
         LexLess(MemberRank(x, lastRank), MemberRank(y, nextRank))
  PROVE  LexLess(<<x.classIdx, x.nameIdx, last>>, <<y.classIdx, y.nameIdx, next>>)
<1>1. PICK s, t : s = <<x.classIdx, x.nameIdx, last>> /\ t = <<y.classIdx, y.nameIdx, next>>
  OBVIOUS
<1>2. PICK f, g : f = MemberRank(x, lastRank) /\ g = MemberRank(y, nextRank)
  OBVIOUS
<1>3. /\ DOMAIN s = 1..3 /\ DOMAIN t = 1..3
      /\ s[1] = x.classIdx /\ s[2] = x.nameIdx /\ s[3] = last
      /\ t[1] = y.classIdx /\ t[2] = y.nameIdx /\ t[3] = next
  BY <1>1
<1>4. /\ DOMAIN f = 1..3 /\ DOMAIN g = 1..3
      /\ f[1] = TypeRank(x.classIdx) /\ f[2] = Rank(x.nameIdx) /\ f[3] = lastRank
      /\ g[1] = TypeRank(y.classIdx) /\ g[2] = Rank(y.nameIdx) /\ g[3] = nextRank
  BY <1>2 DEF MemberRank
<1>5. /\ TypeRank(x.classIdx) = TypeRank(y.classIdx) => x.classIdx = y.classIdx
      /\ TypeRank(x.classIdx) < TypeRank(y.classIdx) => x.classIdx < y.classIdx
  BY FormatTypeRank
<1>6. /\ Rank(x.nameIdx) = Rank(y.nameIdx) => x.nameIdx = y.nameIdx
      /\ Rank(x.nameIdx) < Rank(y.nameIdx) => x.nameIdx < y.nameIdx
  BY FormatRank
<1>7. ASSUME NEW i \in 1..3 PROVE (f[i] = g[i] => s[i] = t[i]) /\ (f[i] < g[i] => s[i] < t[i])
  <2>1. i = 1 \/ i = 2 \/ i = 3
    OBVIOUS
  <2>2. CASE i = 1
    BY <1>3, <1>4, <1>5, <2>2
  <2>3. CASE i = 2
    BY <1>3, <1>4, <1>6, <2>3
  <2>4. CASE i = 3
    BY <1>3, <1>4, <2>4
  <2>5. QED
    BY <2>1, <2>2, <2>3, <2>4
<1>8. LexLess(f, g) /\ 3 \in Nat
  BY <1>2
<1>9. LexLess(s, t)
  BY <1>3, <1>4, <1>7, <1>8, LexMapped
<1>10. QED
  BY <1>1, <1>9

LEMMA FieldIdPasses ==
  ASSUME SecondPass, NEW s \in Sections("field_id"), NEW k \in 1..Len(s.items),
         NEW previous, k = 1 => previous = None, k # 1 => previous = s.items[k - 1]
  PROVE  crossVerifyFieldIdItem(s.items[k], previous)
<1>1. PICK x : x = s.items[k]
  OBVIOUS
<1>2. "field_id" \notin InPlace
  BY DEF InPlace
<1>3. x \in Items("field_id") /\ Visited("field_id", x)
  BY <1>1, <1>2, FormatItem
<1>4. /\ dexIsClassDescriptor(Descriptor(x.classIdx))
      /\ dexIsFieldDescriptor(Descriptor(x.typeIdx))
      /\ String(x.nameIdx).name
  BY <1>3 DEF SecondPass, Formatted, AsTheFormatSays, StringsFit
<1>5. ASSUME k # 1
      PROVE  LexLess(<<previous.classIdx, previous.nameIdx, previous.typeIdx>>,
                     <<x.classIdx, x.nameIdx, x.typeIdx>>)
  <2>1. /\ k - 1 \in DOMAIN s.items /\ k \in DOMAIN s.items /\ k - 1 < k
        /\ Visited("field_id", previous) /\ previous = s.items[k - 1]
    BY <1>2, <1>5, FormatItem
  <2>2. LexLess(MemberRank(previous, TypeRank(previous.typeIdx)),
                MemberRank(x, TypeRank(x.typeIdx)))
    BY <1>1, <2>1, FormatOrder DEF NamesRise
  <2>3. \A i \in {previous, x} : /\ i.classIdx \in Number /\ Index(i.classIdx, "type_id")
                                 /\ i.nameIdx \in Number /\ Index(i.nameIdx, "string_id")
                                 /\ i.typeIdx \in Number /\ Index(i.typeIdx, "type_id")
    BY <1>3, <2>1 DEF Visited, Fields, IntraVerify, swapFieldIdItem
  <2>4. /\ TypeRank(previous.typeIdx) = TypeRank(x.typeIdx) => previous.typeIdx = x.typeIdx
        /\ TypeRank(previous.typeIdx) < TypeRank(x.typeIdx) => previous.typeIdx < x.typeIdx
    BY <2>3, FormatTypeRank
  <2>5. QED
    BY <2>2, <2>3, <2>4, FormatMembers
<1>6. QED
  BY <1>1, <1>4, <1>5 DEF crossVerifyFieldIdItem

LEMMA MethodIdPasses ==
  ASSUME SecondPass, NEW s \in Sections("method_id"), NEW k \in 1..Len(s.items),
         NEW previous, k = 1 => previous = None, k # 1 => previous = s.items[k - 1]
  PROVE  crossVerifyMethodIdItem(s.items[k], previous)
<1>1. PICK x : x = s.items[k]
  OBVIOUS
<1>2. "method_id" \notin InPlace
  BY DEF InPlace
<1>3. x \in Items("method_id") /\ Visited("method_id", x)
  BY <1>1, <1>2, FormatItem
<1>4. /\ dexIsReferenceDescriptor(Descriptor(x.classIdx))
      /\ String(x.nameIdx).name
  BY <1>3 DEF SecondPass, Formatted, AsTheFormatSays, StringsFit
<1>5. ASSUME k # 1
      PROVE  LexLess(<<previous.classIdx, previous.nameIdx, previous.protoIdx>>,
                     <<x.classIdx, x.nameIdx, x.protoIdx>>)
  <2>1. /\ k - 1 \in DOMAIN s.items /\ k \in DOMAIN s.items /\ k - 1 < k
        /\ Visited("method_id", previous) /\ previous = s.items[k - 1]
    BY <1>2, <1>5, FormatItem
  <2>2. LexLess(MemberRank(previous, previous.protoIdx), MemberRank(x, x.protoIdx))
    BY <1>1, <2>1, FormatOrder DEF NamesRise
  <2>3. \A i \in {previous, x} : /\ i.classIdx \in Number /\ Index(i.classIdx, "type_id")
                                 /\ i.nameIdx \in Number /\ Index(i.nameIdx, "string_id")
    BY <1>3, <2>1 DEF Visited, Fields, IntraVerify, swapMethodIdItem
  <2>4. QED
    BY <2>2, <2>3, FormatMembers
<1>6. QED
  BY <1>1, <1>4, <1>5 DEF crossVerifyMethodIdItem

LEMMA FirstOfAList ==
  ASSUME NEW l, l \in Seq(Range(l))
  PROVE  /\ l # <<>> => l[1] \in Range(l)
         /\ l = <<>> => Range(l) = {}
<1>1. PICK R : R = Range(l)
  OBVIOUS
<1>2. Len(l) \in Nat /\ DOMAIN l = 1..Len(l)
  BY <1>1
<1>3. l # <<>> => Len(l) # 0
  BY <1>1
<1>4. l = <<>> => DOMAIN l = {}
  OBVIOUS
<1>5. QED
  BY <1>2, <1>3, <1>4 DEF Range

\* The first that is mentioned speaks for all, if they are of one class.
LEMMA DefinerOfAll ==
  ASSUME NEW fields, NEW methods,
         fields \in Seq(Range(fields)), methods \in Seq(Range(methods)),
         \A c1, c2 \in ClassesOf(fields, methods) : c1 = c2
  PROVE  /\ \A f \in Range(fields) : verifyFieldDefiner(FirstDefiner(fields, methods), f.idx)
         /\ \A m \in Range(methods) : verifyMethodDefiner(FirstDefiner(fields, methods), m.idx)
<1>1. /\ \A f \in Range(fields) : Entry("field_id", f.idx).classIdx \in ClassesOf(fields, methods)
      /\ \A m \in Range(methods) : Entry("method_id", m.idx).classIdx \in ClassesOf(fields, methods)
  BY DEF ClassesOf
<1>2. /\ fields # <<>> => fields[1] \in Range(fields)
      /\ methods # <<>> => methods[1] \in Range(methods)
      /\ fields = <<>> => Range(fields) = {}
      /\ methods = <<>> => Range(methods) = {}
  BY FirstOfAList
<1>3. CASE fields # <<>>
  <2>1. FirstDefiner(fields, methods) = Entry("field_id", fields[1].idx).classIdx
    BY <1>3 DEF FirstDefiner
  <2>2. QED
    BY <1>1, <1>2, <1>3, <2>1 DEF verifyFieldDefiner, verifyMethodDefiner
<1>4. CASE fields = <<>> /\ methods # <<>>
  <2>1. FirstDefiner(fields, methods) = Entry("method_id", methods[1].idx).classIdx
    BY <1>4 DEF FirstDefiner
  <2>2. QED
    BY <1>1, <1>2, <1>4, <2>1 DEF verifyFieldDefiner, verifyMethodDefiner
<1>5. CASE fields = <<>> /\ methods = <<>>
  BY <1>2, <1>5
<1>6. QED
  BY <1>3, <1>4, <1>5

\* It speaks for the class of which all are.
LEMMA DefinerIs ==
  ASSUME NEW fields, NEW methods, NEW class,
         fields \in Seq(Range(fields)), methods \in Seq(Range(methods)),
         \A f \in Range(fields) : Entry("field_id", f.idx).classIdx = class,
         \A m \in Range(methods) : Entry("method_id", m.idx).classIdx = class
  PROVE  FirstDefiner(fields, methods) \in {class, NoIndex}
<1>1. /\ fields # <<>> => fields[1] \in Range(fields)
      /\ methods # <<>> => methods[1] \in Range(methods)
  BY FirstOfAList
<1>2. QED
  BY <1>1 DEF FirstDefiner

LEMMA RefListPasses ==
  ASSUME SecondPass, NEW s \in Sections("annotation_set_ref_list"), NEW k \in 1..Len(s.items)
  PROVE  crossVerifyAnnotationSetRefList(s.items[k])
<1>1. PICK x : x = s.items[k]
  OBVIOUS
<1>2. x \in Range(s.items)
  BY <1>1, FormatItem DEF InPlace
<1>3. ASSUME NEW o \in Range(x.list) PROVE dexDataMapVerify0Ok(o, "annotation_set")
  <2>1. CASE o = 0
    BY <2>1 DEF dexDataMapVerify0Ok
  <2>2. CASE o # 0
    <3>1. <<o, "annotation_set">> \in References("annotation_set_ref_list", x)
      BY <2>2 DEF References
    <3>2. ItemsAt("annotation_set", o) # {}
      BY <1>2, <3>1, ReferenceLeads
    <3>3. QED
      BY <3>2, Vouched DEF DataTypes, dexDataMapVerify0Ok
  <2>3. QED
    BY <2>1, <2>2
<1>4. QED
  BY <1>1, <1>3 DEF crossVerifyAnnotationSetRefList

LEMMA AnnotationSetPasses ==
  ASSUME SecondPass, NEW s \in Sections("annotation_set"), NEW k \in 1..Len(s.items)
  PROVE  crossVerifyAnnotationSetItem(s.items[k])
<1>1. PICK x, l : x = s.items[k] /\ l = x.entries
  OBVIOUS
<1>2. x \in Range(s.items) /\ x \in Items("annotation_set") /\ Visited("annotation_set", x)
  BY <1>1, FormatItem DEF InPlace
<1>3. /\ 0 \notin Range(l)
      /\ \A i, j \in DOMAIN l : i < j =>
           ItemAt("annotation", l[i]).typeIdx < ItemAt("annotation", l[j]).typeIdx
  BY <1>1, <1>2 DEF SecondPass, Formatted, AsTheFormatSays, AnnotationsInOrder
<1>4. ASSUME NEW o \in Range(l) PROVE dexDataMapVerify0Ok(o, "annotation")
  <2>1. <<o, "annotation">> \in References("annotation_set", x)
    BY <1>1, <1>3, <1>4 DEF References
  <2>2. ItemsAt("annotation", o) # {}
    BY <1>2, <2>1, ReferenceLeads
  <2>3. QED
    BY <2>2, Vouched DEF DataTypes, dexDataMapVerify0Ok
<1>5. PICK n \in Nat : DOMAIN l = 1..n
  <2>1. l \in Seq(Range(l))
    BY <1>1, <1>2 DEF Visited, Fields, List, Listed
  <2>2. PICK R : R = Range(l)
    OBVIOUS
  <2>3. Len(l) \in Nat /\ DOMAIN l = 1..Len(l)
    BY <2>1, <2>2
  <2>4. QED
    BY <2>3
<1>6. PICK f : f = [i \in DOMAIN l |-> annotationItemTypeIdx(l[i])]
  OBVIOUS
<1>7. ASSUME NEW i \in 1..n PROVE f[i] = ItemAt("annotation", l[i]).typeIdx
  <2>1. l[i] # 0
    BY <1>3, <1>5 DEF Range
  <2>2. QED
    BY <1>5, <1>6, <2>1 DEF annotationItemTypeIdx
<1>8. Len(f) = n
  BY <1>5, <1>6
<1>9. ASSUME NEW i \in 1..(n - 1) PROVE f[i] < f[i + 1]
  <2>1. i \in 1..n /\ i + 1 \in 1..n /\ i < i + 1
    OBVIOUS
  <2>2. QED
    BY <1>3, <1>5, <1>7, <2>1
<1>10. Increasing(f)
  BY <1>8, <1>9 DEF Increasing
<1>11. QED
  BY <1>1, <1>4, <1>6, <1>10 DEF crossVerifyAnnotationSetItem

LEMMA ClassDataPasses ==
  ASSUME SecondPass, NEW s \in Sections("class_data"), NEW k \in 1..Len(s.items)
  PROVE  crossVerifyClassDataItem(s.items[k])
<1>1. PICK x, fields, methods :
        /\ x = s.items[k] /\ fields = x.staticFields \o x.instanceFields
        /\ methods = x.directMethods \o x.virtualMethods
  OBVIOUS
<1>2. x \in Range(s.items) /\ x \in Items("class_data") /\ Visited("class_data", x)
  BY <1>1, FormatItem DEF InPlace
<1>3. fields \in Seq(Range(fields)) /\ methods \in Seq(Range(methods))
  BY <1>1, <1>2, JoinedSeq DEF Visited, Fields, Listed
<1>4. \A c1, c2 \in ClassesOf(fields, methods) : c1 = c2
  BY <1>1, <1>2 DEF SecondPass, Formatted, AsTheFormatSays, OneClassEach, ClassesOf
<1>5. /\ \A f \in Range(fields) : verifyFieldDefiner(FirstDefiner(fields, methods), f.idx)
      /\ \A m \in Range(methods) : verifyMethodDefiner(FirstDefiner(fields, methods), m.idx)
  BY <1>3, <1>4, DefinerOfAll
<1>6. ASSUME NEW m \in Range(methods) PROVE dexDataMapVerify0Ok(m.codeOff, "code")
  <2>1. CASE m.codeOff = 0
    BY <2>1 DEF dexDataMapVerify0Ok
  <2>2. CASE m.codeOff # 0
    <3>1. <<m.codeOff, "code">> \in References("class_data", x)
      BY <1>1, <1>6, <2>2 DEF References
    <3>2. ItemsAt("code", m.codeOff) # {}
      BY <1>2, <3>1, ReferenceLeads
    <3>3. QED
      BY <3>2, Vouched DEF DataTypes, dexDataMapVerify0Ok
  <2>3. QED
    BY <2>1, <2>2
<1>7. QED
  BY <1>1, <1>5, <1>6 DEF crossVerifyClassDataItem, findFirstClassDataDefiner

LEMMA DirectoryPasses ==
  ASSUME SecondPass, NEW s \in Sections("annotations_directory"), NEW k \in 1..Len(s.items)
  PROVE  crossVerifyAnnotationsDirectoryItem(s.items[k])
<1>1. PICK x, fields, methods :
        x = s.items[k] /\ fields = x.fields /\ methods = x.methods \o x.parameters
  OBVIOUS
<1>2. /\ x \in Range(s.items) /\ x \in Items("annotations_directory")
      /\ Visited("annotations_directory", x)
  BY <1>1, FormatItem DEF InPlace
<1>3. /\ x.methods \in Seq(Range(x.methods)) /\ x.parameters \in Seq(Range(x.parameters))
      /\ fields \in Seq(Range(fields)) /\ methods \in Seq(Range(methods))
  BY <1>1, <1>2, JoinedSeq DEF Visited, Fields, Listed
<1>4. Range(methods) = Range(x.methods) \cup Range(x.parameters)
  BY <1>1, <1>3, Joined
<1>5. \A c1, c2 \in ClassesOf(fields, methods) : c1 = c2
  BY <1>1, <1>2 DEF SecondPass, Formatted, AsTheFormatSays, OneClassEach, ClassesOf
<1>6. /\ \A f \in Range(fields) : verifyFieldDefiner(FirstDefiner(fields, methods), f.idx)
      /\ \A m \in Range(methods) : verifyMethodDefiner(FirstDefiner(fields, methods), m.idx)
  BY <1>3, <1>5, DefinerOfAll
<1>7. dexDataMapVerify0Ok(x.classAnnotationsOff, "annotation_set")
  <2>1. CASE x.classAnnotationsOff = 0
    BY <2>1 DEF dexDataMapVerify0Ok
  <2>2. CASE x.classAnnotationsOff # 0
    <3>1. <<x.classAnnotationsOff, "annotation_set">> \in References("annotations_directory", x)
      BY <2>2 DEF References
    <3>2. ItemsAt("annotation_set", x.classAnnotationsOff) # {}
      BY <1>2, <3>1, ReferenceLeads
    <3>3. QED
      BY <3>2, Vouched DEF DataTypes, dexDataMapVerify0Ok
  <2>3. QED
    BY <2>1, <2>2
<1>8. ASSUME NEW a \in Range(fields) \cup Range(x.methods)
      PROVE  dexDataMapVerify(a.annotationsOff, "annotation_set")
  <2>1. a \in Range(x.fields \o x.methods)
    BY <1>1, <1>3, <1>8, Joined
  <2>2. <<a.annotationsOff, "annotation_set">> \in References("annotations_directory", x)
    BY <2>1 DEF References
  <2>3. ItemsAt("annotation_set", a.annotationsOff) # {}
    BY <1>2, <2>2, ReferenceLeads
  <2>4. QED
    BY <2>3, Vouched DEF DataTypes
<1>9. ASSUME NEW a \in Range(x.parameters)
      PROVE  dexDataMapVerify(a.annotationsOff, "annotation_set_ref_list")
  <2>1. <<a.annotationsOff, "annotation_set_ref_list">> \in References("annotations_directory", x)
    BY <1>9 DEF References
  <2>2. ItemsAt("annotation_set_ref_list", a.annotationsOff) # {}
    BY <1>2, <2>1, ReferenceLeads
  <2>3. QED
    BY <2>2, Vouched DEF DataTypes
<1>10. QED
  BY <1>1, <1>4, <1>6, <1>7, <1>8, <1>9
     DEF crossVerifyAnnotationsDirectoryItem, findFirstAnnotationsDirectoryDefiner

LEMMA ClassDefPasses ==
  ASSUME SecondPass, ~BigEndian, NEW s \in Sections("class_def"), NEW k \in 1..Len(s.items),
         NEW before, \A c \in before : \E j \in 1..(k - 1) : c = s.items[j].classIdx
  PROVE  crossVerifyClassDefItem(s.items[k], before)
<1>1. PICK x, class : x = s.items[k] /\ class = x.classIdx
  OBVIOUS
<1>2. /\ x \in Range(s.items) /\ x \in Items("class_def") /\ Visited("class_def", x)
      /\ k \in DOMAIN s.items /\ DOMAIN s.items = 1..Len(s.items) /\ Len(s.items) \in Nat
  BY <1>1, FormatItem DEF InPlace
<1>3. LET interfaces == TypeList(x.interfacesOff)
      IN  /\ \A t \in {class} \cup ({x.superclassIdx} \ {NoIndex}) \cup Range(interfaces) :
               dexIsClassDescriptor(Descriptor(t))
          /\ IsInjective(interfaces)
  BY <1>1, <1>2 DEF SecondPass, Formatted, AsTheFormatSays, StringsFit
<1>4. ASSUME NEW o, NEW type \in DataTypes \ {"map_list"},
             o # 0 => <<o, type>> \in References("class_def", x)
      PROVE  dexDataMapVerify0Ok(o, type)
  <2>1. CASE o = 0
    BY <2>1 DEF dexDataMapVerify0Ok
  <2>2. CASE o # 0
    <3>1. ItemsAt(type, o) # {}
      BY <1>2, <1>4, <2>2, ReferenceLeads
    <3>2. QED
      BY <3>1, Vouched DEF dexDataMapVerify0Ok
  <2>3. QED
    BY <2>1, <2>2
<1>5. /\ dexDataMapVerify0Ok(x.interfacesOff, "type_list")
      /\ dexDataMapVerify0Ok(x.annotationsOff, "annotations_directory")
      /\ dexDataMapVerify0Ok(x.classDataOff, "class_data")
      /\ dexDataMapVerify0Ok(x.staticValuesOff, "encoded_array")
  <2>1. /\ x.interfacesOff # 0 =>
             <<x.interfacesOff, "type_list">> \in References("class_def", x)
        /\ x.annotationsOff # 0 =>
             <<x.annotationsOff, "annotations_directory">> \in References("class_def", x)
        /\ x.classDataOff # 0 =>
             <<x.classDataOff, "class_data">> \in References("class_def", x)
        /\ x.staticValuesOff # 0 =>
             <<x.staticValuesOff, "encoded_array">> \in References("class_def", x)
    BY DEF References
  <2>2. {"type_list", "annotations_directory", "class_data", "encoded_array"}
          \subseteq DataTypes \ {"map_list"}
    BY DEF DataTypes
  <2>3. QED
    BY <1>4, <2>1, <2>2
<1>6. /\ \A j \in DOMAIN s.items \ {k} : s.items[j].classIdx # class
      /\ \A d \in ItemsAt("class_data", x.classDataOff) :
           /\ \A f \in Range(d.staticFields \o d.instanceFields) :
                Entry("field_id", f.idx).classIdx = class
           /\ \A m \in Range(d.directMethods \o d.virtualMethods) :
                Entry("method_id", m.idx).classIdx = class
      /\ \A d \in ItemsAt("annotations_directory", x.annotationsOff) :
           /\ \A f \in Range(d.fields) : Entry("field_id", f.idx).classIdx = class
           /\ \A m \in Range(d.methods \o d.parameters) :
                Entry("method_id", m.idx).classIdx = class
  BY <1>1, <1>2 DEF SecondPass, Formatted, AsTheFormatSays, OfItsClass
<1>7. class \notin before
  <2>1. \A j \in 1..(k - 1) : j \in DOMAIN s.items \ {k}
    BY <1>2
  <2>2. QED
    BY <1>6, <2>1
<1>8. ASSUME NEW o, NEW type \in DataTypes \ {"map_list"}, o # 0,
             dexDataMapVerify0Ok(o, type), o \in Nat
      PROVE  ItemAt(type, o) \in ItemsAt(type, o) /\ Visited(type, ItemAt(type, o))
  <2>1. ItemsAt(type, o) # {}
    BY <1>8, Verifies DEF SecondPass, dexDataMapVerify0Ok
  <2>2. QED
    BY <2>1, ItemThere, ItemIs DEF SecondPass, InPlace, DataTypes
<1>9. verifyClassDataIsForDef(x.classDataOff, class)
  <2>1. SUFFICES ASSUME x.classDataOff # 0
                 PROVE  findFirstClassDataDefiner(ItemAt("class_data", x.classDataOff))
                          \in {class, NoIndex}
    BY DEF verifyClassDataIsForDef
  <2>2. PICK d : d = ItemAt("class_data", x.classDataOff)
    OBVIOUS
  <2>3. x.classDataOff \in Nat
    BY <1>2 DEF Visited, Fields
  <2>4. d \in ItemsAt("class_data", x.classDataOff) /\ Visited("class_data", d)
    BY <1>5, <1>8, <2>1, <2>2, <2>3 DEF DataTypes
  <2>5. PICK fields, methods : /\ fields = d.staticFields \o d.instanceFields
                               /\ methods = d.directMethods \o d.virtualMethods
    OBVIOUS
  <2>6. fields \in Seq(Range(fields)) /\ methods \in Seq(Range(methods))
    BY <2>4, <2>5, JoinedSeq DEF Visited, Fields, Listed
  <2>7. FirstDefiner(fields, methods) \in {class, NoIndex}
    BY <1>6, <2>4, <2>5, <2>6, DefinerIs
  <2>8. QED
    BY <2>2, <2>5, <2>7 DEF findFirstClassDataDefiner
<1>10. verifyAnnotationsDirectoryIsForDef(x.annotationsOff, class)
  <2>1. SUFFICES ASSUME x.annotationsOff # 0
                 PROVE  findFirstAnnotationsDirectoryDefiner(
                          ItemAt("annotations_directory", x.annotationsOff)) \in {class, NoIndex}
    BY DEF verifyAnnotationsDirectoryIsForDef
  <2>2. PICK d : d = ItemAt("annotations_directory", x.annotationsOff)
    OBVIOUS
  <2>3. x.annotationsOff \in Nat
    BY <1>2 DEF Visited, Fields
  <2>4. /\ d \in ItemsAt("annotations_directory", x.annotationsOff)
        /\ Visited("annotations_directory", d)
    BY <1>5, <1>8, <2>1, <2>2, <2>3 DEF DataTypes
  <2>5. PICK fields, methods : fields = d.fields /\ methods = d.methods \o d.parameters
    OBVIOUS
  <2>6. fields \in Seq(Range(fields)) /\ methods \in Seq(Range(methods))
    BY <2>4, <2>5, JoinedSeq DEF Visited, Fields, Listed
  <2>7. FirstDefiner(fields, methods) \in {class, NoIndex}
    BY <1>6, <2>4, <2>5, <2>6, DefinerIs
  <2>8. QED
    BY <2>2, <2>5, <2>7 DEF findFirstAnnotationsDirectoryDefiner
<1>11. LET interfaces == TypeList(x.interfacesOff)
       IN  /\ \A i \in DOMAIN interfaces : dexIsClassDescriptor(Descriptor(interfaces[i]))
           /\ IsInjective(interfaces)
  BY <1>3 DEF Range
<1>12. /\ dexIsClassDescriptor(Descriptor(class))
       /\ x.superclassIdx # NoIndex => dexIsClassDescriptor(Descriptor(x.superclassIdx))
  BY <1>3
<1>13. StaticValuesOff(x) = x.staticValuesOff
  BY DEF StaticValuesOff
<1>14. QED
  BY <1>1, <1>5, <1>7, <1>9, <1>10, <1>11, <1>12, <1>13 DEF crossVerifyClassDefItem

LEMMA CrossPasses ==
  ASSUME SecondPass, ~BigEndian, NEW type \in CrossTypes, NEW s \in Sections(type),
         NEW k \in 1..Len(s.items),
         NEW previous, k = 1 => previous = None, k # 1 => previous = s.items[k - 1],
         NEW before,
         type = "class_def" => \A c \in before : \E j \in 1..(k - 1) : c = s.items[j].classIdx
  PROVE  CrossVerify(type, s.items[k], previous, before)
<1>1. CASE type = "string_id"
  BY <1>1, StringIdPasses DEF CrossVerify
<1>2. CASE type = "type_id"
  BY <1>2, TypeIdPasses DEF CrossVerify
<1>3. CASE type = "proto_id"
  BY <1>3, ProtoIdPasses DEF CrossVerify
<1>4. CASE type = "field_id"
  BY <1>4, FieldIdPasses DEF CrossVerify
<1>5. CASE type = "method_id"
  BY <1>5, MethodIdPasses DEF CrossVerify
<1>6. CASE type = "class_def"
  BY <1>6, ClassDefPasses DEF CrossVerify
<1>7. CASE type = "annotation_set_ref_list"
  BY <1>7, RefListPasses DEF CrossVerify
<1>8. CASE type = "annotation_set"
  BY <1>8, AnnotationSetPasses DEF CrossVerify
<1>9. CASE type = "class_data"
  BY <1>9, ClassDataPasses DEF CrossVerify
<1>10. CASE type = "annotations_directory"
  BY <1>10, DirectoryPasses DEF CrossVerify
<1>11. QED
  BY <1>1, <1>2, <1>3, <1>4, <1>5, <1>6, <1>7, <1>8, <1>9, <1>10 DEF CrossTypes, IdTypes

LEMMA ReadablePasses ==
  ASSUME SecondPass, NEW type \in CrossTypes, NEW s \in Sections(type), NEW k \in 1..Len(s.items)
  PROVE  Readable(type, s.items[k])
<1>1. IInv /\ MapInv /\ Checked /\ StringsThere
  BY FormatStrings DEF SecondPass
<1>2. InstanceFieldsIndexed
  BY DEF InstanceFieldsIndexed, SecondPass, Formatted, AsTheFormatSays, RightByThemselves
<1>3. QED
  BY <1>1, <1>2, ItemIsReadable

-----------------------------------------------------------------------------
\* The classes defined so far.
DefinedBefore ==
  \A c \in defined :
    \E k \in 1..Len(file.map) : \E j \in 1..Len(file.map[k].items) :
      /\ file.map[k].type = "class_def" /\ c = file.map[k].items[j].classIdx
      /\ k < section \/ (k = section /\ j < item)

\* What the format says of a file does not change while the file does not.
LEMMA SameItems ==
  ASSUME file' = file
  PROVE  /\ \A type : Sections(type)' = Sections(type)
         /\ \A type, o : ItemsAt(type, o)' = ItemsAt(type, o)
         /\ \A type : Items(type)' = Items(type)
         /\ \A type, idx : Index(idx, type)' <=> Index(idx, type)
         /\ \A type, idx : Entry(type, idx)' = Entry(type, idx)
BY DEF Sections, ItemsAt, Items, Index, Entry

LEMMA SameItem ==
  ASSUME file' = file
  PROVE  /\ \A type, o : ItemAt(type, o)' = ItemAt(type, o)
         /\ \A o : TypeList(o)' = TypeList(o)
         /\ \A o : StringAt(o)' = StringAt(o)
         /\ \A idx : String(idx)' = String(idx)
         /\ \A idx : Descriptor(idx)' = Descriptor(idx)
         /\ \A idx : Rank(idx)' = Rank(idx)
         /\ \A idx : TypeRank(idx)' = TypeRank(idx)
         /\ \A i, last : MemberRank(i, last)' = MemberRank(i, last)
<1>1. \A type, o : ItemAt(type, o)' = ItemAt(type, o)
  BY SameItems DEF ItemAt
<1>2. \A o : TypeList(o)' = TypeList(o) /\ StringAt(o)' = StringAt(o)
  BY <1>1 DEF TypeList, StringAt
<1>3. \A idx : String(idx)' = String(idx)
  BY <1>2, SameItems DEF String
<1>4. \A idx : Descriptor(idx)' = Descriptor(idx) /\ Rank(idx)' = Rank(idx)
  BY <1>3, SameItems DEF Descriptor, Rank
<1>5. \A idx : TypeRank(idx)' = TypeRank(idx)
  BY <1>4, SameItems DEF TypeRank
<1>6. QED
  BY <1>1, <1>2, <1>3, <1>4, <1>5 DEF MemberRank

LEMMA SameNames == ASSUME file' = file PROVE InOrderOfNames' <=> InOrderOfNames
<1>1. \A x : TypeRanks(x)' = TypeRanks(x)
  BY SameItem DEF TypeRanks
<1>2. NamesRise' <=> NamesRise
  BY <1>1, SameItems, SameItem DEF NamesRise
<1>3. InOrderOfNames' <=> NamesRise'
  BY DEF InOrderOfNames, NamesRise, TypeRanks
<1>4. QED
  BY <1>2, <1>3, TableByTable

LEMMA SameEnds ==
  ASSUME file' = file
  PROVE  /\ \A s : EndOf(s)' = EndOf(s)
         /\ \A a, b : Padding(a, b)' <=> Padding(a, b)
BY DEF EndOf, EndOfSwappedBefore, MapListSize, Behind, Starts, Padding

LEMMA SameFormat == ASSUME file' = file PROVE AsTheFormatSays' <=> AsTheFormatSays
<1>1. SectionsLaidOut' <=> SectionsLaidOut
  BY SameEnds, SameItems DEF SectionsLaidOut, DataEnd, HeaderSize
<1>2. OneTryAtATime' <=> OneTryAtATime
  BY SameItems DEF OneTryAtATime
<1>3. RightByThemselves' <=> RightByThemselves
  BY <1>2, SameItems, SameIntra DEF RightByThemselves, AllIndex
<1>4. ReferencesLead' <=> ReferencesLead
  BY SameItems DEF ReferencesLead
<1>5. OfItsClass' <=> OfItsClass
  BY SameItems DEF OfItsClass
<1>6. StringsFit' <=> StringsFit
  BY SameItems, SameItem DEF StringsFit
<1>7. AnnotationsInOrder' <=> AnnotationsInOrder
  BY SameItems, SameItem DEF AnnotationsInOrder
<1>8. OneClassEach' <=> OneClassEach
  <2>1. \A fields, methods : ClassesOf(fields, methods)' = ClassesOf(fields, methods)
    BY SameItems DEF ClassesOf
  <2>2. QED
    BY <2>1, SameItems DEF OneClassEach
<1>9. QED
  BY <1>1, <1>3, <1>4, <1>5, <1>6, <1>7, <1>8, SameNames DEF AsTheFormatSays

\* It goes through: what it is found to be in is as far as it has come.
Through ==
  /\ phase \notin {"failed", "undefined"}
  /\ phase \in {"start", "map", "swap"} => defined = {}
  /\ phase = "swap" /\ item = 0 =>
       offset = IF section = 1 THEN 0 ELSE EndOf(file.map[section - 1])
  /\ phase = "cross" => DefinedBefore

FormatInv == AsTheFormatSays => Through

LEMMA FormatInitially == Init => FormatInv
BY DEF Init, FormatInv, Through

LEMMA ThroughHeader ==
  ASSUME IInv, AsTheFormatSays, Through, CheckHeader
  PROVE  Through'
<1>1. swapDexHeader
  BY HeaderPasses DEF IInv, Formatted
<1>2. phase = "start" /\ phase' = "map" /\ defined' = defined
  BY <1>1 DEF CheckHeader
<1>3. QED
  BY <1>2 DEF Through

LEMMA ThroughMap ==
  ASSUME IInv, AsTheFormatSays, Through, CheckMap
  PROVE  Through'
<1>1. swapMap
  BY MapPasses DEF IInv, Formatted
<1>2. /\ phase = "map" /\ phase' = "swap" /\ defined' = defined
      /\ section' = section /\ item' = item /\ offset' = offset
  BY <1>1 DEF CheckMap
<1>3. section = 1 /\ item = 0 /\ offset = 0
  BY <1>2 DEF IInv
<1>4. QED
  BY <1>2, <1>3 DEF Through

LEMMA ThroughBegin ==
  ASSUME IInv, AsTheFormatSays, Through, StartSection
  PROVE  Through'
<1>1. PICK s : s = file.map[section]
  OBVIOUS
<1>2. phase = "swap" /\ item = 0 /\ section <= Len(file.map)
  BY DEF StartSection
<1>3. section \in 1..Len(file.map) /\ Len(file.map) \in Nat
  BY <1>2, FileType DEF IInv, Swapping
<1>4. offset = IF section = 1 THEN 0 ELSE EndOf(file.map[section - 1])
  BY <1>2 DEF Through
<1>5. SectionBegins(s)
  BY <1>1, <1>3, <1>4, SectionPasses DEF IInv, Formatted
<1>6. /\ IF s.type \in {"header", "map_list"}
         THEN section' = section + 1 /\ offset' = EndOfSwappedBefore(s) /\ item' = item
         ELSE section' = section /\ offset' = s.offset /\ item' = 1
      /\ file' = file /\ phase' = phase /\ defined' = defined
  BY <1>1, <1>5 DEF StartSection
<1>7. CASE s.type \in {"header", "map_list"}
  <2>1. section' = section + 1 /\ offset' = EndOf(s)
    BY <1>6, <1>7 DEF EndOf
  <2>2. section' # 1 /\ section' - 1 = section
    BY <1>3, <2>1
  <2>3. offset' = EndOf(file.map[section' - 1])
    BY <1>1, <2>1, <2>2
  <2>4. EndOf(file.map[section - 1])' = EndOf(file.map[section' - 1])
    BY <1>6, SameEnds
  <2>5. QED
    BY <1>2, <1>6, <2>2, <2>3, <2>4 DEF Through
<1>8. CASE s.type \notin {"header", "map_list"}
  BY <1>2, <1>6, <1>8 DEF Through
<1>9. QED
  BY <1>7, <1>8

LEMMA ThroughSwap ==
  ASSUME IInv, AsTheFormatSays, Through, SwapItem
  PROVE  Through'
<1>1. PICK s : s = file.map[section]
  OBVIOUS
<1>2. phase = "swap" /\ section <= Len(file.map) /\ item \in DOMAIN s.items
  BY <1>1 DEF SwapItem
<1>3. section \in 1..Len(file.map) /\ Section(s)
  BY <1>1, <1>2, FileType DEF IInv, Swapping
<1>4. item \in 1..Len(s.items)
  BY <1>2, <1>3 DEF Section
<1>5. s.type \notin InPlace /\ offset = Behind(s, item)
  BY <1>1, <1>2, <1>4 DEF IInv, Swapping
<1>6. /\ Padding(offset, ItemStart(s))
      /\ ItemStart(s) + s.items[item].len <= file.fileLen
      /\ IntraVerify(s.type, s.items[item])
  BY <1>1, <1>3, <1>4, <1>5, ItemPasses DEF IInv, Formatted
<1>7. phase' = phase /\ defined' = defined /\ item' = item + 1
  BY <1>1, <1>6 DEF SwapItem
<1>8. item' # 0
  BY <1>4, <1>7
<1>9. QED
  BY <1>2, <1>7, <1>8 DEF Through

LEMMA ThroughEnd ==
  ASSUME IInv, MapInv, AsTheFormatSays, Through, EndSection
  PROVE  Through'
<1>1. PICK s : s = file.map[section]
  OBVIOUS
<1>2. phase = "swap" /\ section <= Len(file.map) /\ item > Len(s.items)
  BY <1>1 DEF EndSection
<1>3. section \in 1..Len(file.map)
  BY <1>2, FileType DEF IInv, Swapping
<1>4. Formatted /\ Len(s.items) \in Nat \ {0} /\ item \in Nat
  BY <1>1, <1>2, <1>3, FormatSection DEF IInv, Swapping, Formatted
<1>5. /\ s.type \notin InPlace /\ offset = Behind(s, item)
      /\ item \in 1..(Len(s.items) + 1)
  <2>1. item # 0
    BY <1>2, <1>4
  <2>2. QED
    BY <1>1, <1>2, <2>1 DEF IInv, Swapping
<1>6. offset = EndOf(s)
  <2>1. item = Len(s.items) + 1
    BY <1>2, <1>4, <1>5
  <2>2. QED
    BY <1>5, <2>1 DEF EndOf, InPlace
<1>7. ASSUME isDataSectionType(s.type) PROVE ~(offset > DataEnd)
  <2>1. s.type \in DataTypes
    BY <1>1, <1>3, <1>4, <1>7, FormatSection DEF isDataSectionType
  <2>2. EndOf(s) <= DataEnd /\ EndOf(s) \in Nat /\ DataEnd \in Nat
    BY <1>1, <1>3, <1>4, <2>1, FormatNumbers, SectionsApart
  <2>3. QED
    BY <1>6, <2>2
<1>8. /\ section' = section + 1 /\ item' = 0 /\ offset' = offset
      /\ file' = file /\ phase' = phase /\ defined' = defined
  BY <1>1, <1>7 DEF EndSection
<1>9. section' # 1 /\ section' - 1 = section
  BY <1>3, <1>8
<1>10. EndOf(file.map[section - 1])' = EndOf(file.map[section' - 1])
  BY <1>8, SameEnds
<1>11. offset' = EndOf(file.map[section - 1])'
  BY <1>1, <1>6, <1>8, <1>9, <1>10
<1>12. QED
  BY <1>2, <1>8, <1>9, <1>11 DEF Through

LEMMA ThroughTurn ==
  ASSUME Through, EndSwap
  PROVE  Through'
BY DEF Through, EndSwap, DefinedBefore

\* The definitions that are behind stay behind.
LEMMA StillDefined ==
  ASSUME DefinedBefore, file' = file, defined' = defined,
         \A k, j : (k < section \/ (k = section /\ j < item)) =>
                     (k < section' \/ (k = section' /\ j < item'))
  PROVE  DefinedBefore'
BY DEF DefinedBefore

LEMMA ThroughCrossSection ==
  ASSUME CrossInv, Through, EndCrossSection
  PROVE  Through'
<1>1. /\ phase = "cross" /\ phase' = phase /\ section' = section + 1
      /\ file' = file /\ defined' = defined
  BY DEF EndCrossSection, Crossing
<1>2. section \in Nat /\ DefinedBefore
  BY <1>1 DEF CrossInv, Through
<1>3. DefinedBefore'
  <2>1. SUFFICES ASSUME NEW c \in defined
                 PROVE  \E k \in 1..Len(file.map) : \E j \in 1..Len(file.map[k].items) :
                          /\ file.map[k].type = "class_def" /\ c = file.map[k].items[j].classIdx
                          /\ k < section' \/ (k = section' /\ j < item')
    BY <1>1 DEF DefinedBefore
  <2>2. PICK k \in 1..Len(file.map) : \E j \in 1..Len(file.map[k].items) :
                          /\ file.map[k].type = "class_def" /\ c = file.map[k].items[j].classIdx
                          /\ k < section \/ (k = section /\ j < item)
    BY <1>2 DEF DefinedBefore
  <2>3. k < section'
    BY <1>1, <1>2, <2>2
  <2>4. QED
    BY <2>2, <2>3
<1>4. QED
  BY <1>1, <1>3 DEF Through

LEMMA InSecondPass ==
  ASSUME IInv, MapInv, IntraInv, CrossInv, AsTheFormatSays, Crossing,
         file.map[section].type \in CrossTypes, item <= Len(file.map[section].items)
  PROVE  /\ SecondPass
         /\ section \in 1..Len(file.map)
         /\ file.map[section] \in Sections(file.map[section].type)
         /\ item \in 1..Len(file.map[section].items) /\ Len(file.map[section].items) \in Nat
<1>1. phase = "cross" /\ section <= Len(file.map)
  BY DEF Crossing
<1>2. SecondPass
  BY <1>1 DEF SecondPass, Checked, Formatted, IInv, IntraInv
<1>3. section \in 1..(Len(file.map) + 1) /\ item \in Nat \ {0}
  BY <1>1 DEF CrossInv
<1>4. section \in 1..Len(file.map)
  BY <1>1, <1>3, FileType DEF IInv
<1>5. file.map[section] \in Range(file.map) /\ Len(file.map[section].items) \in Nat
  BY <1>2, <1>4, FormatSection DEF SecondPass
<1>6. QED
  BY <1>2, <1>3, <1>4, <1>5 DEF Sections

LEMMA ThroughCross ==
  ASSUME ~BigEndian, IInv, MapInv, IntraInv, CrossInv, AsTheFormatSays, Through, CrossItem
  PROVE  Through'
<1>1. PICK s, type : s = file.map[section] /\ type = s.type
  OBVIOUS
<1>2. Crossing /\ type \in CrossTypes /\ item <= Len(s.items)
  BY <1>1 DEF CrossItem
<1>3. /\ SecondPass /\ section \in 1..Len(file.map) /\ s \in Sections(type)
      /\ item \in 1..Len(s.items) /\ Len(s.items) \in Nat
  BY <1>1, <1>2, InSecondPass
<1>4. DefinedBefore
  BY <1>2 DEF Through, Crossing
<1>5. type = "class_def" => \A c \in defined : \E j \in 1..(item - 1) : c = s.items[j].classIdx
  <2>1. SUFFICES ASSUME type = "class_def", NEW c \in defined
                 PROVE  \E j \in 1..(item - 1) : c = s.items[j].classIdx
    OBVIOUS
  <2>2. PICK k \in 1..Len(file.map) : \E j \in 1..Len(file.map[k].items) :
          /\ file.map[k].type = "class_def" /\ c = file.map[k].items[j].classIdx
          /\ k < section \/ (k = section /\ j < item)
    BY <1>4 DEF DefinedBefore
  <2>3. k = section
    <3>1. file.map[k].type = file.map[section].type
      BY <1>1, <2>1, <2>2
    <3>2. QED
      BY <1>3, <3>1, FormatSection DEF SecondPass
  <2>4. PICK j \in 1..Len(s.items) : c = s.items[j].classIdx /\ j < item
    BY <1>1, <1>3, <2>2, <2>3
  <2>5. j \in 1..(item - 1)
    BY <1>3, <2>4
  <2>6. QED
    BY <2>4, <2>5
<1>6. PICK previous : previous = Previous(s)
  OBVIOUS
<1>7. (item = 1 => previous = None) /\ (item # 1 => previous = s.items[item - 1])
  BY <1>6 DEF Previous
<1>8. CrossVerify(type, s.items[item], previous, defined)
  BY <1>2, <1>3, <1>5, <1>7, CrossPasses
<1>9. /\ item' = item + 1 /\ section' = section /\ file' = file /\ phase' = phase
      /\ defined' = IF type = "class_def" THEN defined \cup {s.items[item].classIdx}
                    ELSE defined
  BY <1>1, <1>6, <1>8 DEF CrossItem
<1>10. DefinedBefore'
  <2>1. SUFFICES ASSUME NEW c \in defined'
                 PROVE  \E k \in 1..Len(file.map) : \E j \in 1..Len(file.map[k].items) :
                          /\ file.map[k].type = "class_def" /\ c = file.map[k].items[j].classIdx
                          /\ k < section' \/ (k = section' /\ j < item')
    BY <1>9 DEF DefinedBefore
  <2>2. CASE c \in defined
    <3>1. PICK k \in 1..Len(file.map) : \E j \in 1..Len(file.map[k].items) :
            /\ file.map[k].type = "class_def" /\ c = file.map[k].items[j].classIdx
            /\ k < section \/ (k = section /\ j < item)
      BY <1>4, <2>2 DEF DefinedBefore
    <3>2. PICK j \in 1..Len(file.map[k].items) :
            /\ file.map[k].type = "class_def" /\ c = file.map[k].items[j].classIdx
            /\ k < section \/ (k = section /\ j < item)
      BY <3>1
    <3>3. Len(file.map[k].items) \in Nat
      BY <1>3, FormatSection DEF SecondPass
    <3>4. k < section' \/ (k = section' /\ j < item')
      BY <1>3, <1>9, <3>2, <3>3
    <3>5. QED
      BY <3>2, <3>4
  <2>3. CASE type = "class_def" /\ c = s.items[item].classIdx
    <3>1. item < item'
      BY <1>3, <1>9
    <3>2. QED
      BY <1>1, <1>3, <1>9, <2>3, <3>1
  <2>4. QED
    BY <1>9, <2>1, <2>2, <2>3
<1>11. phase' = "cross"
  BY <1>2, <1>9 DEF Crossing
<1>12. QED
  BY <1>10, <1>11 DEF Through

LEMMA NothingUnverified ==
  ASSUME IInv, MapInv, IntraInv, CrossInv, AsTheFormatSays, CrossItemUnverified
  PROVE  FALSE
<1>1. PICK s, type : s = file.map[section] /\ type = s.type
  OBVIOUS
<1>2. Crossing /\ type \in CrossTypes /\ item <= Len(s.items) /\ ~Readable(type, s.items[item])
  BY <1>1 DEF CrossItemUnverified
<1>3. SecondPass /\ s \in Sections(type) /\ item \in 1..Len(s.items)
  BY <1>1, <1>2, InSecondPass
<1>4. QED
  BY <1>2, <1>3, ReadablePasses

LEMMA FormatStep ==
  ~BigEndian /\ IInv /\ MapInv /\ IntraInv /\ CrossInv /\ FormatInv /\ [Next]_vars => FormatInv'
<1> SUFFICES ASSUME ~BigEndian, IInv, MapInv, IntraInv, CrossInv, FormatInv, [Next]_vars,
                    AsTheFormatSays'
             PROVE  Through'
  BY DEF FormatInv
<1>1. file' = file
  BY DEF Next, vars, CheckHeader, CheckMap, StartSection, SwapItem, EndSection, EndSwap, CrossItem,
         CrossItemUnverified, EndCrossSection, Accept, Overrun, Fail
<1>2. AsTheFormatSays
  BY <1>1, SameFormat
<1>3. Through
  BY <1>2 DEF FormatInv
<1>4. CASE CheckHeader
  BY <1>2, <1>3, <1>4, ThroughHeader
<1>5. CASE CheckMap
  BY <1>2, <1>3, <1>5, ThroughMap
<1>6. CASE StartSection
  BY <1>2, <1>3, <1>6, ThroughBegin
<1>7. CASE SwapItem
  BY <1>2, <1>3, <1>7, ThroughSwap
<1>8. CASE EndSection
  BY <1>2, <1>3, <1>8, ThroughEnd
<1>9. CASE EndSwap
  BY <1>3, <1>9, ThroughTurn
<1>10. CASE CrossItem
  BY <1>2, <1>3, <1>10, ThroughCross
<1>11. CASE CrossItemUnverified
  BY <1>2, <1>11, NothingUnverified
<1>12. CASE EndCrossSection
  BY <1>3, <1>12, ThroughCrossSection
<1>13. CASE Accept \/ Overrun
  BY <1>13 DEF Accept, Overrun, Through
<1>14. CASE UNCHANGED vars
  <2>1. /\ phase' = phase /\ section' = section /\ item' = item /\ offset' = offset
        /\ defined' = defined
    BY <1>14 DEF vars
  <2>2. DefinedBefore' <=> DefinedBefore
    BY <1>1, <2>1 DEF DefinedBefore
  <2>3. EndOf(file.map[section - 1])' = EndOf(file.map[section - 1])
    BY <1>1, <2>1, SameEnds
  <2>4. QED
    BY <1>3, <2>1, <2>2, <2>3 DEF Through
<1>15. QED
  BY <1>4, <1>5, <1>6, <1>7, <1>8, <1>9, <1>10, <1>11, <1>12, <1>13, <1>14 DEF Next

(***************************************************************************)
(* No check is too strict: whatever file the format allows, with whatever  *)
(* sections in whatever order, dexFixByteOrdering turns it down at none of *)
(* its checks and reads nothing of it unverified.                          *)
(***************************************************************************)
THEOREM WellFormedAcceptedHolds == ~BigEndian => (Spec => []WellFormedAccepted)
<1> SUFFICES ASSUME ~BigEndian PROVE Spec => []WellFormedAccepted
  OBVIOUS
<1>1. FormatInv => WellFormedAccepted
  BY DEF FormatInv, Through, WellFormedAccepted
<1>2. IInv /\ MapInv /\ IntraInv /\ CrossInv /\ FormatInv /\ [Next]_vars => FormatInv'
  BY FormatStep
<1>3. QED
  BY <1>1, <1>2, FormatInitially, PassesInvariance, PTL DEF Spec
=============================================================================
