--------------------------- MODULE ProbeTableProofs ---------------------------
(***************************************************************************)
(* For all names, hashes and inputs of up to MaxEntries entries: the two   *)
(* tables of libdex find what was added to them, the first of several      *)
(* entries with one name, and never fill up.                               *)
(*                                                                         *)
(* Distances stand for the way of probing.  Every entry is held by a slot  *)
(* to which no free slot is nearer (ChainUnbroken); of two entries with    *)
(* one name the earlier is nearer to their home (NearestFirst); and what a *)
(* search has passed over is full and, when it looks for a name, holds     *)
(* others (Passed).                                                        *)
(***************************************************************************)
EXTENDS ProbeTable, FiniteSetTheorems, FunctionTheorems, SequenceTheorems, TLAPS

-----------------------------------------------------------------------------
(***************************************************************************)
(* Sizes and slots                                                         *)
(***************************************************************************)

\* dexRoundUpPower2 rounds up.
LEMMA RoundUpFacts ==
  ASSUME NEW val \in Nat, 0 < val, val <= 131072
  PROVE  /\ dexRoundUpPower2(val) \in PowersOf2
         /\ val <= dexRoundUpPower2(val)
<1>1. \E p \in PowersOf2 : val <= p /\ p < 2 * val
  BY DEF PowersOf2
<1> QED
  BY <1>1 DEF dexRoundUpPower2

LEMMA PowerFacts == \A p \in PowersOf2 : p \in Nat /\ 0 < p
BY DEF PowersOf2

\* A table has room for all entries and one more.
LEMMA SizeFacts ==
  ASSUME names \in Inputs
  PROVE  /\ TableSize \in PowersOf2
         /\ Len(names) \in Nat \ {0}
         /\ Len(names) < TableSize
<1>1. Len(names) \in Nat /\ 0 < Len(names) /\ Len(names) <= MaxEntries
  BY InputsAssumption
<1>2. \A n \in Nat : 0 < n /\ n <= MaxEntries =>
        /\ n < n * 2 /\ n * 2 <= 131072
        /\ n < 1 + (n * 4) \div 3 /\ 1 + (n * 4) \div 3 <= 131072
  BY DEF MaxEntries
<1> DEFINE val == IF client = "classes" THEN Len(names) * 2 ELSE 1 + (Len(names) * 4) \div 3
<1>3. val \in Nat /\ Len(names) < val /\ val <= 131072
  BY <1>1, <1>2
<1>4. TableSize = dexRoundUpPower2(val)
  BY DEF TableSize
<1> HIDE DEF val
<1>5. dexRoundUpPower2(val) \in PowersOf2 /\ val <= dexRoundUpPower2(val)
  BY <1>1, <1>3, RoundUpFacts
<1> QED
  BY <1>1, <1>3, <1>4, <1>5, PowerFacts

\* There is a table once it was created.
Created == phase \in {"idle", "add", "find"}

LEMMA Typed ==
  ASSUME TypeOK, Created
  PROVE  /\ size \in Nat \ {0}
         /\ table \in [Slots -> 0..Len(names)]
         /\ place \in Slots
         /\ names \in Seq(Names) /\ Len(names) \in Nat \ {0}
         /\ \A i \in 1..Len(names) : names[i] \in Names
         /\ hash \in [Names -> Nat]
<1>1. size \in Nat \ {0} /\ table \in [Slots -> 0..Len(names)]
  BY PowerFacts DEF TypeOK, Created
<1>2. place \in Slots
  BY <1>1 DEF TypeOK, Slots
<1>3. names \in Seq(Names) /\ Len(names) \in Nat \ {0} /\ hash \in [Names -> Nat]
  BY InputsAssumption, HashesAssumption, SizeFacts DEF TypeOK
<1>4. \A i \in 1..Len(names) : names[i] \in Names
  BY <1>3
<1> QED
  BY <1>1, <1>2, <1>3, <1>4

\* Masking leads to a slot.
LEMMA SlotFacts ==
  ASSUME TypeOK, Created
  PROVE  /\ \A name \in Names : Home(name) \in Slots
         /\ \A s \in Slots : After(s) \in Slots
<1>1. \A n \in Nat, d \in Nat \ {0} : n % d \in 0..(d - 1)
  OBVIOUS
<1>2. \A name \in Names : Home(name) \in Slots
  BY <1>1, Typed DEF Home, Slots
<1>3. \A s \in Slots : After(s) \in Slots
  BY Typed DEF After, Slots
<1> QED
  BY <1>2, <1>3

\* Probing moves on by one, or is back where it began.
LEMMA DistanceFacts ==
  ASSUME TypeOK, Created, NEW h \in Slots, NEW s \in Slots
  PROVE  /\ Distance(h, s) \in Nat
         /\ Distance(h, h) = 0
         /\ \A t \in Slots : Distance(h, s) = Distance(h, t) => s = t
         /\ \/ Distance(h, After(s)) = 0
            \/ Distance(h, After(s)) = Distance(h, s) + 1
<1>1. size \in Nat \ {0}
  BY Typed
<1>2. Distance(h, s) \in Nat /\ Distance(h, h) = 0
  BY <1>1 DEF Distance, Slots
<1>3. \A t \in Slots : Distance(h, s) = Distance(h, t) => s = t
  BY <1>1 DEF Distance, Slots
<1>4. CASE s + 1 = size
  BY <1>1, <1>4 DEF Distance, Slots, After
<1>5. CASE s + 1 # size
  BY <1>1, <1>5 DEF Distance, Slots, After
<1> QED
  BY <1>2, <1>3, <1>4, <1>5

-----------------------------------------------------------------------------
(***************************************************************************)
(* Type correctness                                                        *)
(***************************************************************************)
LEMMA InitType == Init => TypeOK
<1> SUFFICES ASSUME Init PROVE TypeOK
  OBVIOUS
<1>1. names \in Seq(Names) /\ Len(names) \in Nat \ {0}
  BY InputsAssumption, SizeFacts DEF Init
<1>2. names[1] \in Names
  BY <1>1
<1>3. table \in [Slots -> 0..Len(names)]
  BY <1>1 DEF Init
<1> QED
  BY <1>1, <1>2, <1>3 DEF Init, TypeOK

LEMMA StepType == TypeOK /\ [Next]_vars => TypeOK'
<1> SUFFICES ASSUME TypeOK, [Next]_vars PROVE TypeOK'
  OBVIOUS
<1>1. CASE Create
  <2>1. TableSize \in PowersOf2 /\ TableSize \in Nat \ {0} /\ Len(names) \in Nat
    BY SizeFacts, PowerFacts DEF TypeOK
  <2>2. table' \in [0..(size' - 1) -> 0..Len(names)]
    BY <1>1, <2>1 DEF Create
  <2> QED
    BY <1>1, <2>1, <2>2 DEF Create, TypeOK, Slots, input
<1>2. CASE CreateFails
  BY <1>2 DEF CreateFails, TypeOK, Slots, input
<1>3. CASE StartAdd
  <2>1. Created /\ count \in 0..Len(names) /\ count < Len(names)
    BY <1>3 DEF StartAdd, Created, TypeOK
  <2>2. names[count + 1] \in Names
    <3>1. count + 1 \in 1..Len(names)
      BY <2>1, Typed
    <3> QED
      BY <2>1, <3>1, Typed
  <2>3. Home(names[count + 1]) \in Slots
    BY <2>1, <2>2, SlotFacts
  <2> QED
    BY <1>3, <2>3 DEF StartAdd, TypeOK, Slots, input
<1>4. ASSUME NEW name \in Names, StartFind(name) PROVE TypeOK'
  <2>1. Home(name) \in Slots
    BY <1>4, SlotFacts DEF StartFind, Created
  <2> QED
    BY <1>4, <2>1 DEF StartFind, TypeOK, Slots, input
<1>5. CASE Add
  <2>1. Created
    BY <1>5 DEF Add, Created
  <2>2. count + 1 \in 0..Len(names)
    BY <1>5, <2>1, Typed DEF Add, TypeOK
  <2> QED
    BY <1>5, <2>1, <2>2, Typed DEF Add, TypeOK, Slots, input
<1>6. CASE FindEnds
  <2>1. Created
    BY <1>6 DEF FindEnds, Created
  <2>2. table[place] \in 0..Len(names)
    BY <2>1, Typed
  <2> QED
    BY <1>6, <2>2 DEF FindEnds, TypeOK, Slots, input
<1>7. CASE Probe
  <2>1. Created
    BY <1>7 DEF Probe, Created
  <2>2. After(place) \in Slots
    BY <2>1, Typed, SlotFacts
  <2> QED
    BY <1>7, <2>1, <2>2 DEF Probe, TypeOK, Slots, input
<1>8. CASE UNCHANGED vars
  BY <1>8 DEF vars, input, TypeOK, Slots
<1> QED
  BY <1>1, <1>2, <1>3, <1>4, <1>5, <1>6, <1>7, <1>8 DEF Next

\* The variables of the table, the search and the answer keep their types.
THEOREM TypeCorrect == Spec => []TypeOK
<1> QED
  BY InitType, StepType, PTL DEF Spec

-----------------------------------------------------------------------------
(***************************************************************************)
(* The inductive invariant                                                 *)
(***************************************************************************)
NameDistance(name, slot) == Distance(Home(name), slot)

\* The entries added, and nothing else, are in the table, each in one slot.
Keeps ==
  /\ \A s \in Slots : table[s] <= count
  /\ \A i \in 1..count : \E s \in Slots : table[s] = i
  /\ \A s, t \in Filled : table[s] = table[t] => s = t

NearestFirst ==
  \A s, t \in Filled : Entry(s) = Entry(t) /\ table[s] < table[t] =>
    NameDistance(Entry(s), s) < NameDistance(Entry(s), t)

Roomy == size # 0 => Len(names) < size

TableInv == ChainUnbroken /\ Keeps /\ NearestFirst /\ Roomy

\* What the search has passed over.
Passed ==
  /\ phase = "add" =>
       \A s \in Slots :
         NameDistance(names[count + 1], s) < NameDistance(names[count + 1], place) => table[s] # 0
  /\ phase = "find" =>
       \A s \in Slots :
         NameDistance(goal, s) < NameDistance(goal, place) => table[s] # 0 /\ Entry(s) # goal

IInv == TypeOK /\ TableInv /\ Passed

\* Steps that do not add leave the table as it is.
LEMMA TableUnchanged ==
  ASSUME TableInv, UNCHANGED <<input, size, table, count>>
  PROVE  TableInv'
<1>1. /\ Filled' = Filled
      /\ \A name : Home(name)' = Home(name)
      /\ Slots' = Slots
      /\ \A s : Entry(s)' = Entry(s)
      /\ \A s, t : Distance(s, t)' = Distance(s, t)
  BY DEF input, Filled, Slots, Home, Entry, Distance
<1>2. ChainUnbroken'
  BY <1>1 DEF TableInv, ChainUnbroken, input, Home, Entry, Filled, Slots, Distance
<1>3. Keeps' /\ Roomy'
  BY <1>1 DEF TableInv, Keeps, Roomy, input
<1>4. NearestFirst'
  BY <1>1 DEF TableInv, NearestFirst, NameDistance, input, Home, Entry, Filled, Slots, Distance
<1> QED
  BY <1>2, <1>3, <1>4 DEF TableInv

LEMMA InitInv == Init => IInv
<1> SUFFICES ASSUME Init PROVE IInv
  OBVIOUS
<1>1. TypeOK
  BY InitType
<1>2. Slots = {} /\ count = 0 /\ size = 0 /\ phase = "create"
  BY DEF Init, Slots
<1>3. TableInv
  BY <1>2 DEF TableInv, ChainUnbroken, Keeps, NearestFirst, Roomy, Filled
<1>4. Passed
  BY <1>2 DEF Passed
<1> QED
  BY <1>1, <1>3, <1>4 DEF IInv

\* A new table is empty, and large enough.
LEMMA CreateStep == IInv /\ Create => TableInv' /\ Passed'
<1> SUFFICES ASSUME IInv, Create PROVE TableInv' /\ Passed'
  OBVIOUS
<1>1. Slots = {}
  BY DEF IInv, TypeOK, Create, Slots
<1>2. count = 0
  <2>1. 1..count = {}
    BY <1>1 DEF IInv, TableInv, Keeps
  <2>2. count \in Nat
    BY SizeFacts DEF IInv, TypeOK
  <2> QED
    BY <2>1, <2>2
<1>3. size' = TableSize /\ count' = 0 /\ names' = names /\ phase' = "idle"
  BY <1>2 DEF Create, input
<1>4. \A s \in Slots' : table'[s] = 0
  BY DEF Create, Slots
<1>5. Filled' = {}
  BY <1>4 DEF Filled
<1>6. ChainUnbroken' /\ NearestFirst'
  BY <1>5 DEF ChainUnbroken, NearestFirst
<1>7. Keeps'
  BY <1>3, <1>4, <1>5 DEF Keeps
<1>8. Roomy'
  BY <1>3, SizeFacts DEF Roomy, IInv, TypeOK
<1> QED
  BY <1>3, <1>6, <1>7, <1>8 DEF TableInv, Passed

\* A search begins at the home of its name: nothing is nearer.
LEMMA StartStep ==
  ASSUME IInv, StartAdd \/ \E name \in Names : StartFind(name)
  PROVE  Passed'
<1>1. Created /\ TypeOK
  BY DEF StartAdd, StartFind, Created, IInv
<1>2. \A name \in Names, s \in Slots : ~(Distance(Home(name), s) < Distance(Home(name), Home(name)))
  <2> SUFFICES ASSUME NEW name \in Names, NEW s \in Slots
               PROVE ~(Distance(Home(name), s) < Distance(Home(name), Home(name)))
    OBVIOUS
  <2>1. Home(name) \in Slots
    BY <1>1, SlotFacts
  <2> QED
    BY <1>1, <2>1, DistanceFacts
<1>3. CASE StartAdd
  <2>1. count + 1 \in 1..Len(names)
    BY <1>1, <1>3, Typed DEF StartAdd, TypeOK
  <2>2. names[count + 1] \in Names
    BY <1>1, <2>1, Typed
  <2> QED
    BY <1>2, <1>3, <2>2 DEF StartAdd, Passed, NameDistance, Home, Distance, Slots, input
<1>4. ASSUME NEW name \in Names, StartFind(name) PROVE Passed'
  BY <1>2, <1>4 DEF StartFind, Passed, NameDistance, Home, Distance, Slots, input
<1> QED
  BY <1>3, <1>4

\* Probing adds the slot it leaves to those passed over, or begins again.
LEMMA ProbeStep == IInv /\ Probe => Passed'
<1> SUFFICES ASSUME IInv, Probe PROVE Passed'
  OBVIOUS
<1>1. TypeOK /\ Created /\ place \in Slots
  BY Typed DEF IInv, Probe, Created
<1>2. ASSUME NEW name \in Names, NEW s \in Slots,
             NameDistance(name, s) < NameDistance(name, After(place))
      PROVE  NameDistance(name, s) < NameDistance(name, place) \/ s = place
  <2>1. Home(name) \in Slots /\ After(place) \in Slots
    BY <1>1, SlotFacts
  <2>2. /\ Distance(Home(name), s) \in Nat
        /\ Distance(Home(name), place) \in Nat
        /\ Distance(Home(name), s) = Distance(Home(name), place) => s = place
        /\ \/ Distance(Home(name), After(place)) = 0
           \/ Distance(Home(name), After(place)) = Distance(Home(name), place) + 1
    BY <1>1, <2>1, DistanceFacts
  <2> QED
    BY <1>2, <2>2 DEF NameDistance
<1>3. \A name, s : NameDistance(name, s)' = NameDistance(name, s)
  BY DEF Probe, NameDistance, Home, Distance, input
<1>4. CASE phase = "add"
  <2>1. names[count + 1] \in Names
    <3>1. count + 1 \in 1..Len(names)
      BY <1>1, <1>4, Typed DEF TypeOK
    <3> QED
      BY <1>1, <3>1, Typed
  <2>2. table[place] # 0 /\ place' = After(place)
    BY <1>4 DEF Probe
  <2>3. ASSUME NEW s \in Slots,
               NameDistance(names[count + 1], s) < NameDistance(names[count + 1], After(place))
        PROVE  table[s] # 0
    BY <1>2, <1>4, <2>1, <2>2, <2>3 DEF IInv, Passed
  <2> QED
    BY <1>3, <1>4, <2>2, <2>3 DEF Probe, Passed, NameDistance, Home, Distance, Slots, input
<1>5. CASE phase = "find"
  <2>1. goal \in Names
    BY <1>1 DEF TypeOK
  <2>2. table[place] # 0 /\ Entry(place) # goal /\ place' = After(place)
    BY <1>5 DEF Probe, Matches, Entry
  <2>3. ASSUME NEW s \in Slots, NameDistance(goal, s) < NameDistance(goal, After(place))
        PROVE  table[s] # 0 /\ Entry(s) # goal
    BY <1>2, <1>5, <2>1, <2>2, <2>3 DEF IInv, Passed
  <2> QED
    BY <1>5, <2>2, <2>3 DEF Probe, Passed, NameDistance, Home, Distance, Slots, Entry, input
<1> QED
  BY <1>4, <1>5 DEF Probe

\* The new entry takes the first free slot from its home on: whatever is nearer is full,
\* and an older entry of the same name is nearer, or its own way would be broken there.
LEMMA AddStep == IInv /\ Add => TableInv' /\ Passed'
<1> SUFFICES ASSUME IInv, Add PROVE TableInv' /\ Passed'
  OBVIOUS
<1> DEFINE new == count + 1
<1>1. TypeOK /\ Created /\ place \in Slots /\ size \in Nat \ {0}
  BY Typed DEF IInv, Add, Created
<1>2. new \in Nat /\ count \in Nat /\ new \in 1..Len(names)
  BY <1>1, Typed DEF TypeOK, Add
<1>3. names[new] \in Names
  BY <1>1, <1>2, Typed
<1>4. table[place] = 0
  BY DEF Add
<1>5. /\ Slots' = Slots
      /\ names' = names /\ size' = size /\ count' = new /\ phase' = "idle"
      /\ table'[place] = new
      /\ \A s \in Slots : s # place => table'[s] = table[s]
  BY <1>1, Typed DEF Add, input, Slots
<1>6. /\ \A name : Home(name)' = Home(name)
      /\ \A s, t : Distance(s, t)' = Distance(s, t)
      /\ \A name, s : NameDistance(name, s)' = NameDistance(name, s)
  BY DEF Add, Home, Distance, NameDistance, input
<1> HIDE DEF new
<1>7. /\ Filled' = Filled \cup {place}
      /\ place \notin Filled
      /\ \A s \in Filled : table'[s] = table[s]
      /\ \A s : Entry(s) = names[table[s]] /\ Entry(s)' = names[table'[s]]
  <2>1. new # 0
    BY <1>2
  <2>2. \A s : Entry(s) = names[table[s]] /\ Entry(s)' = names[table'[s]]
    BY <1>5 DEF Entry
  <2>3. \A s \in Slots : table'[s] # 0 <=> table[s] # 0 \/ s = place
    BY <1>5, <2>1
  <2>4. Filled' = {s \in Slots : table'[s] # 0}
    BY <1>5 DEF Filled
  <2> QED
    BY <1>1, <1>4, <1>5, <2>2, <2>3, <2>4 DEF Filled
<1>8. \A s \in Slots : NameDistance(names[new], s) < NameDistance(names[new], place) => table[s] # 0
  BY DEF IInv, Passed, Add, new
<1>9. \A s \in Slots : table[s] # 0 => table'[s] # 0
  BY <1>4, <1>5
<1>10. ChainUnbroken'
  <2> SUFFICES ASSUME NEW slot \in Filled', NEW s \in Slots,
                      NameDistance(names[table'[slot]], s) < NameDistance(names[table'[slot]], slot)
               PROVE  table'[s] # 0
    BY <1>5, <1>6, <1>7 DEF ChainUnbroken, NameDistance
  <2>1. CASE slot = place
    BY <1>5, <1>8, <1>9, <2>1
  <2>2. CASE slot # place
    BY <1>7, <1>9, <2>2 DEF IInv, TableInv, ChainUnbroken, NameDistance
  <2> QED
    BY <2>1, <2>2
<1>11. Keeps'
  <2>1. \A s \in Slots : table[s] \in Nat /\ table[s] <= count
    BY <1>1, <1>2, Typed DEF IInv, TableInv, Keeps
  <2>2. \A s \in Slots : table'[s] <= new
    <3>1. count <= new /\ new <= new
      BY <1>2 DEF new
    <3> QED
      BY <1>2, <1>5, <2>1, <3>1
  <2>3. ASSUME NEW i \in 1..new PROVE \E s \in Slots : table'[s] = i
    <3>1. CASE i = new
      BY <1>1, <1>5, <3>1
    <3>2. CASE i # new
      <4>1. i \in 1..count
        BY <1>2, <3>2 DEF new
      <4>2. PICK s \in Slots : table[s] = i
        BY <4>1 DEF IInv, TableInv, Keeps
      <4>3. s # place
        BY <1>4, <4>1, <4>2
      <4> QED
        BY <1>5, <4>2, <4>3
    <3> QED
      BY <3>1, <3>2
  <2>4. ASSUME NEW s \in Filled', NEW t \in Filled', table'[s] = table'[t] PROVE s = t
    <3>1. \A r \in Filled : table'[r] # new
      BY <1>2, <1>7, <2>1 DEF Filled, new
    <3>2. CASE s \in Filled /\ t \in Filled
      BY <1>7, <2>4, <3>2 DEF IInv, TableInv, Keeps
    <3> QED
      BY <1>5, <1>7, <2>4, <3>1, <3>2
  <2> QED
    BY <1>5, <2>2, <2>3, <2>4 DEF Keeps
<1>12. NearestFirst'
  <2> SUFFICES ASSUME NEW s \in Filled', NEW t \in Filled',
                      names[table'[s]] = names[table'[t]], table'[s] < table'[t]
               PROVE  NameDistance(names[table'[s]], s) < NameDistance(names[table'[s]], t)
    BY <1>6, <1>7 DEF NearestFirst
  <2>1. \A r \in Filled : table'[r] \in Nat /\ table'[r] < new
    <3>1. \A r \in Filled : table[r] \in Nat /\ table[r] <= count
      BY <1>1, Typed DEF IInv, TableInv, Keeps, Filled
    <3> QED
      BY <1>2, <1>7, <3>1 DEF new
  <2>2. s \in Filled
    BY <1>2, <1>5, <1>7, <2>1
  <2>3. CASE t \in Filled
    BY <1>7, <2>2, <2>3 DEF IInv, TableInv, NearestFirst
  <2>4. CASE t = place
    <3>1. Entry(s) = names[new] /\ s # place
      BY <1>5, <1>7, <2>2, <2>4
    <3>2. ~(NameDistance(names[new], place) < NameDistance(names[new], s))
      BY <1>1, <1>4, <2>2, <3>1 DEF IInv, TableInv, ChainUnbroken, NameDistance
    <3>3. NameDistance(names[new], place) # NameDistance(names[new], s)
      BY <1>1, <1>3, <2>2, <3>1, SlotFacts, DistanceFacts DEF NameDistance, Filled
    <3>4. NameDistance(names[new], place) \in Nat /\ NameDistance(names[new], s) \in Nat
      BY <1>1, <1>3, <2>2, SlotFacts, DistanceFacts DEF NameDistance, Filled
    <3> QED
      BY <1>7, <2>2, <2>4, <3>1, <3>2, <3>3, <3>4
  <2> QED
    BY <1>7, <2>3, <2>4
<1>13. Roomy'
  BY <1>5 DEF IInv, TableInv, Roomy
<1> QED
  BY <1>5, <1>10, <1>11, <1>12, <1>13 DEF TableInv, Passed

LEMMA StepInv == IInv /\ [Next]_vars => IInv'
<1> SUFFICES ASSUME IInv, [Next]_vars PROVE IInv'
  OBVIOUS
<1>1. TypeOK'
  BY StepType DEF IInv
<1>2. CASE Create
  BY <1>1, <1>2, CreateStep DEF IInv
<1>3. CASE CreateFails
  BY <1>1, <1>3, TableUnchanged DEF IInv, CreateFails, Passed
<1>4. CASE StartAdd
  BY <1>1, <1>4, TableUnchanged, StartStep DEF IInv, StartAdd
<1>5. CASE \E name \in Names : StartFind(name)
  <2>1. UNCHANGED <<input, size, table, count>>
    BY <1>5 DEF StartFind
  <2> QED
    BY <1>1, <1>5, <2>1, TableUnchanged, StartStep DEF IInv
<1>6. CASE Add
  BY <1>1, <1>6, AddStep DEF IInv
<1>7. CASE FindEnds
  BY <1>1, <1>7, TableUnchanged DEF IInv, FindEnds, Passed
<1>8. CASE Probe
  BY <1>1, <1>8, TableUnchanged, ProbeStep DEF IInv, Probe
<1>9. CASE UNCHANGED vars
  <2>1. Passed'
    BY <1>9 DEF IInv, Passed, vars, input, NameDistance, Home, Distance, Slots, Entry
  <2> QED
    BY <1>1, <1>9, <2>1, TableUnchanged DEF IInv, vars
<1> QED
  BY <1>2, <1>3, <1>4, <1>5, <1>6, <1>7, <1>8, <1>9 DEF Next

LEMMA InvHolds == Spec => []IInv
<1> QED
  BY InitInv, StepInv, PTL DEF Spec

-----------------------------------------------------------------------------
(***************************************************************************)
(* What follows from it                                                    *)
(***************************************************************************)

\* No free slot is nearer to the home of a name than the slot that holds it, so that
\* dexFindClass and dexZipFindEntry may stop at the first free slot.
THEOREM ChainUnbrokenHolds == Spec => []ChainUnbroken
<1>1. IInv => ChainUnbroken
  BY DEF IInv, TableInv
<1> QED
  BY <1>1, InvHolds, PTL

\* If no slot were free, the table would be an injection of its slots into the entries
\* added, of which there are fewer.
LEMMA InvNeverFull == IInv => NeverFull
<1> SUFFICES ASSUME IInv, size # 0, \A slot \in Slots : table[slot] # 0 PROVE FALSE
  BY DEF NeverFull
<1>1. size \in Nat \ {0} /\ Len(names) \in Nat /\ Len(names) < size
  BY PowerFacts, SizeFacts DEF IInv, TypeOK, TableInv, Roomy
<1>2. table \in [Slots -> 1..Len(names)]
  BY <1>1 DEF IInv, TypeOK
<1>3. \A s, t \in Slots : table[s] = table[t] => s = t
  BY DEF IInv, TableInv, Keeps, Filled
<1>4. table \in Injection(Slots, 1..Len(names))
  BY <1>2, <1>3, Fun_IsInj
<1>5. IsFiniteSet(1..Len(names)) /\ Cardinality(1..Len(names)) = Len(names)
  <2>1. \A n \in Nat : IsFiniteSet(1..n) /\ Cardinality(1..n) = n
    BY FS_Interval
  <2> QED
    BY <1>1, <2>1
<1>6. Cardinality(Slots) = size
  BY <1>1, FS_Interval DEF Slots
<1>7. Cardinality(Slots) <= Cardinality(1..Len(names))
  BY <1>4, <1>5, FS_Injection
<1> QED
  BY <1>1, <1>5, <1>6, <1>7

\* However many entries an archive or a file has, adding the last of them and looking
\* for a name that was not added meet a free slot.
THEOREM NeverFullHolds == Spec => []NeverFull
<1> QED
  BY InvNeverFull, InvHolds, PTL

-----------------------------------------------------------------------------
(***************************************************************************)
(* The refinement                                                          *)
(***************************************************************************)
Added == SubSeq(names, 1, count)

LEMMA AddedFacts ==
  ASSUME TypeOK
  PROVE  /\ Added \in Seq(Names)
         /\ count \in Nat /\ Len(Added) = count
         /\ \A i \in 1..count : Added[i] = names[i]
<1>1. names \in Seq(Names) /\ Len(names) \in Nat /\ count \in 0..Len(names)
  BY InputsAssumption, SizeFacts DEF TypeOK
<1>2. \A i \in 1..count : names[i] \in Names
  BY <1>1
<1>3. count \in Nat
  BY <1>1
<1> QED
  BY <1>2, <1>3, SubSeqProperties DEF Added

\* A search that ends at a free slot has missed nothing, one that ends at a match has
\* found the first: the way to any entry of that name has been passed over up to there.
LEMMA AnswerIsRight ==
  ASSUME IInv, FindEnds
  PROVE  answer' \in [name : {goal},
                      entry : IF L!Answers(goal) = {} THEN {0} ELSE L!Answers(goal)]
<1>1. TypeOK /\ Created /\ place \in Slots /\ goal \in Names
  BY Typed DEF IInv, TypeOK, FindEnds, Created
<1>2. L!Answers(goal) =
        {i \in 1..count : names[i] = goal /\ \A j \in 1..count : names[j] = goal => i <= j}
  BY <1>1, AddedFacts DEF L!Answers, Added
<1>3. \A s \in Slots : NameDistance(goal, s) < NameDistance(goal, place) =>
        table[s] # 0 /\ Entry(s) # goal
  BY DEF IInv, Passed, FindEnds
<1>4. \A i \in 1..count : \E s \in Filled : table[s] = i
  <2> SUFFICES ASSUME NEW i \in 1..count PROVE \E s \in Filled : table[s] = i
    OBVIOUS
  <2>1. PICK s \in Slots : table[s] = i
    BY DEF IInv, TableInv, Keeps
  <2>2. table[s] # 0
    BY <1>1, <2>1, AddedFacts
  <2> QED
    BY <2>1, <2>2 DEF Filled
<1>5. \A s \in Slots : NameDistance(goal, s) \in Nat /\
                       (NameDistance(goal, s) = NameDistance(goal, place) => s = place)
  BY <1>1, SlotFacts, DistanceFacts DEF NameDistance
<1>6. CASE table[place] = 0
  <2>1. ASSUME NEW s \in Filled PROVE Entry(s) # goal
    <3> SUFFICES ASSUME Entry(s) = goal PROVE FALSE
      OBVIOUS
    <3>1. s \in Slots /\ s # place
      BY <1>6 DEF Filled
    <3>2. ~(NameDistance(goal, place) < NameDistance(goal, s))
      BY <1>1, <1>6 DEF IInv, TableInv, ChainUnbroken, NameDistance
    <3>3. NameDistance(goal, s) < NameDistance(goal, place)
      BY <1>1, <1>5, <3>1, <3>2
    <3> QED
      BY <1>3, <3>1, <3>3
  <2>2. \A i \in 1..count : names[i] # goal
    BY <1>4, <2>1 DEF Entry
  <2>3. L!Answers(goal) = {}
    BY <1>2, <2>2
  <2> QED
    BY <1>6, <2>3 DEF FindEnds
<1>7. CASE table[place] # 0
  <2>1. Entry(place) = goal /\ place \in Filled
    BY <1>1, <1>7 DEF FindEnds, Matches, Entry, Filled
  <2>2. table[place] \in 1..count
    BY <1>1, <1>7, Typed, AddedFacts DEF IInv, TableInv, Keeps
  <2>3. ASSUME NEW j \in 1..count, names[j] = goal PROVE table[place] <= j
    <3>1. PICK s \in Filled : table[s] = j
      BY <1>4
    <3>2. s \in Slots /\ Entry(s) = goal
      BY <2>3, <3>1 DEF Entry, Filled
    <3>3. ~(NameDistance(goal, s) < NameDistance(goal, place))
      BY <1>3, <3>2
    <3>4. ~(table[s] < table[place])
      BY <2>1, <3>2, <3>3 DEF IInv, TableInv, NearestFirst
    <3> QED
      BY <1>1, <2>2, <3>1, <3>4, AddedFacts
  <2>4. table[place] \in L!Answers(goal)
    BY <1>2, <2>1, <2>2, <2>3 DEF Entry
  <2> QED
    BY <2>4 DEF FindEnds
<1> QED
  BY <1>6, <1>7

LEMMA RefinementInit == Init => L!Init
<1> SUFFICES ASSUME Init PROVE L!Init
  OBVIOUS
<1>1. SubSeq(names, 1, 0) = <<>>
  BY SubSeqEmpty
<1> QED
  BY <1>1 DEF Init, L!Init

LEMMA RefinementStep == IInv /\ [Next]_vars => [L!Next]_(L!vars)
<1> SUFFICES ASSUME IInv, [Next]_vars PROVE [L!Next]_(L!vars)
  OBVIOUS
<1>1. CASE UNCHANGED <<names, count, answer>>
  BY <1>1 DEF L!vars
<1>2. CASE Add
  <2>1. TypeOK /\ count \in Nat /\ count + 1 \in 1..Len(names) /\ names \in Seq(Names)
    BY <1>2, Typed, AddedFacts DEF IInv, Add, Created, TypeOK
  <2>2. names[count + 1] \in Names
    BY <2>1
  <2>3. SubSeq(names, 1, count + 1) = Append(SubSeq(names, 1, count), names[count + 1])
    BY <2>1
  <2>4. L!Add(names[count + 1])
    BY <1>2, <2>3 DEF Add, L!Add, input
  <2> QED
    BY <2>2, <2>4 DEF L!Next
<1>3. CASE FindEnds
  <2>1. goal \in Names
    BY DEF IInv, TypeOK
  <2>2. L!Find(goal)
    BY <1>3, AnswerIsRight DEF L!Find, FindEnds, input
  <2> QED
    BY <2>1, <2>2 DEF L!Next
<1>4. CASE Create \/ CreateFails \/ StartAdd \/ (\E name \in Names : StartFind(name)) \/ Probe
  BY <1>1, <1>4 DEF Create, CreateFails, StartAdd, StartFind, Probe, input
<1>5. CASE UNCHANGED vars
  BY <1>1, <1>5 DEF vars, input
<1> QED
  BY <1>2, <1>3, <1>4, <1>5 DEF Next

\* Whatever the hash function and however names collide, the class lookup table and the
\* table of an archive answer as Lookup does: with the first entry of the name, or none.
THEOREM TableImplementsLookup == Spec => ImplementsLookup
<1> QED
  BY RefinementInit, RefinementStep, InvHolds, PTL DEF Spec, ImplementsLookup, L!Spec

-----------------------------------------------------------------------------
(***************************************************************************)
(* A search ends                                                           *)
(***************************************************************************)
FreeSlots == {slot \in Slots : table[slot] = 0}

\* The next place is closer to that slot, counted in the order of probing.
Nearer(slot) == Distance(place, slot) \in Nat /\ Distance(place', slot) < Distance(place, slot)

LEMMA OneNearer ==
  ASSUME TypeOK, Created, NEW s \in Slots, s # place
  PROVE  Distance(place, s) \in Nat /\ Distance(After(place), s) < Distance(place, s)
<1>1. PICK n : n = size
  OBVIOUS
<1>2. PICK p : p = place
  OBVIOUS
<1>3. n \in Nat \ {0} /\ p \in 0..(n - 1) /\ s \in 0..(n - 1) /\ s # p
  BY <1>1, <1>2, Typed DEF Slots
<1>4. CASE p + 1 = n
  <2>1. After(place) = 0 /\ s < p
    BY <1>1, <1>2, <1>3, <1>4 DEF After
  <2> QED
    BY <1>1, <1>2, <1>3, <1>4, <2>1 DEF Distance
<1>5. CASE p + 1 # n
  <2>1. After(place) = p + 1
    BY <1>1, <1>2, <1>5 DEF After
  <2> QED
    BY <1>1, <1>2, <1>3, <1>5, <2>1 DEF Distance
<1> QED
  BY <1>4, <1>5

LEMMA ProbeNearer == IInv /\ Probe => \A slot \in FreeSlots : Nearer(slot)
<1> SUFFICES ASSUME IInv, Probe, NEW slot \in FreeSlots PROVE Nearer(slot)
  OBVIOUS
<1>1. /\ Created /\ table[place] # 0 /\ place' = After(place)
      /\ slot \in Slots /\ slot # place
  BY DEF Probe, Created, FreeSlots
<1>2. Distance(place, slot) \in Nat /\ Distance(After(place), slot) < Distance(place, slot)
  BY <1>1, OneNearer DEF IInv
<1> QED
  BY <1>1, <1>2 DEF Nearer

(***************************************************************************)
(* Each probe brings a search, for a name or for a place to add one,       *)
(* nearer to every free slot of the table, of which there is one: no       *)
(* search goes around for ever, whatever the hashes.  This is what         *)
(* SearchesEnd needs besides fairness.                                     *)
(***************************************************************************)
THEOREM ProbesRunOut ==
  Spec => /\ [](Created => FreeSlots # {})
          /\ [][Probe => \A slot \in FreeSlots : Nearer(slot)]_vars
<1>1. IInv => (Created => FreeSlots # {})
  <2> SUFFICES ASSUME IInv, Created PROVE FreeSlots # {}
    OBVIOUS
  <2>1. size # 0
    BY Typed DEF IInv
  <2>2. \E slot \in Slots : table[slot] = 0
    BY <2>1, InvNeverFull DEF NeverFull
  <2> QED
    BY <2>2 DEF FreeSlots
<1>2. IInv /\ [Next]_vars => [Probe => \A slot \in FreeSlots : Nearer(slot)]_vars
  BY ProbeNearer
<1> QED
  BY <1>1, <1>2, InvHolds, PTL DEF Spec
=============================================================================
