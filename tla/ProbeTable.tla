------------------------------ MODULE ProbeTable ------------------------------
(***************************************************************************)
(* The open hash tables of libdex, probed one slot after the other: the    *)
(* class lookup table of src/libdex/DexFile.cpp (dexCreateClassLookup,     *)
(* classLookupAdd, dexFindClass) and the entries of an archive in          *)
(* src/libdex/ZipArchive.cpp (addToHash, dexZipFindEntry).  Both are       *)
(* filled once and asked afterwards.                                       *)
(***************************************************************************)
EXTENDS Integers, Sequences

CONSTANTS
  Names,     \* class descriptors, names of files in an archive
  Hashes,    \* what classDescriptorHash or computeHash may make of them
  Inputs,    \* what a table is filled with: the names in their order
  NoAnswer   \* nothing was looked up yet

\* MaxEntries is what an archive can announce (u2).  A file can announce more classes
\* than that (u4): the model ends here for them, and so do the sizes of tables.
PowersOf2 == {1, 2, 4, 8, 16, 32, 64, 128, 256, 512, 1024, 2048, 4096, 8192, 16384, 32768,
              65536, 131072}
MaxEntries == 65535

ASSUME HashesAssumption == Hashes \subseteq [Names -> Nat]
ASSUME InputsAssumption ==
  \A s \in Inputs : s \in Seq(Names) /\ 0 < Len(s) /\ Len(s) <= MaxEntries

VARIABLES
  client,    \* whose table it is: "classes" or "archive"
  hash,      \* the hash function
  names,     \* the names to be added
  size,      \* numEntries, mHashTableSize; 0 before the table is created
  table,     \* slots 0..size-1: the number of the entry there, 0 if there is none
  count,     \* how many are in the table
  phase,     \* what is going on
  goal,      \* the name that is looked for
  place,     \* idx, ent: the slot that is looked at
  answer     \* the last name looked up and the entry found; entry 0 is none

input == <<client, hash, names>>
vars == <<input, size, table, count, phase, goal, place, answer>>

Slots == 0..(size - 1)

-----------------------------------------------------------------------------
\* val is not 0.
dexRoundUpPower2(val) == CHOOSE p \in PowersOf2 : val <= p /\ p < 2 * val

\* Mutant: no room for an unused slot.
TableSizeTight ==
  dexRoundUpPower2(IF client = "classes" THEN Len(names) * 2 ELSE (Len(names) * 4) \div 3)

TableSize ==
  dexRoundUpPower2(IF client = "classes" THEN Len(names) * 2 ELSE 1 + (Len(names) * 4) \div 3)

\* Mutant: the hash is not masked.
HomeUnmasked(name) == hash[name]

\* hash & (size - 1)
Home(name) == hash[name] % size

\* Mutant: every other slot is passed over.
AfterSkipping(slot) == (slot + 2) % size

\* Mutant: no mask, the last slot has none after it.
AfterStuck(slot) == IF slot + 1 < size THEN slot + 1 ELSE slot

\* (slot + 1) & (size - 1): from the last slot to the first.
After(slot) == IF slot + 1 = size THEN 0 ELSE slot + 1

-----------------------------------------------------------------------------
Init ==
  /\ client \in {"classes", "archive"}
  /\ hash \in Hashes
  /\ names \in Inputs
  /\ size = 0
  /\ table = [slot \in Slots |-> 0]
  /\ count = 0
  /\ phase = "create"
  /\ goal = names[1]
  /\ place = 0
  /\ answer = NoAnswer

\* calloc: all slots are free.
Create ==
  /\ phase = "create"
  /\ size' = TableSize
  /\ table' = [slot \in 0..(TableSize - 1) |-> 0]
  /\ phase' = "idle"
  /\ UNCHANGED <<input, count, goal, place, answer>>

\* dexCreateClassLookup returns NULL; parseZipArchive does not look.
CreateFails ==
  /\ phase = "create"
  /\ phase' = IF client = "classes" THEN "failed" ELSE "undefined"
  /\ UNCHANGED <<input, size, table, count, goal, place, answer>>

StartAdd ==
  /\ phase = "idle" /\ count < Len(names)
  /\ phase' = "add"
  /\ place' = Home(names[count + 1])
  /\ UNCHANGED <<input, size, table, count, goal, answer>>

StartFind(name) ==
  /\ phase = "idle" /\ count = Len(names)
  /\ phase' = "find"
  /\ goal' = name
  /\ place' = Home(name)
  /\ UNCHANGED <<input, size, table, count, answer>>

Add ==
  /\ phase = "add" /\ table[place] = 0
  /\ table' = [table EXCEPT ![place] = count + 1]
  /\ count' = count + 1
  /\ phase' = "idle"
  /\ UNCHANGED <<input, size, goal, place, answer>>

\* Mutant: equal hashes are enough.
MatchesHash(slot) == hash[names[table[slot]]] = hash[goal]

\* The length and the bytes of the name, or the hash and the descriptor.
Matches(slot) == names[table[slot]] = goal

FindEnds ==
  /\ phase = "find" /\ (table[place] # 0 => Matches(place))
  /\ answer' = [name |-> goal, entry |-> table[place]]
  /\ phase' = "idle"
  /\ UNCHANGED <<input, size, table, count, goal, place>>

\* The loops of all four functions.
Probe ==
  /\ \/ phase = "add" /\ table[place] # 0
     \/ phase = "find" /\ table[place] # 0 /\ ~Matches(place)
  /\ place' = After(place)
  /\ UNCHANGED <<input, size, table, count, phase, goal, answer>>

Next ==
  \/ Create \/ CreateFails
  \/ StartAdd \/ Add
  \/ \E name \in Names : StartFind(name)
  \/ FindEnds
  \/ Probe

\* One thread, that waits for nothing.
Spec == Init /\ [][Next]_vars /\ WF_vars(Next)

-----------------------------------------------------------------------------
(***************************************************************************)
(* Properties                                                              *)
(***************************************************************************)

\* The values of the variables; what is in the table, and where probing may be.
TypeOK ==
  /\ client \in {"classes", "archive"} /\ hash \in Hashes /\ names \in Inputs
  /\ phase \in {"create", "idle", "add", "find", "failed", "undefined"}
  /\ goal \in Names
  /\ count \in 0..Len(names) /\ (phase = "add" => count < Len(names))
  /\ answer \in {NoAnswer} \cup [name : Names, entry : 0..Len(names)]
  /\ IF phase \in {"create", "failed", "undefined"} THEN size = 0 ELSE size \in PowersOf2
  /\ table \in [Slots -> 0..Len(names)]
  /\ place = 0 \/ place \in Slots

\* How many times After leads from one slot to another.
Distance(from, to) == IF from <= to THEN to - from ELSE to - from + size

Entry(slot) == names[table[slot]]
Filled == {slot \in Slots : table[slot] # 0}

\* "Search until we find a matching entry or an empty slot" is enough only because no
\* slot is free between the home of a name and a slot where it is.
ChainUnbroken ==
  \A slot \in Filled : \A s \in Slots :
    Distance(Home(Entry(slot)), s) < Distance(Home(Entry(slot)), slot) => table[s] # 0

\* "We oversized the table, so this is guaranteed to finish": neither the entries of an
\* archive nor the classes of a file, however many, fill the last slot.
NeverFull == size # 0 => \E slot \in Slots : table[slot] = 0

\* Whatever the hashes, what was added is found, the first of those with one name, and
\* what was not is not: the two tables keep the promise of Lookup.
L == INSTANCE Lookup WITH entries <- SubSeq(names, 1, count)
ImplementsLookup == L!Spec

\* Every search of a slot or of a name comes to an end.
SearchesEnd == phase \in {"add", "find"} ~> phase = "idle"
=============================================================================
