--------------------------- MODULE ZipArchiveProofs ---------------------------
(***************************************************************************)
(* For any files, with headers of any length and any content: whatever the *)
(* reader is given it stays in the map, and gives back what it took.       *)
(***************************************************************************)
EXTENDS ZipArchive, TLAPS, FiniteSetTheorems, WellFoundedInduction

\* Every set of natural numbers that is not empty has a least one.
LEMMA LeastOf ==
  ASSUME NEW S, S \subseteq Nat, S # {}
  PROVE  \E m \in S : \A i \in S : m <= i
<1> DEFINE less == {p \in Nat \X Nat : p[1] < p[2]}
<1>1. IsWellFoundedOn(less, Nat)
  BY NatLessThanWellFounded DEF OpToRel
<1>2. \A i, j \in Nat : <<i, j>> \notin less => j <= i
  OBVIOUS
<1> HIDE DEF less
<1>3. PICK m \in S : \A i \in S : <<i, m>> \notin less
  BY <1>1, WFMin, Zenon
<1> QED
  BY <1>2, <1>3

\* A set of numbers in a range has a last one.
LEMMA LastOf ==
  ASSUME NEW n \in Int, NEW S, S \subseteq 0..n, S # {}
  PROVE  \E m \in S : \A i \in S : m >= i
<1> DEFINE below == {n - i : i \in S}
<1>1. \A i \in S : i \in 0..n
  OBVIOUS
<1>2. \A k \in below : \E i \in S : k = n - i
  OBVIOUS
<1>3. \A i \in S : n - i \in below
  OBVIOUS
<1> HIDE DEF below
<1>4. below \subseteq Nat /\ below # {}
  <2>1. \A k \in below : k \in Nat
    BY <1>1, <1>2
  <2> QED
    BY <2>1, <1>3
<1>5. PICK k \in below : \A i \in below : k <= i
  BY <1>4, LeastOf
<1>6. PICK m \in S : k = n - m
  BY <1>2
<1>7. \A i \in S : n - m <= n - i
  BY <1>3, <1>5, <1>6
<1> QED
  BY <1>1, <1>7

(***************************************************************************)
(* What is at an offset of a file.                                         *)
(***************************************************************************)
LEMMA HeaderTypes ==
  ASSUME file \in Archives, NEW o
  PROVE  /\ file.length \in Nat
         /\ Signature(o) = "CDE" =>
              /\ Entry(o).nameLen \in Nat /\ Entry(o).rest \in Nat
              /\ Entry(o).local \in Nat /\ Entry(o).comp \in Nat
              /\ Entry(o).uncomp \in Nat /\ Entry(o).method \in {"stored", "deflated"}
         /\ Signature(o) = "LFH" => Entry(o).skip \in Nat
         /\ Signature(o) = "EOCD" => Entry(o).entries \in Nat /\ Entry(o).cdOffset \in Nat
<1>1. file.length \in Nat
  BY ArchivesAssumption
<1>2. ASSUME Signature(o) \in {"CDE", "LFH", "EOCD"} PROVE Entry(o) \in Headers
  BY <1>2, ArchivesAssumption DEF Signature, Entry
<1>3. CASE Signature(o) = "CDE"
  <2>1. Entry(o).sig = "CDE" /\ Entry(o) \in Headers
    BY <1>2, <1>3 DEF Signature, Entry
  <2>2. QED
    BY <1>1, <1>3, <2>1 DEF Headers
<1>4. CASE Signature(o) = "LFH"
  <2>1. Entry(o).sig = "LFH" /\ Entry(o) \in Headers
    BY <1>2, <1>4 DEF Signature, Entry
  <2>2. QED
    BY <1>1, <1>4, <2>1 DEF Headers
<1>5. CASE Signature(o) = "EOCD"
  <2>1. Entry(o).sig = "EOCD" /\ Entry(o) \in Headers
    BY <1>2, <1>5 DEF Signature, Entry
  <2>2. QED
    BY <1>1, <1>5, <2>1 DEF Headers
<1>6. QED
  BY <1>1, <1>3, <1>4, <1>5

\* The search for the end record, from the back, finds the last of them.
LEMMA EndRecord ==
  ASSUME file \in Archives, EndRecords # {}
  PROVE  /\ Max(EndRecords) \in Nat
         /\ Max(EndRecords) + kEOCDLen <= file.length
         /\ Signature(Max(EndRecords)) = "EOCD"
<1>1. file.length \in Nat /\ kEOCDLen \in Nat
  BY ArchivesAssumption, LengthsAssumption
<1>2. EndRecords \subseteq 0..(file.length - kEOCDLen)
  BY DEF EndRecords
<1>3. PICK n, S : n \in Int /\ n = file.length - kEOCDLen /\ S = EndRecords
  BY <1>1
<1>4. Max(S) \in S
  <2>1. \E m \in S : \A i \in S : m >= i
    BY <1>2, <1>3, LastOf
  <2>2. QED
    BY <2>1 DEF Max
<1>5. Max(EndRecords) \in EndRecords
  BY <1>3, <1>4
<1>6. QED
  BY <1>1, <1>5 DEF EndRecords

-----------------------------------------------------------------------------
(***************************************************************************)
(* What is held where.  The descriptor that pArchive has in mFd is the one *)
(* that open returned and nobody has closed; or there is none; or memset   *)
(* has put the 0 there that is the first exception.  The stream of zlib is *)
(* held in the loop only, and a buffer is lost to a failed read only.      *)
(***************************************************************************)
Extracting == {"find", "extract", "store", "init", "inflate", "write", "check"}

Holds(fds) == own = fds /\ archive.mFd = "archive"

Held ==
  /\ pc \in {"open", "map", "parse", "walk", "prepBail", "create", "bail", "close", "done"}
              \cup Extracting
  /\ DOMAIN archive = {"mFd", "mMap", "mHashTable", "allocated"}
  /\ pc \in {"open", "done"} => own = {} /\ archive = Closed
  /\ pc \in {"map", "parse", "walk", "prepBail", "create"} => Holds({"archive"})
  /\ pc \in Extracting => Holds({"archive", "output"})
  /\ pc \in {"bail", "close"} =>
       \/ Holds({"archive"})
       \/ pc = "bail" /\ Holds({"archive", "output"})
       \/ own = {} /\ archive.mFd = "none"
       \/ own = {} /\ archive.mFd = "zero" /\ result = "NotZip" /\ refused
  /\ pc \notin {"parse", "walk", "prepBail"} => ~map
  /\ unfreed \subseteq {"buffer", "zstream"}
  /\ "zstream" \in unfreed => pc \in {"inflate", "write", "check"}
  /\ "buffer" \in unfreed =>
       /\ pc \in {"prepBail", "bail", "close", "done"} /\ refused
       /\ pc # "prepBail" => result = "NotZip"
  /\ stray => pc = "done" /\ result = "NotZip" /\ refused

LEMMA InitiallyHeld == Init => Held
BY DEF Init, Held, Extracting, Closed

\* Closing the archive gives back the descriptor and everything else.
LEMMA ClosedIsEmpty == Closed.mFd = "none" /\ DOMAIN Closed = {"mFd", "mMap", "mHashTable", "allocated"}
BY DEF Closed

LEMMA HeldStep == Held /\ [Next]_vars => Held'
<1> SUFFICES ASSUME Held, [Next]_vars PROVE Held'
  OBVIOUS
<1> USE ClosedIsEmpty DEF Held, Holds, Extracting, history
<1>1. CASE dexZipOpenArchive
  BY <1>1 DEF dexZipOpenArchive, Closed
<1>2. CASE MapArchive
  BY <1>2 DEF MapArchive
<1>3. CASE ParseEnd
  BY <1>3 DEF ParseEnd
<1>4. CASE WalkEntry
  BY <1>4 DEF WalkEntry
<1>5. CASE EndWalk
  BY <1>5 DEF EndWalk
<1>6. CASE PrepBail
  BY <1>6 DEF PrepBail, dexZipCloseArchive, CloseFd
<1>7. CASE CreateOutput
  BY <1>7 DEF CreateOutput
<1>8. CASE FindEntry
  BY <1>8 DEF FindEntry
<1>9. CASE dexZipExtractEntryToFile
  BY <1>9 DEF dexZipExtractEntryToFile
<1>10. CASE StoreEntry
  BY <1>10 DEF StoreEntry, Written, Extracted
<1>11. CASE InflateMore
  BY <1>11 DEF InflateMore, Inflated
<1>12. CASE InflateEnd
  BY <1>12 DEF InflateEnd, Inflated
<1>13. CASE InflateError
  BY <1>13 DEF InflateError, InflationEnds, Extracted
<1>14. CASE WriteBlock
  BY <1>14 DEF WriteBlock, Written, InflationEnds, Extracted
<1>15. CASE CheckLength
  BY <1>15 DEF CheckLength, InflationEnds, Extracted
<1>16. CASE CloseOutput
  BY <1>16 DEF CloseOutput
<1>17. CASE CloseArchive
  BY <1>17 DEF CloseArchive, dexZipCloseArchive, CloseFd
<1>18. CASE inflateInit2
  BY <1>18 DEF inflateInit2, Extracted
<1>19. CASE UNCHANGED vars
  BY <1>19 DEF vars
<1>20. QED
  BY <1>1, <1>2, <1>3, <1>4, <1>5, <1>6, <1>7, <1>8, <1>9, <1>10, <1>11, <1>12, <1>13, <1>14,
     <1>15, <1>16, <1>17, <1>18, <1>19 DEF Next

(***************************************************************************)
(* At its end dexUnzipToFile has closed both descriptors, freed the table, *)
(* given the mapping back and ended zlib's stream (dexZipPrepArchive,      *)
(* dexZipCloseArchive, inflateToFile), and it has closed no descriptor but *)
(* its own.  The two exceptions, which only a refused call leads to and    *)
(* which end in an archive that is not opened: 0 is closed after a failed  *)
(* open, and the buffer of a failed read stays (sysFakeMapFile).           *)
(***************************************************************************)
THEOREM ReleasedHolds == Spec => []Released
<1>1. Held => Released
  BY DEF Held, Released
<1>2. QED
  BY InitiallyHeld, HeldStep, <1>1, PTL DEF Spec

-----------------------------------------------------------------------------
(***************************************************************************)
(* What is read.  A walk that goes on has found, at every entry so far, a  *)
(* directory entry and a local header that lie in the map; the one that    *)
(* ends it may have been read behind the end.                              *)
(***************************************************************************)
Walking == {"open", "map", "parse", "walk"}

Listed(ptr) ==
  /\ Signature(ptr) = "CDE" /\ Signature(Entry(ptr).local) = "LFH"
  /\ NameEnd(ptr) <= file.length
  /\ Entry(ptr).local + SigLen <= file.length

AllListed == \A i \in DOMAIN archive.mHashTable : Listed(archive.mHashTable[i])

InMap ==
  /\ file \in Archives
  /\ DOMAIN archive = {"mFd", "mMap", "mHashTable", "allocated"}
  /\ archive.mHashTable \in Seq(Nat)
  /\ walk \in [entries : Nat, i : Nat, ptr : Nat, maxOffset : Nat]
  /\ pc \in Walking \/ Opened => ~over
  /\ pc = "walk" => walk.maxOffset + kEOCDLen <= file.length + 1
  /\ pc \in {"open", "map", "parse"} => archive.mHashTable = <<>>
  /\ pc = "walk" \/ Opened => AllListed
  /\ pc \in Extracting \ {"find"} => entry \in DOMAIN archive.mHashTable
  /\ pc = "store" => Header.method = "stored"
  /\ pc \in {"store", "init", "inflate", "write", "check"} => dexZipGetEntryInfo

LEMMA InitiallyInMap == Init => InMap
BY DEF Init, InMap, Closed, Opened, Walking, Extracting

\* No step of the reader changes what is in the file, so what is listed stays in
\* the map, and so does the table with one more.
LEMMA SameTable ==
  ASSUME file' = file, archive'.mHashTable = archive.mHashTable
  PROVE  AllListed => AllListed'
BY DEF AllListed, Listed, NameEnd, Entry, Signature

LEMMA OneMore ==
  ASSUME file' = file, archive.mHashTable \in Seq(Nat), AllListed,
         NEW ptr \in Nat, Listed(ptr),
         archive'.mHashTable = Append(archive.mHashTable, ptr)
  PROVE  AllListed'
<1>1. PICK t \in Seq(Nat) : t = archive.mHashTable
  OBVIOUS
<1>2. \A i \in DOMAIN t : Listed(t[i])
  BY <1>1 DEF AllListed
<1>3. \A i \in DOMAIN Append(t, ptr) :
        Append(t, ptr)[i] = ptr \/ (i \in DOMAIN t /\ Append(t, ptr)[i] = t[i])
  OBVIOUS
<1>4. \A i \in DOMAIN Append(t, ptr) : Listed(Append(t, ptr)[i])
  BY <1>2, <1>3
<1>5. PICK u : u = Append(t, ptr)
  OBVIOUS
<1>6. archive'.mHashTable = u /\ \A i \in DOMAIN u : Listed(u[i])
  BY <1>1, <1>4, <1>5
<1>7. QED
  BY <1>6 DEF AllListed, Listed, NameEnd, Entry, Signature

LEMMA SameEntry ==
  ASSUME file' = file, entry' = entry, archive' = archive
  PROVE  Header' = Header /\ dexZipGetEntryInfo' = dexZipGetEntryInfo
BY DEF Header, dexZipGetEntryInfo, DataOffset, Entry

\* An entry that the walk goes on behind lies in the map.
LEMMA WalkedIsListed ==
  ASSUME InMap, pc = "walk", NEW ptr \in Nat, HeaderFits(ptr), NextFits(ptr)
  PROVE  /\ Listed(ptr)
         /\ file.length \in Nat /\ NameEnd(ptr) \in Nat
         /\ ptr + SigLen <= file.length
         /\ NameEnd(ptr) + Entry(ptr).rest \in Nat
<1>1. Signature(ptr) = "CDE" /\ Signature(Entry(ptr).local) = "LFH"
  BY DEF HeaderFits, NextFits
<1>2. /\ file.length \in Nat
      /\ Entry(ptr).nameLen \in Nat /\ Entry(ptr).rest \in Nat /\ Entry(ptr).local \in Nat
  BY <1>1, HeaderTypes DEF InMap
<1>3. /\ {SigLen, kEOCDLen, kCDELen} \subseteq Nat \ {0}
      /\ SigLen <= kEOCDLen /\ SigLen <= kCDELen
  BY LengthsAssumption
<1>4. /\ walk.maxOffset \in Nat
      /\ walk.maxOffset + kEOCDLen <= file.length + 1
  BY DEF InMap
<1>5. /\ ptr + kCDELen <= file.length
      /\ Entry(ptr).local < walk.maxOffset
      /\ NameEnd(ptr) + Entry(ptr).rest < walk.maxOffset
  BY DEF HeaderFits, NextFits
<1>6. NameEnd(ptr) \in Nat
  BY <1>2, <1>3 DEF NameEnd
<1>7. NameEnd(ptr) <= file.length /\ Entry(ptr).local + SigLen <= file.length
  BY <1>2, <1>3, <1>4, <1>5, <1>6
<1>8. ptr + SigLen <= file.length /\ NameEnd(ptr) + Entry(ptr).rest \in Nat
  BY <1>2, <1>3, <1>5, <1>6
<1>9. QED
  BY <1>1, <1>2, <1>6, <1>7, <1>8 DEF Listed

\* The search for a name finds none or one of the table.
LEMMA FoundType ==
  ASSUME archive.mHashTable \in Seq(Nat)
  PROVE  Found = 0 \/ Found \in DOMAIN archive.mHashTable
<1> DEFINE names == [i \in DOMAIN archive.mHashTable |-> Entry(archive.mHashTable[i]).name]
<1>1. Len(names) = Len(archive.mHashTable) /\ DOMAIN archive.mHashTable = 1..Len(archive.mHashTable)
  <2>1. PICK n \in Nat : DOMAIN archive.mHashTable = 1..n /\ Len(archive.mHashTable) = n
    OBVIOUS
  <2>2. DOMAIN names = 1..n
    BY <2>1
  <2>3. Len(names) = n
    BY <2>2
  <2>4. QED
    BY <2>1, <2>3
<1>2. Directory!Answers(classes_dex) \subseteq 1..Len(names)
  BY DEF Directory!Answers
<1>3. Directory!Answers(classes_dex) # {} => Found \in Directory!Answers(classes_dex)
  BY DEF Found
<1>4. QED
  BY <1>1, <1>2, <1>3 DEF Found

LEMMA InMapStep == InMap /\ [Next]_vars => InMap'
<1> SUFFICES ASSUME InMap, [Next]_vars PROVE InMap'
  OBVIOUS
<1> USE DEF history
<1>1. CASE dexZipOpenArchive
  BY <1>1 DEF dexZipOpenArchive, InMap, Closed, Opened, Walking, Extracting
<1>2. CASE MapArchive
  BY <1>2 DEF MapArchive, InMap, Opened, Walking, Extracting
<1>3. CASE ParseEnd
  <2>1. file.length \in Nat /\ kEOCDLen \in Nat /\ file \in Archives
    BY LengthsAssumption, HeaderTypes DEF InMap
  <2>2. CASE pc' = "walk"
    <3>1. /\ EndRecords # {}
          /\ walk' = [entries |-> Entry(Max(EndRecords)).entries, i |-> 0,
                      ptr |-> Entry(Max(EndRecords)).cdOffset,
                      maxOffset |-> Max(EndRecords) + 1]
          /\ archive' = [archive EXCEPT !.allocated = TRUE]
          /\ pc = "parse"
          /\ UNCHANGED <<file, over>>
      BY <1>3, <2>2 DEF ParseEnd
    <3>2. PICK eocd : eocd = Max(EndRecords)
      OBVIOUS
    <3>3. /\ eocd \in Nat /\ eocd + kEOCDLen <= file.length
          /\ Entry(eocd).entries \in Nat /\ Entry(eocd).cdOffset \in Nat
      BY <2>1, <3>1, <3>2, EndRecord, HeaderTypes
    <3>4. walk'.maxOffset + kEOCDLen <= file'.length + 1
      BY <2>1, <3>1, <3>2, <3>3
    <3>5. archive'.mHashTable = <<>> /\ DOMAIN archive' = DOMAIN archive
      BY <3>1 DEF InMap
    <3>6. AllListed'
      BY <3>5 DEF AllListed
    <3>7. walk' \in [entries : Nat, i : Nat, ptr : Nat, maxOffset : Nat]
      BY <3>1, <3>2, <3>3
    <3>8. QED
      BY <2>1, <2>2, <3>1, <3>4, <3>5, <3>6, <3>7 DEF InMap, Opened, Walking, Extracting
  <2>3. CASE pc' = "prepBail" /\ UNCHANGED <<walk, archive>>
    BY <1>3, <2>3 DEF ParseEnd, InMap, Opened, Walking, Extracting
  <2>4. QED
    BY <1>3, <2>2, <2>3 DEF ParseEnd
<1>4. CASE WalkEntry
  <2>1. /\ pc = "walk" /\ walk.ptr \in Nat
        /\ UNCHANGED <<file, entry>>
    BY <1>4 DEF WalkEntry, InMap
  <2>2. PICK ptr \in Nat : ptr = walk.ptr
    BY <2>1
  <2>3. archive.mHashTable \in Seq(Nat) /\ ~over
    BY <2>1 DEF InMap, Walking
  <2>4. archive' \in {archive, [archive EXCEPT !.mHashTable = Append(@, ptr)]}
    BY <1>4, <2>2 DEF WalkEntry
  <2>5. /\ archive'.mHashTable \in Seq(Nat)
        /\ DOMAIN archive' = {"mFd", "mMap", "mHashTable", "allocated"}
    BY <2>2, <2>3, <2>4 DEF InMap
  <2>6. CASE HeaderFits(ptr) /\ NextFits(ptr)
    <3>1. /\ archive' = [archive EXCEPT !.mHashTable = Append(@, ptr)]
          /\ walk' = [walk EXCEPT !.i = @ + 1, !.ptr = NameEnd(ptr) + Entry(ptr).rest]
          /\ pc' = pc
          /\ over' = \/ over
                     \/ ptr + SigLen > file.length
                     \/ HeaderFits(ptr) /\ NameEnd(ptr) > file.length
      BY <1>4, <2>2, <2>6 DEF WalkEntry
    <3>2. /\ Listed(ptr) /\ ptr + SigLen <= file.length
          /\ file.length \in Nat /\ NameEnd(ptr) \in Nat
          /\ NameEnd(ptr) + Entry(ptr).rest \in Nat
      BY <2>1, <2>6, WalkedIsListed
    <3>3. SigLen \in Nat
      BY LengthsAssumption
    <3>4. ~over'
      BY <2>2, <2>3, <3>1, <3>2, <3>3 DEF Listed
    <3>5. AllListed /\ archive'.mHashTable = Append(archive.mHashTable, ptr)
      BY <2>1, <3>1 DEF InMap
    <3>6. AllListed'
      BY <2>1, <2>2, <2>3, <3>2, <3>5, OneMore
    <3>7. walk' \in [entries : Nat, i : Nat, ptr : Nat, maxOffset : Nat]
          /\ walk'.maxOffset = walk.maxOffset
      <4>1. PICK n \in Nat : n = NameEnd(ptr) + Entry(ptr).rest
        BY <3>2
      <4>2. walk' = [walk EXCEPT !.i = @ + 1, !.ptr = n]
        BY <3>1, <4>1
      <4>3. walk \in [entries : Nat, i : Nat, ptr : Nat, maxOffset : Nat]
        BY DEF InMap
      <4>4. walk' = [entries |-> walk.entries, i |-> walk.i + 1, ptr |-> n,
                     maxOffset |-> walk.maxOffset]
        BY <4>2, <4>3
      <4>5. QED
        BY <4>3, <4>4
    <3>8. QED
      BY <2>1, <2>5, <3>1, <3>4, <3>6, <3>7 DEF InMap, Opened, Walking, Extracting
  <2>7. CASE pc' = "prepBail" /\ UNCHANGED walk
    BY <2>1, <2>5, <2>7 DEF InMap, Opened, Walking, Extracting
  <2>8. QED
    BY <1>4, <2>2, <2>6, <2>7 DEF WalkEntry
<1>5. CASE EndWalk
  <2>1. /\ pc = "walk" /\ pc' = "create" /\ UNCHANGED <<file, over, walk, entry>>
        /\ archive' = [archive EXCEPT !.mMap = TRUE]
    BY <1>5 DEF EndWalk
  <2>2. archive'.mHashTable = archive.mHashTable /\ DOMAIN archive' = DOMAIN archive
    BY <2>1 DEF InMap
  <2>3. AllListed'
    BY <2>1, <2>2, SameTable DEF InMap
  <2>4. QED
    BY <2>1, <2>2, <2>3 DEF InMap, Opened, Walking, Extracting
<1>6. CASE PrepBail
  BY <1>6 DEF PrepBail, dexZipCloseArchive, Closed, InMap, Opened, Walking, Extracting
<1>7. ASSUME pc' \in {"bail", "close"}, UNCHANGED <<file, archive, walk>> PROVE InMap'
  BY <1>7 DEF InMap, Opened, Walking, Extracting
<1>8. ASSUME Opened, UNCHANGED <<file, archive, walk, over>>
      PROVE  AllListed'
  BY <1>8, SameTable DEF InMap
<1>9. ASSUME Opened, UNCHANGED <<file, archive, walk, over>>,
             pc' \in {"find", "extract"}, pc' = "extract" => entry' \in DOMAIN archive'.mHashTable
      PROVE  InMap'
  BY <1>8, <1>9 DEF InMap, Opened, Walking, Extracting
<1>10. ASSUME pc \in Extracting \ {"find"}, UNCHANGED <<file, archive, walk, over, entry>>,
              pc' \in {"store", "init", "inflate", "write", "check"},
              pc' = "store" => Header.method = "stored", dexZipGetEntryInfo
       PROVE  InMap'
  <2>1. Header' = Header /\ dexZipGetEntryInfo' = dexZipGetEntryInfo
    BY <1>10, SameEntry
  <2>2. Opened
    BY <1>10 DEF Opened, Extracting
  <2>3. QED
    BY <1>8, <1>10, <2>1, <2>2 DEF InMap, Opened, Walking, Extracting
<1>11. CASE CreateOutput
  BY <1>7, <1>9, <1>11 DEF CreateOutput, Opened
<1>12. CASE FindEntry
  <2>1. Found = 0 \/ Found \in DOMAIN archive.mHashTable
    BY FoundType DEF InMap
  <2>2. QED
    BY <1>7, <1>9, <1>12, <2>1 DEF FindEntry, Opened
<1>13. CASE dexZipExtractEntryToFile
  <2>1. pc = "extract" /\ UNCHANGED <<file, archive, walk, over, entry>>
    BY <1>13 DEF dexZipExtractEntryToFile
  <2>2. entry \in DOMAIN archive.mHashTable /\ archive.mHashTable \in Seq(Nat)
    BY <2>1 DEF InMap, Extracting
  <2>3. entry # 0
    BY <2>2
  <2>4. CASE dexZipGetEntryInfo
    <3>1. pc' = IF Header.method = "stored" THEN "store" ELSE "init"
      BY <1>13, <2>3, <2>4 DEF dexZipExtractEntryToFile
    <3>2. QED
      BY <1>10, <2>1, <2>4, <3>1 DEF Extracting
  <2>5. CASE ~dexZipGetEntryInfo
    <3>1. pc' = "bail"
      BY <1>13, <2>3, <2>5 DEF dexZipExtractEntryToFile
    <3>2. QED
      BY <1>7, <2>1, <3>1
  <2>6. QED
    BY <2>4, <2>5
<1>14. CASE StoreEntry
  BY <1>7, <1>14 DEF StoreEntry, Extracted
<1>15. CASE InflateMore
  <2>1. pc' \in {"write", "check", "inflate"}
    BY <1>15 DEF InflateMore, Inflated
  <2>2. QED
    BY <1>10, <1>15, <2>1 DEF InflateMore, InMap, Extracting
<1>16. CASE InflateEnd
  <2>1. pc' \in {"write", "check", "inflate"}
    BY <1>16 DEF InflateEnd, Inflated
  <2>2. QED
    BY <1>10, <1>16, <2>1 DEF InflateEnd, InMap, Extracting
<1>17. CASE InflateError
  BY <1>7, <1>17 DEF InflateError, InflationEnds, Extracted
<1>18. CASE WriteBlock
  <2>1. pc' \in {"check", "inflate", "bail"}
    BY <1>18 DEF WriteBlock, InflationEnds, Extracted
  <2>2. QED
    BY <1>7, <1>10, <1>18, <2>1 DEF WriteBlock, InMap, Extracting
<1>19. CASE CheckLength
  BY <1>7, <1>19 DEF CheckLength, InflationEnds, Extracted
<1>20. CASE CloseOutput
  BY <1>7, <1>20 DEF CloseOutput
<1>21. CASE CloseArchive
  BY <1>21 DEF CloseArchive, dexZipCloseArchive, Closed, InMap, Opened, Walking, Extracting
<1>22. CASE UNCHANGED vars
  <2>1. UNCHANGED <<file, pc, archive, walk, over, entry>>
    BY <1>22 DEF vars
  <2>2. Header' = Header /\ dexZipGetEntryInfo' = dexZipGetEntryInfo
    BY <2>1, SameEntry
  <2>3. QED
    BY <2>1, <2>2, SameTable DEF InMap, Opened, Walking, Extracting
<1>23. CASE inflateInit2
  <2>1. pc' \in {"inflate", "bail"}
    BY <1>23 DEF inflateInit2, Extracted
  <2>2. QED
    BY <1>7, <1>10, <1>23, <2>1 DEF inflateInit2, InMap, Extracting
<1>24. QED
  BY <1>1, <1>2, <1>3, <1>4, <1>5, <1>6, <1>11, <1>12, <1>13, <1>14, <1>15, <1>16, <1>17,
     <1>18, <1>19, <1>20, <1>21, <1>22, <1>23 DEF Next

\* What was checked of an entry, in the words of the property.
LEMMA InMapIsEnough == InMap => OpenedInMap
<1> SUFFICES ASSUME InMap, Opened PROVE OpenedInMap
  BY DEF OpenedInMap
<1>1. /\ ~over
      /\ \A i \in DOMAIN archive.mHashTable : Listed(archive.mHashTable[i])
  BY DEF InMap, AllListed
<1>2. ASSUME pc \in {"store", "init", "inflate", "write", "check"}
      PROVE  /\ pc = "store" => DataOffset + Header.uncomp <= file.length
             /\ pc # "store" => DataOffset + Header.comp <= file.length
  <2>1. entry \in DOMAIN archive.mHashTable /\ dexZipGetEntryInfo
    BY <1>2 DEF InMap, Extracting
  <2>2. PICK ptr : ptr = archive.mHashTable[entry] /\ Listed(ptr)
    BY <1>1, <2>1
  <2>3. Signature(ptr) = "CDE" /\ Signature(Entry(ptr).local) = "LFH" /\ Header = Entry(ptr)
    BY <2>2 DEF Listed, Header
  <2>4. /\ Header.local \in Nat /\ Header.comp \in Nat /\ Header.uncomp \in Nat
        /\ file.length \in Nat /\ kLFHLen \in Nat
    BY <2>3, HeaderTypes, LengthsAssumption DEF InMap
  <2>5. PICK local : local = Header.local /\ Entry(local).skip \in Nat
    BY <2>3, HeaderTypes DEF InMap
  <2>6. DataOffset \in Nat
    BY <2>4, <2>5 DEF DataOffset
  <2>7. /\ DataOffset + Header.comp < file.length
        /\ pc = "store" => DataOffset + Header.uncomp < file.length
    BY <2>1 DEF dexZipGetEntryInfo, InMap
  <2>8. QED
    BY <2>4, <2>6, <2>7
<1>3. QED
  BY <1>1, <1>2 DEF OpenedInMap, Listed

(***************************************************************************)
(* Nothing in an archive that was opened is read behind the end of its     *)
(* map (parseZipArchive, dexZipGetEntryInfo), whatever is in the file.     *)
(***************************************************************************)
THEOREM OpenedInMapHolds == Spec => []OpenedInMap
BY InitiallyInMap, InMapStep, InMapIsEnough, PTL DEF Spec

-----------------------------------------------------------------------------
(***************************************************************************)
(* What was written.  The output exists from its creation to the end, or   *)
(* until a failure removes it; of an inflation it holds what was inflated  *)
(* but for what is in the buffer; and a success has written all of the     *)
(* entry that the search found.                                            *)
(***************************************************************************)
Answers == Directory!Answers(classes_dex)

Preparing == Walking \cup {"prepBail", "create"}
Ending == {"bail", "close", "done"}

Inflating ==
  /\ Header.method = "deflated"
  /\ zstream.total_out <= zstream.limit
  /\ zstream.buffered <= kWriteBufSize
  /\ output.length + zstream.buffered = zstream.total_out
  /\ Complete => zstream.limit = Stream(DataOffset).yields
  /\ zstream.end => Complete /\ zstream.total_out = zstream.limit
  /\ pc = "inflate" => ~zstream.end
  /\ pc = "check" => zstream.end /\ zstream.buffered = 0

OutputInv ==
  /\ pc \in Preparing \cup Extracting \cup Ending
  /\ output \in [exists : BOOLEAN, length : Nat]
  /\ zstream \in [limit : Nat, total_out : Nat, buffered : Nat, end : BOOLEAN]
  /\ pc \in Preparing => ~output.exists
  /\ pc \in Extracting => output.exists
  /\ pc \notin Ending => result = "Success"
  /\ pc \in Preparing \cup {"find", "extract", "init"} =>
       zstream = [limit |-> 0, total_out |-> 0, buffered |-> 0, end |-> FALSE]
  /\ pc \in {"find", "extract", "store", "init"} => output.length = 0
  /\ pc = "init" => Header.method = "deflated"
  /\ pc \in Extracting \ {"find"} => entry \in Answers
  /\ pc \in {"inflate", "write", "check"} => Inflating
  /\ pc \in Ending =>
       /\ result \in {"Success", "NotZip", "NoClassesDex", "BadZip", "OutputFileProblem"}
       /\ result \in {"NotZip", "OutputFileProblem"} => ~output.exists
       /\ result = "Success" => output.exists
  /\ pc = "bail" /\ result \in {"NoClassesDex", "BadZip"} => output.exists
  /\ pc \in {"bail", "close"} /\ result = "Success" => Whole

(***************************************************************************)
(* An archive as a tool writes it is walked to the end of its directory,   *)
(* and nothing but a system call that fails leads away from success.       *)
(***************************************************************************)
\* last is the offset of the end record, dir are those of the directory's entries.
AsWrittenHere(last, dir) ==
  /\ last \in DOMAIN file.at /\ Signature(last) = "EOCD"
  /\ dir \in [1..Entry(last).entries -> DOMAIN file.at]
  /\ AsWritten(file, last, dir)

Upto(dir, n) == Len(archive.mHashTable) = n /\ \A i \in 1..n : archive.mHashTable[i] = dir[i]

OnItsWay(last, dir) ==
  /\ pc # "prepBail"
  /\ result = "Success"
  /\ pc = "walk" =>
       /\ walk.entries = Len(dir) /\ walk.maxOffset = last + 1
       /\ walk.i \in 0..Len(dir)
       /\ walk.ptr = IF walk.i = Len(dir) THEN last ELSE dir[walk.i + 1]
       /\ Upto(dir, walk.i)
  /\ pc \in {"create"} \cup Extracting => Upto(dir, Len(dir))

WellFormedInv ==
  file \in WellFormed /\ ~refused =>
    \A last, dir : AsWrittenHere(last, dir) => OnItsWay(last, dir)

LEMMA SameAnswers ==
  ASSUME file' = file, archive'.mHashTable = archive.mHashTable
  PROVE  Answers' = Answers
BY DEF Answers, Directory!Answers, Entry

LEMMA SameMember ==
  ASSUME file' = file, archive'.mHashTable = archive.mHashTable, entry' = entry
  PROVE  /\ Header' = Header /\ DataOffset' = DataOffset
         /\ Stream(DataOffset)' = Stream(DataOffset) /\ Complete' = Complete
<1>1. Header' = Header
  BY DEF Header, Entry
<1>2. DataOffset' = DataOffset
  BY <1>1 DEF DataOffset, Entry
<1>3. Stream(DataOffset)' = Stream(DataOffset)
  BY <1>2 DEF Stream, Signature, Entry
<1> QED
  BY <1>1, <1>2, <1>3 DEF Complete

LEMMA StreamType ==
  ASSUME file \in Archives, NEW o
  PROVE  Stream(o).yields \in Nat
<1>1. CASE Signature(o) = "data"
  <2>1. Entry(o) \in Headers /\ Entry(o).sig = "data"
    BY <1>1, ArchivesAssumption DEF Signature, Entry
  <2> QED
    BY <1>1, <2>1 DEF Headers, Stream
<1>2. CASE Signature(o) # "data"
  BY <1>2 DEF Stream
<1> QED
  BY <1>1, <1>2

\* What is known of the member that is extracted.
LEMMA MemberType ==
  ASSUME InMap, pc \in Extracting \ {"find"}
  PROVE  /\ Header = Entry(archive.mHashTable[entry])
         /\ Header.local \in Nat /\ Header.comp \in Nat /\ Header.uncomp \in Nat
         /\ Header.method \in {"stored", "deflated"}
         /\ Stream(DataOffset).yields \in Nat
<1>1. entry \in DOMAIN archive.mHashTable /\ file \in Archives
  BY DEF InMap
<1>2. AllListed
  BY DEF InMap, Opened, Extracting
<1>3. PICK ptr : ptr = archive.mHashTable[entry] /\ Signature(ptr) = "CDE"
  BY <1>1, <1>2 DEF AllListed, Listed
<1> QED
  BY <1>1, <1>3, HeaderTypes, StreamType DEF Header

LEMMA SmallerOfTwo ==
  ASSUME NEW a \in Nat, NEW b \in Nat
  PROVE  Min({a, b}) \in Nat /\ Min({a, b}) <= a /\ Min({a, b}) <= b
<1>1. Min({a, b}) \in {a, b} /\ \A i \in {a, b} : Min({a, b}) <= i
  BY LeastOf DEF Min
<1> QED
  BY <1>1

LEMMA InitiallyOutput == Init => OutputInv
BY DEF Init, OutputInv, Preparing, Walking, Extracting, Ending

\* Steps that take no part in the inflation.
LEMMA SameInflating ==
  ASSUME Inflating, UNCHANGED <<file, archive, entry, output, zstream, pc>>
  PROVE  Inflating'
BY SameMember DEF Inflating

LEMMA SameWhole ==
  ASSUME file' = file, archive'.mHashTable = archive.mHashTable, output' = output
  PROVE  Whole' = Whole
<1>1. Directory!Answers(classes_dex)' = Directory!Answers(classes_dex)
  BY SameAnswers DEF Answers
<1> QED
  BY <1>1 DEF Whole, Stream, Signature, Entry

\* What is known of a step of the extraction that leaves the archive alone.
LEMMA Unzipping ==
  ASSUME OutputInv, pc \in Extracting \ {"find"}, UNCHANGED <<file, archive, entry>>,
         pc' \in Extracting \ {"find"}, UNCHANGED result,
         output' \in [exists : {TRUE}, length : Nat],
         zstream' \in [limit : Nat, total_out : Nat, buffered : Nat, end : BOOLEAN],
         pc' # "extract",
         pc' \in {"store", "init"} => output'.length = 0,
         pc' = "init" =>
           /\ zstream' = [limit |-> 0, total_out |-> 0, buffered |-> 0, end |-> FALSE]
           /\ Header'.method = "deflated",
         pc' \in {"inflate", "write", "check"} => Inflating'
  PROVE  OutputInv'
<1>1. Answers' = Answers
  BY SameAnswers
<1> QED
  BY <1>1 DEF OutputInv, Preparing, Walking, Extracting, Ending

LEMMA Failing ==
  ASSUME OutputInv, pc \in Extracting, pc' = "bail", result' \in {"BadZip", "NoClassesDex"},
         output' \in [exists : {TRUE}, length : Nat],
         zstream' \in [limit : Nat, total_out : Nat, buffered : Nat, end : BOOLEAN]
  PROVE  OutputInv'
BY DEF OutputInv, Preparing, Walking, Extracting, Ending

LEMMA ExtractOutput == InMap /\ OutputInv /\ dexZipExtractEntryToFile => OutputInv'
<1> SUFFICES ASSUME InMap, OutputInv, dexZipExtractEntryToFile PROVE OutputInv'
  OBVIOUS
<1>1. pc = "extract" /\ UNCHANGED <<file, archive, entry, output>>
  BY DEF dexZipExtractEntryToFile
<1>2. /\ entry \in DOMAIN archive.mHashTable /\ archive.mHashTable \in Seq(Nat)
      /\ entry \in Answers
  BY <1>1 DEF InMap, OutputInv, Extracting
<1>3. entry # 0
  BY <1>2
<1>4. /\ zstream = [limit |-> 0, total_out |-> 0, buffered |-> 0, end |-> FALSE]
      /\ output \in [exists : {TRUE}, length : Nat] /\ output.length = 0
  BY <1>1 DEF OutputInv, Extracting
<1>5. CASE ~dexZipGetEntryInfo
  <2>1. pc' = "bail" /\ result' = "BadZip" /\ zstream' = zstream
    BY <1>3, <1>5 DEF dexZipExtractEntryToFile
  <2> QED
    BY <1>1, <1>4, <2>1, Failing DEF Extracting
<1>6. CASE dexZipGetEntryInfo /\ Header.method = "stored"
  <2>1. pc' = "store" /\ result' = result /\ zstream' = zstream
    BY <1>3, <1>6 DEF dexZipExtractEntryToFile
  <2> QED
    BY <1>1, <1>4, <2>1, Unzipping DEF Extracting
<1>7. CASE dexZipGetEntryInfo /\ Header.method # "stored"
  <2>1. pc' = "init" /\ result' = result /\ zstream' = zstream
    BY <1>3, <1>7 DEF dexZipExtractEntryToFile
  <2>2. Header' = Header /\ Header.method = "deflated"
    BY <1>1, <1>7, MemberType, SameMember DEF Extracting
  <2> QED
    BY <1>1, <1>4, <2>1, <2>2, Unzipping DEF Extracting
<1> QED
  BY <1>5, <1>6, <1>7

LEMMA InitOutput == InMap /\ OutputInv /\ inflateInit2 => OutputInv'
<1> SUFFICES ASSUME InMap, OutputInv, inflateInit2 PROVE OutputInv'
  OBVIOUS
<1>1. pc = "init" /\ UNCHANGED <<file, archive, entry, output>>
  BY DEF inflateInit2
<1>2. /\ zstream = [limit |-> 0, total_out |-> 0, buffered |-> 0, end |-> FALSE]
      /\ output \in [exists : {TRUE}, length : Nat] /\ output.length = 0
      /\ Header.method = "deflated"
  BY <1>1 DEF OutputInv, Extracting
<1>3. CASE pc' = "bail" /\ result' = "BadZip" /\ zstream' = zstream
  BY <1>1, <1>2, <1>3, Failing DEF Extracting
<1>4. CASE pc' = "inflate" /\ result' = result
  <2>1. PICK limit \in IF Complete THEN {Stream(DataOffset).yields}
                       ELSE 0..Stream(DataOffset).yields :
          zstream' = [zstream EXCEPT !.limit = limit]
    BY <1>4 DEF inflateInit2, Extracted
  <2>2. limit \in Nat
    BY <1>1, <2>1, MemberType DEF Extracting
  <2>3. zstream' = [limit |-> limit, total_out |-> 0, buffered |-> 0, end |-> FALSE]
    BY <1>2, <2>1
  <2>4. Inflating'
    <3>1. kWriteBufSize \in Nat
      BY LengthsAssumption
    <3>2. Complete => limit = Stream(DataOffset).yields
      BY <2>1
    <3>3. /\ Header' = Header /\ Stream(DataOffset)' = Stream(DataOffset) /\ Complete' = Complete
      BY <1>1, SameMember
    <3> QED
      BY <1>1, <1>2, <1>4, <2>2, <2>3, <3>1, <3>2, <3>3 DEF Inflating
  <2> QED
    BY <1>1, <1>2, <1>4, <2>2, <2>3, <2>4, Unzipping DEF Extracting
<1> QED
  BY <1>3, <1>4 DEF inflateInit2, Extracted

\* The whole member is written when what answers to its name is.
AllWritten ==
  /\ entry \in Answers
  /\ IF Header.method = "stored" THEN output.length = Header.uncomp
     ELSE Complete /\ output.length = Stream(DataOffset).yields

LEMMA WholeMember == AllWritten => Whole
BY DEF AllWritten, Whole, Answers, Header, DataOffset, Complete

LEMMA WrittenFacts ==
  ASSUME output \in [exists : BOOLEAN, length : Nat], NEW n \in Nat, NEW all \in BOOLEAN,
         Written(n, all)
  PROVE  /\ output' \in [exists : BOOLEAN, length : Nat]
         /\ output'.exists = output.exists
         /\ all => output'.length = output.length + n
         /\ refused' = (refused \/ ~all)
<1>1. PICK S : S = IF all THEN {output.length + n} ELSE output.length..(output.length + n - 1)
  OBVIOUS
<1>2. output' \in [exists : {output.exists}, length : S]
  BY <1>1 DEF Written
<1>3. output.length \in Nat /\ output.exists \in BOOLEAN
  OBVIOUS
<1>4. S \subseteq Nat
  BY <1>1, <1>3
<1>5. output' \in [exists : BOOLEAN, length : Nat] /\ output'.exists = output.exists /\ output'.length \in S
  BY <1>2, <1>3, <1>4
<1> QED
  BY <1>1, <1>5 DEF Written

LEMMA StoreOutput == InMap /\ OutputInv /\ StoreEntry => OutputInv'
<1> SUFFICES ASSUME InMap, OutputInv, StoreEntry PROVE OutputInv'
  OBVIOUS
<1>1. PICK all \in BOOLEAN : Written(Header.uncomp, all) /\ Extracted(all)
  BY DEF StoreEntry
<1>2. /\ pc = "store" /\ pc' = "bail" /\ UNCHANGED <<file, archive, entry, zstream>>
      /\ result' = IF all THEN result ELSE "BadZip"
  BY <1>1 DEF StoreEntry, Extracted
<1>3. /\ Header.method = "stored" /\ Header.uncomp \in Nat
      /\ output.length = 0 /\ output.exists /\ entry \in Answers /\ result = "Success"
      /\ zstream \in [limit : Nat, total_out : Nat, buffered : Nat, end : BOOLEAN]
  BY <1>2, MemberType DEF InMap, OutputInv, Extracting, Ending
<1>4. output.exists = TRUE
  BY <1>2, <1>3 DEF OutputInv
<1>5. CASE all
  <2>1. output' \in [exists : BOOLEAN, length : Nat] /\ output'.exists /\ output'.length = Header.uncomp
    <3>1. output \in [exists : BOOLEAN, length : Nat]
      BY DEF OutputInv
    <3>2. /\ output' \in [exists : BOOLEAN, length : Nat] /\ output'.exists = output.exists
          /\ output'.length = output.length + Header.uncomp
      BY <1>1, <1>3, <1>5, <3>1, WrittenFacts
    <3> QED
      BY <1>3, <3>2
  <2>2. Header' = Header /\ Answers' = Answers
    BY <1>2, SameMember, SameAnswers
  <2>3. entry' \in Answers' /\ Header'.method = "stored" /\ output'.length = Header'.uncomp
    BY <1>2, <1>3, <2>1, <2>2
  <2>4. Whole'
    <3>1. AllWritten'
      BY <2>3 DEF AllWritten
    <3> QED
      BY <3>1, WholeMember, PTL
  <2>5. output' \in [exists : BOOLEAN, length : Nat] /\ output'.exists
    BY <1>3, <2>1
  <2> QED
    BY <1>2, <1>3, <1>5, <2>4, <2>5 DEF OutputInv, Preparing, Walking, Extracting, Ending
<1>6. CASE ~all
  <2>1. output' \in [exists : {TRUE}, length : Nat]
    <3>1. output' \in [exists : BOOLEAN, length : Nat] /\ output'.exists = TRUE
      BY <1>1, <1>3, <1>4, WrittenFacts DEF OutputInv
    <3> QED
      BY <3>1
  <2> QED
    BY <1>2, <1>3, <1>6, <2>1, Failing DEF Extracting
<1> QED
  BY <1>5, <1>6

LEMMA InflatedFacts ==
  ASSUME InMap, OutputInv, pc = "inflate", UNCHANGED <<file, archive, entry, output, result>>,
         NEW n \in Nat, NEW last \in BOOLEAN, Inflated(n, last),
         zstream.buffered + n <= kWriteBufSize,
         n <= zstream.limit - zstream.total_out,
         last => Complete /\ n = zstream.limit - zstream.total_out
  PROVE  OutputInv'
<1>1. /\ zstream \in [limit : Nat, total_out : Nat, buffered : Nat, end : BOOLEAN]
      /\ output \in [exists : BOOLEAN, length : Nat] /\ output.exists
      /\ Inflating
  BY DEF OutputInv, Extracting
<1>2. zstream' = [limit |-> zstream.limit, total_out |-> zstream.total_out + n,
                  buffered |-> zstream.buffered + n, end |-> last]
  <2>1. zstream' = [zstream EXCEPT !.total_out = @ + n, !.buffered = @ + n, !.end = last]
    BY DEF Inflated
  <2> QED
    BY <1>1, <2>1
<1>3. zstream' \in [limit : Nat, total_out : Nat, buffered : Nat, end : BOOLEAN]
  BY <1>1, <1>2
<1>4. /\ pc' \in {"write", "check", "inflate"}
      /\ pc' = "check" => last /\ zstream.buffered + n = 0
      /\ pc' = "inflate" => ~last
  <2>1. CASE WantsWrite(zstream.buffered + n, last)
    BY <2>1 DEF Inflated
  <2>2. CASE ~WantsWrite(zstream.buffered + n, last)
    <3>1. zstream.buffered + n \in Nat /\ (last => ~(zstream.buffered + n > 0))
      BY <1>1, <2>2 DEF WantsWrite
    <3>2. pc' = IF last THEN "check" ELSE "inflate"
      BY <2>2 DEF Inflated
    <3> QED
      BY <3>1, <3>2
  <2> QED
    BY <2>1, <2>2
<1>5. Header' = Header /\ Stream(DataOffset)' = Stream(DataOffset) /\ Complete' = Complete
  BY SameMember
<1>6. Inflating'
  <2>1. /\ Header.method = "deflated"
        /\ output.length + zstream.buffered = zstream.total_out
        /\ Complete => zstream.limit = Stream(DataOffset).yields
    BY <1>1 DEF Inflating
  <2>2. /\ zstream.total_out + n <= zstream.limit
        /\ output.length + (zstream.buffered + n) = zstream.total_out + n
        /\ last => zstream.total_out + n = zstream.limit
    BY <1>1, <2>1
  <2> QED
    BY <1>2, <1>4, <1>5, <2>1, <2>2 DEF Inflating
<1>7. output' \in [exists : {TRUE}, length : Nat]
  BY <1>1
<1> QED
  BY <1>3, <1>4, <1>6, <1>7, Unzipping DEF Extracting

\* What is left of the stream and of the buffer.
LEMMA RoomType ==
  ASSUME OutputInv, pc = "inflate"
  PROVE  Room \in Nat /\ Left \in Nat
<1>1. /\ zstream \in [limit : Nat, total_out : Nat, buffered : Nat, end : BOOLEAN]
      /\ Inflating
  BY DEF OutputInv, Extracting
<1>2. kWriteBufSize \in Nat
  BY LengthsAssumption
<1> QED
  BY <1>1, <1>2 DEF Room, Left, Inflating

LEMMA InflateOutput ==
  ASSUME InMap, OutputInv, InflateMore \/ InflateEnd
  PROVE  OutputInv'
<1>1. pc = "inflate" /\ UNCHANGED <<file, archive, entry, output, result>>
  BY DEF InflateMore, InflateEnd
<1>2. Room \in Nat /\ Left \in Nat /\ zstream.buffered \in Nat /\ kWriteBufSize \in Nat
  BY <1>1, RoomType, LengthsAssumption DEF OutputInv
<1>3. CASE InflateMore
  <2>1. PICK n : n = Min({Room, Left})
    OBVIOUS
  <2>2. n \in Nat /\ n <= Room /\ n <= Left
    BY <1>2, <2>1, SmallerOfTwo
  <2>3. Inflated(n, FALSE)
    BY <1>3, <2>1 DEF InflateMore
  <2>4. zstream.buffered + n <= kWriteBufSize /\ n <= zstream.limit - zstream.total_out
    BY <1>2, <2>2 DEF Room, Left
  <2> QED
    BY <1>1, <2>2, <2>3, <2>4, InflatedFacts
<1>4. CASE InflateEnd
  <2>1. Complete /\ Left <= Room /\ Inflated(Left, TRUE)
    BY <1>4 DEF InflateEnd
  <2>2. PICK n : n = Left
    OBVIOUS
  <2>3. n \in Nat /\ n = zstream.limit - zstream.total_out /\ Inflated(n, TRUE)
    BY <1>2, <2>1, <2>2 DEF Left
  <2>4. zstream.buffered + n <= kWriteBufSize /\ n <= zstream.limit - zstream.total_out
    BY <1>2, <2>1, <2>2, <2>3 DEF Room
  <2> QED
    BY <1>1, <2>1, <2>3, <2>4, InflatedFacts
<1> QED
  BY <1>3, <1>4

LEMMA WriteOutput == InMap /\ OutputInv /\ WriteBlock => OutputInv'
<1> SUFFICES ASSUME InMap, OutputInv, WriteBlock PROVE OutputInv'
  OBVIOUS
<1>1. PICK all \in BOOLEAN :
        /\ Written(zstream.buffered, all)
        /\ zstream' = [zstream EXCEPT !.buffered = 0]
        /\ IF all
           THEN pc' = (IF zstream.end THEN "check" ELSE "inflate") /\ UNCHANGED result
           ELSE Extracted(FALSE)
  BY DEF WriteBlock, InflationEnds
<1>2. pc = "write" /\ UNCHANGED <<file, archive, entry>>
  BY DEF WriteBlock
<1>3. /\ zstream \in [limit : Nat, total_out : Nat, buffered : Nat, end : BOOLEAN]
      /\ output \in [exists : BOOLEAN, length : Nat] /\ output.exists = TRUE
      /\ Inflating
  BY <1>2 DEF OutputInv, Extracting
<1>4. /\ output' \in [exists : BOOLEAN, length : Nat] /\ output'.exists = TRUE
      /\ all => output'.length = output.length + zstream.buffered
  BY <1>1, <1>3, WrittenFacts
<1>5. zstream' = [limit |-> zstream.limit, total_out |-> zstream.total_out,
                  buffered |-> 0, end |-> zstream.end]
  BY <1>1, <1>3
<1>6. zstream' \in [limit : Nat, total_out : Nat, buffered : Nat, end : BOOLEAN]
  BY <1>3, <1>5
<1>7. output' \in [exists : {TRUE}, length : Nat]
  BY <1>4
<1>8. CASE all
  <2>1. Header' = Header /\ Stream(DataOffset)' = Stream(DataOffset) /\ Complete' = Complete
    BY <1>2, SameMember
  <2>2. pc' = (IF zstream.end THEN "check" ELSE "inflate") /\ result' = result
    BY <1>1, <1>8
  <2>3. output'.length + 0 = zstream.total_out
    BY <1>3, <1>4, <1>8 DEF Inflating
  <2>4. kWriteBufSize \in Nat
    BY LengthsAssumption
  <2>5. Inflating'
    BY <1>3, <1>5, <2>1, <2>2, <2>3, <2>4 DEF Inflating
  <2> QED
    BY <1>2, <1>6, <1>7, <2>2, <2>5, Unzipping DEF Extracting
<1>9. CASE ~all
  <2>1. pc' = "bail" /\ result' = "BadZip"
    BY <1>1, <1>9 DEF Extracted
  <2> QED
    BY <1>2, <1>6, <1>7, <2>1, Failing DEF Extracting
<1> QED
  BY <1>8, <1>9

LEMMA CheckOutput == InMap /\ OutputInv /\ CheckLength => OutputInv'
<1> SUFFICES ASSUME InMap, OutputInv, CheckLength PROVE OutputInv'
  OBVIOUS
<1>1. /\ pc = "check" /\ pc' = "bail" /\ UNCHANGED <<file, archive, entry, output, zstream>>
      /\ result' = IF zstream.total_out = Header.uncomp THEN result ELSE "BadZip"
  BY DEF CheckLength, InflationEnds, Extracted
<1>2. /\ zstream \in [limit : Nat, total_out : Nat, buffered : Nat, end : BOOLEAN]
      /\ output \in [exists : BOOLEAN, length : Nat] /\ output.exists = TRUE
      /\ Inflating /\ entry \in Answers /\ result = "Success"
  BY <1>1 DEF OutputInv, Extracting, Ending
<1>3. CASE result' = "BadZip"
  <2>1. output' \in [exists : {TRUE}, length : Nat]
    BY <1>1, <1>2
  <2> QED
    BY <1>1, <1>2, <1>3, <2>1, Failing DEF Extracting
<1>4. CASE result' = "Success"
  <2>1. AllWritten
    <3>1. /\ Header.method = "deflated" /\ zstream.end /\ zstream.buffered = 0
          /\ Complete /\ zstream.total_out = zstream.limit
          /\ zstream.limit = Stream(DataOffset).yields
          /\ output.length + zstream.buffered = zstream.total_out
      BY <1>1, <1>2 DEF Inflating
    <3>2. output.length = Stream(DataOffset).yields
      BY <1>2, <3>1
    <3> QED
      BY <1>2, <3>1, <3>2 DEF AllWritten
  <2>2. Whole'
    BY <1>1, <2>1, WholeMember, SameWhole
  <2> QED
    BY <1>1, <1>2, <1>4, <2>2 DEF OutputInv, Preparing, Walking, Extracting, Ending
<1> QED
  BY <1>1, <1>2, <1>3, <1>4

LEMMA OutputStep == InMap /\ OutputInv /\ [Next]_vars => OutputInv'
<1> SUFFICES ASSUME InMap, OutputInv, [Next]_vars PROVE OutputInv'
  OBVIOUS
<1> USE DEF history
<1>1. CASE dexZipOpenArchive
  BY <1>1 DEF dexZipOpenArchive, OutputInv, Preparing, Walking, Extracting, Ending
<1>2. CASE MapArchive
  BY <1>2 DEF MapArchive, OutputInv, Preparing, Walking, Extracting, Ending
<1>3. CASE ParseEnd
  BY <1>3 DEF ParseEnd, OutputInv, Preparing, Walking, Extracting, Ending
<1>4. CASE WalkEntry
  BY <1>4 DEF WalkEntry, OutputInv, Preparing, Walking, Extracting, Ending
<1>5. CASE EndWalk
  BY <1>5 DEF EndWalk, OutputInv, Preparing, Walking, Extracting, Ending
<1>6. CASE PrepBail
  BY <1>6 DEF PrepBail, OutputInv, Preparing, Walking, Extracting, Ending
<1>7. CASE CreateOutput
  <2>1. PICK fresh : fresh = [exists |-> TRUE, length |-> 0]
    OBVIOUS
  <2>2. fresh \in [exists : BOOLEAN, length : Nat] /\ fresh.exists /\ fresh.length = 0
    BY <2>1
  <2>3. /\ pc = "create" /\ UNCHANGED zstream
        /\ \/ output' = fresh /\ pc' = "find" /\ result' = result
           \/ output' = output /\ pc' = "bail" /\ result' = "OutputFileProblem"
    BY <1>7, <2>1 DEF CreateOutput
  <2> QED
    BY <2>2, <2>3 DEF OutputInv, Preparing, Walking, Extracting, Ending
<1>8. CASE FindEntry
  <2>1. /\ pc = "find" /\ UNCHANGED <<file, archive, output, zstream>>
        /\ entry' = Found
        /\ pc' = IF Found = 0 THEN "bail" ELSE "extract"
        /\ result' = IF Found = 0 THEN "NoClassesDex" ELSE result
    BY <1>8 DEF FindEntry
  <2>2. /\ output \in [exists : {TRUE}, length : Nat] /\ output.length = 0
        /\ zstream = [limit |-> 0, total_out |-> 0, buffered |-> 0, end |-> FALSE]
    BY <2>1 DEF OutputInv, Extracting
  <2>3. CASE Found = 0
    BY <2>1, <2>2, <2>3, Failing DEF Extracting
  <2>4. CASE Found # 0
    <3>1. Found \in Answers
      BY <2>4 DEF Found, Answers
    <3>2. entry' \in Answers'
      BY <2>1, <3>1, SameAnswers
    <3> QED
      BY <2>1, <2>2, <2>4, <3>2 DEF OutputInv, Preparing, Walking, Extracting, Ending
  <2> QED
    BY <2>3, <2>4
<1>9. CASE InflateError
  <2>1. pc = "inflate" /\ pc' = "bail" /\ result' = "BadZip" /\ UNCHANGED <<output, zstream>>
    BY <1>9 DEF InflateError, InflationEnds, Extracted
  <2>2. /\ output \in [exists : {TRUE}, length : Nat]
        /\ zstream \in [limit : Nat, total_out : Nat, buffered : Nat, end : BOOLEAN]
    BY <2>1 DEF OutputInv, Extracting
  <2> QED
    BY <2>1, <2>2, Failing DEF Extracting
<1>10. CASE CloseOutput
  <2>1. /\ pc = "bail" /\ pc' = "close" /\ UNCHANGED <<file, archive, zstream, result>>
        /\ \/ output' = IF output.exists /\ result # "Success"
                        THEN [exists |-> FALSE, length |-> 0] ELSE output
           \/ output.exists /\ result # "Success" /\ output' = output
    BY <1>10 DEF CloseOutput
  <2>2. result = "Success" => output' = output /\ Whole'
    BY <2>1, SameWhole DEF OutputInv
  <2>3. output' \in [exists : BOOLEAN, length : Nat] /\ (~output.exists => ~output'.exists)
    <3>1. output \in [exists : BOOLEAN, length : Nat]
      BY DEF OutputInv
    <3>2. PICK none : none = [exists |-> FALSE, length |-> 0]
      OBVIOUS
    <3>3. none \in [exists : BOOLEAN, length : Nat] /\ ~none.exists
      BY <3>2
    <3> QED
      BY <2>1, <3>1, <3>2, <3>3
  <2> QED
    BY <2>1, <2>2, <2>3 DEF OutputInv, Preparing, Walking, Extracting, Ending
<1>11. CASE CloseArchive
  BY <1>11 DEF CloseArchive, OutputInv, Preparing, Walking, Extracting, Ending
<1>12. CASE UNCHANGED vars
  <2>1. UNCHANGED <<file, pc, archive, walk, entry, zstream, output, result>>
    BY <1>12 DEF vars
  <2>2. /\ Answers' = Answers /\ Whole' = Whole /\ (Inflating => Inflating')
        /\ Header' = Header
    BY <2>1, SameAnswers, SameWhole, SameInflating, SameMember
  <2> QED
    BY <2>1, <2>2 DEF OutputInv, Preparing, Walking, Extracting, Ending
<1> QED
  BY <1>1, <1>2, <1>3, <1>4, <1>5, <1>6, <1>7, <1>8, <1>9, <1>10, <1>11, <1>12,
     ExtractOutput, StoreOutput, InitOutput, InflateOutput, WriteOutput, CheckOutput DEF Next

-----------------------------------------------------------------------------
(***************************************************************************)
(* The refinement.  The tool of DexDump and its temporary file, in terms   *)
(* of the reader's state, and each of DexDump's actions in terms of them.  *)
(***************************************************************************)
AbsFile ==
  IF output.exists
  THEN [owner |-> "tool", whole |-> Returned /\ result = "Success" /\ (pc = "done" \/ Whole)]
  ELSE NoFile

AbsProc ==
  [pc |-> Label, file |-> 1,
   result |-> IF Returned THEN result ELSE "GenericFailure",
   removeTemp |-> Returned /\ result = "Success",
   opened |-> NoFile, mapped |-> FALSE, failed |-> FALSE,
   left |-> left, lost |-> FALSE, wild |-> FALSE]

LEMMA Stutters ==
  ASSUME AbsFile' = AbsFile, AbsProc' = AbsProc
  PROVE  UNCHANGED Unzip!vars
BY DEF AbsFile, AbsProc, Unzip!vars

LEMMA Opens ==
  ASSUME AbsProc.pc = "zip", AbsFile' = AbsFile,
         \/ AbsProc' = [AbsProc EXCEPT !.pc = "create"]
         \/ AbsProc' = [AbsProc EXCEPT !.pc = "open", !.result = "NotZip"]
  PROVE  Unzip!dexZipOpenArchive("tool")
BY DEF AbsFile, AbsProc, Unzip!dexZipOpenArchive, Unzip!At, Unzip!Become, Unzip!Goto

LEMMA Creates ==
  ASSUME AbsProc.pc = "create",
         \/ /\ AbsFile = NoFile /\ AbsFile' = [owner |-> "tool", whole |-> FALSE]
            /\ AbsProc' = [AbsProc EXCEPT !.pc = "entry"]
         \/ /\ AbsProc' = [AbsProc EXCEPT !.pc = "openBail", !.result = "OutputFileProblem"]
            /\ AbsFile' = AbsFile
  PROVE  Unzip!CreateTemp("tool")
BY DEF AbsFile, AbsProc, Unzip!CreateTemp, Unzip!At, Unzip!Become, Unzip!Goto, Unzip!Temp

LEMMA Finds ==
  ASSUME AbsProc.pc = "entry", AbsFile' = AbsFile,
         \/ AbsProc' = [AbsProc EXCEPT !.pc = "extract"]
         \/ AbsProc' = [AbsProc EXCEPT !.pc = "unzipBail", !.result = "NoClassesDex"]
  PROVE  Unzip!FindEntry("tool")
BY DEF AbsFile, AbsProc, Unzip!FindEntry, Unzip!At, Unzip!Become, Unzip!Goto

LEMMA Extracts ==
  ASSUME AbsProc.pc = "extract",
         AbsFile = [owner |-> "tool", whole |-> FALSE],
         \/ /\ AbsFile' = [owner |-> "tool", whole |-> TRUE]
            /\ AbsProc' = [AbsProc EXCEPT !.pc = "open", !.result = "Success", !.removeTemp = TRUE]
         \/ /\ AbsFile' = AbsFile
            /\ AbsProc' = [AbsProc EXCEPT !.pc = "unzipBail", !.result = "BadZip"]
  PROVE  Unzip!Extract("tool")
<1>1. PICK f : f = [owner |-> "tool", whole |-> FALSE]
  OBVIOUS
<1>2. f \in [owner : {"tool", "others"}, whole : BOOLEAN]
  BY <1>1
<1>3. AbsFile = f /\ f # NoFile
  BY <1>1, <1>2, NoFileAssumption
<1>4. PICK g : g = [f EXCEPT !.whole = TRUE]
  OBVIOUS
<1>5. g = [owner |-> "tool", whole |-> TRUE]
  BY <1>2, <1>1, <1>4
<1>6. CASE AbsFile' = [owner |-> "tool", whole |-> TRUE]
  <2>1. AbsFile' = g
    BY <1>5, <1>6
  <2>2. [t \in {"temp"} |-> g] = [[t \in {"temp"} |-> f] EXCEPT !["temp"] =
                                   IF @ = NoFile THEN @ ELSE [@ EXCEPT !.whole = TRUE]]
    BY <1>3, <1>4
  <2>3. AbsProc' = [AbsProc EXCEPT !.pc = "open", !.result = "Success", !.removeTemp = TRUE]
    <3>1. f.whole = FALSE /\ g.whole = TRUE
      BY <1>1, <1>5
    <3> QED
      BY <1>3, <2>1, <3>1
  <2> QED
    BY <1>3, <2>1, <2>2, <2>3
    DEF AbsFile, AbsProc, Unzip!Extract, Unzip!At, Unzip!Become, Unzip!Temp
<1>7. CASE AbsFile' = AbsFile
  BY <1>7
     DEF AbsFile, AbsProc, Unzip!Extract, Unzip!At, Unzip!Become, Unzip!Temp
<1> QED
  BY <1>6, <1>7

LEMMA Bails ==
  ASSUME AbsProc.pc = "unzipBail",
         \/ AbsFile' = NoFile /\ AbsProc' = [AbsProc EXCEPT !.pc = "openBail"]
         \/ AbsFile' = AbsFile /\ AbsProc' = [AbsProc EXCEPT !.pc = "openBail", !.left = TRUE]
  PROVE  Unzip!UnzipBail("tool")
BY DEF AbsFile, AbsProc, Unzip!UnzipBail, Unzip!At, Unzip!Become, Unzip!Goto, Unzip!Unlink, Unzip!Temp

\* Where DexDump sees the tool.
LEMMA Labels ==
  /\ pc \in {"open", "map", "parse", "walk", "prepBail"} => Label = "zip"
  /\ pc = "create" => Label = "create"
  /\ pc = "find" => Label = "entry"
  /\ pc \in Extracting \ {"find"} => Label = "extract"
  /\ pc = "bail" /\ result \in {"NoClassesDex", "BadZip"} => Label = "unzipBail"
  /\ pc \in {"close", "done"} /\ result \in {"NoClassesDex", "BadZip"} => Label = "openBail"
  /\ pc \in Ending /\ result = "OutputFileProblem" => Label = "openBail"
  /\ pc \in Ending /\ result \in {"Success", "NotZip"} => Label = "open"
BY DEF Label, Extracting, Ending

\* The tool before and after dexUnzipToFile has its result.
Running(label, removed) ==
  [pc |-> label, file |-> 1, result |-> "GenericFailure", removeTemp |-> FALSE,
   opened |-> NoFile, mapped |-> FALSE, failed |-> FALSE,
   left |-> removed, lost |-> FALSE, wild |-> FALSE]
Ended(label, outcome, removed) ==
  [pc |-> label, file |-> 1, result |-> outcome, removeTemp |-> outcome = "Success",
   opened |-> NoFile, mapped |-> FALSE, failed |-> FALSE,
   left |-> removed, lost |-> FALSE, wild |-> FALSE]

IsUnderway == OutputInv /\ pc \in Preparing \cup Extracting
SeenUnderway ==
  /\ AbsProc = Running(Label, left)
  /\ pc \in Preparing => AbsFile = NoFile
  /\ pc \in Extracting => AbsFile = [owner |-> "tool", whole |-> FALSE]

IsEnding == OutputInv /\ pc \in Ending
SeenEnding ==
  /\ AbsProc = Ended(Label, result, left)
  /\ result = "Success" => AbsFile = [owner |-> "tool", whole |-> TRUE]
  /\ ~output.exists => AbsFile = NoFile
  /\ output.exists /\ result # "Success" => AbsFile = [owner |-> "tool", whole |-> FALSE]

LEMMA Underway == IsUnderway => SeenUnderway
<1> SUFFICES ASSUME IsUnderway PROVE SeenUnderway
  OBVIOUS
<1>1. ~Returned
  BY Labels DEF IsUnderway, Returned, Preparing, Walking, Extracting
<1> QED
  BY <1>1 DEF IsUnderway, SeenUnderway, Running, AbsProc, AbsFile, OutputInv

LEMMA AtItsEnd == IsEnding => SeenEnding
<1> SUFFICES ASSUME IsEnding PROVE SeenEnding
  OBVIOUS
<1>1. /\ result \in {"Success", "NotZip", "NoClassesDex", "BadZip", "OutputFileProblem"}
      /\ result = "Success" => output.exists
      /\ result = "Success" => pc = "done" \/ Whole
  BY DEF IsEnding, OutputInv, Ending
<1>2. Returned
  BY <1>1, Labels DEF IsEnding, Returned, Ending
<1> QED
  BY <1>1, <1>2 DEF SeenEnding, Ended, AbsProc, AbsFile

LEMMA Seen ==
  /\ IsUnderway => SeenUnderway
  /\ IsUnderway' => SeenUnderway'
  /\ IsEnding => SeenEnding
  /\ IsEnding' => SeenEnding'
<1>1. (IsUnderway => SeenUnderway) /\ (IsEnding => SeenEnding)
  BY Underway, AtItsEnd
<1>2. (IsUnderway => SeenUnderway)' /\ (IsEnding => SeenEnding)'
  BY <1>1, Underway, AtItsEnd, PTL
<1> QED
  BY <1>1, <1>2

LEMMA NextLabels ==
  /\ pc' \in {"open", "map", "parse", "walk", "prepBail"} => Label' = "zip"
  /\ pc' = "create" => Label' = "create"
  /\ pc' = "find" => Label' = "entry"
  /\ pc' \in Extracting \ {"find"} => Label' = "extract"
  /\ pc' = "bail" /\ result' \in {"NoClassesDex", "BadZip"} => Label' = "unzipBail"
  /\ pc' \in {"close", "done"} /\ result' \in {"NoClassesDex", "BadZip"} => Label' = "openBail"
  /\ pc' \in Ending /\ result' = "OutputFileProblem" => Label' = "openBail"
  /\ pc' \in Ending /\ result' \in {"Success", "NotZip"} => Label' = "open"
BY DEF Label, Extracting, Ending

\* A step inside one of DexDump's.
LEMMA Silent ==
  ASSUME IsUnderway, IsUnderway', Label' = Label, left' = left,
         pc \in Preparing <=> pc' \in Preparing
  PROVE  UNCHANGED Unzip!vars
<1>1. SeenUnderway /\ SeenUnderway'
  BY Seen
<1>2. AbsProc' = AbsProc
  BY <1>1 DEF SeenUnderway, Running
<1>3. AbsFile' = AbsFile
  BY <1>1 DEF SeenUnderway, IsUnderway
<1> QED
  BY <1>2, <1>3, Stutters

LEMMA SilentAtItsEnd ==
  ASSUME IsEnding, IsEnding', Label' = Label, UNCHANGED <<left, result, output>>
  PROVE  UNCHANGED Unzip!vars
<1>1. SeenEnding /\ SeenEnding'
  BY Seen
<1>2. AbsProc' = AbsProc
  BY <1>1 DEF SeenEnding, Ended
<1>3. AbsFile' = AbsFile
  BY <1>1 DEF SeenEnding
<1> QED
  BY <1>2, <1>3, Stutters

\* The steps that DexDump sees.
LEMMA IsOpened ==
  ASSUME IsUnderway, IsUnderway', pc = "walk", pc' = "create", left' = left
  PROVE  Unzip!dexZipOpenArchive("tool")
<1>1. /\ AbsProc = Running("zip", left) /\ AbsProc' = Running("create", left)
      /\ AbsFile = NoFile /\ AbsFile' = NoFile
  BY Seen, Labels, NextLabels DEF SeenUnderway, Preparing, Walking
<1>2. AbsProc.pc = "zip"
  BY <1>1 DEF Running
<1>3. PICK h : h = [AbsProc EXCEPT !.pc = "create"]
  OBVIOUS
<1>4. h = Running("create", left)
  BY <1>1, <1>3 DEF Running, Ended
<1> QED
  BY <1>1, <1>2, <1>3, <1>4, Opens

LEMMA IsNoZip ==
  ASSUME IsUnderway, IsEnding', pc \in {"open", "prepBail"}, result' = "NotZip", left' = left
  PROVE  Unzip!dexZipOpenArchive("tool")
<1>1. ~output'.exists
  BY DEF IsEnding, OutputInv
<1>2. /\ AbsProc = Running("zip", left) /\ AbsProc' = Ended("open", "NotZip", left)
      /\ AbsFile = NoFile /\ AbsFile' = NoFile
  BY <1>1, Seen, Labels, NextLabels
  DEF SeenUnderway, SeenEnding, IsEnding, Preparing, Walking
<1>3. AbsProc.pc = "zip"
  BY <1>2 DEF Running
<1>4. PICK h : h = [AbsProc EXCEPT !.pc = "open", !.result = "NotZip"]
  OBVIOUS
<1>5. h = Ended("open", "NotZip", left)
  BY <1>2, <1>4 DEF Running, Ended
<1> QED
  BY <1>2, <1>3, <1>4, <1>5, Opens

LEMMA IsCreated ==
  ASSUME IsUnderway, IsUnderway', pc = "create", pc' = "find", left' = left
  PROVE  Unzip!CreateTemp("tool")
<1>1. /\ AbsProc = Running("create", left) /\ AbsProc' = Running("entry", left)
      /\ AbsFile = NoFile /\ AbsFile' = [owner |-> "tool", whole |-> FALSE]
  BY Seen, Labels, NextLabels DEF SeenUnderway, Preparing, Walking, Extracting
<1>2. AbsProc.pc = "create"
  BY <1>1 DEF Running
<1>3. PICK h : h = [AbsProc EXCEPT !.pc = "entry"]
  OBVIOUS
<1>4. h = Running("entry", left)
  BY <1>1, <1>3 DEF Running, Ended
<1> QED
  BY <1>1, <1>2, <1>3, <1>4, Creates

LEMMA IsNotCreated ==
  ASSUME IsUnderway, IsEnding', pc = "create", result' = "OutputFileProblem", left' = left
  PROVE  Unzip!CreateTemp("tool")
<1>1. ~output'.exists
  BY DEF IsEnding, OutputInv
<1>2. /\ AbsProc = Running("create", left)
      /\ AbsProc' = Ended("openBail", "OutputFileProblem", left)
      /\ AbsFile = NoFile /\ AbsFile' = NoFile
  BY <1>1, Seen, Labels, NextLabels
  DEF SeenUnderway, SeenEnding, IsEnding, Preparing, Walking
<1>3. AbsProc.pc = "create"
  BY <1>2 DEF Running
<1>4. PICK h : h = [AbsProc EXCEPT !.pc = "openBail", !.result = "OutputFileProblem"]
  OBVIOUS
<1>5. h = Ended("openBail", "OutputFileProblem", left)
  BY <1>2, <1>4 DEF Running, Ended
<1> QED
  BY <1>2, <1>3, <1>4, <1>5, Creates

LEMMA IsFound ==
  ASSUME IsUnderway, IsUnderway', pc = "find", pc' = "extract", left' = left
  PROVE  Unzip!FindEntry("tool")
<1>1. /\ AbsProc = Running("entry", left) /\ AbsProc' = Running("extract", left)
      /\ AbsFile = [owner |-> "tool", whole |-> FALSE]
      /\ AbsFile' = [owner |-> "tool", whole |-> FALSE]
  BY Seen, Labels, NextLabels DEF SeenUnderway, Extracting
<1>2. AbsProc.pc = "entry"
  BY <1>1 DEF Running
<1>3. PICK h : h = [AbsProc EXCEPT !.pc = "extract"]
  OBVIOUS
<1>4. h = Running("extract", left)
  BY <1>1, <1>3 DEF Running, Ended
<1> QED
  BY <1>1, <1>2, <1>3, <1>4, Finds

LEMMA IsNotFound ==
  ASSUME IsUnderway, IsEnding', pc = "find", pc' = "bail", result' = "NoClassesDex", left' = left
  PROVE  Unzip!FindEntry("tool")
<1>1. output'.exists
  BY DEF IsEnding, OutputInv
<1>2. /\ AbsProc = Running("entry", left)
      /\ AbsProc' = Ended("unzipBail", "NoClassesDex", left)
      /\ AbsFile = [owner |-> "tool", whole |-> FALSE]
      /\ AbsFile' = [owner |-> "tool", whole |-> FALSE]
  BY <1>1, Seen, Labels, NextLabels
  DEF SeenUnderway, SeenEnding, Extracting
<1>3. AbsProc.pc = "entry"
  BY <1>2 DEF Running
<1>4. PICK h : h = [AbsProc EXCEPT !.pc = "unzipBail", !.result = "NoClassesDex"]
  OBVIOUS
<1>5. h = Ended("unzipBail", "NoClassesDex", left)
  BY <1>2, <1>4 DEF Running, Ended
<1> QED
  BY <1>2, <1>3, <1>4, <1>5, Finds

LEMMA IsExtracted ==
  ASSUME IsUnderway, IsEnding', pc \in Extracting \ {"find"}, pc' = "bail",
         result' \in {"Success", "BadZip"}, left' = left
  PROVE  Unzip!Extract("tool")
<1>1. output'.exists
  BY DEF IsEnding, OutputInv
<1>2. AbsProc = Running("extract", left) /\ AbsFile = [owner |-> "tool", whole |-> FALSE]
  BY Seen, Labels DEF SeenUnderway
<1>3. AbsProc.pc = "extract"
  BY <1>2 DEF Running
<1>4. CASE result' = "Success"
  <2>1. /\ AbsProc' = Ended("open", "Success", left)
        /\ AbsFile' = [owner |-> "tool", whole |-> TRUE]
    BY <1>4, Seen, NextLabels DEF SeenEnding, Ending
  <2>2. PICK h : h = [AbsProc EXCEPT !.pc = "open", !.result = "Success", !.removeTemp = TRUE]
    OBVIOUS
  <2>3. h = Ended("open", "Success", left)
    BY <1>2, <2>1, <2>2 DEF Running, Ended
  <2> QED
    BY <1>2, <1>3, <2>1, <2>2, <2>3, Extracts
<1>5. CASE result' = "BadZip"
  <2>1. /\ AbsProc' = Ended("unzipBail", "BadZip", left)
        /\ AbsFile' = [owner |-> "tool", whole |-> FALSE]
    BY <1>1, <1>5, Seen, NextLabels DEF SeenEnding
  <2>2. PICK h : h = [AbsProc EXCEPT !.pc = "unzipBail", !.result = "BadZip"]
    OBVIOUS
  <2>3. h = Ended("unzipBail", "BadZip", left)
    BY <1>2, <2>1, <2>2 DEF Running, Ended
  <2> QED
    BY <1>2, <1>3, <2>1, <2>2, <2>3, Extracts
<1> QED
  BY <1>4, <1>5

LEMMA IsRemoved ==
  ASSUME IsEnding, IsEnding', pc = "bail", pc' = "close",
         result \in {"BadZip", "NoClassesDex"}, result' = result, output.exists,
         \/ ~output'.exists /\ left' = left
         \/ output'.exists /\ left' = TRUE
  PROVE  Unzip!UnzipBail("tool")
<1>1. /\ AbsProc = Ended("unzipBail", result, left)
      /\ AbsFile = [owner |-> "tool", whole |-> FALSE]
  BY Seen, Labels DEF SeenEnding
<1>2. /\ AbsProc' = Ended("openBail", result, left')
      /\ AbsFile' = IF output'.exists THEN [owner |-> "tool", whole |-> FALSE] ELSE NoFile
  BY Seen, NextLabels DEF SeenEnding
<1>3. AbsProc.pc = "unzipBail"
  BY <1>1 DEF Ended
<1>4. CASE ~output'.exists /\ left' = left
  <2>1. PICK h : h = [AbsProc EXCEPT !.pc = "openBail"]
    OBVIOUS
  <2>2. h = Ended("openBail", result, left)
    BY <1>1, <2>1 DEF Ended
  <2>3. AbsFile' = NoFile /\ AbsProc' = [AbsProc EXCEPT !.pc = "openBail"]
    BY <1>2, <1>4, <2>1, <2>2
  <2> QED
    BY <1>3, <2>3, Bails
<1>5. CASE output'.exists /\ left' = TRUE
  <2>1. PICK h : h = [AbsProc EXCEPT !.pc = "openBail", !.left = TRUE]
    OBVIOUS
  <2>2. h = Ended("openBail", result, TRUE)
    BY <1>1, <2>1 DEF Ended
  <2>3. AbsFile' = AbsFile /\ AbsProc' = [AbsProc EXCEPT !.pc = "openBail", !.left = TRUE]
    BY <1>1, <1>2, <1>5, <2>1, <2>2
  <2> QED
    BY <1>3, <2>3, Bails
<1> QED
  BY <1>4, <1>5

UnzipNext ==
  \/ Unzip!dexZipOpenArchive("tool") \/ Unzip!CreateTemp("tool")
  \/ Unzip!FindEntry("tool") \/ Unzip!Extract("tool")
  \/ Unzip!UnzipBail("tool")

LEMMA UnzipStep == OutputInv /\ OutputInv' /\ [Next]_vars => [UnzipNext]_(Unzip!vars)
<1> SUFFICES ASSUME OutputInv, OutputInv', [Next]_vars PROVE UnzipNext \/ UNCHANGED Unzip!vars
  BY DEF UnzipNext
<1> USE DEF history
<1>1. CASE dexZipOpenArchive
  <2>1. pc = "open" /\ IsUnderway /\ left' = left
    BY <1>1 DEF dexZipOpenArchive, IsUnderway, Preparing, Walking
  <2>2. CASE pc' = "map"
    BY <2>1, <2>2, Silent, Labels, NextLabels DEF IsUnderway, Preparing, Walking
  <2>3. CASE pc' = "bail" /\ result' = "NotZip"
    BY <2>1, <2>3, IsNoZip DEF IsEnding, Ending, UnzipNext
  <2> QED
    BY <1>1, <2>2, <2>3 DEF dexZipOpenArchive
<1>2. CASE MapArchive \/ ParseEnd \/ WalkEntry
  <2>1. /\ pc \in {"map", "parse", "walk"} /\ left' = left
        /\ pc' \in {"map", "parse", "walk", "prepBail"}
    BY <1>2 DEF MapArchive, ParseEnd, WalkEntry
  <2> QED
    BY <2>1, Silent, Labels, NextLabels DEF IsUnderway, Preparing, Walking
<1>3. CASE EndWalk
  <2>1. pc = "walk" /\ pc' = "create" /\ left' = left
    BY <1>3 DEF EndWalk
  <2> QED
    BY <2>1, IsOpened DEF IsUnderway, Preparing, Walking, UnzipNext
<1>4. CASE PrepBail
  <2>1. pc = "prepBail" /\ pc' = "bail" /\ result' = "NotZip" /\ left' = left
    BY <1>4 DEF PrepBail
  <2> QED
    BY <2>1, IsNoZip DEF IsUnderway, IsEnding, Preparing, Ending, UnzipNext
<1>5. CASE CreateOutput
  <2>1. pc = "create" /\ IsUnderway /\ left' = left
    BY <1>5 DEF CreateOutput, IsUnderway, Preparing
  <2>2. CASE pc' = "find"
    BY <2>1, <2>2, IsCreated DEF IsUnderway, Extracting, UnzipNext
  <2>3. CASE pc' = "bail" /\ result' = "OutputFileProblem"
    BY <2>1, <2>3, IsNotCreated DEF IsEnding, Ending, UnzipNext
  <2> QED
    BY <1>5, <2>2, <2>3 DEF CreateOutput
<1>6. CASE FindEntry
  <2>1. pc = "find" /\ IsUnderway /\ left' = left
    BY <1>6 DEF FindEntry, IsUnderway, Extracting
  <2>2. CASE pc' = "extract"
    BY <2>1, <2>2, IsFound DEF IsUnderway, Extracting, UnzipNext
  <2>3. CASE pc' = "bail" /\ result' = "NoClassesDex"
    BY <2>1, <2>3, IsNotFound DEF IsEnding, Ending, UnzipNext
  <2> QED
    BY <1>6, <2>2, <2>3 DEF FindEntry
<1>7. CASE \/ dexZipExtractEntryToFile \/ StoreEntry \/ inflateInit2
           \/ InflateMore \/ InflateEnd \/ InflateError \/ WriteBlock \/ CheckLength
  <2>1. pc \in Extracting \ {"find"} /\ left' = left /\ IsUnderway
    BY <1>7
    DEF dexZipExtractEntryToFile, StoreEntry, inflateInit2, InflateMore, InflateEnd,
        InflateError, WriteBlock, CheckLength, Extracting, IsUnderway
  <2>2. \/ pc' \in Extracting \ {"find"}
        \/ pc' = "bail" /\ result' \in {"Success", "BadZip"}
    <3>1. result = "Success"
      BY <2>1 DEF OutputInv, Extracting, Ending
    <3>2. CASE dexZipExtractEntryToFile
      BY <3>1, <3>2 DEF dexZipExtractEntryToFile, Extracting
    <3>3. CASE InflateMore \/ InflateEnd
      BY <3>3 DEF InflateMore, InflateEnd, Inflated, Extracting
    <3> QED
      BY <1>7, <3>1, <3>2, <3>3
      DEF StoreEntry, inflateInit2, InflateError, WriteBlock, CheckLength, InflationEnds,
          Extracted, Extracting
  <2>3. CASE pc' \in Extracting \ {"find"}
    BY <2>1, <2>3, Silent, Labels, NextLabels DEF IsUnderway, Preparing, Walking, Extracting
  <2>4. CASE pc' = "bail" /\ result' \in {"Success", "BadZip"}
    BY <2>1, <2>4, IsExtracted DEF IsEnding, Ending, UnzipNext
  <2> QED
    BY <2>2, <2>3, <2>4
<1>8. CASE CloseOutput
  <2>1. /\ pc = "bail" /\ pc' = "close" /\ result' = result
        /\ \/ /\ output' = IF output.exists /\ result # "Success"
                           THEN [exists |-> FALSE, length |-> 0] ELSE output
              /\ left' = left
           \/ /\ output.exists /\ result # "Success" /\ left' = TRUE /\ output' = output
    BY <1>8 DEF CloseOutput
  <2>2. IsEnding /\ IsEnding'
    BY <2>1 DEF IsEnding, Ending
  <2>3. /\ result \in {"Success", "NotZip", "NoClassesDex", "BadZip", "OutputFileProblem"}
        /\ result \in {"NotZip", "OutputFileProblem"} => ~output.exists
        /\ result \in {"NoClassesDex", "BadZip"} => output.exists
    BY <2>1 DEF OutputInv, Ending
  <2>4. CASE result \in {"NoClassesDex", "BadZip"}
    <3>1. \/ ~output'.exists /\ left' = left
          \/ output'.exists /\ left' = TRUE
      BY <2>1, <2>3, <2>4
    <3> QED
      BY <2>1, <2>2, <2>3, <2>4, <3>1, IsRemoved DEF UnzipNext
  <2>5. CASE result \in {"Success", "NotZip", "OutputFileProblem"}
    <3>1. left' = left /\ output' = output
      BY <2>1, <2>3, <2>5
    <3>2. Label' = Label
      BY <2>1, <2>5, Labels, NextLabels DEF Ending
    <3> QED
      BY <2>1, <2>2, <3>1, <3>2, SilentAtItsEnd
  <2> QED
    BY <2>3, <2>4, <2>5
<1>9. CASE CloseArchive
  <2>1. pc = "close" /\ pc' = "done" /\ UNCHANGED <<left, result, output>>
    BY <1>9 DEF CloseArchive
  <2>2. result \in {"Success", "NotZip", "NoClassesDex", "BadZip", "OutputFileProblem"}
    BY <2>1 DEF OutputInv, Ending
  <2>3. Label' = Label
    BY <2>1, <2>2, Labels, NextLabels DEF Ending
  <2> QED
    BY <2>1, <2>3, SilentAtItsEnd DEF IsEnding, Ending
<1>10. CASE UNCHANGED vars
  BY <1>10 DEF vars, Unzip!vars, Returned, Label, Whole, Stream, Signature, Entry,
     Directory!Answers
<1> QED
  BY <1>1, <1>2, <1>3, <1>4, <1>5, <1>6, <1>7, <1>8, <1>9, <1>10 DEF Next

\* The unzipping keeps what DexDump takes it to do: every step of the reader is one
\* of DexDump's dexZipOpenArchive, CreateTemp, FindEntry, Extract and UnzipBail, or
\* changes nothing that DexDump sees; so a success is returned only with all of the
\* entry written, and a failure after the creation removes the file or says so.
THEOREM ImplementsUnzipHolds == Spec => ImplementsUnzip
<1>1. OutputInv /\ OutputInv' /\ [Next]_vars =>
        [\/ Unzip!dexZipOpenArchive("tool") \/ Unzip!CreateTemp("tool")
         \/ Unzip!FindEntry("tool") \/ Unzip!Extract("tool")
         \/ Unzip!UnzipBail("tool")]_(Unzip!vars)
  BY UnzipStep DEF UnzipNext
<1> QED
  BY <1>1, InitiallyInMap, InMapStep, InitiallyOutput, OutputStep, PTL DEF Spec, ImplementsUnzip

-----------------------------------------------------------------------------
(***************************************************************************)
(* Archives as a tool writes them.                                         *)
(***************************************************************************)

\* What is known of the entries of such a directory, n of them: where they are and
\* where the next one is; of the end record; and that there is a classes.dex.
LEMMA WrittenDirectory ==
  ASSUME file \in Archives, NEW last, NEW dir, AsWrittenHere(last, dir)
  PROVE  /\ last \in Nat /\ last + kEOCDLen <= file.length /\ file.length \in Nat
         /\ \A o \in DOMAIN file.at : Signature(o) = "EOCD" => o <= last
         /\ Signature(0) = "LFH" /\ Signature(last) = "EOCD"
         /\ Len(dir) = Entry(last).entries /\ Len(dir) \in Nat \ {0} /\ DOMAIN dir = 1..Len(dir)
         /\ dir[1] = Entry(last).cdOffset
         /\ \A i \in 1..Len(dir) :
              /\ dir[i] \in Nat /\ dir[i] < last /\ Signature(dir[i]) = "CDE"
              /\ NameEnd(dir[i]) + Entry(dir[i]).rest = IF i = Len(dir) THEN last ELSE dir[i + 1]
              /\ Signature(Entry(dir[i]).local) = "LFH" /\ Entry(dir[i]).local < last
              /\ WrittenMember(file, Entry(dir[i]), last)
         /\ \E i \in 1..Len(dir) : Entry(dir[i]).name = classes_dex
<1>1. /\ file.length \in Nat /\ DOMAIN file.at \subseteq 0..(file.length - 1)
  BY ArchivesAssumption
<1>2. PICK n : n = Entry(last).entries
  OBVIOUS
<1>3. n \in Nat
  BY <1>2, HeaderTypes DEF AsWrittenHere
<1>4. dir \in [1..n -> DOMAIN file.at]
  BY <1>2 DEF AsWrittenHere
<1>5. Len(dir) = n /\ DOMAIN dir = 1..n /\ \A i \in 1..n : dir[i] \in DOMAIN file.at
  BY <1>3, <1>4
<1>6. dir # <<>> => n # 0
  BY <1>3, <1>4
<1>7. /\ last \in DOMAIN file.at /\ AsWritten(file, last, dir) /\ Signature(last) = "EOCD"
  BY DEF AsWrittenHere
<1>8. \A i \in 1..n :
        /\ dir[i] \in Nat /\ dir[i] < last /\ Signature(dir[i]) = "CDE"
        /\ NameEnd(dir[i]) + Entry(dir[i]).rest = IF i = n THEN last ELSE dir[i + 1]
        /\ Signature(Entry(dir[i]).local) = "LFH" /\ Entry(dir[i]).local < last
        /\ WrittenMember(file, Entry(dir[i]), last)
  <2> TAKE i \in 1..n
  <2>1. dir[i] \in DOMAIN file.at /\ dir[i] \in Nat
    BY <1>1, <1>5
  <2> QED
    BY <1>5, <1>7, <2>1 DEF AsWritten, Signature, Entry, NameEnd
<1>9. \E i \in 1..n : Entry(dir[i]).name = classes_dex
  BY <1>5, <1>7 DEF AsWritten, Entry
<1>10. /\ last \in Nat /\ last + kEOCDLen <= file.length /\ Signature(0) = "LFH"
       /\ dir # <<>> /\ dir[1] = Entry(last).cdOffset
       /\ \A o \in DOMAIN file.at : Signature(o) = "EOCD" => o <= last
  BY <1>1, <1>7 DEF AsWritten, Signature, Entry
<1> QED
  BY <1>1, <1>2, <1>3, <1>5, <1>6, <1>7, <1>8, <1>9, <1>10

\* The search from the back finds the end record.
LEMMA LastIsFound ==
  ASSUME file \in Archives, NEW last, NEW dir, AsWrittenHere(last, dir)
  PROVE  EndRecords # {} /\ Max(EndRecords) = last
<1>1. /\ last \in Nat /\ last + kEOCDLen <= file.length /\ file.length \in Nat
      /\ Signature(last) = "EOCD" /\ \A o \in DOMAIN file.at : Signature(o) = "EOCD" => o <= last
  BY WrittenDirectory
<1>2. kEOCDLen \in Nat
  BY LengthsAssumption
<1>3. last \in EndRecords
  BY <1>1, <1>2 DEF EndRecords
<1>4. \A o \in EndRecords : o \in DOMAIN file.at /\ Signature(o) = "EOCD" /\ o \in Nat
  BY DEF EndRecords, Signature
<1>5. \A o \in EndRecords : o <= last
  BY <1>1, <1>4
<1>6. PICK S : S = EndRecords
  OBVIOUS
<1>7. Max(S) \in S /\ \A o \in S : Max(S) >= o
  <2>1. \E m \in S : \A i \in S : m >= i
    BY <1>1, <1>3, <1>4, <1>5, <1>6
  <2> QED
    BY <2>1 DEF Max
<1>8. PICK m : m = Max(S)
  OBVIOUS
<1>9. m \in Nat /\ m <= last /\ last <= m
  BY <1>3, <1>4, <1>5, <1>6, <1>7, <1>8
<1>10. m = last
  BY <1>1, <1>9
<1> QED
  BY <1>3, <1>6, <1>8, <1>10

\* The walk at one of the directory's entries goes on to the next.
LEMMA WalkOn ==
  ASSUME InMap, NEW last, NEW dir, AsWrittenHere(last, dir), OnItsWay(last, dir), WalkEntry
  PROVE  OnItsWay(last, dir)'
<1> DEFINE ptr == walk.ptr
           next == IF walk.i + 1 = Len(dir) THEN last ELSE dir[walk.i + 2]
<1>1. /\ pc = "walk" /\ walk.i < walk.entries /\ UNCHANGED <<file, result>>
      /\ walk.i \in 0..Len(dir) /\ walk.entries = Len(dir) /\ walk.maxOffset = last + 1
      /\ ptr = (IF walk.i = Len(dir) THEN last ELSE dir[walk.i + 1])
      /\ Upto(dir, walk.i) /\ result = "Success"
  BY DEF WalkEntry, OnItsWay
<1>2. /\ file \in Archives /\ archive.mHashTable \in Seq(Nat)
      /\ DOMAIN archive = {"mFd", "mMap", "mHashTable", "allocated"}
      /\ walk \in [entries : Nat, i : Nat, ptr : Nat, maxOffset : Nat]
      /\ file.length \in Nat
  BY HeaderTypes DEF InMap
<1>3. /\ last \in Nat /\ last + kEOCDLen <= file.length /\ Len(dir) \in Nat
      /\ \A i \in 1..Len(dir) :
           /\ dir[i] \in Nat /\ dir[i] < last /\ Signature(dir[i]) = "CDE"
           /\ NameEnd(dir[i]) + Entry(dir[i]).rest = IF i = Len(dir) THEN last ELSE dir[i + 1]
           /\ Signature(Entry(dir[i]).local) = "LFH" /\ Entry(dir[i]).local < last
  BY <1>2, WrittenDirectory
<1>4. PICK i : i = walk.i + 1
  OBVIOUS
<1>5. i \in 1..Len(dir) /\ ptr = dir[i] /\ i - 1 = walk.i /\ i \in Nat
  BY <1>1, <1>2, <1>3, <1>4
<1>6. /\ ptr \in Nat /\ ptr < last /\ Signature(ptr) = "CDE"
      /\ NameEnd(ptr) + Entry(ptr).rest = next
      /\ Signature(Entry(ptr).local) = "LFH" /\ Entry(ptr).local < last
  BY <1>3, <1>4, <1>5
<1>7. next \in Nat /\ next <= last
  <2>1. i # Len(dir) => i + 1 \in 1..Len(dir)
    BY <1>3, <1>5
  <2>2. walk.i + 2 = i + 1
    BY <1>2, <1>4
  <2> QED
    BY <1>3, <1>4, <2>1, <2>2
<1>8. /\ Entry(ptr).nameLen \in Nat /\ Entry(ptr).rest \in Nat /\ Entry(ptr).local \in Nat
      /\ kCDELen \in Nat /\ kEOCDLen \in Nat
  BY <1>2, <1>6, HeaderTypes, LengthsAssumption
<1> HIDE DEF ptr, next
<1>9. HeaderFits(ptr) /\ NextFits(ptr)
  <2>1. ptr + kCDELen <= next
    BY <1>6, <1>7, <1>8 DEF NameEnd
  <2>2. ptr + kCDELen <= file.length
    BY <1>2, <1>3, <1>6, <1>7, <1>8, <2>1
  <2>3. Entry(ptr).local < walk.maxOffset
    BY <1>1, <1>3, <1>6, <1>8
  <2>4. NameEnd(ptr) + Entry(ptr).rest < walk.maxOffset
    BY <1>1, <1>3, <1>6, <1>7
  <2> QED
    BY <1>6, <2>2, <2>3, <2>4 DEF HeaderFits, NextFits
<1>10. /\ archive' = [archive EXCEPT !.mHashTable = Append(@, ptr)]
       /\ walk' = [walk EXCEPT !.i = @ + 1, !.ptr = next]
       /\ pc' = pc
  BY <1>6, <1>9 DEF WalkEntry, ptr
<1>11. archive'.mHashTable = Append(archive.mHashTable, ptr)
  BY <1>2, <1>10
<1>12. Upto(dir, i)'
  <2>1. PICK t \in Seq(Nat) : t = archive.mHashTable
    BY <1>2
  <2>2. Len(t) = i - 1 /\ \A k \in 1..(i - 1) : t[k] = dir[k]
    BY <1>1, <1>5, <2>1 DEF Upto
  <2>3. PICK u : u = Append(t, ptr)
    OBVIOUS
  <2>4. Len(u) = i /\ \A k \in 1..i : u[k] = dir[k]
    BY <1>5, <1>6, <2>2, <2>3
  <2> QED
    BY <1>11, <2>1, <2>3, <2>4 DEF Upto
<1>13. /\ walk'.entries = walk.entries /\ walk'.maxOffset = walk.maxOffset
       /\ walk'.i = i /\ walk'.ptr = next
  BY <1>2, <1>4, <1>10
<1>14. next = IF i = Len(dir) THEN last ELSE dir[i + 1]
  BY <1>2, <1>4 DEF next
<1> QED
  BY <1>1, <1>5, <1>10, <1>12, <1>13, <1>14 DEF OnItsWay, Extracting

\* What is known of the member that extraction takes.
LEMMA WrittenFound ==
  ASSUME InMap, OutputInv, NEW last, NEW dir, AsWrittenHere(last, dir), OnItsWay(last, dir),
         pc \in Extracting \ {"find"}
  PROVE  /\ dexZipGetEntryInfo
         /\ Header.method = "stored" => Header.uncomp = Header.comp
         /\ Header.method = "deflated" => Complete /\ Stream(DataOffset).yields = Header.uncomp
<1>1. /\ entry \in DOMAIN archive.mHashTable /\ file \in Archives
      /\ archive.mHashTable \in Seq(Nat)
  BY DEF InMap
<1>2. Upto(dir, Len(dir))
  BY DEF OnItsWay
<1>3. /\ last \in Nat /\ last + kEOCDLen <= file.length /\ Len(dir) \in Nat /\ file.length \in Nat
      /\ \A i \in 1..Len(dir) :
           /\ Signature(dir[i]) = "CDE" /\ Signature(Entry(dir[i]).local) = "LFH"
           /\ WrittenMember(file, Entry(dir[i]), last)
  BY <1>1, WrittenDirectory
<1>4. entry \in 1..Len(dir) /\ archive.mHashTable[entry] = dir[entry]
  BY <1>1, <1>2, <1>3 DEF Upto
<1>5. PICK ptr : ptr = dir[entry]
  OBVIOUS
<1>6. /\ Header = Entry(ptr) /\ Signature(ptr) = "CDE" /\ Signature(Entry(ptr).local) = "LFH"
      /\ WrittenMember(file, Entry(ptr), last)
  BY <1>3, <1>4, <1>5 DEF Header
<1>7. /\ Header.local \in Nat /\ Header.comp \in Nat /\ Header.uncomp \in Nat
      /\ Entry(Header.local).skip \in Nat
      /\ kLFHLen \in Nat /\ kEOCDLen \in Nat \ {0}
  BY <1>1, <1>6, HeaderTypes, LengthsAssumption
<1>8. /\ DataOffset + Header.comp <= last
      /\ \/ Header.method = "stored" /\ Header.uncomp = Header.comp
         \/ /\ Header.method = "deflated"
            /\ Signature(DataOffset) = "data" /\ Entry(DataOffset).sound
            /\ Entry(DataOffset).needs <= Header.comp
            /\ Entry(DataOffset).yields = Header.uncomp
  BY <1>6 DEF WrittenMember, DataOffset, Signature, Entry
<1>9. dexZipGetEntryInfo
  BY <1>3, <1>7, <1>8 DEF dexZipGetEntryInfo, DataOffset
<1>10. CASE Header.method = "stored"
  BY <1>8, <1>9, <1>10
<1>11. CASE Header.method = "deflated"
  <2>1. Stream(DataOffset) = Entry(DataOffset)
    BY <1>8, <1>11 DEF Stream
  <2>2. Entry(DataOffset).needs \in Nat
    <3>1. Entry(DataOffset) \in Headers /\ Entry(DataOffset).sig = "data"
      BY <1>1, <1>8, <1>11, ArchivesAssumption DEF Signature, Entry
    <3> QED
      BY <3>1 DEF Headers
  <2> QED
    BY <1>7, <1>8, <1>9, <1>11, <2>1, <2>2 DEF Complete
<1> QED
  BY <1>8, <1>10, <1>11

\* The search finds classes.dex.
LEMMA WrittenName ==
  ASSUME InMap, NEW last, NEW dir, AsWrittenHere(last, dir), Upto(dir, Len(dir))
  PROVE  Answers # {} /\ Found # 0
<1> DEFINE names == [i \in DOMAIN archive.mHashTable |-> Entry(archive.mHashTable[i]).name]
<1>1. PICK n : n = Len(dir)
  OBVIOUS
<1>2. /\ archive.mHashTable \in Seq(Nat) /\ Len(archive.mHashTable) = n
      /\ \A i \in 1..n : archive.mHashTable[i] = dir[i]
  BY <1>1 DEF InMap, Upto
<1>3. n \in Nat /\ \E i \in 1..n : Entry(dir[i]).name = classes_dex
  <2>1. file \in Archives
    BY DEF InMap
  <2>2. Len(dir) \in Nat
    BY <2>1, WrittenDirectory
  <2>3. \E i \in 1..Len(dir) : Entry(dir[i]).name = classes_dex
    BY <2>1, WrittenDirectory
  <2> QED
    BY <1>1, <2>2, <2>3
<1>4. DOMAIN archive.mHashTable = 1..n
  BY <1>2
<1>5. DOMAIN names = 1..n /\ \A i \in 1..n : names[i] = Entry(dir[i]).name
  BY <1>2, <1>4
<1>6. Len(names) = n
  BY <1>3, <1>5
<1>7. PICK S : S = {i \in 1..n : Entry(dir[i]).name = classes_dex}
  OBVIOUS
<1>8. S \subseteq Nat /\ S # {}
  BY <1>3, <1>7
<1>9. PICK m \in S : \A i \in S : m <= i
  BY <1>8, LeastOf
<1>10. m \in 1..n /\ m # 0
  BY <1>3, <1>7, <1>9
<1>11. Answers = {i \in 1..n : names[i] = classes_dex
                      /\ \A j \in 1..n : names[j] = classes_dex => i <= j}
  BY <1>6 DEF Answers, Directory!Answers
<1> HIDE DEF names
<1>12. m \in Answers
  BY <1>5, <1>7, <1>9, <1>10, <1>11
<1>13. 0 \notin Answers
  BY <1>3, <1>11
<1>14. Found \in Answers
  BY <1>12 DEF Found, Answers
<1> QED
  BY <1>12, <1>13, <1>14

LEMMA OnItsWayStep ==
  ASSUME InMap, OutputInv, Next, file \in WellFormed, ~refused',
         NEW last, NEW dir, AsWrittenHere(last, dir), OnItsWay(last, dir)
  PROVE  OnItsWay(last, dir)'
<1> USE DEF history
<1>1. /\ last \in Nat /\ last + kEOCDLen <= file.length /\ file.length \in Nat
      /\ Signature(0) = "LFH" /\ Signature(last) = "EOCD"
      /\ Len(dir) = Entry(last).entries /\ Len(dir) \in Nat \ {0}
      /\ dir[1] = Entry(last).cdOffset /\ dir[1] < last /\ dir[1] \in Nat
  BY WrittenDirectory DEF InMap
<1>2. kEOCDLen \in Nat \ {0}
  BY LengthsAssumption
<1>3. pc # "prepBail" /\ result = "Success"
  BY DEF OnItsWay
<1>4. CASE dexZipOpenArchive
  BY <1>3, <1>4 DEF dexZipOpenArchive, OnItsWay, Extracting
<1>5. CASE MapArchive
  <2>1. ~(file.length < kEOCDLen) /\ file.length > 0
    BY <1>1, <1>2
  <2> QED
    BY <1>3, <1>5, <2>1 DEF MapArchive, OnItsWay, Extracting
<1>6. CASE ParseEnd
  <2>1. EndRecords # {} /\ Max(EndRecords) = last
    BY LastIsFound DEF InMap
  <2>2. Entry(last).entries > 0 /\ Entry(last).cdOffset < file.length
    BY <1>1, <1>2
  <2>3. PICK w : w = [entries |-> Entry(last).entries, i |-> 0, ptr |-> Entry(last).cdOffset,
                      maxOffset |-> last + 1]
    OBVIOUS
  <2>4. /\ pc = "parse" /\ pc' = "walk" /\ result' = result
        /\ walk' = w /\ archive' = [archive EXCEPT !.allocated = TRUE]
    BY <1>1, <1>6, <2>1, <2>2, <2>3 DEF ParseEnd
  <2>5. archive.mHashTable = <<>> /\ archive'.mHashTable = archive.mHashTable
    BY <2>4 DEF InMap
  <2>6. PICK t : t = archive.mHashTable
    OBVIOUS
  <2>7. Len(t) = 0 /\ \A i \in 1..0 : t[i] = dir[i]
    BY <2>5, <2>6
  <2>8. Upto(dir, 0)'
    BY <2>5, <2>6, <2>7 DEF Upto
  <2>9. /\ w.entries = Len(dir) /\ w.i = 0 /\ w.maxOffset = last + 1
        /\ w.ptr = IF w.i = Len(dir) THEN last ELSE dir[w.i + 1]
    BY <1>1, <2>3
  <2> QED
    BY <1>1, <1>3, <2>4, <2>8, <2>9 DEF OnItsWay, Extracting
<1>7. CASE WalkEntry
  BY <1>7, WalkOn
<1>8. CASE EndWalk
  <2>1. /\ pc = "walk" /\ pc' = "create" /\ walk.i = walk.entries /\ result' = result
        /\ archive' = [archive EXCEPT !.mMap = TRUE]
    BY <1>8 DEF EndWalk
  <2>2. archive'.mHashTable = archive.mHashTable
    BY <2>1 DEF InMap
  <2>3. Upto(dir, Len(dir))
    BY <2>1 DEF OnItsWay
  <2> QED
    BY <1>3, <2>1, <2>2, <2>3 DEF OnItsWay, Upto
<1>9. CASE PrepBail
  BY <1>3, <1>9 DEF PrepBail
<1>10. CASE CreateOutput
  BY <1>3, <1>10 DEF CreateOutput, OnItsWay, Upto, Extracting
<1>11. CASE FindEntry
  <2>1. Upto(dir, Len(dir))
    BY <1>11 DEF FindEntry, OnItsWay, Extracting
  <2>2. Found # 0
    BY <2>1, WrittenName
  <2> QED
    BY <1>3, <1>11, <2>1, <2>2 DEF FindEntry, OnItsWay, Upto, Extracting
<1>12. CASE dexZipExtractEntryToFile
  <2>1. pc = "extract" /\ Upto(dir, Len(dir)) /\ UNCHANGED archive
    BY <1>12 DEF dexZipExtractEntryToFile, OnItsWay, Extracting
  <2>2. dexZipGetEntryInfo
    BY <2>1, WrittenFound DEF Extracting
  <2>3. result' = result /\ pc' \in {"bail", "store", "init"}
    BY <1>12, <2>2 DEF dexZipExtractEntryToFile
  <2> QED
    BY <1>3, <2>1, <2>3 DEF OnItsWay, Upto, Extracting
<1>13. CASE StoreEntry
  BY <1>3, <1>13 DEF StoreEntry, Written, Extracted, OnItsWay, Extracting
<1>14. CASE InflateMore \/ InflateEnd
  <2>1. /\ pc = "inflate" /\ pc' \in {"write", "check", "inflate"} /\ UNCHANGED <<archive, result>>
    BY <1>14 DEF InflateMore, InflateEnd, Inflated
  <2> QED
    BY <1>3, <2>1 DEF OnItsWay, Upto, Extracting
<1>15. CASE InflateError
  <2>1. pc = "inflate" /\ ~Complete
    BY <1>15 DEF InflateError
  <2>2. Header.method = "deflated"
    BY <2>1 DEF OutputInv, Inflating
  <2> QED
    BY <2>1, <2>2, WrittenFound DEF Extracting
<1>16. CASE WriteBlock
  <2>1. /\ pc = "write" /\ pc' \in {"check", "inflate"} /\ UNCHANGED <<archive, result>>
    BY <1>16 DEF WriteBlock, Written, InflationEnds
  <2> QED
    BY <1>3, <2>1 DEF OnItsWay, Upto, Extracting
<1>17. CASE CheckLength
  <2>1. pc = "check" /\ pc' = "bail"
    BY <1>17 DEF CheckLength, InflationEnds, Extracted
  <2>2. /\ Header.method = "deflated" /\ zstream.total_out = zstream.limit
        /\ Complete => zstream.limit = Stream(DataOffset).yields
    BY <2>1 DEF OutputInv, Inflating
  <2>3. zstream.total_out = Header.uncomp
    BY <2>1, <2>2, WrittenFound DEF Extracting
  <2> QED
    BY <1>3, <1>17, <2>1, <2>3 DEF CheckLength, InflationEnds, Extracted, OnItsWay, Extracting
<1>18. CASE CloseOutput
  BY <1>3, <1>18 DEF CloseOutput, OnItsWay, Extracting
<1>19. CASE CloseArchive
  BY <1>3, <1>19 DEF CloseArchive, OnItsWay, Extracting
<1>20. CASE inflateInit2
  <2>1. pc = "init" /\ pc' = "inflate" /\ UNCHANGED <<archive, result>>
    BY <1>20 DEF inflateInit2
  <2> QED
    BY <1>3, <2>1 DEF OnItsWay, Upto, Extracting
<1> QED
  BY <1>4, <1>5, <1>6, <1>7, <1>8, <1>9, <1>10, <1>11, <1>12, <1>13, <1>14, <1>15, <1>16,
     <1>17, <1>18, <1>19, <1>20 DEF Next

LEMMA WellFormedStep == InMap /\ OutputInv /\ WellFormedInv /\ [Next]_vars => WellFormedInv'
<1> SUFFICES ASSUME InMap, OutputInv, WellFormedInv, [Next]_vars,
                    file' \in WellFormed, ~refused', NEW last, NEW dir, AsWrittenHere(last, dir)'
             PROVE  OnItsWay(last, dir)'
  BY DEF WellFormedInv
<1> USE DEF history
<1>1. file' = file
  BY DEF Next, vars, dexZipOpenArchive, MapArchive, ParseEnd, WalkEntry, EndWalk, PrepBail,
     CreateOutput, FindEntry, dexZipExtractEntryToFile, StoreEntry, inflateInit2,
     InflateMore, InflateEnd, InflateError, WriteBlock, CheckLength, CloseOutput, CloseArchive
<1>2. ~refused
  BY DEF Next, vars, dexZipOpenArchive, MapArchive, ParseEnd, WalkEntry, EndWalk, PrepBail,
     CreateOutput, FindEntry, dexZipExtractEntryToFile, StoreEntry, inflateInit2,
     InflateMore, InflateEnd, InflateError, WriteBlock, CheckLength, CloseOutput, CloseArchive,
     Written
<1>3. AsWrittenHere(last, dir)
  BY <1>1 DEF AsWrittenHere, AsWritten, WrittenMember, Signature, Entry
<1>4. OnItsWay(last, dir)
  BY <1>1, <1>2, <1>3 DEF WellFormedInv
<1>5. CASE Next
  BY <1>1, <1>3, <1>4, <1>5, OnItsWayStep
<1>6. CASE UNCHANGED vars
  BY <1>4, <1>6 DEF vars, OnItsWay, Upto
<1> QED
  BY <1>5, <1>6

LEMMA WellFormedIsEnough == WellFormedInv => WellFormedExtracted
<1> SUFFICES ASSUME WellFormedInv, file \in WellFormed, ~refused PROVE result = "Success"
  BY DEF WellFormedExtracted
<1>1. \E last \in {o \in DOMAIN file.at : file.at[o].sig = "EOCD"} :
        \E dir \in [1..file.at[last].entries -> DOMAIN file.at] : AsWritten(file, last, dir)
  BY WellFormedAssumption
<1>2. PICK last : /\ last \in DOMAIN file.at /\ file.at[last].sig = "EOCD"
                  /\ \E dir \in [1..file.at[last].entries -> DOMAIN file.at] :
                       AsWritten(file, last, dir)
  BY <1>1
<1>3. PICK dir : dir \in [1..file.at[last].entries -> DOMAIN file.at] /\ AsWritten(file, last, dir)
  BY <1>2
<1>4. AsWrittenHere(last, dir)
  BY <1>2, <1>3 DEF AsWrittenHere, Signature, Entry
<1> QED
  BY <1>4 DEF WellFormedInv, OnItsWay

\* Unless a system call fails, the classes.dex of an archive as a tool writes it is
\* extracted: every check that the reader makes accepts such an archive.
THEOREM WellFormedExtractedHolds == Spec => []WellFormedExtracted
<1>1. Init => WellFormedInv
  BY DEF Init, WellFormedInv, OnItsWay, Extracting
<1> QED
  BY <1>1, WellFormedStep, WellFormedIsEnough, InitiallyInMap, InMapStep, InitiallyOutput,
     OutputStep, PTL DEF Spec
=============================================================================
