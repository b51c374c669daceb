----------------------------- MODULE SwapVerify -----------------------------
(***************************************************************************)
(* dexFixByteOrdering of src/libdex/DexSwapVerify.cpp: the header and the  *)
(* map of a file are swapped and checked, then every item by itself, then  *)
(* what the items say of each other.                                       *)
(*                                                                         *)
(* Two ends are not those of the code.  The data map and the bit set of    *)
(* the classes defined are allocated too small: writing to them may go     *)
(* unnoticed or end the run "overrun".  Reading through an index or an     *)
(* offset that nothing has verified yet ends it "undefined".               *)
(***************************************************************************)
EXTENDS ItemVisitors

CONSTANT Files   \* the files to verify

Number == {NoIndex} \cup Nat

Listed(s) == s \in Seq(Range(s))

List(s, S) == Listed(s) /\ Range(s) \subseteq S

\* The fields of an item, whatever it holds, are numbers and lists of numbers.
Fields(type, i) ==
  CASE type = "string_id" -> i.stringDataOff \in Nat
    [] type = "type_id" -> i.descriptorIdx \in Number
    [] type = "proto_id" -> {i.shortyIdx, i.returnTypeIdx} \subseteq Number /\ i.parametersOff \in Nat
    [] type = "field_id" -> {i.classIdx, i.typeIdx, i.nameIdx} \subseteq Number
    [] type = "method_id" -> {i.classIdx, i.protoIdx, i.nameIdx} \subseteq Number
    [] type = "class_def" ->
         /\ {i.classIdx, i.superclassIdx} \subseteq Number
         /\ {i.interfacesOff, i.annotationsOff, i.classDataOff, i.staticValuesOff} \subseteq Nat
    [] type = "type_list" -> List(i.list, Number)
    [] type = "string_data" -> i.string.rank \in Nat
    [] type = "annotation_set_ref_list" -> List(i.list, Nat)
    [] type = "annotation_set" -> List(i.entries, Nat)
    [] type = "class_data" ->
         /\ Listed(i.staticFields) /\ Listed(i.instanceFields)
         /\ Listed(i.directMethods) /\ Listed(i.virtualMethods)
         /\ \A f \in Range(i.staticFields) \cup Range(i.instanceFields) : f.idx \in Nat
         /\ \A m \in Range(i.directMethods) \cup Range(i.virtualMethods) :
              m.idx \in Nat /\ m.codeOff \in Nat
    [] type = "code" ->
         /\ i.insnsSize \in Nat /\ Listed(i.tries)
         /\ \A t \in Range(i.tries) : t.startAddr \in Nat /\ t.insnCount \in Nat
         /\ \A h \in Range(i.handlers) : List(h.addrs, Nat)
    [] type = "annotations_directory" ->
         /\ i.classAnnotationsOff \in Nat
         /\ Listed(i.fields) /\ Listed(i.methods) /\ Listed(i.parameters)
         /\ \A a \in Range(i.fields) \cup Range(i.methods) \cup Range(i.parameters) :
              a.idx \in Nat /\ a.annotationsOff \in Nat
    [] OTHER -> TRUE

\* No item is empty.
ASSUME FilesAssumption ==
  \A f \in Files :
    /\ {f.fileSize, f.fileLen, f.headerSize, f.mapOff} \subseteq Nat
    /\ {f.linkOff, f.linkSize, f.dataOff, f.dataSize} \subseteq Nat
    /\ f.map \in Seq(Range(f.map))
    /\ \A s \in Range(f.map) :
         /\ s.offset \in Nat
         /\ s.items \in Seq(Range(s.items))
         /\ \A i \in Range(s.items) :
              i # None /\ i.len \in Nat \ {0} /\ Fields(s.type, i)

VARIABLES
  phase,     \* what is done next, or how it ended
  section,   \* the section of the map that is visited
  item,      \* its next item; 0 before the section is begun
  offset,    \* lastOffset: where the next item or padding begins
  defined,   \* pDefinedClassBits
  swapped    \* history: the bytes of every item that was swapped, <<from, to>>

vars == <<file, dataMap, phase, section, item, offset, defined, swapped>>

HeaderSize == 112                                     \* sizeof(DexHeader)
MapListSize == 4 + 12 * Len(file.map)

-----------------------------------------------------------------------------
\* Magic, version, checksum and endian tag are right if the file is "checked".  An end
\* that wraps lies before its start, and is turned down like one behind the file.
swapDexHeader ==
  /\ file.checked
  /\ file.fileSize <= file.fileLen
  /\ file.linkOff + file.linkSize <= file.fileLen
  /\ file.dataOff + file.dataSize <= file.fileLen
  /\ file.headerSize >= HeaderSize
  /\ file.mapOff # 0

isDataSectionType(type) == type \notin IdTypes \cup {"header"}

ItemCount(map) ==
  FoldSeq(LAMBDA s, n : n + IF isDataSectionType(s.type) THEN Len(s.items) ELSE 0, 0, map)

\* The sections are known, of different types, in the order of their offsets,
\* and those that the header announces are there.  A list so long that its length in
\* bytes wraps gets past the first check, but a type comes up twice within 19 entries.
swapMap ==
  /\ file.mapOff + MapListSize <= file.fileLen
  /\ \A i \in 1..(Len(file.map) - 1) : file.map[i].offset < file.map[i + 1].offset
  /\ \A s \in Range(file.map) : s.offset < file.fileSize
  /\ ItemCount(file.map) <= file.dataSize
  /\ \A s \in Range(file.map) : s.type \in IdTypes \cup DataTypes \cup {"header"}
  /\ \A i, j \in DOMAIN file.map : file.map[i].type = file.map[j].type => i = j
  /\ {"header", "map_list"} \subseteq {s.type : s \in Range(file.map)}
  /\ \A t \in IdTypes : Sections(t) = {} => file.ids[t].off = 0 /\ file.ids[t].size = 0

-----------------------------------------------------------------------------
Init ==
  /\ file \in Files
  /\ dataMap = <<>>
  /\ phase = "start"
  /\ section = 1 /\ item = 0 /\ offset = 0
  /\ defined = {}
  /\ swapped = {}

Fail ==
  /\ phase' = "failed"
  /\ UNCHANGED <<file, dataMap, section, item, offset, defined, swapped>>

CheckHeader ==
  /\ phase = "start"
  /\ IF swapDexHeader
     THEN /\ phase' = "map"
          /\ UNCHANGED <<file, dataMap, section, item, offset, defined, swapped>>
     ELSE Fail

CheckMap ==
  /\ phase = "map"
  /\ IF swapMap
     THEN /\ phase' = "swap"
          /\ UNCHANGED <<file, dataMap, section, item, offset, defined, swapped>>
     ELSE Fail

-----------------------------------------------------------------------------
(***************************************************************************)
(* The first pass: swapEverythingButHeaderAndMap                           *)
(***************************************************************************)
Padding(from, to) == \A i \in from..(to - 1) : i \notin file.dirty

DataEnd == file.dataOff + file.dataSize

\* checkHeaderSection, checkMapSection, and what is checked of the bounds of
\* another section before its items are visited.
checkSection(s) ==
  CASE s.type = "header" -> Len(s.items) = 1 /\ s.offset = 0
    [] s.type = "map_list" -> Len(s.items) = 1 /\ s.offset = file.mapOff
    [] s.type \in IdTypes ->
         s.offset = file.ids[s.type].off /\ Len(s.items) = file.ids[s.type].size
    [] OTHER -> file.dataOff <= s.offset /\ s.offset < DataEnd

EndOfSwappedBefore(s) ==
  IF s.type = "header" THEN file.headerSize ELSE s.offset + MapListSize

\* Mutant: sections may overlap.
SectionBeginsAnywhere(s) == Padding(offset, s.offset) /\ checkSection(s)

SectionBegins(s) ==
  offset <= s.offset /\ Padding(offset, s.offset) /\ checkSection(s)

StartSection ==
  /\ phase = "swap" /\ item = 0 /\ section <= Len(file.map)
  /\ LET s == file.map[section]
     IN  IF ~SectionBegins(s) THEN Fail
         ELSE /\ IF s.type \in {"header", "map_list"}
                 THEN section' = section + 1 /\ offset' = EndOfSwappedBefore(s) /\ UNCHANGED item
                 ELSE section' = section /\ offset' = s.offset /\ item' = 1
              /\ UNCHANGED <<file, dataMap, phase, defined, swapped>>

ItemStart(s) == Aligned(s.type, offset)

SwapItem ==
  /\ phase = "swap" /\ section <= Len(file.map)
  /\ item \in DOMAIN file.map[section].items
  /\ LET s == file.map[section]
         start == ItemStart(s)
         end == start + s.items[item].len
     IN  IF /\ Padding(offset, start)
            /\ end <= file.fileLen
            /\ IntraVerify(s.type, s.items[item])
         THEN /\ dataMap' = IF isDataSectionType(s.type) THEN dexDataMapAdd(start, s.type)
                            ELSE dataMap
              /\ offset' = end
              /\ item' = item + 1
              /\ swapped' = swapped \cup {<<start, end>>}
              /\ UNCHANGED <<file, phase, section, defined>>
         ELSE Fail

EndSection ==
  /\ phase = "swap" /\ section <= Len(file.map) /\ item > Len(file.map[section].items)
  /\ IF isDataSectionType(file.map[section].type) /\ offset > DataEnd THEN Fail
     ELSE /\ section' = section + 1
          /\ item' = 0
          /\ UNCHANGED <<file, dataMap, phase, offset, defined, swapped>>

\* dexFileSetupBasicPointers, then the second pass.
EndSwap ==
  /\ phase = "swap" /\ section > Len(file.map)
  /\ phase' = "cross"
  /\ section' = 1
  /\ item' = 1
  /\ UNCHANGED <<file, dataMap, offset, defined, swapped>>

-----------------------------------------------------------------------------
(***************************************************************************)
(* The second pass: crossVerifyEverything                                  *)
(***************************************************************************)
VerifiedOff(off, type) == IF off # 0 /\ dexDataMapVerify0Ok(off, type) THEN {ItemAt(type, off)}
                          ELSE {}

ListedTypes(off) == UNION {Range(l.list) : l \in VerifiedOff(off, "type_list")}

DataFields(data) == {f.idx : f \in Range(data.staticFields \o data.instanceFields)}

\* The types whose descriptors a visitor reads, the strings it reads besides,
\* the fields it looks up.
TypesRead(type, i) ==
  CASE type = "proto_id" -> {i.returnTypeIdx} \cup ListedTypes(i.parametersOff)
    [] type = "field_id" -> {i.classIdx, i.typeIdx}
    [] type = "method_id" -> {i.classIdx}
    [] type = "class_def" -> {i.classIdx} \cup ({i.superclassIdx} \ {NoIndex})
                                          \cup ListedTypes(i.interfacesOff)
    [] OTHER -> {}

StringsRead(type, i) ==
  CASE type = "type_id" -> {i.descriptorIdx}
    [] type = "proto_id" -> {i.shortyIdx}
    [] type \in {"field_id", "method_id"} -> {i.nameIdx}
    [] OTHER -> {}

FieldsRead(type, i) ==
  CASE type = "class_data" -> DataFields(i)
    [] type = "class_def" -> UNION {DataFields(d) : d \in VerifiedOff(i.classDataOff, "class_data")}
    [] type = "annotations_directory" -> {a.idx : a \in Range(i.fields)}
    [] OTHER -> {}

StringReadable(idx) ==
  /\ HasEntry("string_id", idx)
  /\ ItemsAt("string_data", Entry("string_id", idx).stringDataOff) # {}

TypeReadable(idx) ==
  HasEntry("type_id", idx) /\ StringReadable(Entry("type_id", idx).descriptorIdx)

Readable(type, i) ==
  /\ \A t \in TypesRead(type, i) : TypeReadable(t)
  /\ \A s \in StringsRead(type, i) : StringReadable(s)
  /\ \A f \in FieldsRead(type, i) : HasEntry("field_id", f)

Crossing == phase = "cross" /\ section <= Len(file.map)

\* Sections without need of cross-verification are passed over; the bit set
\* of the classes defined is empty when their section begins.
EndCrossSection ==
  /\ Crossing
  /\ file.map[section].type \notin CrossTypes \/ item > Len(file.map[section].items)
  /\ section' = section + 1
  /\ item' = 1
  /\ UNCHANGED <<file, dataMap, phase, offset, defined, swapped>>

Previous(s) == IF item = 1 THEN None ELSE s.items[item - 1]

CrossItem ==
  /\ Crossing
  /\ LET s == file.map[section]
     IN  /\ s.type \in CrossTypes /\ item <= Len(s.items)
         /\ Readable(s.type, s.items[item])
         /\ IF CrossVerify(s.type, s.items[item], Previous(s), defined)
            THEN /\ item' = item + 1
                 /\ defined' = IF s.type = "class_def" THEN defined \cup {s.items[item].classIdx}
                               ELSE defined
                 /\ UNCHANGED <<file, dataMap, phase, section, offset, swapped>>
            ELSE Fail

CrossItemUnverified ==
  /\ Crossing
  /\ LET s == file.map[section]
     IN  s.type \in CrossTypes /\ item <= Len(s.items) /\ ~Readable(s.type, s.items[item])
  /\ phase' = "undefined"
  /\ UNCHANGED <<file, dataMap, section, item, offset, defined, swapped>>

Accept ==
  /\ phase = "cross" /\ section > Len(file.map)
  /\ phase' = "accepted"
  /\ UNCHANGED <<file, dataMap, section, item, offset, defined, swapped>>

-----------------------------------------------------------------------------
\* The data map is allocated with no byte of room, the bit set with a byte for
\* every word of it, and so is the list of the handlers of a code item.
Overrun ==
  /\ phase \in {"swap", "cross"} /\ section <= Len(file.map)
  /\ LET s == file.map[section]
     IN  /\ item \in DOMAIN s.items
         /\ IF phase = "swap" THEN isDataSectionType(s.type) ELSE s.type = "class_def" /\ item = 1
  /\ phase' = "overrun"
  /\ UNCHANGED <<file, dataMap, section, item, offset, defined, swapped>>

Next ==
  \/ CheckHeader \/ CheckMap
  \/ StartSection \/ SwapItem \/ EndSection \/ EndSwap
  \/ CrossItem \/ CrossItemUnverified \/ EndCrossSection \/ Accept
  \/ Overrun

Spec == Init /\ [][Next]_vars

-----------------------------------------------------------------------------
(***************************************************************************)
(* Properties                                                              *)
(***************************************************************************)

Items(type) == UNION {Range(s.items) : s \in Sections(type)}

\* The offsets in an item, without those that may be and are 0, and what they must lead to.
\* The debugInfoOff of a code item is not among them: no visitor looks at it again.
References(type, i) ==
  CASE type = "string_id" -> {<<i.stringDataOff, "string_data">>}
    [] type = "proto_id" -> {<<i.parametersOff, "type_list">>} \ {<<0, "type_list">>}
    [] type = "class_def" ->
         {r \in {<<i.interfacesOff, "type_list">>, <<i.annotationsOff, "annotations_directory">>,
                 <<i.classDataOff, "class_data">>, <<i.staticValuesOff, "encoded_array">>} :
            r[1] # 0}
    [] type = "annotation_set_ref_list" -> {<<o, "annotation_set">> : o \in Range(i.list) \ {0}}
    [] type = "annotation_set" -> {<<o, "annotation">> : o \in Range(i.entries) \ {0}}
    [] type = "class_data" ->
         {<<o, "code">> : o \in {m.codeOff : m \in Range(i.directMethods \o i.virtualMethods)} \ {0}}
    [] type = "annotations_directory" ->
         {<<a.annotationsOff, "annotation_set">> : a \in Range(i.fields \o i.methods)}
           \cup {<<a.annotationsOff, "annotation_set_ref_list">> : a \in Range(i.parameters)}
           \cup ({<<i.classAnnotationsOff, "annotation_set">>} \ {<<0, "annotation_set">>})
    [] OTHER -> {}

ReferencesLead ==
  \A s \in Range(file.map) : \A i \in Range(s.items) :
    \A r \in References(s.type, i) : ItemsAt(r[2], r[1]) # {}

Rank(stringIdx) == String(stringIdx).rank
TypeRank(typeIdx) == Rank(Entry("type_id", typeIdx).descriptorIdx)
MemberRank(i, last) == <<TypeRank(i.classIdx), Rank(i.nameIdx), last>>

\* What a lookup by name may rely on: the tables are in the order of the names that
\* their entries stand for, so that no two entries are alike.
InOrderOfNames ==
  LET Ordered(type, Key(_)) ==
        \A s \in Sections(type) : \A i, j \in DOMAIN s.items :
          i < j => LexLess(Key(s.items[i]), Key(s.items[j]))
  IN  /\ Ordered("string_id", LAMBDA i : <<StringAt(i.stringDataOff).rank>>)
      /\ Ordered("type_id", LAMBDA i : <<Rank(i.descriptorIdx)>>)
      /\ Ordered("proto_id", LAMBDA i :
           [k \in 1..(1 + Len(TypeList(i.parametersOff))) |->
              TypeRank(IF k = 1 THEN i.returnTypeIdx ELSE TypeList(i.parametersOff)[k - 1])])
      /\ Ordered("field_id", LAMBDA i : MemberRank(i, TypeRank(i.typeIdx)))
      /\ Ordered("method_id", LAMBDA i : MemberRank(i, i.protoIdx))

\* A class has one definition, and what its definition leads to is of the class.
OfItsClass ==
  \A s \in Sections("class_def") : \A k \in DOMAIN s.items :
    LET c == s.items[k]
        OfClass(fields, methods) ==
          /\ \A f \in Range(fields) : Entry("field_id", f.idx).classIdx = c.classIdx
          /\ \A m \in Range(methods) : Entry("method_id", m.idx).classIdx = c.classIdx
    IN  /\ \A j \in DOMAIN s.items \ {k} : s.items[j].classIdx # c.classIdx
        /\ \A d \in ItemsAt("class_data", c.classDataOff) :
             OfClass(d.staticFields \o d.instanceFields, d.directMethods \o d.virtualMethods)
        /\ \A d \in ItemsAt("annotations_directory", c.annotationsOff) :
             OfClass(d.fields, d.methods \o d.parameters)

\* At most one try, with one of the handlers, is in force at an instruction, and
\* every handler is in the method.
OneTryAtATime ==
  \A c \in Items("code") :
    LET covered(t) == t.startAddr..(t.startAddr + t.insnCount - 1)
    IN  /\ \A j, k \in DOMAIN c.tries : j # k => covered(c.tries[j]) \cap covered(c.tries[k]) = {}
        /\ \A t \in Range(c.tries) :
             /\ covered(t) \subseteq 0..(c.insnsSize - 1)
             /\ \E h \in Range(c.handlers) :
                  h.off = t.handlerOff /\ Range(h.addrs) \subseteq 0..(c.insnsSize - 1)

\* crossVerifyEverything rests on swapEverythingButHeaderAndMap and on the order in which
\* it goes through the sections itself: of a file that passes both, every offset leads to
\* the start of an item of the right type, the tables are in the order of names, what a
\* class leads to is its own, and no two tries of a method overlap.
AcceptedIsSound ==
  phase = "accepted" => ReferencesLead /\ InOrderOfNames /\ OfItsClass /\ OneTryAtATime

-----------------------------------------------------------------------------
(***************************************************************************)
(* What the format asks of a file, said of the file as a whole: not by     *)
(* offsets that grow, the data map, or an item and the one before it.      *)
(***************************************************************************)

\* Where the item before ends, or the section begins.
Behind(s, i) == IF i = 1 THEN s.offset ELSE Starts(s)[i - 1] + s.items[i - 1].len

EndOf(s) ==
  IF s.type \in {"header", "map_list"} THEN EndOfSwappedBefore(s)
  ELSE Behind(s, Len(s.items) + 1)

\* The sections are of different types and lie one behind the other, those with data in
\* the data section, with zeros between them and between their items; the header knows
\* where they are.
SectionsLaidOut ==
  /\ file.checked /\ file.headerSize = HeaderSize
  /\ ItemCount(file.map) <= file.dataSize /\ file.linkOff + file.linkSize <= file.fileSize
  /\ DataEnd <= file.fileSize /\ file.fileSize <= file.fileLen
  /\ \A k \in DOMAIN file.map :
       LET s == file.map[k]
           from == IF k = 1 THEN 0 ELSE EndOf(file.map[k - 1])
       IN  /\ s.type \in IdTypes \cup DataTypes \cup {"header"}
           /\ \A j \in DOMAIN file.map \ {k} : file.map[j].type # s.type
           /\ s.items # <<>>
           /\ from <= s.offset /\ Padding(from, s.offset)
           /\ s.type \in DataTypes => file.dataOff <= s.offset
           /\ EndOf(s) <= IF s.type \in DataTypes THEN DataEnd ELSE file.fileSize
           /\ s.type \notin {"header", "map_list"} =>
                \A i \in DOMAIN s.items : Padding(Behind(s, i), Starts(s)[i])
  /\ \E s \in Sections("header") : s.offset = 0 /\ Len(s.items) = 1
  /\ \E s \in Sections("map_list") : s.offset = file.mapOff /\ Len(s.items) = 1
  /\ \A type \in IdTypes :
       IF Sections(type) = {} THEN file.ids[type].off = 0 /\ file.ids[type].size = 0
       ELSE \E s \in Sections(type) :
              file.ids[type].off = s.offset /\ file.ids[type].size = Len(s.items)

\* Every item has what its own visitor asks for, but for the tries of a method: they go up,
\* and OneTryAtATime says how.
RightByThemselves ==
  /\ \A s \in Range(file.map) : s.type \notin {"header", "map_list", "code"} =>
       \A i \in Range(s.items) : IntraVerify(s.type, i)
  /\ \A d \in Items("class_data") : \A f \in Range(d.instanceFields) : Index(f.idx, "field_id")
  /\ OneTryAtATime
  /\ \A c \in Items("code") : c.tries # <<>> =>
       /\ c.wellFormed
       /\ \A h \in Range(c.handlers) :
            AllIndex(h.types, "type_id") /\ Range(h.addrs) \subseteq 0..(c.insnsSize - 1)
       /\ \A t \in Range(c.tries) : t.insnCount # 0
       /\ \A j, k \in DOMAIN c.tries : j < k => c.tries[j].startAddr < c.tries[k].startAddr

\* Strings are what they are used as: descriptors, shorties, names of members.
StringsFit ==
  /\ \A i \in Items("type_id") : dexIsValidTypeDescriptor(String(i.descriptorIdx).descriptor)
  /\ \A i \in Items("proto_id") :
       LET shorty == String(i.shortyIdx).shorty
           types == <<i.returnTypeIdx>> \o TypeList(i.parametersOff)
       IN  /\ Len(shorty) = Len(types)
           /\ \A k \in DOMAIN types : shortyDescMatch(shorty[k], Descriptor(types[k]), k = 1)
  /\ \A i \in Items("field_id") :
       /\ dexIsClassDescriptor(Descriptor(i.classIdx))
       /\ dexIsFieldDescriptor(Descriptor(i.typeIdx))
       /\ String(i.nameIdx).name
  /\ \A i \in Items("method_id") :
       dexIsReferenceDescriptor(Descriptor(i.classIdx)) /\ String(i.nameIdx).name
  /\ \A i \in Items("class_def") :
       LET interfaces == TypeList(i.interfacesOff)
       IN  /\ \A t \in {i.classIdx} \cup ({i.superclassIdx} \ {NoIndex}) \cup Range(interfaces) :
                dexIsClassDescriptor(Descriptor(t))
           /\ IsInjective(interfaces)

\* The annotations of a set are in the order of their types.
AnnotationsInOrder ==
  \A x \in Items("annotation_set") :
    /\ 0 \notin Range(x.entries)
    /\ \A j, k \in DOMAIN x.entries : j < k =>
         ItemAt("annotation", x.entries[j]).typeIdx < ItemAt("annotation", x.entries[k]).typeIdx

ClassesOf(fields, methods) ==
  {Entry("field_id", f.idx).classIdx : f \in Range(fields)}
    \cup {Entry("method_id", m.idx).classIdx : m \in Range(methods)}

\* All that an item of class data, or of annotations, is about is of one class.
OneClassEach ==
  /\ \A d \in Items("class_data") :
       \A c1, c2 \in ClassesOf(d.staticFields \o d.instanceFields,
                               d.directMethods \o d.virtualMethods) : c1 = c2
  /\ \A d \in Items("annotations_directory") :
       \A c1, c2 \in ClassesOf(d.fields, d.methods \o d.parameters) : c1 = c2

AsTheFormatSays ==
  /\ SectionsLaidOut /\ RightByThemselves
  /\ ReferencesLead /\ InOrderOfNames /\ OfItsClass
  /\ StringsFit /\ AnnotationsInOrder /\ OneClassEach

\* No check is too strict: a file as a compiler writes it is not turned down, whatever
\* parts it leaves out, and nothing unverified is read for it.
WellFormedAccepted == phase \in {"failed", "undefined"} => ~AsTheFormatSays

\* swapEverythingButHeaderAndMap swaps in place: of a file that it lets through no byte
\* was swapped twice, none of the header or of the map list was swapped again, and every
\* item was.
SwappedOnce ==
  phase \in {"cross", "accepted"} =>
    /\ \A p, q \in swapped \cup {<<0, HeaderSize>>, <<file.mapOff, file.mapOff + MapListSize>>} :
         p = q \/ p[2] <= q[1] \/ q[2] <= p[1]
    /\ \A s \in Range(file.map) : s.type \notin {"header", "map_list"} =>
         \A i \in DOMAIN s.items : \E p \in swapped : p[1] = Starts(s)[i]

\* dexDataMapAdd drops what comes out of order and dexDataMapGet searches by halves: once
\* the first pass is over, an offset is found, with its type, exactly if an item of the
\* data section begins there.
DataMapComplete ==
  phase = "cross" /\ section = 1 =>
    \A o \in 0..file.fileLen :
      IF \E t \in DataTypes \ {"map_list"} : ItemsAt(t, o) # {}
      THEN ItemsAt(dexDataMapGet(o), o) # {}
      ELSE dexDataMapGet(o) = None

Position(type) ==
  IF Sections(type) = {} THEN 0 ELSE CHOOSE k \in DOMAIN file.map : file.map[k].type = type

\* The comments of crossVerifyEverything and of its visitors say that what they read has
\* been verified.  So it has, with two exceptions: strings are read when their table does
\* not come before the others, and the indices of instance fields, of which
\* verifyClassDataItem0 drops the verdict.
ReadsVerified ==
  phase = "undefined" =>
    \/ \E t \in {"type_id", "proto_id", "field_id", "method_id", "class_def"} :
         Sections(t) # {} /\ Position(t) < Position("string_id")
    \/ \E d \in Items("class_data") : \E f \in Range(d.instanceFields) :
         ~Index(f.idx, "field_id")
=============================================================================
