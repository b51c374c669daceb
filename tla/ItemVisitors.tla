---------------------------- MODULE ItemVisitors ----------------------------
(***************************************************************************)
(* The item visitors of src/libdex/DexSwapVerify.cpp, the data map of      *)
(* src/libdex/DexDataMap.cpp that the second half of them asks, and the    *)
(* file that both look at.                                                 *)
(*                                                                         *)
(* The first visit of an item swaps its fields and checks what can be      *)
(* checked by itself ("intra"); the second follows its references          *)
(* ("cross").  A visitor is an operator that says whether it accepts.      *)
(***************************************************************************)
EXTENDS Integers, Sequences, FiniteSets, SequencesExt

CONSTANTS
  NoIndex,   \* kDexNoIndex
  None,      \* no previous item, no entry in the data map
  BigEndian  \* whether SWAP2 and SWAP4 swap on the machine that verifies

ASSUME BigEndianAssumption == BigEndian \in BOOLEAN

VARIABLES
  file,      \* the file: its header, its map and what the map's sections hold
  dataMap    \* DexDataMap: offsets and types, in the order of their adding

IdTypes == {"string_id", "type_id", "proto_id", "field_id", "method_id", "class_def"}

DataTypes == {"map_list", "type_list", "annotation_set_ref_list", "annotation_set",
              "class_data", "code", "string_data", "debug_info", "annotation",
              "encoded_array", "annotations_directory"}

ASSUME NoneAssumption == None \notin DataTypes

-----------------------------------------------------------------------------
(***************************************************************************)
(* The file.  A section of the map has as many items as the map says; how  *)
(* long an item is (len, in bytes), and its fields, is what a visitor of   *)
(* the section's type reads there, whatever else may be stored there.      *)
(***************************************************************************)
Unaligned == {"class_data", "string_data", "debug_info", "annotation", "encoded_array"}

Aligned(type, offset) == IF type \in Unaligned THEN offset ELSE 4 * ((offset + 3) \div 4)

\* Where the items of a section begin.
Starts(s) ==
  LET start[i \in 1..Len(s.items)] ==
        Aligned(s.type, IF i = 1 THEN s.offset ELSE start[i - 1] + s.items[i - 1].len)
  IN  start

Sections(type) == {s \in Range(file.map) : s.type = type}

ItemsAt(type, offset) ==
  UNION {{s.items[i] : i \in {j \in DOMAIN s.items : Starts(s)[j] = offset}} :
           s \in Sections(type)}

ItemAt(type, offset) == CHOOSE item \in ItemsAt(type, offset) : TRUE

\* An entry of one of the tables that the header points to.
Entry(type, idx) == (CHOOSE s \in Sections(type) : TRUE).items[idx + 1]

HasEntry(type, idx) == \E s \in Sections(type) : idx < Len(s.items)

\* CHECK_INDEX and CHECK_INDEX_OR_NOINDEX.
Index(idx, type) == idx # NoIndex /\ idx < file.ids[type].size
IndexOrNone(idx, type) == idx = NoIndex \/ Index(idx, type)

-----------------------------------------------------------------------------
(***************************************************************************)
(* The data map                                                            *)
(***************************************************************************)

\* An offset that is not above the last is dropped.
dexDataMapAdd(offset, type) ==
  IF dataMap # <<>> /\ dataMap[Len(dataMap)].offset >= offset THEN dataMap
  ELSE Append(dataMap, [offset |-> offset, type |-> type])

\* Mutant: the upper half of the search starts one too high.
dexDataMapGetSkipping(offset) ==
  LET search[range \in (1..(Len(dataMap) + 2)) \X (0..Len(dataMap))] ==
        LET min == range[1]
            max == range[2]
            guess == (min + max) \div 2
        IN  IF max < min THEN None
            ELSE IF offset < dataMap[guess].offset THEN search[<<min, guess - 1>>]
            ELSE IF offset > dataMap[guess].offset THEN search[<<guess + 2, max>>]
            ELSE dataMap[guess].type
  IN  search[<<1, Len(dataMap)>>]

\* A binary search.
dexDataMapGet(offset) ==
  LET search[range \in (1..(Len(dataMap) + 1)) \X (0..Len(dataMap))] ==
        LET min == range[1]
            max == range[2]
            guess == (min + max) \div 2
        IN  IF max < min THEN None
            ELSE IF offset < dataMap[guess].offset THEN search[<<min, guess - 1>>]
            ELSE IF offset > dataMap[guess].offset THEN search[<<guess + 1, max>>]
            ELSE dataMap[guess].type
  IN  search[<<1, Len(dataMap)>>]

dexDataMapVerify(offset, type) == dexDataMapGet(offset) = type
dexDataMapVerify0Ok(offset, type) == offset = 0 \/ dexDataMapVerify(offset, type)

-----------------------------------------------------------------------------
(***************************************************************************)
(* Intra-item verification                                                 *)
(***************************************************************************)
Increasing(s) == \A i \in 1..(Len(s) - 1) : s[i] < s[i + 1]
Indices(list) == [i \in DOMAIN list |-> list[i].idx]
AllIndex(s, type) == \A i \in DOMAIN s : Index(s[i], type)

swapStringIdItem(item) == TRUE

swapTypeIdItem(item) == Index(item.descriptorIdx, "string_id")

swapProtoIdItem(item) ==
  Index(item.shortyIdx, "string_id") /\ Index(item.returnTypeIdx, "type_id")

swapFieldIdItem(item) ==
  /\ Index(item.classIdx, "type_id")
  /\ Index(item.typeIdx, "type_id")
  /\ Index(item.nameIdx, "string_id")

swapMethodIdItem(item) ==
  /\ Index(item.classIdx, "type_id")
  /\ Index(item.protoIdx, "proto_id")
  /\ Index(item.nameIdx, "string_id")

\* staticValuesOff is not swapped.
swapClassDefItem(item) ==
  /\ Index(item.classIdx, "type_id")
  /\ IndexOrNone(item.superclassIdx, "type_id")
  /\ IndexOrNone(item.sourceFileIdx, "string_id")

\* swapFieldAnnotations, swapMethodAnnotations and swapParameterAnnotations.
swapAnnotations(list, type) ==
  AllIndex(Indices(list), type) /\ Increasing(Indices(list))

swapAnnotationsDirectoryItem(item) ==
  /\ swapAnnotations(item.fields, "field_id")
  /\ swapAnnotations(item.methods, "method_id")
  /\ swapAnnotations(item.parameters, "method_id")

swapTypeList(item) == AllIndex(item.list, "type_id")

swapAnnotationSetRefList(item) == TRUE

swapAnnotationSetItem(item) == TRUE

\* A field's flags make it static or not, or are bogus.
verifyFields(fields, kind) ==
  AllIndex(Indices(fields), "field_id") /\ \A i \in DOMAIN fields : fields[i].kind = kind

\* A method's flags make it direct or virtual, with code or without, or are bogus.
verifyMethods(methods, kind) ==
  /\ AllIndex(Indices(methods), "method_id")
  /\ \A i \in DOMAIN methods :
       methods[i].kind = kind /\ (methods[i].expectCode <=> methods[i].codeOff # 0)

\* Mutant: no result is looked at but the last.
verifyClassDataItemLast(item) == verifyMethods(item.virtualMethods, "virtual")

\* What verifyFields says of the instance fields is not looked at.
verifyClassDataItem0(item) ==
  /\ verifyFields(item.staticFields, "static")
  /\ verifyMethods(item.directMethods, "direct")
  /\ verifyMethods(item.virtualMethods, "virtual")

\* LEB128 values that are too long, or end beyond the file, are not well-formed.
intraVerifyClassDataItem(item) == item.wellFormed /\ verifyClassDataItem0(item)

setHandlerOffsAndVerify(item) ==
  \A h \in Range(item.handlers) :
    /\ AllIndex(h.types, "type_id")
    /\ \A a \in Range(h.addrs) : a < item.insnsSize

HandlerOffs(item) == {h.off : h \in Range(item.handlers)}

\* Mutant: a try may not begin where the one before ends.
swapTriesApart(item) ==
  /\ item.wellFormed /\ item.handlers # <<>>
  /\ setHandlerOffsAndVerify(item)
  /\ \A i \in DOMAIN item.tries :
       LET try == item.tries[i]
       IN  /\ i > 1 => try.startAddr > item.tries[i - 1].startAddr + item.tries[i - 1].insnCount
           /\ try.startAddr < item.insnsSize
           /\ try.handlerOff \in HandlerOffs(item)
           /\ try.startAddr + try.insnCount <= item.insnsSize

\* Tries in order and apart, each with one of the handlers.
swapTriesAndCatches(item) ==
  /\ item.wellFormed /\ item.handlers # <<>>
  /\ setHandlerOffsAndVerify(item)
  /\ \A i \in DOMAIN item.tries :
       LET try == item.tries[i]
       IN  /\ i > 1 => try.startAddr >= item.tries[i - 1].startAddr + item.tries[i - 1].insnCount
           /\ try.startAddr < item.insnsSize
           /\ try.handlerOff \in HandlerOffs(item)
           /\ try.startAddr + try.insnCount <= item.insnsSize

\* The spacer before the tries is part of what makes the item well-formed.
swapCodeItem(item) == item.tries # <<>> => swapTriesAndCatches(item)

\* Modified UTF-8 of the length announced.
intraVerifyStringDataItem(item) == item.wellFormed

\* Names of parameters and locals, types and signatures, files: all of them strings.
intraVerifyDebugInfoItem(item) ==
  item.wellFormed /\ \A i \in DOMAIN item.strings : IndexOrNone(item.strings[i], "string_id")

\* The leaves of an encoded array or annotation, however deep.
verifyEncodedValues(values) == \A v \in Range(values) : Index(v.idx, v.table)

verifyEncodedAnnotation(item) ==
  /\ Index(item.typeIdx, "type_id")
  /\ AllIndex(item.names, "string_id") /\ Increasing(item.names)
  /\ verifyEncodedValues(item.values)

intraVerifyEncodedArrayItem(item) == item.wellFormed /\ verifyEncodedValues(item.values)

\* The visibility is part of what makes the item well-formed.
intraVerifyAnnotationItem(item) == item.wellFormed /\ verifyEncodedAnnotation(item)

IntraVerify(type, item) ==
  CASE type = "string_id" -> swapStringIdItem(item)
    [] type = "type_id" -> swapTypeIdItem(item)
    [] type = "proto_id" -> swapProtoIdItem(item)
    [] type = "field_id" -> swapFieldIdItem(item)
    [] type = "method_id" -> swapMethodIdItem(item)
    [] type = "class_def" -> swapClassDefItem(item)
    [] type = "type_list" -> swapTypeList(item)
    [] type = "annotation_set_ref_list" -> swapAnnotationSetRefList(item)
    [] type = "annotation_set" -> swapAnnotationSetItem(item)
    [] type = "class_data" -> intraVerifyClassDataItem(item)
    [] type = "code" -> swapCodeItem(item)
    [] type = "string_data" -> intraVerifyStringDataItem(item)
    [] type = "debug_info" -> intraVerifyDebugInfoItem(item)
    [] type = "annotation" -> intraVerifyAnnotationItem(item)
    [] type = "encoded_array" -> intraVerifyEncodedArrayItem(item)
    [] type = "annotations_directory" -> swapAnnotationsDirectoryItem(item)

-----------------------------------------------------------------------------
(***************************************************************************)
(* Cross-item verification.  Of a string the visitors ask for its place in *)
(* the order of strings, what it describes if it is a type descriptor,     *)
(* its letters if it is a shorty, and whether a member may have that name. *)
(***************************************************************************)
StringAt(offset) == ItemAt("string_data", offset).string
String(idx) == StringAt(Entry("string_id", idx).stringDataOff)
Descriptor(typeIdx) == String(Entry("type_id", typeIdx).descriptorIdx).descriptor

dexIsValidTypeDescriptor(d) == d # "none"
dexIsReferenceDescriptor(d) == d \in {"class", "array"}
dexIsClassDescriptor(d) == d = "class"
dexIsFieldDescriptor(d) == d \in {"class", "array", "primitive"}

crossVerifyStringIdItem(item, previous) ==
  /\ dexDataMapVerify(item.stringDataOff, "string_data")
  /\ previous # None =>
       StringAt(previous.stringDataOff).rank < StringAt(item.stringDataOff).rank

crossVerifyTypeIdItem(item, previous) ==
  /\ dexIsValidTypeDescriptor(String(item.descriptorIdx).descriptor)
  /\ previous # None => previous.descriptorIdx < item.descriptorIdx

\* One letter stands for all primitive types.
shortyDescMatch(shorty, descriptor, isReturnType) ==
  \/ shorty = "V" /\ descriptor = "void" /\ isReturnType
  \/ shorty = "I" /\ descriptor = "primitive"
  \/ shorty = "L" /\ descriptor \in {"class", "array"}

TypeList(offset) == IF offset = 0 THEN <<>> ELSE ItemAt("type_list", offset).list

\* s comes before t as words do in a dictionary.
LexLess(s, t) ==
  \E i \in DOMAIN t :
    /\ \A j \in 1..(i - 1) : j \in DOMAIN s /\ s[j] = t[j]
    /\ i \in DOMAIN s => s[i] < t[i]

\* Mutant: equal prototypes are let through.
ProtoOrderLax(previous, item) ==
  ~LexLess(<<item.returnTypeIdx>> \o TypeList(item.parametersOff),
           <<previous.returnTypeIdx>> \o TypeList(previous.parametersOff))

ProtoOrder(previous, item) ==
  LexLess(<<previous.returnTypeIdx>> \o TypeList(previous.parametersOff),
          <<item.returnTypeIdx>> \o TypeList(item.parametersOff))

crossVerifyProtoIdItem(item, previous) ==
  /\ dexDataMapVerify0Ok(item.parametersOff, "type_list")
  /\ LET shorty == String(item.shortyIdx).shorty
         types == <<item.returnTypeIdx>> \o TypeList(item.parametersOff)
     IN  /\ Len(shorty) = Len(types)
         /\ \A i \in DOMAIN types : shortyDescMatch(shorty[i], Descriptor(types[i]), i = 1)
  /\ previous # None => ProtoOrder(previous, item)

crossVerifyFieldIdItem(item, previous) ==
  /\ dexIsClassDescriptor(Descriptor(item.classIdx))
  /\ dexIsFieldDescriptor(Descriptor(item.typeIdx))
  /\ String(item.nameIdx).name
  /\ previous # None => LexLess(<<previous.classIdx, previous.nameIdx, previous.typeIdx>>,
                                <<item.classIdx, item.nameIdx, item.typeIdx>>)

crossVerifyMethodIdItem(item, previous) ==
  /\ dexIsReferenceDescriptor(Descriptor(item.classIdx))
  /\ String(item.nameIdx).name
  /\ previous # None => LexLess(<<previous.classIdx, previous.nameIdx, previous.protoIdx>>,
                                <<item.classIdx, item.nameIdx, item.protoIdx>>)

\* The class of the first field or method that is mentioned.
FirstDefiner(fields, methods) ==
  IF fields # <<>> THEN Entry("field_id", fields[1].idx).classIdx
  ELSE IF methods # <<>> THEN Entry("method_id", methods[1].idx).classIdx
  ELSE NoIndex

findFirstClassDataDefiner(item) ==
  FirstDefiner(item.staticFields \o item.instanceFields,
               item.directMethods \o item.virtualMethods)

findFirstAnnotationsDirectoryDefiner(item) ==
  FirstDefiner(item.fields, item.methods \o item.parameters)

verifyClassDataIsForDef(offset, classIdx) ==
  offset = 0 \/ findFirstClassDataDefiner(ItemAt("class_data", offset)) \in {classIdx, NoIndex}

verifyAnnotationsDirectoryIsForDef(offset, classIdx) ==
  offset = 0 \/ findFirstAnnotationsDirectoryDefiner(ItemAt("annotations_directory", offset))
                  \in {classIdx, NoIndex}

\* The four bytes of an offset the other way round.
SWAP4(off) == 2^24 * (off % 256) + 2^16 * ((off \div 2^8) % 256)
                + 2^8 * ((off \div 2^16) % 256) + off \div 2^24

\* The offset of the static values, which swapClassDefItem leaves as it is in the file.
StaticValuesOff(item) ==
  IF BigEndian THEN SWAP4(item.staticValuesOff) ELSE item.staticValuesOff

\* defined are the classes of the definitions before.
crossVerifyClassDefItem(item, defined) ==
  /\ dexIsClassDescriptor(Descriptor(item.classIdx))
  /\ item.classIdx \notin defined
  /\ dexDataMapVerify0Ok(item.interfacesOff, "type_list")
  /\ dexDataMapVerify0Ok(item.annotationsOff, "annotations_directory")
  /\ dexDataMapVerify0Ok(item.classDataOff, "class_data")
  /\ dexDataMapVerify0Ok(StaticValuesOff(item), "encoded_array")
  /\ item.superclassIdx # NoIndex => dexIsClassDescriptor(Descriptor(item.superclassIdx))
  /\ LET interfaces == TypeList(item.interfacesOff)
     IN  /\ \A i \in DOMAIN interfaces : dexIsClassDescriptor(Descriptor(interfaces[i]))
         /\ IsInjective(interfaces)
  /\ verifyClassDataIsForDef(item.classDataOff, item.classIdx)
  /\ verifyAnnotationsDirectoryIsForDef(item.annotationsOff, item.classIdx)

verifyFieldDefiner(definingClass, idx) == Entry("field_id", idx).classIdx = definingClass
verifyMethodDefiner(definingClass, idx) == Entry("method_id", idx).classIdx = definingClass

crossVerifyAnnotationsDirectoryItem(item) ==
  LET definingClass == findFirstAnnotationsDirectoryDefiner(item)
  IN  /\ dexDataMapVerify0Ok(item.classAnnotationsOff, "annotation_set")
      /\ \A a \in Range(item.fields) :
           /\ verifyFieldDefiner(definingClass, a.idx)
           /\ dexDataMapVerify(a.annotationsOff, "annotation_set")
      /\ \A a \in Range(item.methods) :
           /\ verifyMethodDefiner(definingClass, a.idx)
           /\ dexDataMapVerify(a.annotationsOff, "annotation_set")
      /\ \A a \in Range(item.parameters) :
           /\ verifyMethodDefiner(definingClass, a.idx)
           /\ dexDataMapVerify(a.annotationsOff, "annotation_set_ref_list")

crossVerifyAnnotationSetRefList(item) ==
  \A off \in Range(item.list) : dexDataMapVerify0Ok(off, "annotation_set")

\* At offset 0 is the header: its "dex\n", read as an annotation.
annotationItemTypeIdx(offset) ==
  IF offset = 0 THEN 101 ELSE ItemAt("annotation", offset).typeIdx

crossVerifyAnnotationSetItem(item) ==
  /\ \A off \in Range(item.entries) : dexDataMapVerify0Ok(off, "annotation")
  /\ Increasing([i \in DOMAIN item.entries |-> annotationItemTypeIdx(item.entries[i])])

crossVerifyClassDataItem(item) ==
  LET definingClass == findFirstClassDataDefiner(item)
  IN  /\ \A f \in Range(item.staticFields \o item.instanceFields) :
           verifyFieldDefiner(definingClass, f.idx)
      /\ \A m \in Range(item.directMethods \o item.virtualMethods) :
           /\ dexDataMapVerify0Ok(m.codeOff, "code")
           /\ verifyMethodDefiner(definingClass, m.idx)

CrossTypes == IdTypes \cup {"annotation_set_ref_list", "annotation_set", "class_data",
                            "annotations_directory"}

CrossVerify(type, item, previous, defined) ==
  CASE type = "string_id" -> crossVerifyStringIdItem(item, previous)
    [] type = "type_id" -> crossVerifyTypeIdItem(item, previous)
    [] type = "proto_id" -> crossVerifyProtoIdItem(item, previous)
    [] type = "field_id" -> crossVerifyFieldIdItem(item, previous)
    [] type = "method_id" -> crossVerifyMethodIdItem(item, previous)
    [] type = "class_def" -> crossVerifyClassDefItem(item, defined)
    [] type = "annotation_set_ref_list" -> crossVerifyAnnotationSetRefList(item)
    [] type = "annotation_set" -> crossVerifyAnnotationSetItem(item)
    [] type = "class_data" -> crossVerifyClassDataItem(item)
    [] type = "annotations_directory" -> crossVerifyAnnotationsDirectoryItem(item)
=============================================================================
