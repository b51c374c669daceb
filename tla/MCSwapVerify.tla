---------------------------- MODULE MCSwapVerify ----------------------------
(***************************************************************************)
(* Files for SwapVerify: one with two classes and a section of every type, *)
(* as a compiler writes it, one with nothing but a string in it, and, for  *)
(* each field of the first file, those in which that one field is wrong.   *)
(***************************************************************************)
EXTENDS SwapVerify

\* Where the items of the data section begin.
Data ==
  [annotation_set_ref_list |-> <<280>>, annotation_set |-> <<292, 304>>, code |-> <<312, 376>>,
   annotations_directory |-> <<400>>, type_list |-> <<440, 448>>,
   string_data |-> <<454, 462, 472, 482, 491, 499>>, debug_info |-> <<507>>,
   annotation |-> <<512, 516>>, encoded_array |-> <<519>>, class_data |-> <<522, 540>>,
   map_list |-> <<552>>]

Off(type, k) == Data[type][k]
FileLen == 772

Strings ==
  << [rank |-> 1, descriptor |-> "primitive", shorty |-> <<"I">>, name |-> TRUE],
     [rank |-> 2, descriptor |-> "class", shorty |-> <<"?">>, name |-> FALSE],
     [rank |-> 3, descriptor |-> "class", shorty |-> <<"?">>, name |-> FALSE],
     [rank |-> 4, descriptor |-> "void", shorty |-> <<"V">>, name |-> TRUE],
     [rank |-> 5, descriptor |-> "none", shorty |-> <<"V", "I">>, name |-> TRUE],
     [rank |-> 6, descriptor |-> "none", shorty |-> <<"?">>, name |-> TRUE] >>

Section(type, offset0, items) == [type |-> type, offset |-> offset0, items |-> items]

StringId(k) == [stringDataOff |-> Off("string_data", k), len |-> 4]
StringData(k, l) == [string |-> Strings[k], wellFormed |-> TRUE, len |-> l]
TypeId(idx) == [descriptorIdx |-> idx, len |-> 4]
FieldId(class) == [classIdx |-> class, typeIdx |-> 0, nameIdx |-> 5, len |-> 8]
MethodId(class, proto) == [classIdx |-> class, protoIdx |-> proto, nameIdx |-> 5, len |-> 8]
Annotated(idx, off) == [idx |-> idx, annotationsOff |-> off]
Try(start, count, handler) == [startAddr |-> start, insnCount |-> count, handlerOff |-> handler]
Field(idx, kind) == [idx |-> idx, kind |-> kind]
Method(idx, kind, expectCode, off) ==
  [idx |-> idx, kind |-> kind, expectCode |-> expectCode, codeOff |-> off]

Map ==
  << Section("header", 0, <<[len |-> 112]>>),
     Section("string_id", 112, <<StringId(1), StringId(2), StringId(3), StringId(4), StringId(5),
                                 StringId(6)>>),
     Section("type_id", 136, <<TypeId(0), TypeId(1), TypeId(2), TypeId(3)>>),
     Section("proto_id", 152,
       <<[shortyIdx |-> 3, returnTypeIdx |-> 3, parametersOff |-> 0, len |-> 12],
         [shortyIdx |-> 4, returnTypeIdx |-> 3, parametersOff |-> Off("type_list", 1), len |-> 12]>>),
     Section("field_id", 176, <<FieldId(1), FieldId(2)>>),
     Section("method_id", 192, <<MethodId(1, 0), MethodId(1, 1), MethodId(2, 0)>>),
     Section("class_def", 216,
       <<[classIdx |-> 1, superclassIdx |-> NoIndex, interfacesOff |-> 0, sourceFileIdx |-> 5,
          annotationsOff |-> Off("annotations_directory", 1),
          classDataOff |-> Off("class_data", 1), staticValuesOff |-> Off("encoded_array", 1),
          len |-> 32],
         [classIdx |-> 2, superclassIdx |-> 1, interfacesOff |-> Off("type_list", 2),
          sourceFileIdx |-> NoIndex, annotationsOff |-> 0,
          classDataOff |-> Off("class_data", 2), staticValuesOff |-> 0, len |-> 32]>>),
     Section("annotation_set_ref_list", Off("annotation_set_ref_list", 1),
       <<[list |-> <<Off("annotation_set", 2), 0>>, len |-> 12]>>),
     Section("annotation_set", Off("annotation_set", 1),
       <<[entries |-> <<Off("annotation", 1), Off("annotation", 2)>>, len |-> 12],
         [entries |-> <<Off("annotation", 2)>>, len |-> 8]>>),
     Section("code", Off("code", 1),
       <<[debugInfoOff |-> Off("debug_info", 1), insnsSize |-> 8, wellFormed |-> TRUE,
          tries |-> <<Try(0, 2, 1), Try(2, 3, 1)>>,
          handlers |-> <<[off |-> 1, types |-> <<1>>, addrs |-> <<6>>]>>, len |-> 64],
         [debugInfoOff |-> 0, insnsSize |-> 3, wellFormed |-> TRUE,
          tries |-> <<>>, handlers |-> <<>>, len |-> 22]>>),
     Section("annotations_directory", Off("annotations_directory", 1),
       <<[classAnnotationsOff |-> Off("annotation_set", 1),
          fields |-> <<Annotated(0, Off("annotation_set", 2))>>,
          methods |-> <<Annotated(0, Off("annotation_set", 2))>>,
          parameters |-> <<Annotated(1, Off("annotation_set_ref_list", 1))>>, len |-> 40]>>),
     Section("type_list", Off("type_list", 1), <<[list |-> <<0>>, len |-> 6], [list |-> <<1>>, len |-> 6]>>),
     Section("string_data", Off("string_data", 1),
       <<StringData(1, 8), StringData(2, 10), StringData(3, 10), StringData(4, 9), StringData(5, 8),
         StringData(6, 8)>>),
     Section("debug_info", Off("debug_info", 1),
       <<[strings |-> <<5, NoIndex>>, wellFormed |-> TRUE, len |-> 5]>>),
     Section("annotation", Off("annotation", 1),
       <<[typeIdx |-> 1, names |-> <<5>>, values |-> <<[table |-> "field_id", idx |-> 1]>>,
          wellFormed |-> TRUE, len |-> 4],
         [typeIdx |-> 2, names |-> <<>>, values |-> <<>>, wellFormed |-> TRUE, len |-> 3]>>),
     Section("encoded_array", Off("encoded_array", 1),
       <<[values |-> <<[table |-> "string_id", idx |-> 5]>>, wellFormed |-> TRUE, len |-> 3]>>),
     Section("class_data", Off("class_data", 1),
       <<[staticFields |-> <<Field(0, "static")>>, instanceFields |-> <<>>,
          directMethods |-> <<Method(0, "direct", TRUE, Off("code", 1))>>,
          virtualMethods |-> <<Method(1, "virtual", FALSE, 0)>>, wellFormed |-> TRUE, len |-> 18],
         [staticFields |-> <<>>, instanceFields |-> <<Field(1, "instance")>>, directMethods |-> <<>>,
          virtualMethods |-> <<Method(2, "virtual", TRUE, Off("code", 2))>>,
          wellFormed |-> TRUE, len |-> 10]>>),
     Section("map_list", Off("map_list", 1), <<[len |-> 220]>>) >>

Nth(type) == CHOOSE n \in 1..18 : Map[n].type = type

Table(offset0, n) == [off |-> offset0, size |-> n]

Base ==
  [checked |-> TRUE, fileSize |-> FileLen, fileLen |-> FileLen, headerSize |-> 112,
   mapOff |-> Off("map_list", 1), linkOff |-> 0, linkSize |-> 0,
   dataOff |-> 280, dataSize |-> FileLen - 280,
   ids |-> [string_id |-> Table(112, 6), type_id |-> Table(136, 4), proto_id |-> Table(152, 2),
            field_id |-> Table(176, 2), method_id |-> Table(192, 3), class_def |-> Table(216, 2)],
   map |-> Map, dirty |-> {0}]

\* A file of one string.
Tiny ==
  LET data == 116
      mapOff == 120
  IN  [checked |-> TRUE, fileSize |-> 172, fileLen |-> 172, headerSize |-> 112, mapOff |-> mapOff,
       linkOff |-> 0, linkSize |-> 0, dataOff |-> data, dataSize |-> 56, dirty |-> {0},
       ids |-> [string_id |-> Table(112, 1), type_id |-> Table(0, 0), proto_id |-> Table(0, 0),
                field_id |-> Table(0, 0), method_id |-> Table(0, 0), class_def |-> Table(0, 0)],
       map |-> <<Map[1],
                 Section("string_id", 112, <<[stringDataOff |-> data, len |-> 4]>>),
                 Section("string_data", data, <<StringData(1, 4)>>),
                 Section("map_list", mapOff, Map[18].items)>>]

-----------------------------------------------------------------------------
\* One wrong field of one item.
With(type, k, field, value) == [Base EXCEPT !.map[Nth(type)].items[k][field] = value]

Someplace == {0, 3, FileLen} \cup {Map[n].offset : n \in 8..17}

WrongOffset(type, k, field) == {With(type, k, field, o) : o \in Someplace}
WrongIndex(type, k, field) == {With(type, k, field, i) : i \in {0, 1, 2, 3, 6, NoIndex}}

OneField(type, ks, offsets, indices) ==
  UNION {UNION {WrongOffset(type, k, f) : f \in offsets} \cup
         UNION {WrongIndex(type, k, f) : f \in indices} : k \in ks}

Copied(n) == [Base EXCEPT !.map[n].items[2] = Map[n].items[1]]

WrongItems ==
  {Copied(n) : n \in {2, 3, 4, 5, 6, 7, 9, 12}}
    \cup OneField("string_id", {2, 5}, {"stringDataOff"}, {})
    \cup {With("string_id", 2, "stringDataOff", Off("string_data", k)) : k \in {1, 3, 6}}
    \cup OneField("type_id", 1..4, {}, {"descriptorIdx"})
    \cup OneField("proto_id", 1..2, {"parametersOff"}, {"shortyIdx", "returnTypeIdx"})
    \cup OneField("field_id", 1..2, {}, {"classIdx", "typeIdx", "nameIdx"})
    \cup OneField("method_id", 1..3, {}, {"classIdx", "protoIdx", "nameIdx"})
    \cup OneField("class_def", 1..2,
                  {"interfacesOff", "annotationsOff", "classDataOff", "staticValuesOff"},
                  {"classIdx", "superclassIdx", "sourceFileIdx"})
    \cup OneField("annotations_directory", {1}, {"classAnnotationsOff"}, {})
    \cup {With(t, 1, "wellFormed", FALSE) :
            t \in {"string_data", "debug_info", "annotation", "encoded_array", "class_data", "code"}}
    \cup {With(t, 1, "len", 120) : t \in {"class_def", "code", "debug_info", "class_data"}}

\* One wrong entry of a list in an item.
WrongLists ==
  {With("annotations_directory", 1, "fields", <<Annotated(i, o)>>) :
      i \in {0, 1, 6}, o \in {Off("annotation_set", 1), Off("annotation", 1), 0}}
    \cup {With("annotations_directory", 1, "parameters", <<Annotated(i, o)>>) :
            i \in {1, 2, 6}, o \in {Off("annotation_set", 1), Off("annotation_set_ref_list", 1)}}
    \cup {With("annotation_set", 1, "entries", <<x, y>>) :
            x, y \in {0, Off("annotation", 1), Off("annotation", 2), Off("code", 1)}}
    \cup {With("annotation_set_ref_list", 1, "list", <<o>>) : o \in Someplace}
    \cup {With("type_list", k, "list", l) :
            k \in {1, 2}, l \in {<<>>, <<2>>, <<6>>, <<0, 0>>, <<1, 1>>, <<1, 2>>}}
    \cup {With("class_data", 2, "instanceFields", <<Field(i, k)>>) :
            i \in {0, 1, 2}, k \in {"static", "instance"}}
    \cup {With("class_data", 1, "staticFields", <<Field(i, k)>>) :
            i \in {0, 1, 2}, k \in {"static", "instance"}}
    \cup {With("class_data", 2, "virtualMethods",
               <<Method(i, "virtual", e, o)>>) :
            i \in {0, 2, 3}, e \in BOOLEAN, o \in {0, Off("code", 2), Off("debug_info", 1)}}
    \cup {With("code", 1, "tries",
               <<Try(0, n, h), Try(s, 2, 1)>>) :
            n \in {2, 3, 9}, h \in {1, 2}, s \in {0, 2, 7}}
    \cup {With("code", 1, "handlers", <<[off |-> 1, types |-> <<t>>, addrs |-> <<a>>]>>) :
            t \in {1, 6}, a \in {6, 8}}
    \cup {With("annotation", 1, "names", n) : n \in {<<5, 5>>, <<3, 5>>, <<6>>}}
    \cup {With(t, 1, "values", <<[table |-> v, idx |-> 5]>>) :
            t \in {"annotation", "encoded_array"}, v \in {"string_id", "method_id"}}
    \cup {With("debug_info", 1, "strings", <<6>>)}
    \cup {With("string_data", 2, "string", Strings[i]) : i \in {1, 4, 6}}

-----------------------------------------------------------------------------
\* The map with two neighbours swapped, one section left out, doubled, moved or cut.
Swap(n) == [Base EXCEPT !.map[n] = Map[n + 1], !.map[n + 1] = Map[n]]

LastStart(n) == Map[n].offset + FoldSeq(LAMBDA i, l : i.len + l, 0, Front(Map[n].items))

\* Two tables of ids, or what is between, change places in the file; the header says so.
Tables(order) ==
  LET length(s) == FoldSeq(LAMBDA i, l : i.len + l, 0, Map[s].items)
      off(k) == 112 + FoldSeq(LAMBDA s, l : length(s) + l, 0, SubSeq(order, 1, k - 1))
      table(type) == LET k == CHOOSE j \in 1..6 : Map[order[j]].type = type
                     IN  Table(off(k), Len(Map[order[k]].items))
      placed(k) == Section(Map[order[k]].type, off(k), Map[order[k]].items)
  IN  [Base EXCEPT !.map = <<Map[1], placed(1), placed(2), placed(3), placed(4), placed(5), placed(6)>>
                             \o SubSeq(Map, 8, 18),
                   !.ids = [string_id |-> table("string_id"), type_id |-> table("type_id"),
                            proto_id |-> table("proto_id"), field_id |-> table("field_id"),
                            method_id |-> table("method_id"), class_def |-> table("class_def")]]

Orders == {<<3, 2, 4, 5, 6, 7>>, <<4, 3, 2, 5, 6, 7>>, <<5, 3, 4, 2, 6, 7>>, <<6, 3, 4, 5, 2, 7>>,
           <<7, 3, 4, 5, 6, 2>>, <<2, 4, 3, 5, 6, 7>>, <<2, 3, 4, 7, 6, 5>>, <<2, 7, 6, 5, 4, 3>>}

WrongMaps ==
  {Swap(n) : n \in {1, 2, 8, 17}}
    \cup {[Base EXCEPT !.map = SubSeq(Map, 1, n - 1) \o SubSeq(Map, n + 1, Len(Map)),
                       !.dirty = @ \cup {Map[n].offset}] : n \in {1, 2, 9, 18}}
    \cup {[Base EXCEPT !.map[n].items = Front(@),
                       !.dirty = @ \cup {LastStart(n)}] : n \in {1, 3, 13, 17}}
    \cup {[Base EXCEPT !.map[n].items = Append(@, @[1])] : n \in {1, 3, 9, 12, 17, 18}}
    \cup {[Base EXCEPT !.map[n].offset = @ + d] : n \in {1, 3, 9, 13}, d \in {1, 4}}
    \cup {[Base EXCEPT !.map[n].offset = @ - 4] : n \in {4, 9, 13}}
    \cup {[Base EXCEPT !.map[8].type = "annotation_set", !.map[8].items = Map[9].items],
          [Base EXCEPT !.map[8].type = "bogus"]}
    \cup {Tables(o) : o \in Orders}
    \cup {[Tables(o) EXCEPT !.map[1 + CHOOSE k \in 1..6 : o[k] = 2].items[2].stringDataOff = 3] :
            o \in Orders}

WrongHeaders ==
  {[Base EXCEPT !.checked = FALSE], [Base EXCEPT !.fileSize = FileLen + 1],
   [Base EXCEPT !.fileSize = Off("map_list", 1)], [Base EXCEPT !.headerSize = 111],
   [Base EXCEPT !.headerSize = 116], [Base EXCEPT !.mapOff = 0], [Base EXCEPT !.mapOff = @ + 4],
   [Base EXCEPT !.linkSize = FileLen + 1],
   [Base EXCEPT !.dataOff = @ + 12], [Base EXCEPT !.dataSize = @ + 1],
   [Base EXCEPT !.dataSize = 10], [Base EXCEPT !.dataSize = @ - 221],
   [Base EXCEPT !.dirty = @ \cup {Off("type_list", 2) - 1}],
   [Base EXCEPT !.dirty = @ \cup {Off("map_list", 1) - 1}]}
    \cup {[Base EXCEPT !.ids[t].size = @ - 1] : t \in {"string_id", "field_id"}}
    \cup {[Base EXCEPT !.ids[t].off = @ + 4] : t \in {"string_id", "class_def"}}

\* As the format says: the compiler leaves out what a class has not.
MCWellFormed ==
  {Base, Tiny, [Base EXCEPT !.fileLen = @ + 8],
   [Base EXCEPT !.linkOff = 280, !.linkSize = FileLen - 280],
   With("class_def", 1, "staticValuesOff", 0), With("class_def", 1, "annotationsOff", 0),
   With("class_def", 2, "interfacesOff", 0), With("class_def", 2, "superclassIdx", NoIndex),
   With("class_def", 2, "classDataOff", 0), With("class_def", 1, "sourceFileIdx", NoIndex)}

MCFiles == MCWellFormed \cup WrongItems \cup WrongLists \cup WrongMaps \cup WrongHeaders
=============================================================================
