----------------------------- MODULE MCZipArchive -----------------------------
(***************************************************************************)
(* Archives as tools write them, with headers of 2, 3 and 3 units and      *)
(* signatures of 2, and all that differ from one of four of them in one    *)
(* field of one header, in their length, or by an end record in the        *)
(* comment.                                                                *)
(***************************************************************************)
EXTENDS ZipArchive

Lfh(skip) == [sig |-> "LFH", skip |-> skip]
Eocd(entries, offset) == [sig |-> "EOCD", entries |-> entries, cdOffset |-> offset]

\* A member of an archive: its name takes one unit in both of its headers.
Stored(name, n) ==
  [name |-> name, method |-> "stored", comp |-> n, uncomp |-> n]
Deflated(name, needs, yields) ==
  [name |-> name, method |-> "deflated", comp |-> needs, uncomp |-> yields]

Archive(length, pairs) ==
  [length |-> length,
   at |-> [o \in {p[1] : p \in pairs} |-> (CHOOSE p \in pairs : p[1] = o)[2]]]

\* What a tool writes for one member or two: local headers with their data, the
\* central directory, the end record, a comment.
ArchiveOf(members, comment) ==
  LET n == Len(members)
      size(i) == kLFHLen + 1 + members[i].comp
      local(i) == IF i = 1 THEN 0 ELSE size(1)
      directory == local(n) + size(n)
      cde(i) == directory + (i - 1) * (kCDELen + 1)
      end == directory + n * (kCDELen + 1)
      lfhs == {<<local(i), Lfh(1)>> : i \in 1..n}
      cdes == {<<cde(i), [sig |-> "CDE", name |-> members[i].name, nameLen |-> 1,
                          rest |-> 0, local |-> local(i), method |-> members[i].method,
                          comp |-> members[i].comp, uncomp |-> members[i].uncomp]>>
               : i \in 1..n}
      streams == {<<local(i) + kLFHLen + 1,
                    [sig |-> "data", needs |-> members[i].comp,
                     yields |-> members[i].uncomp, sound |-> TRUE]>>
                  : i \in {j \in 1..n : members[j].method = "deflated"}}
  IN  Archive(end + kEOCDLen + comment,
              lfhs \cup cdes \cup streams \cup {<<end, Eocd(n, directory)>>})

Members(name) ==
  {Stored(name, n) : n \in 0..2}
    \cup {Deflated(name, needs, yields) : needs \in 1..2, yields \in 0..5}

\* classes.dex alone, or before or behind another member or a second classes.dex.
MCWellFormed ==
  {ArchiveOf(<<m>>, comment) : m \in Members("classes"), comment \in 0..2}
    \cup {ArchiveOf(<<m, o>>, 0) : m \in Members("classes"),
                                 o \in {Stored("other", 1), Deflated("classes", 2, 3)}}
    \cup {ArchiveOf(<<o, m>>, 0) : m \in Members("classes"), o \in Members("other")}

StoredOne == ArchiveOf(<<Stored("classes", 2)>>, 1)
DeflatedSecond == ArchiveOf(<<Stored("other", 1), Deflated("classes", 2, 3)>>, 0)
Twice == ArchiveOf(<<Deflated("classes", 2, 4), Stored("classes", 1)>>, 0)
WithoutClasses == ArchiveOf(<<Stored("other", 1)>>, 0)

Base == {StoredOne, DeflatedSecond, Twice, WithoutClasses}

Offsets == 0..7

Set(a, o, header) == [a EXCEPT !.at[o] = header]

WithField(a) ==
  UNION {LET h == a.at[o]
         IN  CASE h.sig = "EOCD" ->
                    {Set(a, o, [h EXCEPT !.entries = n]) : n \in 0..3}
                      \cup {Set(a, o, [h EXCEPT !.cdOffset = n]) : n \in 0..(a.length + 1)}
               [] h.sig = "CDE" ->
                    {Set(a, o, [h EXCEPT !.local = n]) : n \in 0..(a.length + 1)}
                      \cup {Set(a, o, [h EXCEPT !.nameLen = n]) : n \in Offsets}
                      \cup {Set(a, o, [h EXCEPT !.rest = n]) : n \in Offsets}
                      \cup {Set(a, o, [h EXCEPT !.comp = n]) : n \in 0..a.length}
                      \cup {Set(a, o, [h EXCEPT !.uncomp = n]) : n \in 0..a.length}
                      \cup {Set(a, o, [h EXCEPT !.method = n]) : n \in {"stored", "deflated"}}
                      \cup {Set(a, o, [h EXCEPT !.name = n]) : n \in {"classes", "other"}}
               [] h.sig = "LFH" ->
                    {Set(a, o, [h EXCEPT !.skip = n]) : n \in 0..a.length}
               [] h.sig = "data" ->
                    {Set(a, o, [h EXCEPT !.yields = n]) : n \in 1..5}
                      \cup {Set(a, o, [h EXCEPT !.needs = n]) : n \in 1..3}
                      \cup {Set(a, o, [h EXCEPT !.sound = FALSE])}
         : o \in DOMAIN a.at}

\* The file is cut off; a header is not where it was.
Cut(a, length) ==
  [length |-> length, at |-> [o \in DOMAIN a.at \cap 0..(length - 1) |-> a.at[o]]]

Without(a, gone) == [a EXCEPT !.at = [o \in DOMAIN a.at \ {gone} |-> a.at[o]]]

\* An end record in the comment.
WithComment ==
  {LET end == StoredOne.length - 1
   IN  [StoredOne EXCEPT !.length = end + kEOCDLen,
          !.at = [o \in DOMAIN @ \cup {end} |->
                    IF o = end THEN Eocd(n, StoredOne.at[Max(DOMAIN StoredOne.at)].cdOffset) ELSE @[o]]]
   : n \in 0..2}

MCArchives ==
  MCWellFormed \cup WithComment
    \cup UNION {WithField(a) \cup {Cut(a, n) : n \in 0..a.length}
                  \cup {Without(a, o) : o \in DOMAIN a.at} : a \in Base}
=============================================================================
