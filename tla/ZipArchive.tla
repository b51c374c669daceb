------------------------------ MODULE ZipArchive ------------------------------
(***************************************************************************)
(* The archive reader (src/libdex/ZipArchive.cpp) and its one caller,      *)
(* dexUnzipToFile (src/libdex/CmdUtils.cpp): open an archive, walk over    *)
(* its central directory, find classes.dex, write it to a file, and give   *)
(* back everything that was taken, whatever failed.                        *)
(*                                                                         *)
(* A file is a length and what starts at which of its offsets.  Lengths    *)
(* and offsets are scaled down; what is kept is which is compared to       *)
(* which.  zlib is modelled by what the loop of inflateToFile sees of it.  *)
(***************************************************************************)
EXTENDS Integers, Sequences, FiniteSets, FiniteSetsExt

CONSTANTS
  Archives,      \* the files that may be opened, [length, at]
  WellFormed,    \* those among them that a tool has written
  SigLen,        \* kEOCDSignature and the others: what get4LE reads
  kEOCDLen, kCDELen, kLFHLen,   \* the lengths of the three headers
  kWriteBufSize,
  classes_dex,   \* the name that is looked for
  NoFile         \* for DexDump: no file of a name

Headers ==
  [sig : {"EOCD"}, entries : Nat, cdOffset : Nat]
    \cup [sig : {"CDE"}, name : STRING, nameLen : Nat, rest : Nat, local : Nat,
          method : {"stored", "deflated"}, comp : Nat, uncomp : Nat]
    \cup [sig : {"LFH"}, skip : Nat]
    \cup [sig : {"data"}, needs : Nat, yields : Nat, sound : BOOLEAN]

ASSUME LengthsAssumption ==
  /\ {SigLen, kEOCDLen, kCDELen, kLFHLen, kWriteBufSize} \subseteq Nat \ {0}
  /\ SigLen <= kEOCDLen /\ SigLen <= kCDELen /\ SigLen <= kLFHLen

ASSUME ArchivesAssumption ==
  /\ WellFormed \subseteq Archives
  /\ \A a \in Archives :
       /\ a.length \in Nat
       /\ DOMAIN a.at \subseteq 0..(a.length - 1)
       /\ \A o \in DOMAIN a.at : a.at[o] \in Headers

\* What extraction needs of a member as a tool writes it.
WrittenMember(a, cde, end) ==
  LET data == cde.local + kLFHLen + a.at[cde.local].skip
  IN  /\ data + cde.comp <= end
      /\ \/ cde.method = "stored" /\ cde.uncomp = cde.comp
         \/ /\ cde.method = "deflated"
            /\ data \in DOMAIN a.at
            /\ a.at[data].sig = "data" /\ a.at[data].sound
            /\ a.at[data].needs <= cde.comp /\ a.at[data].yields = cde.uncomp

(***************************************************************************)
(* An archive as a tool writes it: dir are the entries of its directory,   *)
(* one behind the other up to the end record, which no other one follows;  *)
(* there is a classes.dex, and every member is whole.                      *)
(***************************************************************************)
AsWritten(a, end, dir) ==
  /\ 0 \in DOMAIN a.at /\ a.at[0].sig = "LFH"
  /\ end + kEOCDLen <= a.length
  /\ \A o \in DOMAIN a.at : a.at[o].sig = "EOCD" => o <= end
  /\ dir # <<>> /\ dir[1] = a.at[end].cdOffset
  /\ \A i \in DOMAIN dir :
       LET cde == a.at[dir[i]]
       IN  /\ cde.sig = "CDE" /\ dir[i] < end
           /\ dir[i] + kCDELen + cde.nameLen + cde.rest =
                IF i = Len(dir) THEN end ELSE dir[i + 1]
           /\ cde.local \in DOMAIN a.at /\ a.at[cde.local].sig = "LFH" /\ cde.local < end
           /\ WrittenMember(a, cde, end)
  /\ \E i \in DOMAIN dir : a.at[dir[i]].name = classes_dex

ASSUME WellFormedAssumption ==
  \A a \in WellFormed :
    \E end \in {o \in DOMAIN a.at : a.at[o].sig = "EOCD"} :
      \E dir \in [1..a.at[end].entries -> DOMAIN a.at] : AsWritten(a, end, dir)

ASSUME NoFileAssumption == NoFile \notin [owner : {"tool", "others"}, whole : BOOLEAN]

VARIABLES
  file,      \* the archive file
  pc,
  own,       \* the descriptors it has opened and not closed
  stray,     \* history: it closed a descriptor that it had not opened
  over,      \* history: it read behind the end of the map
  refused,   \* history: a system call failed
  left,      \* history: the output could not be removed
  map,       \* dexZipPrepArchive's own mapping is held
  unfreed,   \* memory that was taken besides and not freed: "buffer", "zstream"
  archive,   \* pArchive: [mFd, mMap, mHashTable, allocated]
  walk,      \* the walk over the central directory: [entries, i, ptr, maxOffset]
  entry,     \* what dexZipFindEntry returned, 0 for NULL
  zstream,   \* the state of the inflation: [limit, total_out, buffered, end]
  output,    \* the output file: [exists, length]
  result     \* dexUnzipToFile's result

vars == <<file, pc, own, stray, over, refused, left, map, unfreed, archive, walk, entry,
          zstream, output, result>>
history == <<stray, over, refused, left>>

\* What the reader finds at an offset.
Signature(o) == IF o \in DOMAIN file.at THEN file.at[o].sig ELSE "none"
Entry(o) == file.at[o]

Closed == [mFd |-> "none", mMap |-> FALSE, mHashTable |-> <<>>, allocated |-> FALSE]

Init ==
  /\ file \in Archives
  /\ pc = "open"
  /\ own = {}
  /\ stray = FALSE /\ over = FALSE /\ refused = FALSE /\ left = FALSE
  /\ map = FALSE
  /\ unfreed = {}
  /\ archive = Closed
  /\ walk = [entries |-> 0, i |-> 0, ptr |-> 0, maxOffset |-> 0]
  /\ entry = 0
  /\ zstream = [limit |-> 0, total_out |-> 0, buffered |-> 0, end |-> FALSE]
  /\ output = [exists |-> FALSE, length |-> 0]
  /\ result = "Success"

-----------------------------------------------------------------------------
(***************************************************************************)
(* Closing                                                                 *)
(***************************************************************************)

\* mFd is "none" for -1, "archive" for what open returned, and "zero" for the 0 that
\* memset leaves in it, which is somebody else's descriptor.
CloseFd(fd) ==
  /\ own' = own \ {fd}
  /\ stray' = (stray \/ fd \notin own)

\* (Mutant: mFd keeps its value.)
CloseKeepingFd ==
  /\ IF archive.mFd # "none" THEN CloseFd(archive.mFd) ELSE UNCHANGED <<own, stray>>
  /\ archive' = [Closed EXCEPT !.mFd = archive.mFd]

dexZipCloseArchive ==
  /\ IF archive.mFd # "none" THEN CloseFd(archive.mFd) ELSE UNCHANGED <<own, stray>>
  /\ archive' = Closed

-----------------------------------------------------------------------------
(***************************************************************************)
(* Opening                                                                 *)
(***************************************************************************)
dexZipOpenArchive ==
  /\ pc = "open"
  /\ \/ /\ own' = own \cup {"archive"}
        /\ archive' = [Closed EXCEPT !.mFd = "archive"]
        /\ pc' = "map"
        /\ UNCHANGED <<refused, result>>
     \/ /\ archive' = [Closed EXCEPT !.mFd = "zero"]
        /\ refused' = TRUE
        /\ result' = "NotZip"
        /\ pc' = "bail"
        /\ UNCHANGED own
  /\ UNCHANGED <<file, unfreed, stray, over, left, map, walk, entry, zstream, output>>

(***************************************************************************)
(* sysMapFileInShmemReadOnly, which is sysFakeMapFile here: the file is    *)
(* read into a buffer.  An empty one is refused; a call that fails may     *)
(* have been the read, after which nobody frees the buffer.                *)
(***************************************************************************)
MapArchive ==
  /\ pc = "map"
  /\ \/ /\ file.length > 0
        /\ map' = TRUE
        /\ pc' = IF file.length < kEOCDLen THEN "prepBail" ELSE "parse"
        /\ UNCHANGED <<refused, unfreed>>
     \/ /\ file.length = 0
        /\ pc' = "prepBail"
        /\ UNCHANGED <<refused, map, unfreed>>
     \/ /\ refused' = TRUE
        /\ unfreed' \in IF file.length > 0 THEN {{}, {"buffer"}} ELSE {{}}
        /\ pc' = "prepBail"
        /\ UNCHANGED map
  /\ UNCHANGED <<file, own, stray, over, left, archive, walk, entry, zstream, output, result>>

\* The end of the central directory is searched backwards.
EndRecords == {o \in 0..(file.length - kEOCDLen) : Signature(o) = "EOCD"}

ParseEnd ==
  /\ pc = "parse"
  /\ IF /\ Signature(0) = "LFH"
        /\ EndRecords # {}
        /\ LET eocd == Entry(Max(EndRecords))
           IN  eocd.entries > 0 /\ eocd.cdOffset < file.length
     THEN /\ walk' = [entries |-> Entry(Max(EndRecords)).entries, i |-> 0,
                      ptr |-> Entry(Max(EndRecords)).cdOffset,
                      maxOffset |-> Max(EndRecords) + 1]
          /\ archive' = [archive EXCEPT !.allocated = TRUE]
          /\ pc' = "walk"
     ELSE /\ pc' = "prepBail"
          /\ UNCHANGED <<walk, archive>>
  /\ UNCHANGED <<file, unfreed, own, history, map, entry, zstream, output, result>>

(***************************************************************************)
(* One entry of the central directory.  The checks come in this order:     *)
(* its signature, its length, the local header's offset; then its name is  *)
(* hashed and added; then the local header's signature and, last, where    *)
(* the next entry starts.                                                  *)
(***************************************************************************)
HeaderFits(ptr) ==
  /\ Signature(ptr) = "CDE"
  /\ ptr + kCDELen <= file.length
  /\ Entry(ptr).local < walk.maxOffset

NameEnd(ptr) == ptr + kCDELen + Entry(ptr).nameLen

\* (Mutant: the next entry may not start where the end record does.)
NextFitsBefore(ptr) ==
  /\ Signature(Entry(ptr).local) = "LFH"
  /\ NameEnd(ptr) + Entry(ptr).rest < walk.maxOffset - 1

NextFits(ptr) ==
  /\ Signature(Entry(ptr).local) = "LFH"
  /\ NameEnd(ptr) + Entry(ptr).rest < walk.maxOffset

WalkEntry ==
  /\ pc = "walk"
  /\ walk.i < walk.entries
  /\ LET ptr == walk.ptr
     IN  /\ over' = \/ over
                    \/ ptr + SigLen > file.length
                    \/ HeaderFits(ptr) /\ NameEnd(ptr) > file.length
         /\ archive' = IF HeaderFits(ptr)
                       THEN [archive EXCEPT !.mHashTable = Append(@, ptr)]
                       ELSE archive
         /\ IF HeaderFits(ptr) /\ NextFits(ptr)
            THEN /\ walk' = [walk EXCEPT !.i = @ + 1, !.ptr = NameEnd(ptr) + Entry(ptr).rest]
                 /\ UNCHANGED pc
            ELSE /\ pc' = "prepBail"
                 /\ UNCHANGED walk
  /\ UNCHANGED <<file, unfreed, own, stray, refused, left, map, entry, zstream, output, result>>

\* The archive takes over the mapping.
EndWalk ==
  /\ pc = "walk"
  /\ walk.i = walk.entries
  /\ archive' = [archive EXCEPT !.mMap = TRUE]
  /\ map' = FALSE
  /\ pc' = "create"
  /\ UNCHANGED <<file, unfreed, own, history, walk, entry, zstream, output, result>>

\* The end of dexZipPrepArchive after a failure.
PrepBail ==
  /\ pc = "prepBail"
  /\ dexZipCloseArchive
  /\ map' = FALSE
  /\ result' = "NotZip"
  /\ pc' = "bail"
  /\ UNCHANGED <<file, unfreed, over, refused, left, walk, entry, zstream, output>>

-----------------------------------------------------------------------------
(***************************************************************************)
(* dexUnzipToFile between opening and closing                              *)
(***************************************************************************)
CreateOutput ==
  /\ pc = "create"
  /\ \/ /\ own' = own \cup {"output"}
        /\ output' = [exists |-> TRUE, length |-> 0]
        /\ pc' = "find"
        /\ UNCHANGED <<refused, result>>
     \/ /\ refused' = TRUE
        /\ result' = "OutputFileProblem"
        /\ pc' = "bail"
        /\ UNCHANGED <<own, output>>
  /\ UNCHANGED <<file, unfreed, stray, over, left, map, archive, walk, entry, zstream>>

\* Which entry has a name is what Lookup says, and ProbeTable implements.
Directory == INSTANCE Lookup WITH
  Names <- STRING, NoAnswer <- NoFile, answer <- NoFile,
  entries <- [i \in DOMAIN archive.mHashTable |-> Entry(archive.mHashTable[i]).name]

Found ==
  IF Directory!Answers(classes_dex) = {} THEN 0
  ELSE CHOOSE i \in Directory!Answers(classes_dex) : TRUE

\* (Mutant: nobody asks whether there is an entry.)
FindUnchecked ==
  /\ pc = "find"
  /\ entry' = Found
  /\ pc' = "extract"
  /\ UNCHANGED <<file, unfreed, own, history, map, archive, walk, zstream, output, result>>

FindEntry ==
  /\ pc = "find"
  /\ entry' = Found
  /\ pc' = IF Found = 0 THEN "bail" ELSE "extract"
  /\ result' = IF Found = 0 THEN "NoClassesDex" ELSE result
  /\ UNCHANGED <<file, unfreed, own, history, map, archive, walk, zstream, output>>

-----------------------------------------------------------------------------
(***************************************************************************)
(* dexZipGetEntryInfo and dexZipExtractEntryToFile                         *)
(***************************************************************************)
Header == Entry(archive.mHashTable[entry])
DataOffset == Header.local + kLFHLen + Entry(Header.local).skip

\* (Mutant: only the length after inflation is looked at.)
InfoOfUncompressed ==
  /\ Header.local + kLFHLen < file.length
  /\ DataOffset < file.length
  /\ Header.method = "stored" => DataOffset + Header.uncomp < file.length

dexZipGetEntryInfo ==
  /\ Header.local + kLFHLen < file.length
  /\ DataOffset < file.length
  /\ DataOffset + Header.comp < file.length
  /\ Header.method = "stored" => DataOffset + Header.uncomp < file.length

\* What is at an offset, when it is read as a deflated stream.
Stream(o) ==
  IF Signature(o) = "data" THEN Entry(o) ELSE [sig |-> "data", needs |-> 0, yields |-> 1, sound |-> FALSE]

\* inflate will find the end of the stream.
Complete == Stream(DataOffset).sound /\ Header.comp >= Stream(DataOffset).needs

\* An entry that is not there makes the function return -1, which is true.
dexZipExtractEntryToFile ==
  /\ pc = "extract"
  /\ pc' = CASE entry = 0 -> "bail"
             [] entry # 0 /\ ~dexZipGetEntryInfo -> "bail"
             [] entry # 0 /\ dexZipGetEntryInfo ->
                  IF Header.method = "stored" THEN "store" ELSE "init"
  /\ result' = IF entry # 0 /\ ~dexZipGetEntryInfo THEN "BadZip" ELSE result
  /\ UNCHANGED <<file, unfreed, own, history, map, archive, walk, entry, zstream, output>>

\* The function returns.
Extracted(ok) ==
  /\ pc' = "bail"
  /\ result' = IF ok THEN result ELSE "BadZip"

\* write may take all of it, or less, or fail.
Written(length, all) ==
  /\ output' \in [exists : {output.exists},
                  length : IF all THEN {output.length + length}
                           ELSE output.length..(output.length + length - 1)]
  /\ refused' = (refused \/ ~all)

StoreEntry ==
  /\ pc = "store"
  /\ \E all \in BOOLEAN :
       /\ Written(Header.uncomp, all)
       /\ Extracted(all)
  /\ UNCHANGED <<file, unfreed, own, stray, over, left, map, archive, walk, entry, zstream>>

(***************************************************************************)
(* inflateToFile.  A call of inflate fills the buffer, or uses up its      *)
(* input (Z_OK), or comes to the end of the stream (Z_STREAM_END), which   *)
(* it may notice only in the next call when the buffer is just full; a     *)
(* stream that is damaged or cut off ends in an error at some point.       *)
(***************************************************************************)
inflateInit2 ==
  /\ pc = "init"
  /\ \/ /\ unfreed' = unfreed \cup {"zstream"}
        /\ \E limit \in IF Complete THEN {Stream(DataOffset).yields}
                        ELSE 0..Stream(DataOffset).yields :
             zstream' = [zstream EXCEPT !.limit = limit]
        /\ pc' = "inflate"
        /\ UNCHANGED <<refused, result>>
     \/ /\ refused' = TRUE
        /\ Extracted(FALSE)
        /\ UNCHANGED <<unfreed, zstream>>
  /\ UNCHANGED <<file, own, stray, over, left, map, archive, walk, entry, output>>

\* Every way out of the loop passes inflateEnd.
InflationEnds(ok) ==
  /\ Extracted(ok)
  /\ unfreed' = unfreed \ {"zstream"}

Room == kWriteBufSize - zstream.buffered
Left == zstream.limit - zstream.total_out

WantsWrite(buffered, end) == buffered = kWriteBufSize \/ (end /\ buffered > 0)

Inflated(n, end) ==
  /\ zstream' = [zstream EXCEPT !.total_out = @ + n, !.buffered = @ + n, !.end = end]
  /\ pc' = CASE WantsWrite(zstream.buffered + n, end) -> "write"
             [] ~WantsWrite(zstream.buffered + n, end) -> IF end THEN "check" ELSE "inflate"

InflateMore ==
  /\ pc = "inflate"
  /\ Left > 0
  /\ Complete => Left >= Room
  /\ Inflated(Min({Room, Left}), FALSE)
  /\ UNCHANGED <<file, unfreed, own, history, map, archive, walk, entry, output, result>>

InflateEnd ==
  /\ pc = "inflate"
  /\ Complete
  /\ Left <= Room
  /\ Inflated(Left, TRUE)
  /\ UNCHANGED <<file, unfreed, own, history, map, archive, walk, entry, output, result>>

\* A damaged stream, or no memory for zlib.
InflateError ==
  /\ pc = "inflate"
  /\ \/ ~Complete /\ UNCHANGED refused
     \/ refused' = TRUE
  /\ InflationEnds(FALSE)
  /\ UNCHANGED <<file, own, stray, over, left, map, archive, walk, entry, zstream, output>>

WriteBlock ==
  /\ pc = "write"
  /\ \E all \in BOOLEAN :
       /\ Written(zstream.buffered, all)
       /\ zstream' = [zstream EXCEPT !.buffered = 0]
       /\ IF all
          THEN /\ pc' = IF zstream.end THEN "check" ELSE "inflate"
               /\ UNCHANGED <<unfreed, result>>
          ELSE InflationEnds(FALSE)
  /\ UNCHANGED <<file, own, stray, over, left, map, archive, walk, entry>>

CheckLength ==
  /\ pc = "check"
  /\ InflationEnds(zstream.total_out = Header.uncomp)
  /\ UNCHANGED <<file, own, history, map, archive, walk, entry, zstream, output>>

-----------------------------------------------------------------------------
(***************************************************************************)
(* The end of dexUnzipToFile                                               *)
(***************************************************************************)
CloseOutput ==
  /\ pc = "bail"
  /\ own' = own \ {"output"}
  /\ \/ /\ output' = IF output.exists /\ result # "Success"
                     THEN [exists |-> FALSE, length |-> 0]
                     ELSE output
        /\ UNCHANGED <<refused, left>>
     \/ /\ output.exists /\ result # "Success"
        /\ refused' = TRUE
        /\ left' = TRUE
        /\ UNCHANGED output
  /\ pc' = "close"
  /\ UNCHANGED <<file, unfreed, stray, over, map, archive, walk, entry, zstream, result>>

CloseArchive ==
  /\ pc = "close"
  /\ dexZipCloseArchive
  /\ pc' = "done"
  /\ UNCHANGED <<file, unfreed, over, refused, left, map, walk, entry, zstream, output, result>>

Next ==
  \/ dexZipOpenArchive \/ MapArchive \/ ParseEnd \/ WalkEntry \/ EndWalk \/ PrepBail
  \/ CreateOutput \/ FindEntry \/ dexZipExtractEntryToFile \/ StoreEntry
  \/ inflateInit2 \/ InflateMore \/ InflateEnd \/ InflateError \/ WriteBlock \/ CheckLength
  \/ CloseOutput \/ CloseArchive

Spec == Init /\ [][Next]_vars

-----------------------------------------------------------------------------
(***************************************************************************)
(* Properties                                                              *)
(***************************************************************************)
Opened == pc \in {"create", "find", "extract", "store", "init", "inflate", "write", "check"}

\* Once an archive is open nothing in it is read that is not in the map: it was
\* opened without a read behind the map's end, every name in the table lies in
\* the map behind a whole directory entry, and so does what extraction reads.
OpenedInMap ==
  Opened =>
    /\ ~over
    /\ \A i \in DOMAIN archive.mHashTable :
         LET ptr == archive.mHashTable[i]
         IN  /\ Signature(ptr) = "CDE" /\ Signature(Entry(ptr).local) = "LFH"
             /\ NameEnd(ptr) <= file.length
             /\ Entry(ptr).local + SigLen <= file.length
    /\ pc = "store" => DataOffset + Header.uncomp <= file.length
    /\ pc \in {"init", "inflate", "write", "check"} => DataOffset + Header.comp <= file.length

\* However it ends, no descriptor, no mapping, no table and no zlib stream is left
\* behind, and no descriptor was closed that was not opened here.  There are two
\* exceptions, and nothing is unzipped after either: after an open that failed 0 is
\* closed, and the buffer of a read that failed is never freed.
Released ==
  /\ pc = "done" => own = {} /\ ~map /\ archive = Closed /\ unfreed \subseteq {"buffer"}
  /\ stray \/ (pc = "done" /\ unfreed # {}) => result = "NotZip" /\ refused

\* Nothing is left to chance for an archive as tools write it: unless a system
\* call fails, its classes.dex is extracted.
WellFormedExtracted ==
  pc = "done" /\ file \in WellFormed /\ ~refused => result = "Success"

(***************************************************************************)
(* DexDump takes the unzipping as five steps with their outcomes; this is  *)
(* what they stand for.  The output is whole when it holds just what the   *)
(* first entry of the name holds; the table that says so is gone at the    *)
(* very end.                                                               *)
(***************************************************************************)
Whole ==
  \E i \in Directory!Answers(classes_dex) :
    LET cde == Entry(archive.mHashTable[i])
        data == Stream(cde.local + kLFHLen + Entry(cde.local).skip)
    IN  IF cde.method = "stored" THEN output.length = cde.uncomp
        ELSE data.sound /\ cde.comp >= data.needs /\ output.length = data.yields

Label ==
  CASE pc \in {"open", "map", "parse", "walk", "prepBail"} -> "zip"
    [] pc = "create" -> "create"
    [] pc = "find" -> "entry"
    [] pc \in {"extract", "store", "init", "inflate", "write", "check"} -> "extract"
    [] pc = "bail" /\ result \in {"NoClassesDex", "BadZip"} -> "unzipBail"
    [] pc \in {"close", "done"} /\ result \in {"NoClassesDex", "BadZip"} -> "openBail"
    [] pc \in {"bail", "close", "done"} /\ result = "OutputFileProblem" -> "openBail"
    [] pc \in {"bail", "close", "done"} /\ result \in {"Success", "NotZip"} -> "open"

Returned == Label \in {"unzipBail", "openBail", "open"}

Unzip == INSTANCE DexDump WITH
  Proc <- {"tool"}, Path <- {"temp"}, Foreign <- "others",
  Commands <- {[p \in {"tool"} |-> [options |-> {}, files |-> <<"other">>, temp |-> "temp"]]},
  command <- [p \in {"tool"} |-> [options |-> {}, files |-> <<"other">>, temp |-> "temp"]],
  edg <- <<>>,
  fs <- [t \in {"temp"} |->
           IF output.exists
           THEN [owner |-> "tool", whole |-> Returned /\ result = "Success" /\ (pc = "done" \/ Whole)]
           ELSE NoFile],
  proc <- [p \in {"tool"} |->
             [pc |-> Label, file |-> 1,
              result |-> IF Returned THEN result ELSE "GenericFailure",
              removeTemp |-> Returned /\ result = "Success",
              opened |-> NoFile, mapped |-> FALSE, failed |-> FALSE,
              left |-> left, lost |-> FALSE, wild |-> FALSE]]

\* Every step of opening, walking, finding, inflating and writing is a step of the
\* unzipping that DexDump takes for granted, or none: success is returned with the
\* whole entry written, and with nothing less.
ImplementsUnzip ==
  [][\/ Unzip!dexZipOpenArchive("tool") \/ Unzip!CreateTemp("tool")
     \/ Unzip!FindEntry("tool") \/ Unzip!Extract("tool")
     \/ Unzip!UnzipBail("tool")]_(Unzip!vars)
=============================================================================
