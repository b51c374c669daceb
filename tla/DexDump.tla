------------------------------- MODULE DexDump -------------------------------
(***************************************************************************)
(* The program around the graph: main and process                          *)
(* (src/dexdump/DexDump.cpp), dexOpenAndMap and dexUnzipToFile             *)
(* (src/libdex/CmdUtils.cpp), and the appending of graph.edg               *)
(* (src/TreeConstructor/FmtEdg.cpp).                                       *)
(*                                                                         *)
(* Several processes run in one directory.  They share the file system:    *)
(* graph.edg, and a temporary file when -t names the same one.  A step is  *)
(* a system call; whatever a call may answer, it may answer here, and a    *)
(* process may be killed at any time.                                      *)
(***************************************************************************)
EXTENDS Naturals, Sequences, FiniteSets

CONSTANTS
  Proc,        \* the processes
  Path,        \* names of temporary files
  Commands,    \* command lines, [Proc -> [options, files, temp]]
  NoFile, Foreign   \* no file of a name; the owner of a file made by others

\* What the tool asks of a file's name: is it shorter than five characters, and
\* does it end in "dex".
Names == {"short", "dex", "other"}

OptionLetters == {"c", "d", "f", "h", "i", "l", "m", "t"}

ASSUME NoOneAssumption == Foreign \notin Proc
ASSUME NoFileAssumption == NoFile \notin [owner : Proc \cup {Foreign}, whole : BOOLEAN]
ASSUME CommandsAssumption ==
  \A c \in Commands : \A p \in Proc :
    c[p].files \in Seq(Names) /\ c[p].temp \in Path

VARIABLES
  command,  \* the command lines
  fs,       \* the temporary files
  edg,      \* graph.edg: what was appended to it, by whom and for which file
  proc      \* the processes' own state

vars == <<command, fs, edg, proc>>

(***************************************************************************)
(* A process: where it is, the file it is at, the result of dexOpenAndMap, *)
(* its removeTemp, what it has opened, whether pMap was filled, main's     *)
(* result.  The last three are history: the name of its temporary file     *)
(* could not be removed, an append was lost, a map was used unfilled.      *)
(***************************************************************************)
Start == [pc |-> "start", file |-> 0, result |-> "GenericFailure", removeTemp |-> FALSE,
          opened |-> NoFile, mapped |-> FALSE, failed |-> FALSE,
          left |-> FALSE, lost |-> FALSE, wild |-> FALSE]

Temp(p) == command[p].temp
Has(p, letter) == letter \in command[p].options
At(p, label) == proc[p].pc = label
Become(p, state) == proc' = [proc EXCEPT ![p] = state]
Goto(p, label) == Become(p, [proc[p] EXCEPT !.pc = label])

Init ==
  /\ command \in Commands
  /\ fs \in [Path -> {NoFile, [owner |-> Foreign, whole |-> TRUE]}]
  /\ edg = <<>>
  /\ proc = [p \in Proc |-> Start]

-----------------------------------------------------------------------------
(***************************************************************************)
(* main                                                                    *)
(***************************************************************************)
wantUsage(p) ==
  \/ ~(command[p].options \subseteq OptionLetters)
  \/ command[p].files = <<>>
  \/ Has(p, "c") /\ Has(p, "i")

ParseArgs(p) ==
  /\ At(p, "start")
  /\ Goto(p, IF wantUsage(p) THEN "usage" ELSE "next")
  /\ UNCHANGED <<command, fs, edg>>

\* (Mutant: optind is advanced twice.)
AdvancedTwice(optind) == optind + 2

Advanced(optind) == optind + 1

\* The next file, from dexOpenAndMap's look at its name.
NextFile(p) ==
  /\ At(p, "next")
  /\ proc[p].file < Len(command[p].files)
  /\ LET name == command[p].files[proc[p].file + 1]
     IN  Become(p, [proc[p] EXCEPT
           !.pc = CASE name = "short" -> "openBail"
                    [] name = "dex" -> "open"
                    [] OTHER -> "zip",
           !.file = Advanced(proc[p].file),
           !.result = IF name = "short" THEN "BadArgs" ELSE "GenericFailure",
           !.removeTemp = FALSE,
           !.opened = NoFile,
           !.mapped = FALSE])
  /\ UNCHANGED <<command, fs, edg>>

Exit(p) ==
  /\ At(p, "next")
  /\ proc[p].file = Len(command[p].files)
  /\ Goto(p, "exit")
  /\ UNCHANGED <<command, fs, edg>>

-----------------------------------------------------------------------------
(***************************************************************************)
(* dexUnzipToFile                                                          *)
(***************************************************************************)
dexZipOpenArchive(p) ==
  /\ At(p, "zip")
  /\ \/ Goto(p, "create")
     \/ Become(p, [proc[p] EXCEPT !.pc = "open", !.result = "NotZip"])
  /\ UNCHANGED <<command, fs, edg>>

\* (Mutant: the file is removed on failure although it was not created.)
CreateTempUnlinking(p) ==
  /\ At(p, "create")
  /\ \/ /\ fs[Temp(p)] = NoFile
        /\ fs' = [fs EXCEPT ![Temp(p)] = [owner |-> p, whole |-> FALSE]]
        /\ Goto(p, "entry")
     \/ /\ Become(p, [proc[p] EXCEPT !.pc = "unzipBail", !.result = "OutputFileProblem"])
        /\ UNCHANGED fs
  /\ UNCHANGED <<command, edg>>

\* (Mutant: without O_EXCL.)
CreateTempShared(p) ==
  /\ At(p, "create")
  /\ \/ /\ fs' = [fs EXCEPT ![Temp(p)] = [owner |-> p, whole |-> FALSE]]
        /\ Goto(p, "entry")
     \/ /\ Become(p, [proc[p] EXCEPT !.pc = "openBail", !.result = "OutputFileProblem"])
        /\ UNCHANGED fs
  /\ UNCHANGED <<command, edg>>

\* O_EXCL: the file is created, or the call fails and leaves alone what is there.
CreateTemp(p) ==
  /\ At(p, "create")
  /\ \/ /\ fs[Temp(p)] = NoFile
        /\ fs' = [fs EXCEPT ![Temp(p)] = [owner |-> p, whole |-> FALSE]]
        /\ Goto(p, "entry")
     \/ /\ Become(p, [proc[p] EXCEPT !.pc = "openBail", !.result = "OutputFileProblem"])
        /\ UNCHANGED fs
  /\ UNCHANGED <<command, edg>>

\* dexZipFindEntry of classes.dex.
FindEntry(p) ==
  /\ At(p, "entry")
  /\ \/ Goto(p, "extract")
     \/ Become(p, [proc[p] EXCEPT !.pc = "unzipBail", !.result = "NoClassesDex"])
  /\ UNCHANGED <<command, fs, edg>>

\* dexZipExtractEntryToFile; with a temporary file, dexOpenAndMap goes on to it.
Extract(p) ==
  /\ At(p, "extract")
  /\ \/ /\ fs' = [fs EXCEPT ![Temp(p)] =
                    IF @ = NoFile THEN @ ELSE [@ EXCEPT !.whole = TRUE]]
        /\ Become(p, [proc[p] EXCEPT !.pc = "open", !.result = "Success",
                                   !.removeTemp = TRUE])
     \/ /\ Become(p, [proc[p] EXCEPT !.pc = "unzipBail", !.result = "BadZip"])
        /\ UNCHANGED fs
  /\ UNCHANGED <<command, edg>>

Unlink(p) == fs' = [fs EXCEPT ![Temp(p)] = NoFile]

\* unlinkOnFailure; nobody asks whether the file could be removed.
UnzipBail(p) ==
  /\ At(p, "unzipBail")
  /\ \/ /\ Unlink(p)
        /\ Goto(p, "openBail")
     \/ /\ Become(p, [proc[p] EXCEPT !.pc = "openBail", !.left = TRUE])
        /\ UNCHANGED fs
  /\ UNCHANGED <<command, edg>>

-----------------------------------------------------------------------------
(***************************************************************************)
(* The rest of dexOpenAndMap                                               *)
(***************************************************************************)

\* Neither failure changes result: after an unzip it still says success.
OpenFile(p) ==
  /\ At(p, "open")
  /\ \/ /\ proc[p].removeTemp => fs[Temp(p)] # NoFile
        /\ Become(p, [proc[p] EXCEPT
             !.pc = "map",
             !.opened = IF proc[p].removeTemp THEN fs[Temp(p)]
                        ELSE [owner |-> Foreign, whole |-> TRUE]])
     \/ Goto(p, "openBail")
  /\ UNCHANGED <<command, fs, edg>>

\* sysMapFileInShmemReadOnly, which fails for an empty file among others.
MapFile(p) ==
  /\ At(p, "map")
  /\ \/ Become(p, [proc[p] EXCEPT !.pc = "openBail", !.result = "Success",
                                !.mapped = TRUE])
     \/ Goto(p, "openBail")
  /\ UNCHANGED <<command, fs, edg>>

\* What process makes of the result.
AfterOpen(p) == IF proc[p].result = "Success" THEN "parse" ELSE "fail"

\* (Mutant: the temporary file is removed on success only.)
OpenBailOnSuccess(p) ==
  /\ At(p, "openBail")
  /\ \/ /\ proc[p].removeTemp /\ proc[p].mapped
        /\ Unlink(p)
        /\ Goto(p, AfterOpen(p))
     \/ /\ proc[p].removeTemp /\ proc[p].mapped
        /\ Become(p, [proc[p] EXCEPT !.pc = AfterOpen(p), !.left = TRUE])
        /\ UNCHANGED fs
     \/ /\ ~(proc[p].removeTemp /\ proc[p].mapped)
        /\ Goto(p, AfterOpen(p))
        /\ UNCHANGED fs
  /\ UNCHANGED <<command, edg>>

OpenBail(p) ==
  /\ At(p, "openBail")
  /\ \/ /\ proc[p].removeTemp
        /\ Unlink(p)
        /\ Goto(p, AfterOpen(p))
     \/ /\ proc[p].removeTemp
        /\ Become(p, [proc[p] EXCEPT !.pc = AfterOpen(p), !.left = TRUE])
        /\ UNCHANGED fs
     \/ /\ ~proc[p].removeTemp
        /\ Goto(p, AfterOpen(p))
        /\ UNCHANGED fs
  /\ UNCHANGED <<command, edg>>

-----------------------------------------------------------------------------
(***************************************************************************)
(* The rest of process                                                     *)
(***************************************************************************)
Writes(p) == ~Has(p, "c") /\ ~Has(p, "m")

\* dexFileParse.  An unfilled map holds whatever the stack does, the map of the
\* file before included: that, too, is parsed or is not (or the process dies).
Parse(p) ==
  /\ At(p, "parse")
  /\ \E parsed \in BOOLEAN :
       Become(p, [proc[p] EXCEPT
         !.pc = CASE ~parsed -> "fail"
                  [] parsed /\ Writes(p) -> "header"
                  [] OTHER -> "next",
         !.wild = proc[p].wild \/ ~proc[p].mapped])
  /\ UNCHANGED <<command, fs, edg>>

\* process returns -1, which main adds to its result.  (Mutant: main assigns it.)
FailForgotten(p) ==
  /\ At(p, "fail")
  /\ Become(p, [proc[p] EXCEPT !.pc = "next", 
                           !.failed = (proc[p].file = Len(command[p].files))])
  /\ UNCHANGED <<command, fs, edg>>

Fail(p) ==
  /\ At(p, "fail")
  /\ Become(p, [proc[p] EXCEPT !.pc = "next", !.failed = TRUE])
  /\ UNCHANGED <<command, fs, edg>>

\* Three times graph.edg is opened to append to it; an open or a write that
\* fails is not noticed.
Append3(p, part, goto) ==
  /\ At(p, part)
  /\ \/ /\ edg' = Append(edg, [by |-> p, file |-> proc[p].file, part |-> part])
        /\ Goto(p, goto)
     \/ /\ Become(p, [proc[p] EXCEPT !.pc = goto, !.lost = TRUE])
        /\ UNCHANGED edg
  /\ UNCHANGED <<command, fs>>

DumpHeader(p) == Append3(p, "header", "nodes")
DumpNodes(p) == Append3(p, "nodes", "edges")
DumpEdges(p) == Append3(p, "edges", "next")

Kill(p) ==
  /\ proc[p].pc \notin {"usage", "exit", "dead"}
  /\ Goto(p, "dead")
  /\ UNCHANGED <<command, fs, edg>>

-----------------------------------------------------------------------------
Step(p) ==
  \/ ParseArgs(p) \/ NextFile(p) \/ Exit(p)
  \/ dexZipOpenArchive(p) \/ CreateTemp(p) \/ FindEntry(p) \/ Extract(p) \/ UnzipBail(p)
  \/ OpenFile(p) \/ MapFile(p) \/ OpenBail(p)
  \/ Parse(p) \/ Fail(p) \/ DumpHeader(p) \/ DumpNodes(p) \/ DumpEdges(p)
  \/ Kill(p)

Next == \E p \in Proc : Step(p)

Spec == Init /\ [][Next]_vars

-----------------------------------------------------------------------------
(***************************************************************************)
(* Properties                                                              *)
(***************************************************************************)
File == [owner : Proc \cup {Foreign}, whole : BOOLEAN]

Labels == {"start", "usage", "next", "exit", "dead", "zip", "create", "entry", "extract",
           "unzipBail", "open", "map", "openBail", "parse", "fail", "header", "nodes",
           "edges"}

Results == {"Success", "GenericFailure", "BadArgs", "NotZip", "NoClassesDex",
            "OutputFileProblem", "BadZip"}

TypeOK ==
  /\ command \in Commands
  /\ fs \in [Path -> File \cup {NoFile}]
  /\ proc \in [Proc -> [pc : Labels, file : Nat, result : Results, removeTemp : BOOLEAN,
                        opened : File \cup {NoFile}, mapped : BOOLEAN, failed : BOOLEAN,
                        left : BOOLEAN, lost : BOOLEAN, wild : BOOLEAN]]
  /\ \A p \in Proc : proc[p].file <= Len(command[p].files)

\* A process removes no file but the one it made, whichever name it was given,
\* whoever else was given that name, and whatever failed before.
RemovesOwnFileOnly ==
  [][\A t \in Path : fs[t] # NoFile /\ fs'[t] = NoFile =>
       \E p \in Proc : fs[t].owner = p /\ proc'[p] # proc[p]]_vars

\* What is mapped after an unzip is the process's own extraction, all of it,
\* although the name is opened anew after the file was closed.
MapsOwnExtraction ==
  \A p \in Proc : At(p, "map") /\ proc[p].removeTemp =>
    proc[p].opened = [owner |-> p, whole |-> TRUE]

\* A process that went to its end has left no temporary file behind, unless the
\* system refused to remove one.
NoTempLeft ==
  \A p \in Proc : At(p, "exit") /\ ~proc[p].left =>
    \A t \in Path : fs[t] # NoFile => fs[t].owner # p

\* The entries of graph.edg up to the n-th that a process has made.
By(p, n) == {i \in 1..n : edg[i].by = p}

PartNumber == [header |-> 1, nodes |-> 2, edges |-> 3]

\* A process has appended k parts, whatever others have in between: the header, the
\* nodes and the edges of its first file, of its second, and so on.
Written(p, k) ==
  /\ Cardinality(By(p, Len(edg))) = k
  /\ \A i \in By(p, Len(edg)) :
       Cardinality(By(p, i)) = 3 * (edg[i].file - 1) + PartNumber[edg[i].part]

\* An exit status of zero means that every file has its complete block in
\* graph.edg, in order, but for appends that were lost unnoticed and for maps
\* that dexOpenAndMap has not filled.
ZeroMeansWritten ==
  \A p \in Proc :
    At(p, "exit") /\ ~proc[p].failed /\ ~proc[p].lost /\ ~proc[p].wild /\ Writes(p) =>
      Written(p, 3 * Len(command[p].files))

\* dexOpenAndMap returns success only when the file is mapped.
SuccessMeansMapped ==
  \A p \in Proc : At(p, "parse") => proc[p].mapped
=============================================================================
