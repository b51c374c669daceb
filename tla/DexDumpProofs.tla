---------------------------- MODULE DexDumpProofs ----------------------------
(***************************************************************************)
(* For any number of processes, command lines and names: the temporary     *)
(* files of dexUnzipToFile and dexOpenAndMap stay each process's own, and  *)
(* so do the parts that it appends to graph.edg.                           *)
(***************************************************************************)
EXTENDS DexDump, TLAPS, FiniteSetTheorems

(***************************************************************************)
(* Type correctness: proc stays a function of states of a process, with    *)
(* labels and results of the code's, and optind stays within argv.         *)
(***************************************************************************)
ProcState == [pc : Labels, file : Nat, result : Results, removeTemp : BOOLEAN,
              opened : File \cup {NoFile}, mapped : BOOLEAN, failed : BOOLEAN,
              left : BOOLEAN, lost : BOOLEAN, wild : BOOLEAN]

LEMMA InitType == Init => TypeOK
<1> SUFFICES ASSUME Init PROVE TypeOK
  OBVIOUS
<1>1. Start \in ProcState
  BY DEF Start, ProcState, Labels, Results
<1>2. fs \in [Path -> File \cup {NoFile}]
  <2>1. [owner |-> Foreign, whole |-> TRUE] \in File
    BY DEF File
  <2>2. QED
    BY <2>1 DEF Init
<1>3. \A p \in Proc : proc[p].file <= Len(command[p].files)
  <2> SUFFICES ASSUME NEW p \in Proc PROVE proc[p].file <= Len(command[p].files)
    OBVIOUS
  <2>1. Len(command[p].files) \in Nat
    BY CommandsAssumption DEF Init
  <2>2. proc[p].file = 0
    BY DEF Init, Start
  <2>3. QED
    BY <2>1, <2>2
<1>4. QED
  BY <1>1, <1>2, <1>3 DEF Init, TypeOK, ProcState

LEMMA ProcType ==
  ASSUME TypeOK, NEW p \in Proc
  PROVE  /\ proc[p] \in ProcState
         /\ command[p].files \in Seq(Names)
         /\ Temp(p) \in Path
         /\ proc[p].file <= Len(command[p].files)
BY CommandsAssumption DEF TypeOK, ProcState, Temp

\* A step that gives one process a new state and changes fs keeps the types when
\* the new state has its type and the new file has its.
LEMMA BecomeType ==
  ASSUME TypeOK, NEW p \in Proc, NEW state \in ProcState,
         Become(p, state), command' = command,
         state.file <= Len(command[p].files),
         fs' = fs \/ \E f \in File \cup {NoFile} : fs' = [fs EXCEPT ![Temp(p)] = f]
  PROVE  TypeOK'
<1>1. proc' \in [Proc -> ProcState]
  BY DEF TypeOK, ProcState, Become
<1>2. fs' \in [Path -> File \cup {NoFile}]
  BY ProcType DEF TypeOK
<1>3. \A q \in Proc : proc'[q].file <= Len(command'[q].files)
  BY DEF TypeOK, Become
<1>4. QED
  BY <1>1, <1>2, <1>3 DEF TypeOK, ProcState

LEMMA StepType ==
  ASSUME TypeOK, NEW p \in Proc, Step(p)
  PROVE  TypeOK'
<1> USE ProcType DEF At, Goto, ProcState
<1>1. CASE ParseArgs(p)
  BY <1>1, BecomeType DEF ParseArgs, Labels
<1>2. CASE NextFile(p)
  <2> DEFINE name == command[p].files[proc[p].file + 1]
             label == CASE name = "short" -> "openBail"
                        [] name = "dex" -> "open"
                        [] OTHER -> "zip"
             state == [proc[p] EXCEPT
                         !.pc = label,
                         !.file = Advanced(proc[p].file),
                         !.result = IF name = "short" THEN "BadArgs" ELSE "GenericFailure",
                         !.removeTemp = FALSE,
                         !.opened = NoFile,
                         !.mapped = FALSE]
  <2>1. Become(p, state) /\ UNCHANGED <<command, fs, edg>>
    BY <1>2 DEF NextFile
  <2>2. state \in ProcState
    <3>1. label \in Labels
      BY DEF Labels
    <3>2. proc[p].file + 1 \in Nat
      OBVIOUS
    <3> HIDE DEF label
    <3>3. QED
      BY <3>1, <3>2 DEF Results, Advanced
  <2>3. state.file <= Len(command[p].files)
    <3>1. /\ state.file = proc[p].file + 1
          /\ proc[p].file \in Nat
          /\ proc[p].file < Len(command[p].files)
      BY <1>2 DEF NextFile, Advanced
    <3>2. Len(command[p].files) \in Nat
      OBVIOUS
    <3> HIDE DEF state
    <3>3. QED
      BY <3>1, <3>2
  <2> HIDE DEF state
  <2>4. QED
    BY <2>1, <2>2, <2>3, BecomeType
<1>3. CASE Exit(p)
  BY <1>3, BecomeType DEF Exit, Labels
<1>4. CASE dexZipOpenArchive(p)
  BY <1>4, BecomeType DEF dexZipOpenArchive, Labels, Results
<1>5. CASE CreateTemp(p)
  BY <1>5, BecomeType DEF CreateTemp, Labels, Results, File
<1>6. CASE FindEntry(p)
  BY <1>6, BecomeType DEF FindEntry, Labels, Results
<1>7. CASE Extract(p)
  <2>1. fs[Temp(p)] # NoFile => [fs[Temp(p)] EXCEPT !.whole = TRUE] \in File
    BY DEF TypeOK, File
  <2>2. fs[Temp(p)] \in File \cup {NoFile}
    BY DEF TypeOK
  <2>3. \/ fs' = fs
        \/ \E f \in File \cup {NoFile} : fs' = [fs EXCEPT ![Temp(p)] = f]
    BY <1>7, <2>1, <2>2 DEF Extract
  <2>4. QED
    BY <1>7, <2>3, BecomeType DEF Extract, Labels, Results
<1>8. CASE UnzipBail(p)
  BY <1>8, BecomeType DEF UnzipBail, Unlink, Labels
<1>9. CASE OpenFile(p)
  BY <1>9, BecomeType DEF OpenFile, Labels, File, TypeOK
<1>10. CASE MapFile(p)
  BY <1>10, BecomeType DEF MapFile, Labels, Results
<1>11. CASE OpenBail(p)
  BY <1>11, BecomeType DEF OpenBail, Unlink, AfterOpen, Labels
<1>12. CASE Parse(p)
  BY <1>12, BecomeType DEF Parse, Labels
<1>13. CASE Fail(p)
  BY <1>13, BecomeType DEF Fail, Labels
<1>14. CASE DumpHeader(p) \/ DumpNodes(p) \/ DumpEdges(p)
  BY <1>14, BecomeType DEF DumpHeader, DumpNodes, DumpEdges, Append3, Labels
<1>15. CASE Kill(p)
  BY <1>15, BecomeType DEF Kill, Labels
<1>16. QED
  BY <1>1, <1>2, <1>3, <1>4, <1>5, <1>6, <1>7, <1>8, <1>9, <1>10, <1>11, <1>12, <1>13,
     <1>14, <1>15 DEF Step

LEMMA NextType == TypeOK /\ [Next]_vars => TypeOK'
<1> SUFFICES ASSUME TypeOK, [Next]_vars PROVE TypeOK'
  OBVIOUS
<1>1. CASE Next
  BY <1>1, StepType DEF Next
<1>2. CASE UNCHANGED vars
  BY <1>2 DEF vars, TypeOK
<1>3. QED
  BY <1>1, <1>2

\* Every process's state has its type, at every point of main, process,
\* dexOpenAndMap and dexUnzipToFile.
THEOREM TypeCorrect == Spec => []TypeOK
<1>1. QED
  BY InitType, NextType, PTL DEF Spec

-----------------------------------------------------------------------------
(***************************************************************************)
(* Ownership.  A process holds its temporary file from the call that       *)
(* created it to the one that unlinks it; meanwhile the name is taken and  *)
(* nobody else unlinks it.                                                 *)
(***************************************************************************)
Extracted(p) == proc[p].removeTemp /\ proc[p].pc \in {"open", "map", "openBail"}
Holds(p) == proc[p].pc \in {"entry", "extract", "unzipBail"} \/ Extracted(p)

Ownership(p) ==
  /\ proc[p].pc \in {"zip", "create", "entry", "extract", "unzipBail"} => ~proc[p].removeTemp
  /\ Holds(p) => fs[Temp(p)] # NoFile /\ fs[Temp(p)].owner = p
  /\ Extracted(p) => fs[Temp(p)] = [owner |-> p, whole |-> TRUE]
  /\ proc[p].pc = "map" /\ proc[p].removeTemp =>
       proc[p].opened = [owner |-> p, whole |-> TRUE]
  /\ \A t \in Path :
       fs[t] # NoFile /\ fs[t].owner = p /\ ~proc[p].left /\ proc[p].pc # "dead"
         => t = Temp(p) /\ Holds(p)

Inv == TypeOK /\ \A p \in Proc : Ownership(p)

LEMMA InitOwnership == Init => \A p \in Proc : Ownership(p)
BY NoOneAssumption DEF Init, Start, Ownership, Holds, Extracted

\* A step touches no name but its process's own, and there only what is the
\* process's own before, if there is anything, and after.
LEMMA StepFrame ==
  ASSUME TypeOK, NEW p \in Proc, Ownership(p), Step(p)
  PROVE  /\ command' = command
         /\ \A q \in Proc \ {p} : proc'[q] = proc[q]
         /\ \A t \in Path :
              \/ fs'[t] = fs[t]
              \/ /\ t = Temp(p)
                 /\ fs[t] # NoFile => fs[t].owner = p
                 /\ fs'[t] # NoFile => fs'[t].owner = p
                 /\ proc'[p] # proc[p]
<1> USE ProcType DEF At, Goto, Become, ProcState
<1>1. CASE CreateTemp(p)
  BY <1>1 DEF CreateTemp, TypeOK
<1>2. CASE Extract(p)
  <2>1. CASE UNCHANGED fs
    BY <1>2, <2>1 DEF Extract, TypeOK
  <2>2. CASE fs' = [fs EXCEPT ![Temp(p)] =
                      IF @ = NoFile THEN @ ELSE [@ EXCEPT !.whole = TRUE]]
    <3>1. fs[Temp(p)] \in File /\ fs[Temp(p)] # NoFile /\ fs[Temp(p)].owner = p
      BY <1>2 DEF Extract, Ownership, Holds, TypeOK
    <3>2. [fs[Temp(p)] EXCEPT !.whole = TRUE].owner = p
      BY <3>1 DEF File
    <3>3. fs'[Temp(p)] = [fs[Temp(p)] EXCEPT !.whole = TRUE]
      BY <2>2, <3>1 DEF TypeOK
    <3>4. proc'[p].pc # proc[p].pc
      BY <1>2 DEF Extract, TypeOK
    <3>5. \A t \in Path \ {Temp(p)} : fs'[t] = fs[t]
      BY <2>2 DEF TypeOK
    <3>6. command' = command /\ \A q \in Proc \ {p} : proc'[q] = proc[q]
      BY <1>2 DEF Extract, TypeOK
    <3>7. QED
      BY <3>1, <3>2, <3>3, <3>4, <3>5, <3>6
  <2>3. QED
    BY <1>2, <2>1, <2>2 DEF Extract
<1>3. CASE UnzipBail(p)
  BY <1>3 DEF UnzipBail, Unlink, Ownership, Holds, TypeOK
<1>4. CASE OpenBail(p)
  <2>1. AfterOpen(p) # "openBail"
    BY DEF AfterOpen
  <2>2. QED
    BY <1>4, <2>1 DEF OpenBail, Unlink, Ownership, Holds, Extracted, TypeOK
<1>5. CASE UNCHANGED <<command, fs>> /\ \A q \in Proc \ {p} : proc'[q] = proc[q]
  BY <1>5
<1>6. CASE ParseArgs(p) \/ NextFile(p) \/ Exit(p) \/ dexZipOpenArchive(p) \/ FindEntry(p)
  BY <1>5, <1>6 DEF ParseArgs, NextFile, Exit, dexZipOpenArchive, FindEntry, TypeOK
<1>7. CASE OpenFile(p) \/ MapFile(p) \/ Parse(p) \/ Fail(p) \/ Kill(p)
  BY <1>5, <1>7 DEF OpenFile, MapFile, Parse, Fail, Kill, TypeOK
<1>8. CASE DumpHeader(p) \/ DumpNodes(p) \/ DumpEdges(p)
  BY <1>5, <1>8 DEF DumpHeader, DumpNodes, DumpEdges, Append3, TypeOK
<1>9. QED
  BY <1>1, <1>2, <1>3, <1>4, <1>6, <1>7, <1>8 DEF Step

\* So the files of the other processes stay as they are.
LEMMA OthersKeep ==
  ASSUME TypeOK, NEW p \in Proc, Ownership(p), Step(p),
         NEW q \in Proc \ {p}, Ownership(q)
  PROVE  Ownership(q)'
<1>1. /\ command' = command /\ proc'[q] = proc[q] /\ Temp(q)' = Temp(q)
      /\ Temp(q) \in Path
  BY StepFrame, ProcType DEF Temp
<1>2. \A t \in Path : \/ fs'[t] = fs[t]
                     \/ /\ fs[t] # NoFile => fs[t].owner # q
                        /\ fs'[t] # NoFile => fs'[t].owner # q
  BY StepFrame
<1>3. QED
  BY <1>1, <1>2 DEF Ownership, Holds, Extracted

\* A step of a process that leaves fs alone keeps what the process holds.
LEMMA FsSameKeeps ==
  ASSUME TypeOK, NEW p \in Proc, Ownership(p), UNCHANGED <<command, fs>>,
         proc'[p].pc \in {"zip", "create", "entry", "extract", "unzipBail"}
           => ~proc'[p].removeTemp,
         Holds(p)' => Holds(p),
         Extracted(p)' => Extracted(p),
         proc'[p].pc = "map" /\ proc'[p].removeTemp =>
           proc'[p].opened = [owner |-> p, whole |-> TRUE],
         proc[p].left \/ proc[p].pc = "dead" => proc'[p].left \/ proc'[p].pc = "dead",
         Holds(p) => \/ Holds(p)'
                     \/ proc'[p].left \/ proc'[p].pc = "dead"
  PROVE  Ownership(p)'
<1>1. Temp(p)' = Temp(p)
  BY DEF Temp
<1>2. QED
  BY <1>1 DEF Ownership

\* The fields of a process after a step that gives it a new state.
LEMMA BecomeFields ==
  ASSUME TypeOK, NEW p \in Proc, NEW state, Become(p, state)
  PROVE  proc'[p] = state
BY DEF Become, TypeOK

\* And what a process holds it goes on holding, until it lets it go.
LEMMA OwnKeeps ==
  ASSUME TypeOK, NEW p \in Proc, Ownership(p), Step(p)
  PROVE  Ownership(p)'
<1> USE ProcType DEF At, Goto
<1>1. CASE ParseArgs(p) \/ Exit(p)
  <2>1. /\ UNCHANGED <<command, fs>>
        /\ proc[p].pc \in {"start", "next"}
        /\ proc'[p].pc \in {"usage", "next", "exit"}
        /\ proc'[p].left = proc[p].left
    BY <1>1, BecomeFields DEF ParseArgs, Exit, ProcState
  <2>2. QED
    BY <2>1, FsSameKeeps DEF Holds, Extracted
<1>2. CASE NextFile(p)
  <2>1. /\ UNCHANGED <<command, fs>>
        /\ proc[p].pc = "next"
        /\ proc'[p].pc \in {"openBail", "open", "zip"}
        /\ proc'[p].removeTemp = FALSE
        /\ proc'[p].left = proc[p].left
    <3> DEFINE name == command[p].files[proc[p].file + 1]
               label == CASE name = "short" -> "openBail"
                          [] name = "dex" -> "open"
                          [] OTHER -> "zip"
               state == [proc[p] EXCEPT
                           !.pc = label,
                           !.file = Advanced(proc[p].file),
                           !.result = IF name = "short" THEN "BadArgs" ELSE "GenericFailure",
                           !.removeTemp = FALSE,
                           !.opened = NoFile,
                           !.mapped = FALSE]
    <3>1. label \in {"openBail", "open", "zip"}
      OBVIOUS
    <3>2. UNCHANGED <<command, fs>> /\ proc[p].pc = "next" /\ Become(p, state)
      BY <1>2 DEF NextFile
    <3> HIDE DEF label
    <3>3. state.pc = label /\ state.removeTemp = FALSE /\ state.left = proc[p].left
      BY DEF ProcState
    <3> HIDE DEF state
    <3>4. QED
      BY <3>1, <3>2, <3>3, BecomeFields
  <2>2. QED
    BY <2>1, FsSameKeeps DEF Holds, Extracted
<1>3. CASE dexZipOpenArchive(p)
  <2>1. /\ UNCHANGED <<command, fs>>
        /\ proc[p].pc = "zip" /\ ~proc[p].removeTemp
        /\ proc'[p].pc \in {"create", "open"}
        /\ proc'[p].removeTemp = proc[p].removeTemp
        /\ proc'[p].left = proc[p].left
    BY <1>3, BecomeFields DEF dexZipOpenArchive, ProcState, Ownership
  <2>2. QED
    BY <2>1, FsSameKeeps DEF Holds, Extracted
<1>4. CASE CreateTemp(p)
  <2>1. /\ command' = command
        /\ proc[p].pc = "create" /\ ~proc[p].removeTemp
        /\ proc'[p].removeTemp = proc[p].removeTemp
        /\ proc'[p].left = proc[p].left
    BY <1>4, BecomeFields DEF CreateTemp, ProcState, Ownership
  <2>2. CASE proc'[p].pc = "openBail" /\ UNCHANGED fs
    BY <2>1, <2>2, FsSameKeeps DEF Holds, Extracted
  <2>3. CASE /\ proc'[p].pc = "entry"
             /\ fs' = [fs EXCEPT ![Temp(p)] = [owner |-> p, whole |-> FALSE]]
    <3>1. Temp(p)' = Temp(p)
      BY <2>1 DEF Temp
    <3>2. fs'[Temp(p)] = [owner |-> p, whole |-> FALSE]
      BY <2>3 DEF TypeOK
    <3>3. fs'[Temp(p)] # NoFile /\ fs'[Temp(p)].owner = p
      <4>1. fs'[Temp(p)] \in [owner : Proc \cup {Foreign}, whole : BOOLEAN]
        BY <3>2
      <4>2. fs'[Temp(p)] # NoFile
        BY <4>1, NoFileAssumption
      <4>3. fs'[Temp(p)].owner = p
        BY <3>2
      <4>4. QED
        BY <4>2, <4>3
    <3>4. \A t \in Path \ {Temp(p)} : fs'[t] = fs[t]
      BY <2>3 DEF TypeOK
    <3>5. QED
      BY <2>1, <2>3, <3>1, <3>3, <3>4 DEF Ownership, Holds, Extracted
  <2>4. QED
    BY <1>4, <2>2, <2>3, BecomeFields DEF CreateTemp, ProcState
<1>5. CASE FindEntry(p)
  <2>1. /\ UNCHANGED <<command, fs>>
        /\ proc[p].pc = "entry" /\ ~proc[p].removeTemp
        /\ proc'[p].pc \in {"extract", "unzipBail"}
        /\ proc'[p].removeTemp = proc[p].removeTemp
        /\ proc'[p].left = proc[p].left
    BY <1>5, BecomeFields DEF FindEntry, ProcState, Ownership
  <2>2. QED
    BY <2>1, FsSameKeeps DEF Holds, Extracted
<1>6. CASE Extract(p)
  <2>1. /\ command' = command
        /\ proc[p].pc = "extract" /\ ~proc[p].removeTemp
        /\ proc'[p].left = proc[p].left
    BY <1>6, BecomeFields DEF Extract, ProcState, Ownership
  <2>2. CASE /\ proc'[p].pc = "unzipBail" /\ UNCHANGED fs
             /\ proc'[p].removeTemp = proc[p].removeTemp
    BY <2>1, <2>2, FsSameKeeps DEF Holds, Extracted
  <2>3. CASE /\ proc'[p].pc = "open" /\ proc'[p].removeTemp
             /\ fs' = [fs EXCEPT ![Temp(p)] =
                         IF @ = NoFile THEN @ ELSE [@ EXCEPT !.whole = TRUE]]
    <3>1. Temp(p)' = Temp(p)
      BY <2>1 DEF Temp
    <3>2. fs[Temp(p)] \in File /\ fs[Temp(p)] # NoFile /\ fs[Temp(p)].owner = p
      BY <2>1 DEF Ownership, Holds, TypeOK
    <3>3. fs'[Temp(p)] = [fs[Temp(p)] EXCEPT !.whole = TRUE]
      BY <2>3, <3>2 DEF TypeOK
    <3>4. fs'[Temp(p)] = [owner |-> p, whole |-> TRUE]
      BY <3>2, <3>3 DEF File
    <3>5. fs'[Temp(p)] # NoFile /\ fs'[Temp(p)].owner = p
      <4>1. fs'[Temp(p)] \in [owner : Proc \cup {Foreign}, whole : BOOLEAN]
        BY <3>4
      <4>2. fs'[Temp(p)] # NoFile
        BY <4>1, NoFileAssumption
      <4>3. fs'[Temp(p)].owner = p
        BY <3>4
      <4>4. QED
        BY <4>2, <4>3
    <3>6. \A t \in Path \ {Temp(p)} : fs'[t] = fs[t]
      BY <2>3 DEF TypeOK
    <3>7. QED
      BY <2>1, <2>3, <3>1, <3>4, <3>5, <3>6 DEF Ownership, Holds, Extracted
  <2>4. CASE Become(p, [proc[p] EXCEPT !.pc = "unzipBail", !.result = "BadZip"]) /\ UNCHANGED fs
    BY <2>2, <2>4, BecomeFields DEF ProcState
  <2>5. CASE /\ fs' = [fs EXCEPT ![Temp(p)] =
                         IF @ = NoFile THEN @ ELSE [@ EXCEPT !.whole = TRUE]]
             /\ Become(p, [proc[p] EXCEPT !.pc = "open", !.result = "Success",
                                          !.removeTemp = TRUE])
    <3>1. proc'[p].pc = "open" /\ proc'[p].removeTemp
      BY <2>5, BecomeFields DEF ProcState
    <3>2. QED
      BY <2>3, <2>5, <3>1
  <2>6. QED
    BY <1>6, <2>4, <2>5 DEF Extract
<1>7. CASE UnzipBail(p)
  <2>1. /\ command' = command
        /\ proc[p].pc = "unzipBail" /\ ~proc[p].removeTemp
        /\ proc'[p].pc = "openBail"
        /\ proc'[p].removeTemp = proc[p].removeTemp
    BY <1>7, BecomeFields DEF UnzipBail, ProcState, Ownership
  <2>2. CASE proc'[p].left /\ UNCHANGED fs
    BY <2>1, <2>2, FsSameKeeps DEF Holds, Extracted
  <2>3. CASE proc'[p].left = proc[p].left /\ Unlink(p)
    <3>1. Temp(p)' = Temp(p)
      BY <2>1 DEF Temp
    <3>2. /\ fs'[Temp(p)] = NoFile
          /\ \A t \in Path \ {Temp(p)} : fs'[t] = fs[t]
      BY <2>3 DEF Unlink, TypeOK
    <3>3. QED
      BY <2>1, <2>3, <3>1, <3>2 DEF Ownership, Holds, Extracted
  <2>4. QED
    BY <1>7, <2>2, <2>3, BecomeFields DEF UnzipBail, ProcState
<1>8. CASE OpenFile(p)
  <2>1. /\ UNCHANGED <<command, fs>>
        /\ proc[p].pc = "open"
        /\ proc'[p].removeTemp = proc[p].removeTemp
        /\ proc'[p].left = proc[p].left
    BY <1>8, BecomeFields DEF OpenFile, ProcState
  <2>2. CASE proc'[p].pc = "openBail"
    BY <2>1, <2>2, FsSameKeeps DEF Holds, Extracted
  <2>3. CASE proc'[p].pc = "map" /\ (proc[p].removeTemp => proc'[p].opened = fs[Temp(p)])
    <3>1. proc[p].removeTemp => fs[Temp(p)] = [owner |-> p, whole |-> TRUE]
      BY <2>1 DEF Ownership, Extracted
    <3>2. QED
      BY <2>1, <2>3, <3>1, FsSameKeeps DEF Holds, Extracted
  <2>4. QED
    BY <1>8, <2>2, <2>3, BecomeFields DEF OpenFile, ProcState
<1>9. CASE MapFile(p)
  <2>1. /\ UNCHANGED <<command, fs>>
        /\ proc[p].pc = "map"
        /\ proc'[p].pc = "openBail"
        /\ proc'[p].removeTemp = proc[p].removeTemp
        /\ proc'[p].left = proc[p].left
    BY <1>9, BecomeFields DEF MapFile, ProcState
  <2>2. QED
    BY <2>1, FsSameKeeps DEF Holds, Extracted
<1>10. CASE OpenBail(p)
  <2>1. /\ command' = command
        /\ proc[p].pc = "openBail"
        /\ proc'[p].pc \in {"parse", "fail"}
        /\ proc'[p].removeTemp = proc[p].removeTemp
    BY <1>10, BecomeFields DEF OpenBail, AfterOpen, ProcState
  <2>2. CASE UNCHANGED fs /\ proc'[p].left
    BY <2>1, <2>2, FsSameKeeps DEF Holds, Extracted
  <2>3. CASE UNCHANGED fs /\ ~proc[p].removeTemp /\ proc'[p].left = proc[p].left
    BY <2>1, <2>3, FsSameKeeps DEF Holds, Extracted
  <2>4. CASE proc'[p].left = proc[p].left /\ Unlink(p)
    <3>1. Temp(p)' = Temp(p)
      BY <2>1 DEF Temp
    <3>2. /\ fs'[Temp(p)] = NoFile
          /\ \A t \in Path \ {Temp(p)} : fs'[t] = fs[t]
      BY <2>4 DEF Unlink, TypeOK
    <3>3. QED
      BY <2>1, <2>4, <3>1, <3>2 DEF Ownership, Holds, Extracted
  <2>5. QED
    BY <1>10, <2>2, <2>3, <2>4, BecomeFields DEF OpenBail, ProcState
<1>11. CASE Parse(p)
  <2>1. PICK parsed \in BOOLEAN :
          Become(p, [proc[p] EXCEPT
            !.pc = CASE ~parsed -> "fail"
                     [] parsed /\ Writes(p) -> "header"
                     [] OTHER -> "next",
            !.wild = proc[p].wild \/ ~proc[p].mapped])
    BY <1>11 DEF Parse
  <2> DEFINE label == CASE ~parsed -> "fail"
                        [] parsed /\ Writes(p) -> "header"
                        [] OTHER -> "next"
  <2>2. label \in {"fail", "header", "next"}
    OBVIOUS
  <2>3. UNCHANGED <<command, fs>> /\ proc[p].pc = "parse"
    BY <1>11 DEF Parse
  <2>4. proc'[p].pc = label /\ proc'[p].left = proc[p].left
    <3>1. Become(p, [proc[p] EXCEPT !.pc = label, !.wild = proc[p].wild \/ ~proc[p].mapped])
      BY <2>1
    <3> HIDE DEF label
    <3>2. QED
      BY <3>1, BecomeFields DEF ProcState
  <2> HIDE DEF label
  <2>5. QED
    BY <2>2, <2>3, <2>4, FsSameKeeps DEF Holds, Extracted
<1>12. CASE Fail(p) \/ DumpHeader(p) \/ DumpNodes(p) \/ DumpEdges(p)
  <2>1. /\ UNCHANGED <<command, fs>>
        /\ proc[p].pc \in {"fail", "header", "nodes", "edges"}
        /\ proc'[p].pc \in {"next", "nodes", "edges"}
        /\ proc'[p].left = proc[p].left
    BY <1>12, BecomeFields DEF Fail, DumpHeader, DumpNodes, DumpEdges, Append3, ProcState
  <2>2. QED
    BY <2>1, FsSameKeeps DEF Holds, Extracted
<1>13. CASE Kill(p)
  <2>1. UNCHANGED <<command, fs>> /\ proc'[p].pc = "dead"
    BY <1>13, BecomeFields DEF Kill, ProcState
  <2>2. QED
    BY <2>1, FsSameKeeps DEF Holds, Extracted
<1>14. QED
  BY <1>1, <1>2, <1>3, <1>4, <1>5, <1>6, <1>7, <1>8, <1>9, <1>10, <1>11, <1>12, <1>13
  DEF Step

LEMMA NextInv == Inv /\ [Next]_vars => Inv'
<1> SUFFICES ASSUME Inv, [Next]_vars PROVE Inv'
  OBVIOUS
<1>1. TypeOK'
  BY NextType DEF Inv
<1>2. ASSUME NEW q \in Proc PROVE Ownership(q)'
  <2>1. CASE UNCHANGED vars
    BY <2>1 DEF Inv, vars, Ownership, Holds, Extracted, Temp
  <2>2. ASSUME NEW p \in Proc, Step(p) PROVE Ownership(q)'
    <3>1. CASE q = p
      BY <2>2, <3>1, OwnKeeps DEF Inv
    <3>2. CASE q # p
      BY <2>2, <3>2, OthersKeep DEF Inv
    <3>3. QED
      BY <3>1, <3>2
  <2>3. QED
    BY <2>1, <2>2 DEF Next
<1>3. QED
  BY <1>1, <1>2 DEF Inv

THEOREM InvHolds == Spec => []Inv
<1>1. Init => Inv
  BY InitType, InitOwnership DEF Inv
<1>2. QED
  BY <1>1, NextInv, PTL DEF Spec

\* Whatever other processes do between the close after the extraction and the
\* open for reading, what dexOpenAndMap maps is its own complete extraction.
THEOREM MapsOwnExtractionHolds == Spec => []MapsOwnExtraction
<1>1. Inv => MapsOwnExtraction
  BY DEF Inv, Ownership, MapsOwnExtraction, At
<1>2. QED
  BY <1>1, InvHolds, PTL

\* A process that has come to its end has cleaned up on each of its paths.
THEOREM NoTempLeftHolds == Spec => []NoTempLeft
<1>1. Inv => NoTempLeft
  BY DEF Inv, Ownership, Holds, Extracted, NoTempLeft, At
<1>2. QED
  BY <1>1, InvHolds, PTL

\* unlinkOnFailure and removeTemp never let a process unlink another's file.
THEOREM RemovesOwnFileOnlyHolds == Spec => RemovesOwnFileOnly
<1> DEFINE Removal ==
      \A t \in Path : fs[t] # NoFile /\ fs'[t] = NoFile =>
        \E p \in Proc : fs[t].owner = p /\ proc'[p] # proc[p]
<1>1. Inv /\ [Next]_vars => [Removal]_vars
  <2> SUFFICES ASSUME Inv, NEW p \in Proc, Step(p) PROVE Removal
    BY DEF Next
  <2>1. TypeOK /\ Ownership(p)
    BY DEF Inv
  <2>2. QED
    BY <2>1, StepFrame
<1>2. QED
  BY <1>1, InvHolds, PTL DEF Spec, RemovesOwnFileOnly

-----------------------------------------------------------------------------
(***************************************************************************)
(* What is in graph.edg.  Of a process to which nothing has happened that  *)
(* its exit status hides, it has at every point the parts that the process *)
(* has come to, and no step of another changes that.                       *)
(***************************************************************************)
Part == [by : Proc, file : Nat, part : {"header", "nodes", "edges"}]

\* How many parts a process has come to.
Due(p) ==
  IF proc[p].pc \in {"start", "usage"} THEN 0
  ELSE IF proc[p].pc \in {"next", "exit"} THEN 3 * proc[p].file
  ELSE 3 * (proc[p].file - 1) + IF proc[p].pc = "nodes" THEN 1
                                ELSE IF proc[p].pc = "edges" THEN 2 ELSE 0

Faultless(p) ==
  ~proc[p].failed /\ ~proc[p].lost /\ Writes(p) /\ proc[p].pc \notin {"fail", "dead"}

Appended(p) ==
  /\ Faultless(p) => Written(p, Due(p))
  /\ proc[p].pc = "start" => proc[p].file = 0
  /\ proc[p].pc = "exit" => proc[p].file = Len(command[p].files)

EdgInv == TypeOK /\ edg \in Seq(Part) /\ \A p \in Proc : Appended(p)

LEMMA InitEdg == Init => EdgInv
<1> SUFFICES ASSUME Init PROVE EdgInv
  OBVIOUS
<1>1. TypeOK /\ edg \in Seq(Part)
  BY InitType DEF Init
<1>2. ASSUME NEW p \in Proc PROVE Appended(p)
  <2>1. proc[p].pc = "start" /\ proc[p].file = 0
    BY DEF Init, Start
  <2>2. Len(edg) = 0 /\ By(p, 0) = {}
    BY DEF Init, By
  <2>3. Cardinality(By(p, Len(edg))) = 0
    BY <2>2, FS_EmptySet
  <2>4. Written(p, 0)
    BY <2>2, <2>3 DEF Written
  <2>5. QED
    BY <2>1, <2>4 DEF Appended, Due
<1>3. QED
  BY <1>1, <1>2 DEF EdgInv

\* What a log holds, apart from the state it is in.
OwnIn(log, p, n) == {i \in 1..n : log[i].by = p}

WrittenIn(log, p, k) ==
  /\ Cardinality(OwnIn(log, p, Len(log))) = k
  /\ \A i \in OwnIn(log, p, Len(log)) :
       Cardinality(OwnIn(log, p, i)) = 3 * (log[i].file - 1) + PartNumber[log[i].part]

LEMMA WrittenNow ==
  ASSUME NEW p, NEW k
  PROVE  Written(p, k) <=> WrittenIn(edg, p, k)
BY DEF Written, WrittenIn, By, OwnIn

LEMMA OwnFinite ==
  ASSUME NEW log, NEW p, NEW n \in Nat
  PROVE  IsFiniteSet(OwnIn(log, p, n)) /\ Cardinality(OwnIn(log, p, n)) \in Nat
<1>1. IsFiniteSet(1..n)
  BY FS_Interval
<1>2. OwnIn(log, p, n) \subseteq 1..n
  BY DEF OwnIn
<1>3. IsFiniteSet(OwnIn(log, p, n))
  BY <1>1, <1>2, FS_Subset
<1>4. QED
  BY <1>3, FS_CardinalityType

\* The entries of a process after an append.
LEMMA AppendedTo ==
  ASSUME NEW log, NEW log2, NEW p, NEW n \in Nat, \A i \in 1..n : log2[i] = log[i]
  PROVE  /\ \A i \in 1..n : OwnIn(log2, p, i) = OwnIn(log, p, i)
         /\ log2[n + 1].by = p => OwnIn(log2, p, n + 1) = OwnIn(log, p, n) \cup {n + 1}
         /\ log2[n + 1].by # p => OwnIn(log2, p, n + 1) = OwnIn(log, p, n)
<1>1. ASSUME NEW i \in 1..n PROVE OwnIn(log2, p, i) = OwnIn(log, p, i)
  <2>1. \A j \in 1..i : log2[j] = log[j]
    OBVIOUS
  <2>2. QED
    BY <2>1 DEF OwnIn
<1>2. \A j : j \in 1..(n + 1) <=> j \in 1..n \/ j = n + 1
  OBVIOUS
<1>3. log2[n + 1].by = p => OwnIn(log2, p, n + 1) = OwnIn(log, p, n) \cup {n + 1}
  BY <1>2 DEF OwnIn
<1>4. log2[n + 1].by # p => OwnIn(log2, p, n + 1) = OwnIn(log, p, n)
  BY <1>2 DEF OwnIn
<1>5. QED
  BY <1>1, <1>3, <1>4

Extends(log2, log, n, e) ==
  Len(log2) = n + 1 /\ log2[n + 1] = e /\ \A i \in 1..n : log2[i] = log[i]

\* What others append leaves what a process has written as it is.
LEMMA OthersAppend ==
  ASSUME NEW log, NEW n \in Nat, n = Len(log), NEW e, NEW p, e.by # p,
         NEW log2, Extends(log2, log, n, e), NEW k, WrittenIn(log, p, k)
  PROVE  WrittenIn(log2, p, k)
<1>1. n = Len(log)
  OBVIOUS
<1>2. /\ Len(log2) = n + 1 /\ OwnIn(log2, p, n + 1) = OwnIn(log, p, n)
      /\ \A i \in 1..n : log2[i] = log[i] /\ OwnIn(log2, p, i) = OwnIn(log, p, i)
  <2>1. Len(log2) = n + 1 /\ log2[n + 1] = e /\ \A i \in 1..n : log2[i] = log[i]
    BY DEF Extends
  <2>2. \A i \in 1..n : OwnIn(log2, p, i) = OwnIn(log, p, i)
    BY <2>1, AppendedTo
  <2>3. log2[n + 1].by # p => OwnIn(log2, p, n + 1) = OwnIn(log, p, n)
    BY <2>1, AppendedTo
  <2>4. log2[n + 1].by # p
    BY <2>1
  <2>5. QED
    BY <2>1, <2>2, <2>3, <2>4, Zenon
<1>3. \A i \in OwnIn(log, p, n) : i \in 1..n
  BY DEF OwnIn
<1>4. /\ Cardinality(OwnIn(log, p, n)) = k
      /\ \A i \in OwnIn(log, p, n) :
           Cardinality(OwnIn(log, p, i)) = 3 * (log[i].file - 1) + PartNumber[log[i].part]
  BY <1>1 DEF WrittenIn
<1>5. ASSUME NEW i \in OwnIn(log, p, n)
      PROVE  Cardinality(OwnIn(log2, p, i)) = 3 * (log2[i].file - 1) + PartNumber[log2[i].part]
  <2>1. log2[i] = log[i] /\ OwnIn(log2, p, i) = OwnIn(log, p, i)
    BY <1>2, <1>3
  <2>2. QED
    BY <1>4, <2>1
<1>6. OwnIn(log2, p, Len(log2)) = OwnIn(log, p, n)
  BY <1>2
<1>7. QED
  BY <1>4, <1>5, <1>6 DEF WrittenIn

\* The part that p has to append when it has appended k.
Follows(e, p, k) == e.by = p /\ k + 1 = 3 * (e.file - 1) + PartNumber[e.part]

\* A part that is next in order extends what a process has written by one.
LEMMA OwnAppend ==
  ASSUME NEW log, NEW n \in Nat, n = Len(log), NEW e, NEW p, NEW k \in Int,
         NEW log2, Extends(log2, log, n, e), Follows(e, p, k), WrittenIn(log, p, k)
  PROVE  WrittenIn(log2, p, k + 1)
<1>1. n = Len(log)
  OBVIOUS
<1>2. /\ Len(log2) = n + 1 /\ log2[n + 1] = e
      /\ OwnIn(log2, p, n + 1) = OwnIn(log, p, n) \cup {n + 1}
      /\ \A i \in 1..n : log2[i] = log[i] /\ OwnIn(log2, p, i) = OwnIn(log, p, i)
  <2>1. Len(log2) = n + 1 /\ log2[n + 1] = e /\ \A i \in 1..n : log2[i] = log[i]
    BY DEF Extends
  <2>2. \A i \in 1..n : OwnIn(log2, p, i) = OwnIn(log, p, i)
    BY <2>1, AppendedTo
  <2>3. log2[n + 1].by = p => OwnIn(log2, p, n + 1) = OwnIn(log, p, n) \cup {n + 1}
    BY <2>1, AppendedTo
  <2>4. log2[n + 1].by = p
    BY <2>1 DEF Follows
  <2>5. QED
    BY <2>1, <2>2, <2>3, <2>4, Zenon
<1>3. \A i \in OwnIn(log, p, n) : i \in 1..n
  BY DEF OwnIn
<1>4. /\ Cardinality(OwnIn(log, p, n)) = k
      /\ \A i \in OwnIn(log, p, n) :
           Cardinality(OwnIn(log, p, i)) = 3 * (log[i].file - 1) + PartNumber[log[i].part]
  BY <1>1 DEF WrittenIn
<1>5. Cardinality(OwnIn(log2, p, n + 1)) = k + 1
  <2>1. n + 1 \notin OwnIn(log, p, n)
    BY <1>3
  <2>2. IsFiniteSet(OwnIn(log, p, n))
    BY OwnFinite
  <2>3. Cardinality(OwnIn(log, p, n) \cup {n + 1}) = Cardinality(OwnIn(log, p, n)) + 1
    BY <2>1, <2>2, FS_AddElement
  <2>4. QED
    BY <1>2, <1>4, <2>3
<1>6. ASSUME NEW i \in OwnIn(log, p, n)
      PROVE  Cardinality(OwnIn(log2, p, i)) = 3 * (log2[i].file - 1) + PartNumber[log2[i].part]
  <2>1. log2[i] = log[i] /\ OwnIn(log2, p, i) = OwnIn(log, p, i)
    BY <1>2, <1>3
  <2>2. QED
    BY <1>4, <2>1
<1>7. Cardinality(OwnIn(log2, p, n + 1))
        = 3 * (log2[n + 1].file - 1) + PartNumber[log2[n + 1].part]
  BY <1>2, <1>5 DEF Follows
<1>8. OwnIn(log2, p, Len(log2)) = OwnIn(log, p, n) \cup {n + 1}
  BY <1>2
<1>9. Cardinality(OwnIn(log2, p, Len(log2))) = k + 1
  BY <1>2, <1>5
<1>10. \A i \in OwnIn(log2, p, Len(log2)) :
         Cardinality(OwnIn(log2, p, i)) = 3 * (log2[i].file - 1) + PartNumber[log2[i].part]
  BY <1>6, <1>7, <1>8
<1>11. QED
  BY <1>1, <1>9, <1>10 DEF WrittenIn

\* What a step of a process does to graph.edg: nothing, and the process has come to
\* no further part; or it appends the part that it had come to.
Moved(p) ==
  \/ edg' = edg /\ (Faultless(p)' => Faultless(p) /\ Due(p)' = Due(p))
  \/ \E e \in Part :
       /\ edg' = Append(edg, e) /\ e.by = p
       /\ Faultless(p)' => Faultless(p) /\ Follows(e, p, Due(p)) /\ Due(p)' = Due(p) + 1

Working == {"zip", "create", "entry", "extract", "unzipBail", "open", "map", "openBail",
            "parse", "header"}

LEMMA WorkMoves ==
  ASSUME NEW p, UNCHANGED <<command, edg>>, proc'[p].file = proc[p].file,
         proc[p].pc \in Working,
         proc'[p].pc \in Working \cup {"fail", "dead"} \/ ~Writes(p),
         proc'[p].failed = proc[p].failed, proc'[p].lost = proc[p].lost
  PROVE  Moved(p)
<1>1. Writes(p)' = Writes(p)
  BY DEF Writes, Has
<1>2. ASSUME Faultless(p)' PROVE Faultless(p) /\ proc'[p].pc \in Working
  BY <1>1, <1>2 DEF Faultless, Working
<1>3. ASSUME proc'[p].pc \in Working PROVE Due(p)' = Due(p)
  BY <1>3 DEF Due, Working
<1>4. QED
  BY <1>2, <1>3 DEF Moved

LEMMA WorkTo ==
  ASSUME TypeOK, NEW p \in Proc, NEW state, Become(p, state), UNCHANGED <<command, edg>>,
         proc[p].pc \in Working, state.pc \in Working \cup {"fail"},
         state.file = proc[p].file, state.failed = proc[p].failed, state.lost = proc[p].lost
  PROVE  Moved(p)
<1>1. proc'[p] = state
  BY BecomeFields
<1>2. QED
  BY <1>1, WorkMoves

LEMMA StepMoves ==
  ASSUME EdgInv, NEW p \in Proc, Step(p)
  PROVE  Moved(p)
<1>1. TypeOK /\ Appended(p) /\ proc[p] \in ProcState /\ proc[p].file \in Nat
  BY ProcType DEF EdgInv, ProcState
<1> USE <1>1 DEF At, Goto
<1>2. CASE ParseArgs(p)
  <2>1. /\ UNCHANGED <<command, edg>>
        /\ proc[p].pc = "start" /\ proc'[p].pc \in {"usage", "next"}
        /\ proc'[p].file = proc[p].file
        /\ proc'[p].failed = proc[p].failed /\ proc'[p].lost = proc[p].lost
    BY <1>2, BecomeFields DEF ParseArgs, ProcState
  <2>2. proc[p].file = 0
    BY <2>1 DEF Appended
  <2>3. Writes(p)' = Writes(p)
    BY <2>1 DEF Writes, Has
  <2>4. Due(p) = 0 /\ Due(p)' = 0
    BY <2>1, <2>2 DEF Due
  <2>5. Faultless(p)' => Faultless(p)
    BY <2>1, <2>3 DEF Faultless
  <2>6. QED
    BY <2>1, <2>4, <2>5 DEF Moved
<1>3. CASE NextFile(p)
  <2> DEFINE name == command[p].files[proc[p].file + 1]
             label == CASE name = "short" -> "openBail"
                        [] name = "dex" -> "open"
                        [] OTHER -> "zip"
             state == [proc[p] EXCEPT
                         !.pc = label,
                         !.file = Advanced(proc[p].file),
                         !.result = IF name = "short" THEN "BadArgs" ELSE "GenericFailure",
                         !.removeTemp = FALSE,
                         !.opened = NoFile,
                         !.mapped = FALSE]
  <2>1. Become(p, state) /\ UNCHANGED <<command, fs, edg>> /\ proc[p].pc = "next"
    BY <1>3 DEF NextFile
  <2>2. proc'[p] = state
    BY <2>1, BecomeFields
  <2>3. label \in {"openBail", "open", "zip"}
    OBVIOUS
  <2> HIDE DEF label
  <2>4. /\ proc'[p].pc \in {"openBail", "open", "zip"}
        /\ proc'[p].file = proc[p].file + 1
        /\ proc'[p].failed = proc[p].failed /\ proc'[p].lost = proc[p].lost
    BY <2>2, <2>3 DEF ProcState, Advanced
  <2>5. Writes(p)' = Writes(p)
    BY <2>1 DEF Writes, Has
  <2>6. Due(p) = 3 * proc[p].file /\ Due(p)' = 3 * ((proc[p].file + 1) - 1) + 0
    BY <2>1, <2>4 DEF Due
  <2>7. Due(p)' = Due(p)
    BY <2>6
  <2>8. Faultless(p)' => Faultless(p)
    BY <2>1, <2>4, <2>5 DEF Faultless
  <2>9. QED
    BY <2>1, <2>7, <2>8 DEF Moved
<1>4. CASE Exit(p)
  <2>1. /\ UNCHANGED <<command, edg>>
        /\ proc[p].pc = "next" /\ proc'[p].pc = "exit"
        /\ proc'[p].file = proc[p].file
        /\ proc'[p].failed = proc[p].failed /\ proc'[p].lost = proc[p].lost
    BY <1>4, BecomeFields DEF Exit, ProcState
  <2>2. Writes(p)' = Writes(p)
    BY <2>1 DEF Writes, Has
  <2>3. Due(p)' = Due(p)
    BY <2>1 DEF Due
  <2>4. Faultless(p)' => Faultless(p)
    BY <2>1, <2>2 DEF Faultless
  <2>5. QED
    BY <2>1, <2>3, <2>4 DEF Moved
<1>5. CASE \/ dexZipOpenArchive(p) \/ CreateTemp(p) \/ FindEntry(p) \/ Extract(p)
           \/ UnzipBail(p) \/ OpenFile(p) \/ MapFile(p) \/ OpenBail(p)
  <2>1. AfterOpen(p) \in {"parse", "fail"}
    BY DEF AfterOpen
  <2>2. CASE dexZipOpenArchive(p)
    BY <2>2, WorkTo DEF dexZipOpenArchive, ProcState, Working
  <2>3. CASE CreateTemp(p)
    BY <2>3, WorkTo DEF CreateTemp, ProcState, Working
  <2>4. CASE FindEntry(p)
    BY <2>4, WorkTo DEF FindEntry, ProcState, Working
  <2>5. CASE Extract(p)
    BY <2>5, WorkTo DEF Extract, ProcState, Working
  <2>6. CASE UnzipBail(p)
    BY <2>6, WorkTo DEF UnzipBail, ProcState, Working
  <2>7. CASE OpenFile(p)
    BY <2>7, WorkTo DEF OpenFile, ProcState, Working
  <2>8. CASE MapFile(p)
    BY <2>8, WorkTo DEF MapFile, ProcState, Working
  <2>9. CASE OpenBail(p)
    BY <2>1, <2>9, WorkTo DEF OpenBail, ProcState, Working
  <2>10. QED
    BY <1>5, <2>2, <2>3, <2>4, <2>5, <2>6, <2>7, <2>8, <2>9
<1>7. CASE Parse(p)
  <2>1. PICK parsed \in BOOLEAN : Become(p, [proc[p] EXCEPT
          !.pc = CASE ~parsed -> "fail"
                   [] parsed /\ Writes(p) -> "header"
                   [] OTHER -> "next",
          !.wild = proc[p].wild \/ ~proc[p].mapped])
    BY <1>7 DEF Parse
  <2> DEFINE label == CASE ~parsed -> "fail"
                        [] parsed /\ Writes(p) -> "header"
                        [] OTHER -> "next"
  <2>2. label \in {"fail", "header"} \/ ~Writes(p)
    OBVIOUS
  <2> HIDE DEF label
  <2>3. /\ proc'[p].pc = label /\ proc'[p].file = proc[p].file
        /\ proc'[p].failed = proc[p].failed /\ proc'[p].lost = proc[p].lost
    BY <2>1 DEF Become, TypeOK, ProcState, label
  <2>4. UNCHANGED <<command, edg>> /\ proc[p].pc \in Working
    BY <1>7 DEF Parse, Working
  <2>5. proc'[p].pc \in Working \cup {"fail", "dead"} \/ ~Writes(p)
    BY <2>2, <2>3 DEF Working
  <2>6. QED
    BY <2>3, <2>4, <2>5, WorkMoves
<1>8. CASE Fail(p) \/ Kill(p)
  <2>1. edg' = edg /\ (proc'[p].failed \/ proc'[p].pc = "dead")
    BY <1>8, BecomeFields DEF Fail, Kill, ProcState
  <2>2. ~Faultless(p)'
    BY <2>1 DEF Faultless
  <2>3. QED
    BY <2>1, <2>2 DEF Moved
<1>9. ASSUME NEW part \in {"header", "nodes", "edges"}, NEW goto \in {"nodes", "edges", "next"},
             Append3(p, part, goto), goto = CASE part = "header" -> "nodes"
                                              [] part = "nodes" -> "edges"
                                              [] part = "edges" -> "next"
      PROVE  Moved(p)
  <2>1. CASE proc'[p].lost /\ edg' = edg
    BY <2>1 DEF Moved, Faultless
  <2>2. CASE edg' = Append(edg, [by |-> p, file |-> proc[p].file, part |-> part])
             /\ Goto(p, goto)
    <3> DEFINE e == [by |-> p, file |-> proc[p].file, part |-> part]
    <3>1. e \in Part /\ e.by = p /\ e.file = proc[p].file /\ e.part = part
      BY DEF Part
    <3>2. /\ command' = command
          /\ proc[p].pc = part /\ proc'[p].pc = goto
          /\ proc'[p].file = proc[p].file
          /\ proc'[p].failed = proc[p].failed /\ proc'[p].lost = proc[p].lost
      BY <1>9, <2>2, BecomeFields DEF Append3, ProcState
    <3>3. Writes(p)' = Writes(p)
      BY <3>2 DEF Writes, Has
    <3>4. Faultless(p)' => Faultless(p)
      BY <3>2, <3>3 DEF Faultless
    <3>5. PartNumber[part] = IF part = "header" THEN 1 ELSE IF part = "nodes" THEN 2 ELSE 3
      BY DEF PartNumber
    <3>6. Due(p) + 1 = 3 * (proc[p].file - 1) + PartNumber[part]
      BY <3>2, <3>5 DEF Due
    <3>7. Due(p)' = Due(p) + 1
      BY <1>9, <3>2 DEF Due
    <3> HIDE DEF e
    <3>8. Follows(e, p, Due(p))
      BY <3>1, <3>6 DEF Follows
    <3>9. edg' = Append(edg, e)
      BY <2>2 DEF e
    <3>10. QED
      BY <3>1, <3>4, <3>7, <3>8, <3>9 DEF Moved
  <2>3. QED
    <3>1. \/ proc'[p].lost /\ edg' = edg
          \/ edg' = Append(edg, [by |-> p, file |-> proc[p].file, part |-> part])
             /\ Goto(p, goto)
      <4>1. CASE Become(p, [proc[p] EXCEPT !.pc = goto, !.lost = TRUE]) /\ UNCHANGED edg
        BY <4>1 DEF Become, TypeOK, ProcState
      <4>2. QED
        BY <1>9, <4>1 DEF Append3
    <3>2. QED
      BY <2>1, <2>2, <3>1
<1>10. CASE DumpHeader(p) \/ DumpNodes(p) \/ DumpEdges(p)
  BY <1>9, <1>10 DEF DumpHeader, DumpNodes, DumpEdges
<1>11. QED
  BY <1>2, <1>3, <1>4, <1>5, <1>7, <1>8, <1>10 DEF Step

\* What else a step keeps: the other processes, and where this one can be.
LEMMA StepPlaces ==
  ASSUME EdgInv, NEW p \in Proc, Step(p)
  PROVE  /\ command' = command
         /\ \A q \in Proc \ {p} : proc'[q] = proc[q]
         /\ proc'[p].pc # "start"
         /\ proc'[p].pc = "exit" => proc'[p].file = Len(command[p].files)
<1>1. TypeOK /\ proc[p] \in ProcState
  BY ProcType DEF EdgInv
<1>2. AfterOpen(p) \in {"parse", "fail"}
  BY DEF AfterOpen
<1> USE <1>1 DEF At, Goto
<1>3. command' = command /\ \E state : Become(p, state)
  BY DEF Step, ParseArgs, NextFile, Exit, dexZipOpenArchive, CreateTemp, FindEntry, Extract,
         UnzipBail, OpenFile, MapFile, OpenBail, Parse, Fail, DumpHeader, DumpNodes, DumpEdges,
         Append3, Kill
<1>4. \A q \in Proc \ {p} : proc'[q] = proc[q]
  BY <1>3 DEF Become, TypeOK
<1>5. CASE Exit(p)
  BY <1>3, <1>4, <1>5, BecomeFields DEF Exit, ProcState
<1>6. CASE ~Exit(p)
  <2>1. proc'[p].pc # "start" /\ proc'[p].pc # "exit"
    <3>1. CASE ParseArgs(p)
      BY <3>1 DEF ParseArgs, Become, TypeOK, ProcState
    <3>2. CASE NextFile(p)
      BY <3>2 DEF NextFile, Become, TypeOK, ProcState
    <3>3. CASE dexZipOpenArchive(p)
      BY <3>3 DEF dexZipOpenArchive, Become, TypeOK, ProcState
    <3>4. CASE CreateTemp(p)
      BY <3>4 DEF CreateTemp, Become, TypeOK, ProcState
    <3>5. CASE FindEntry(p)
      BY <3>5 DEF FindEntry, Become, TypeOK, ProcState
    <3>6. CASE Extract(p)
      BY <3>6 DEF Extract, Become, TypeOK, ProcState
    <3>7. CASE UnzipBail(p)
      BY <3>7 DEF UnzipBail, Become, TypeOK, ProcState
    <3>8. CASE OpenFile(p)
      BY <3>8 DEF OpenFile, Become, TypeOK, ProcState
    <3>9. CASE MapFile(p)
      BY <3>9 DEF MapFile, Become, TypeOK, ProcState
    <3>10. CASE OpenBail(p)
      BY <1>2, <3>10 DEF OpenBail, Become, TypeOK, ProcState
    <3>11. CASE Parse(p)
      BY <3>11 DEF Parse, Become, TypeOK, ProcState
    <3>12. CASE Fail(p)
      BY <3>12 DEF Fail, Become, TypeOK, ProcState
    <3>13. CASE DumpHeader(p)
      BY <3>13 DEF DumpHeader, Append3, Become, TypeOK, ProcState
    <3>14. CASE DumpNodes(p)
      BY <3>14 DEF DumpNodes, Append3, Become, TypeOK, ProcState
    <3>15. CASE DumpEdges(p)
      BY <3>15 DEF DumpEdges, Append3, Become, TypeOK, ProcState
    <3>16. CASE Kill(p)
      BY <3>16 DEF Kill, Become, TypeOK, ProcState
    <3>17. QED
      BY <1>6, <3>1, <3>2, <3>3, <3>4, <3>5, <3>6, <3>7, <3>8, <3>9, <3>10, <3>11,
         <3>12, <3>13, <3>14, <3>15, <3>16 DEF Step
  <2>2. QED
    BY <1>3, <1>4, <2>1
<1>7. QED
  BY <1>5, <1>6

LEMMA EdgStep ==
  ASSUME EdgInv, NEW p \in Proc, Step(p), NEW q \in Proc
  PROVE  Appended(q)' /\ edg' \in Seq(Part)
<1>1. Moved(p)
  BY StepMoves
<1>2. edg \in Seq(Part) /\ Appended(q) /\ TypeOK
  BY DEF EdgInv
<1>3. edg' \in Seq(Part)
  BY <1>1, <1>2 DEF Moved
<1>4. PICK n \in Nat : n = Len(edg)
  BY <1>2
<1>5. ASSUME NEW e \in Part, edg' = Append(edg, e) PROVE Extends(edg', edg, n, e)
  BY <1>2, <1>4, <1>5 DEF Extends
<1>6. CASE q # p
  <2>1. command' = command /\ proc'[q] = proc[q]
    BY <1>6, StepPlaces
  <2>2. Due(q)' = Due(q) /\ (Faultless(q)' <=> Faultless(q))
    BY <2>1 DEF Due, Faultless, Writes, Has
  <2>3. ASSUME Faultless(q)' PROVE Written(q, Due(q))'
    <3>1. PICK k : k = Due(q)
      OBVIOUS
    <3>2. WrittenIn(edg, q, k)
      BY <1>2, <2>2, <2>3, <3>1, WrittenNow DEF Appended
    <3>3. WrittenIn(edg', q, k)
      <4>1. CASE edg' = edg
        BY <3>2, <4>1
      <4>2. CASE \E e \in Part : edg' = Append(edg, e) /\ e.by = p
        <5>1. PICK e \in Part : Extends(edg', edg, n, e) /\ e.by # q
          BY <1>5, <1>6, <4>2
        <5>2. QED
          BY <1>4, <3>2, <5>1, OthersAppend
      <4>3. QED
        BY <1>1, <4>1, <4>2 DEF Moved
    <3>4. QED
      BY <2>2, <3>1, <3>3 DEF Written, WrittenIn, By, OwnIn
  <2>4. QED
    BY <1>2, <1>3, <2>1, <2>3 DEF Appended
<1>7. CASE q = p
  <2>1. /\ command' = command /\ proc'[q].pc # "start"
        /\ proc'[q].pc = "exit" => proc'[q].file = Len(command[q].files)
    BY <1>7, StepPlaces
  <2>2. ASSUME Faultless(q)' PROVE Written(q, Due(q))'
    <3>1. CASE edg' = edg /\ Faultless(q) /\ Due(q)' = Due(q)
      <4>1. Written(q, Due(q))
        BY <1>2, <3>1 DEF Appended
      <4>2. QED
        BY <3>1, <4>1 DEF Written, By
    <3>2. CASE /\ Faultless(q)
               /\ \E e \in Part : /\ edg' = Append(edg, e)
                                  /\ Follows(e, q, Due(q)) /\ Due(q)' = Due(q) + 1
      <4>1. PICK e \in Part : /\ edg' = Append(edg, e)
                              /\ Follows(e, q, Due(q)) /\ Due(q)' = Due(q) + 1
        BY <3>2
      <4>2. PICK k : k = Due(q)
        OBVIOUS
      <4>3. k \in Int
        BY <1>2, <4>2, ProcType DEF Due, ProcState
      <4>4. WrittenIn(edg, q, k)
        BY <1>2, <3>2, <4>2, WrittenNow DEF Appended
      <4>5. Extends(edg', edg, n, e)
        BY <1>5, <4>1
      <4>6. WrittenIn(edg', q, k + 1)
        BY <1>4, <4>1, <4>2, <4>3, <4>4, <4>5, OwnAppend
      <4>7. QED
        BY <4>1, <4>2, <4>6 DEF Written, WrittenIn, By, OwnIn
    <3>3. QED
      BY <1>1, <1>7, <2>2, <3>1, <3>2 DEF Moved
  <2>3. QED
    BY <1>3, <2>1, <2>2 DEF Appended
<1>8. QED
  BY <1>6, <1>7

LEMMA NextEdg == EdgInv /\ [Next]_vars => EdgInv'
<1> SUFFICES ASSUME EdgInv, [Next]_vars PROVE EdgInv'
  OBVIOUS
<1>1. TypeOK'
  BY NextType DEF EdgInv
<1>2. CASE UNCHANGED vars
  <2>1. command' = command /\ edg' = edg /\ proc' = proc
    BY <1>2 DEF vars
  <2>2. ASSUME NEW p \in Proc PROVE Appended(p)'
    <3>1. Appended(p)
      BY DEF EdgInv
    <3>2. (Faultless(p)' <=> Faultless(p)) /\ Due(p)' = Due(p)
      BY <2>1 DEF Faultless, Writes, Has, Due
    <3>3. Written(p, Due(p))' <=> Written(p, Due(p))
      BY <2>1, <3>2 DEF Written, By
    <3>4. QED
      BY <2>1, <3>1, <3>2, <3>3 DEF Appended
  <2>3. QED
    BY <1>1, <2>1, <2>2 DEF EdgInv
<1>3. CASE Next
  <2>1. PICK p \in Proc : Step(p)
    BY <1>3 DEF Next
  <2>2. edg' \in Seq(Part) /\ \A q \in Proc : Appended(q)'
    BY <2>1, EdgStep
  <2>3. QED
    BY <1>1, <2>2 DEF EdgInv
<1>4. QED
  BY <1>2, <1>3

\* A process that ends with status zero has written the whole block of each of its
\* files to graph.edg, in order, however many others append to it in between.
THEOREM ZeroMeansWrittenHolds == Spec => []ZeroMeansWritten
<1>1. EdgInv => ZeroMeansWritten
  <2> SUFFICES ASSUME EdgInv, NEW p \in Proc, At(p, "exit"),
                      ~proc[p].failed, ~proc[p].lost, Writes(p)
               PROVE  Written(p, 3 * Len(command[p].files))
    BY DEF ZeroMeansWritten
  <2>1. Appended(p) /\ proc[p].pc = "exit"
    BY DEF EdgInv, At
  <2>2. Faultless(p) /\ Due(p) = 3 * proc[p].file /\ proc[p].file = Len(command[p].files)
    BY <2>1 DEF Faultless, Due, Appended
  <2>3. Written(p, Due(p))
    BY <2>1, <2>2 DEF Appended
  <2>4. QED
    BY <2>2, <2>3
<1>2. QED
  BY <1>1, InitEdg, NextEdg, PTL DEF Spec
=============================================================================
