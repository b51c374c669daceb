-------------------------------- MODULE Lookup --------------------------------
(***************************************************************************)
(* What the two tables of libdex promise those who look something up by    *)
(* name: the class definitions of a file (dexFindClass) and the entries of *)
(* an archive (dexZipFindEntry).  They hold what was added, and of several *)
(* entries with one name the one that was added first is found.            *)
(***************************************************************************)
EXTENDS Integers, Sequences

CONSTANTS
  Names,
  NoAnswer   \* nothing was looked up yet

VARIABLES
  entries,   \* the names of what was added, in the order of their adding
  answer     \* the last name looked up and the entry found; entry 0 is none

vars == <<entries, answer>>

-----------------------------------------------------------------------------
Answers(name) ==
  {i \in 1..Len(entries) :
     entries[i] = name /\ \A j \in 1..Len(entries) : entries[j] = name => i <= j}

Init ==
  /\ entries = <<>>
  /\ answer = NoAnswer

Add(name) ==
  /\ entries' = Append(entries, name)
  /\ UNCHANGED answer

Find(name) ==
  /\ answer' \in [name : {name}, entry : IF Answers(name) = {} THEN {0} ELSE Answers(name)]
  /\ UNCHANGED entries

Next == \E name \in Names : Add(name) \/ Find(name)

Spec == Init /\ [][Next]_vars
=============================================================================
