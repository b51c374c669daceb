-------------------------- MODULE ProgramGraphProofs --------------------------
(***************************************************************************)
(* For any file: what is written is the graph that the dumped methods      *)
(* reach, each instruction once, whatever the methods call, in whatever    *)
(* order their classes come, and whether or not they share code.           *)
(*                                                                         *)
(* What a single walk hands back is known from TraversalProofs.  There the *)
(* graph never changes, and any two nodes at one address have the same     *)
(* successors; here the calls are linked between the classes and the       *)
(* walks, and only the nodes of methods that were dumped are linked.  The  *)
(* bridge is nextAll, the graph with all calls linked: a walk never leaves *)
(* the live nodes, and on them it is the graph that the program holds.     *)
(***************************************************************************)
EXTENDS ProgramGraph, SequenceTheorems, FiniteSetTheorems, WellFoundedInduction, TLAPS

\* The successors of a node with its call linked.
Links(n) ==
  IF dex.called[n] # NoCall /\ called_method_info(n) \in DOMAIN method_node_map
  THEN Append(dex.next[n], method_node_map[called_method_info(n)])
  ELSE dex.next[n]

nextAll == [n \in Node |-> IF n = Root THEN next[Root] ELSE Links(n)]

WP == INSTANCE TraversalProofs WITH Programs <- {}, next <- nextAll

-----------------------------------------------------------------------------
(***************************************************************************)
(* The inductive invariant                                                 *)
(***************************************************************************)

\* What the classes dumped so far have left, and the calls once they are linked.
FileInv ==
  /\ dex \in Dexes
  /\ classIdx \in 0..Len(dex.classes)
  /\ DOMAIN method_node_map = UNION {IndexesOf(dex.classes[c]) : c \in 1..classIdx}
  /\ \A idx \in DOMAIN method_node_map : method_node_map[idx] = EntryNode(idx)
  /\ call_node_vec =
       UNION {UNION {CallNodes(m) : m \in MethodsOf(dex.classes[c])} : c \in 1..classIdx}
  /\ next \in [Node -> Seq(Node)]
  /\ addr \in [Node -> Addr]
  /\ \A n \in Node \ {Root} : addr[n] = dex.addr[n]
  /\ phase \in {"classes", "walks", "written"}
  /\ phase = "classes" =>
       /\ next = dex.next
       /\ walking = NoMethod /\ walked = {}
       /\ nodesptr_vec = <<>> /\ edges_vec = {}
  /\ phase # "classes" =>
       /\ classIdx = Len(dex.classes)
       /\ \A n \in Live : next[n] = Links(n)

\* A walk starts from the copy of an entry node, and holds live nodes only.
WalkInv ==
  walking # NoMethod =>
    /\ phase = "walks"
    /\ walking \in DOMAIN method_node_map
    /\ next[Root] = Links(method_node_map[walking])
    /\ addr[Root] = addr[method_node_map[walking]]
    /\ WP!TypeOK /\ WP!Inv /\ WP!DisciplineInv /\ WP!ResultInv
    /\ WP!Held \subseteq Live \cup {Root}

\* What the walks so far have handed back is closed: no walk ends with a call, or
\* a jump, to where no walk has been.
GraphInv ==
  /\ nodesptr_vec \in Seq(Addr)
  /\ IsInjective(nodesptr_vec)
  /\ walked \subseteq DOMAIN method_node_map
  /\ \A idx \in walked : addr[method_node_map[idx]] \in Range(nodesptr_vec)
  /\ \A n \in Live : addr[n] \in Range(nodesptr_vec) =>
       \A c \in Range(Links(n)) :
         addr[c] \in Range(nodesptr_vec) /\ <<addr[n], addr[c]>> \in edges_vec
  /\ \A e \in edges_vec :
       \E n \in Live : \E c \in Range(Links(n)) : e = <<addr[n], addr[c]>>
  /\ phase = "written" => walking = NoMethod /\ walked = DOMAIN method_node_map

IInv == FileInv /\ WalkInv /\ GraphInv

-----------------------------------------------------------------------------
(***************************************************************************)
(* What the file is made of                                                *)
(***************************************************************************)
\* Every set of natural numbers that is not empty has a least one.
LEMMA LeastOf ==
  ASSUME NEW S, S \subseteq Nat, S # {}
  PROVE  \E m \in S : \A i \in S : m <= i
<1> DEFINE less == {p \in Nat \X Nat : p[1] < p[2]}
<1>1. IsWellFoundedOn(less, Nat)
  BY NatLessThanWellFounded DEF OpToRel
<1>2. \A i, j \in Nat : <<i, j>> \notin less => j <= i
  OBVIOUS
<1> HIDE DEF less
<1>3. PICK m \in S : \A i \in S : <<i, m>> \notin less
  BY <1>1, WFMin, Zenon
<1> QED
  BY <1>2, <1>3

\* What is so of the start, and of every number if it is so of the one before, is
\* so of the end.
LEMMA Upwards ==
  ASSUME NEW n \in Nat, NEW T, 0 \in T, \A i \in 1..n : i - 1 \in T => i \in T
  PROVE  \A i \in 0..n : i \in T
<1> DEFINE missing == {i \in 0..n : i \notin T}
<1>1. SUFFICES ASSUME missing # {} PROVE FALSE
  OBVIOUS
<1>2. missing \subseteq Nat
  OBVIOUS
<1>3. PICK m \in missing : \A i \in missing : m <= i
  <2> HIDE DEF missing
  <2> QED
    BY <1>1, <1>2, LeastOf
<1>4. m \in 1..n /\ m - 1 \in 0..n
  OBVIOUS
<1> QED
  BY <1>3, <1>4

\* min_element of a set of numbers is its least one.
LEMMA MinFacts ==
  ASSUME NEW S, S \subseteq Nat, S # {}
  PROVE  Min(S) \in S /\ \A i \in S : Min(S) <= i
BY LeastOf DEF Min

LEMMA MinIs ==
  ASSUME NEW S, S \subseteq Nat, NEW k \in S, \A i \in S : k <= i
  PROVE  Min(S) = k
<1>1. PICK m \in S : m = Min(S) /\ \A i \in S : m <= i
  BY MinFacts
<1>2. m \in Nat /\ k \in Nat /\ m <= k /\ k <= m
  BY <1>1
<1> QED
  BY <1>1, <1>2

LEMMA FileType ==
  ASSUME dex \in Dexes
  PROVE  /\ Len(dex.classes) \in Nat
         /\ DOMAIN dex.classes = 1..Len(dex.classes)
         /\ Range(dex.classes) = {dex.classes[c] : c \in 1..Len(dex.classes)}
         /\ \A class \in Range(dex.classes) : class \in Seq(Method)
         /\ dex.next \in [Node -> Seq(Node \ {Root})]
         /\ dex.addr \in [Node -> Addr]
         /\ dex.called \in [Node -> Nat \cup {NoCall}]
         /\ dex.methodIdsSize \in Nat
<1>1. dex.classes \in Seq(Seq(Method))
  BY DexesAssumption
<1>2. /\ Len(dex.classes) \in Nat
      /\ DOMAIN dex.classes = 1..Len(dex.classes)
      /\ \A c \in 1..Len(dex.classes) : dex.classes[c] \in Seq(Method)
  BY <1>1
<1>3. Range(dex.classes) = {dex.classes[c] : c \in 1..Len(dex.classes)}
  BY <1>2 DEF Range
<1> QED
  BY <1>2, <1>3, DexesAssumption

\* A method that can be dumped has code, of nodes that are live.
LEMMA MethodType ==
  ASSUME dex \in Dexes, NEW class \in Range(dex.classes), NEW m \in MethodsOf(class)
  PROVE  /\ m \in Method /\ m \in Range(class)
         /\ m.idx \in Nat
         /\ m.code \in Seq(Node \ {Root}) /\ m.code # <<>>
         /\ Range(m.code) \subseteq Live
         /\ Range(m.code) \subseteq Node \ {Root}
         /\ m.code[1] \in Range(m.code)
<1>1. PICK i \in DumpedOf(class) : m = class[i]
  BY DEF MethodsOf
<1>2. i \in DOMAIN class /\ Dumpable(m)
  BY <1>1 DEF DumpedOf
<1>3. class \in Seq(Method)
  BY FileType
<1>4. m \in Method /\ m \in Range(class)
  BY <1>1, <1>2, <1>3 DEF Range
<1>5. m.idx \in Nat /\ m.code \in Seq(Node \ {Root})
  BY <1>4 DEF Method
<1>6. m.code # <<>>
  BY <1>2 DEF Dumpable
<1>7. 1 \in DOMAIN m.code /\ \A j \in DOMAIN m.code : m.code[j] \in Node \ {Root}
  <2>1. Len(m.code) \in Nat /\ Len(m.code) # 0 /\ DOMAIN m.code = 1..Len(m.code)
    BY <1>5, <1>6, EmptySeq, LenProperties
  <2> QED
    BY <1>5, <2>1, ElementOfSeq
<1>8. Range(m.code) \subseteq Node \ {Root} /\ m.code[1] \in Range(m.code)
  BY <1>7 DEF Range
<1>9. Range(m.code) \subseteq Live
  BY DEF Live
<1> QED
  BY <1>4, <1>5, <1>6, <1>8, <1>9

LEMMA LiveType ==
  ASSUME dex \in Dexes
  PROVE  /\ Live \subseteq Node \ {Root}
         /\ \A n \in Live : dex.next[n] \in Seq(Node \ {Root}) /\ Range(dex.next[n]) \subseteq Live
<1>1. ASSUME NEW n \in Live
      PROVE  /\ n \in Node \ {Root}
             /\ dex.next[n] \in Seq(Node \ {Root})
             /\ Range(dex.next[n]) \subseteq Live
  <2>0. PICK class \in Range(dex.classes) : n \in UNION {Range(m.code) : m \in MethodsOf(class)}
    BY DEF Live
  <2>1. PICK m \in MethodsOf(class) : n \in Range(m.code)
    BY <2>0
  <2>2. n \in Node \ {Root} /\ m \in Range(class) /\ Range(m.code) \subseteq Live
    BY <2>1, MethodType
  <2>3. Range(dex.next[n]) \subseteq Range(m.code)
    BY <2>1, <2>2, DexesAssumption
  <2> QED
    BY <2>2, <2>3, FileType
<1> QED
  BY <1>1

\* The entry node of a method is live.
LEMMA EntryType ==
  ASSUME dex \in Dexes, NEW class \in Range(dex.classes), NEW idx \in IndexesOf(class)
  PROVE  idx \in Nat /\ EntryOf(class, idx) \in Live
<1> DEFINE here == {i \in DumpedOf(class) : class[i].idx = idx}
<1>1. here \subseteq Nat /\ here # {}
  <2>1. class \in Seq(Method)
    BY FileType
  <2>2. DumpedOf(class) \subseteq Nat
    BY <2>1 DEF DumpedOf
  <2>3. here # {}
    BY DEF IndexesOf, MethodsOf
  <2> QED
    BY <2>2, <2>3
<1>2. Min(here) \in here
  BY <1>1, MinFacts
<1>3. class[Min(here)] \in MethodsOf(class) /\ class[Min(here)].idx = idx
  BY <1>2 DEF MethodsOf
<1>4. EntryOf(class, idx) = class[Min(here)].code[1]
  BY DEF EntryOf
<1> HIDE DEF here
<1> QED
  BY <1>3, <1>4, MethodType

LEMMA EntryNodeType ==
  ASSUME dex \in Dexes, NEW idx \in Defined
  PROVE  idx \in Nat /\ EntryNode(idx) \in Live
<1> DEFINE has == {c \in DOMAIN dex.classes : idx \in IndexesOf(dex.classes[c])}
<1>1. has \subseteq Nat /\ has # {}
  BY FileType DEF Defined
<1>2. Min(has) \in has
  BY <1>1, MinFacts
<1>3. dex.classes[Min(has)] \in Range(dex.classes) /\ idx \in IndexesOf(dex.classes[Min(has)])
  BY <1>2 DEF Range
<1>4. EntryNode(idx) = EntryOf(dex.classes[Min(has)], idx)
  BY DEF EntryNode
<1> HIDE DEF has
<1> QED
  BY <1>3, <1>4, EntryType

-----------------------------------------------------------------------------
(***************************************************************************)
(* The linked graph                                                        *)
(***************************************************************************)

\* Once all classes are dumped, the map has every method that can be dumped.
LEMMA AllDumped ==
  ASSUME FileInv, classIdx = Len(dex.classes)
  PROVE  /\ DOMAIN method_node_map = Defined
         /\ call_node_vec = {n \in Live : dex.called[n] # NoCall}
         /\ \A idx \in Defined : method_node_map[idx] = EntryNode(idx)
                                 /\ method_node_map[idx] \in Live
<1>1. Range(dex.classes) = {dex.classes[c] : c \in 1..Len(dex.classes)} /\ dex \in Dexes
  BY FileType DEF FileInv
<1>2. DOMAIN method_node_map = Defined
  BY <1>1 DEF FileInv, Defined
<1>3. call_node_vec = {n \in Live : dex.called[n] # NoCall}
  <2>1. ASSUME NEW n PROVE n \in call_node_vec <=> n \in Live /\ dex.called[n] # NoCall
    <3>1. n \in call_node_vec <=>
            \E class \in Range(dex.classes) : \E m \in MethodsOf(class) : n \in CallNodes(m)
      BY <1>1 DEF FileInv
    <3>2. n \in Live <=>
            \E class \in Range(dex.classes) : \E m \in MethodsOf(class) : n \in Range(m.code)
      BY DEF Live
    <3> QED
      BY <3>1, <3>2 DEF CallNodes
  <2> QED
    BY <2>1
<1> QED
  BY <1>1, <1>2, <1>3, EntryNodeType DEF FileInv

LEMMA LinkType ==
  ASSUME FileInv, classIdx = Len(dex.classes), NEW n \in Node \ {Root}
  PROVE  /\ Links(n) \in Seq(Node \ {Root})
         /\ Range(Links(n)) =
              Range(dex.next[n]) \cup
                {method_node_map[idx] : idx \in
                  {i \in DOMAIN method_node_map : dex.called[n] # NoCall /\ i = called_method_info(n)}}
         /\ n \in Live => Range(Links(n)) \subseteq Live
<1>0. dex \in Dexes
  BY DEF FileInv
<1>1. dex.next[n] \in Seq(Node \ {Root})
  BY <1>0, FileType
<1>2. CASE dex.called[n] # NoCall /\ called_method_info(n) \in DOMAIN method_node_map
  <2>1. PICK e : e = method_node_map[called_method_info(n)]
    OBVIOUS
  <2>2. e \in Live /\ e \in Node \ {Root}
    BY <1>0, <1>2, <2>1, AllDumped, LiveType
  <2>3. Links(n) = Append(dex.next[n], e)
    BY <1>2, <2>1 DEF Links
  <2>4. Links(n) \in Seq(Node \ {Root}) /\ Range(Links(n)) = Range(dex.next[n]) \cup {e}
    <3>1. PICK s \in Seq(Node \ {Root}) : s = dex.next[n]
      BY <1>1
    <3>2. Append(s, e) \in Seq(Node \ {Root}) /\ WP!Elems(Append(s, e)) = WP!Elems(s) \cup {e}
      BY <2>2, WP!PushFacts, NodesAssumption
    <3>3. \A t \in Seq(Node \ {Root}) : Range(t) = WP!Elems(t)
      BY DEF Range, WP!Elems
    <3> QED
      BY <2>3, <3>1, <3>2, <3>3
  <2>5. {method_node_map[idx] : idx \in
           {i \in DOMAIN method_node_map : dex.called[n] # NoCall /\ i = called_method_info(n)}} = {e}
    BY <1>2, <2>1
  <2>6. n \in Live => Range(Links(n)) \subseteq Live
    BY <1>0, <2>2, <2>4, LiveType
  <2> QED
    BY <2>4, <2>5, <2>6
<1>3. CASE ~(dex.called[n] # NoCall /\ called_method_info(n) \in DOMAIN method_node_map)
  <2>1. Links(n) = dex.next[n]
    BY <1>3 DEF Links
  <2>2. {method_node_map[idx] : idx \in
           {i \in DOMAIN method_node_map : dex.called[n] # NoCall /\ i = called_method_info(n)}} = {}
    BY <1>3
  <2>3. n \in Live => Range(Links(n)) \subseteq Live
    BY <1>0, <2>1, LiveType
  <2> QED
    BY <1>1, <2>1, <2>2, <2>3
<1> QED
  BY <1>2, <1>3

\* Nodes of one address have their successors, calls included, at the same
\* addresses, in the same places.
LEMMA LinksOfOneAddress ==
  ASSUME FileInv, classIdx = Len(dex.classes),
         NEW m \in Node \ {Root}, NEW n \in Node \ {Root}, addr[m] = addr[n]
  PROVE  /\ Len(Links(m)) = Len(Links(n))
         /\ \A i \in 1..Len(Links(m)) : addr[Links(m)[i]] = addr[Links(n)[i]]
<1>0. dex \in Dexes /\ dex.addr[m] = dex.addr[n]
  BY DEF FileInv
<1>1. PICK s \in Seq(Node \ {Root}), t \in Seq(Node \ {Root}) :
        s = dex.next[m] /\ t = dex.next[n]
  BY <1>0, FileType
<1>2. dex.called[m] = dex.called[n]
  BY <1>0, DexesAssumption
<1>3. Len(s) = Len(t) /\ \A i \in DOMAIN s : dex.addr[s[i]] = dex.addr[t[i]]
  BY <1>0, <1>1, DexesAssumption
<1>4. \A i \in 1..Len(s) : addr[s[i]] = addr[t[i]]
  <2>1. DOMAIN s = 1..Len(s) /\ DOMAIN t = 1..Len(t)
    BY LenProperties
  <2>2. \A i \in 1..Len(s) : s[i] \in Node \ {Root} /\ t[i] \in Node \ {Root}
    BY <1>3, <2>1, ElementOfSeq
  <2> QED
    BY <1>3, <2>1, <2>2 DEF FileInv
<1>5. called_method_info(m) = called_method_info(n)
  BY <1>2 DEF called_method_info
<1>6. CASE dex.called[m] # NoCall /\ called_method_info(m) \in DOMAIN method_node_map
  <2>1. PICK e : e = method_node_map[called_method_info(m)]
    OBVIOUS
  <2>2. e \in Node \ {Root}
    BY <1>0, <1>6, <2>1, AllDumped, LiveType
  <2>3. Links(m) = Append(s, e) /\ Links(n) = Append(t, e)
    BY <1>1, <1>2, <1>5, <1>6, <2>1 DEF Links
  <2>4. /\ Len(s) \in Nat /\ Len(Append(s, e)) = Len(s) + 1 /\ Len(Append(t, e)) = Len(t) + 1
        /\ \A i \in 1..Len(s) : Append(s, e)[i] = s[i]
        /\ \A i \in 1..Len(t) : Append(t, e)[i] = t[i]
        /\ Append(s, e)[Len(s) + 1] = e /\ Append(t, e)[Len(t) + 1] = e
    BY <2>2, WP!PushFacts, NodesAssumption
  <2>5. \A i \in 1..(Len(s) + 1) : i \in 1..Len(s) \/ i = Len(s) + 1
    BY <2>4
  <2>6. \A i \in 1..(Len(s) + 1) : addr[Append(s, e)[i]] = addr[Append(t, e)[i]]
    BY <1>3, <1>4, <2>4, <2>5
  <2> QED
    BY <1>3, <2>3, <2>4, <2>6
<1>7. CASE ~(dex.called[m] # NoCall /\ called_method_info(m) \in DOMAIN method_node_map)
  <2>1. Links(m) = s /\ Links(n) = t
    BY <1>1, <1>2, <1>5, <1>7 DEF Links
  <2> QED
    BY <1>3, <1>4, <2>1
<1> QED
  BY <1>6, <1>7

-----------------------------------------------------------------------------
(***************************************************************************)
(* The classes and the calls                                               *)
(***************************************************************************)

\* The file and the command line stay, and with them all that is read off them.
LEMMA Fixed ==
  ASSUME dex' = dex, options' = options
  PROVE  /\ \A class : MethodsOf(class)' = MethodsOf(class) /\ IndexesOf(class)' = IndexesOf(class)
         /\ \A class, idx : EntryOf(class, idx)' = EntryOf(class, idx)
         /\ \A m : CallNodes(m)' = CallNodes(m)
         /\ \A idx : EntryNode(idx)' = EntryNode(idx)
         /\ Live' = Live
         /\ Defined' = Defined
         /\ method_node_map' = method_node_map => \A n : Links(n)' = Links(n)
<1>1. \A m : Dumpable(m)' = Dumpable(m)
  BY DEF Dumpable
<1>2. \A class : DumpedOf(class)' = DumpedOf(class)
  BY <1>1 DEF DumpedOf
<1>3. \A class : MethodsOf(class)' = MethodsOf(class)
  BY <1>2 DEF MethodsOf
<1>4. \A class : IndexesOf(class)' = IndexesOf(class)
  BY <1>3 DEF IndexesOf
<1>5. \A class, idx : EntryOf(class, idx)' = EntryOf(class, idx)
  BY <1>2 DEF EntryOf
<1>6. \A idx : EntryNode(idx)' = EntryNode(idx)
  BY <1>4, <1>5 DEF EntryNode
<1>7. Live' = Live /\ Defined' = Defined
  BY <1>3, <1>4 DEF Live, Defined
<1>8. \A m : CallNodes(m)' = CallNodes(m)
  BY DEF CallNodes
<1>9. method_node_map' = method_node_map => \A n : Links(n)' = Links(n)
  BY DEF Links, called_method_info
<1> QED
  BY <1>3, <1>4, <1>5, <1>6, <1>7, <1>8, <1>9

\* A method that an earlier class has keeps its entry node.
LEMMA DumpClassKeepsFirst ==
  ASSUME FileInv, dumpClass
  PROVE  /\ DOMAIN method_node_map' =
              UNION {IndexesOf(dex.classes[c]) : c \in 1..(classIdx + 1)}
         /\ \A idx \in DOMAIN method_node_map' : method_node_map'[idx] = EntryNode(idx)
<1>0. PICK k \in 1..Len(dex.classes) : k = classIdx + 1
  BY FileType DEF FileInv, dumpClass
<1>1. PICK class : class = dex.classes[k]
  OBVIOUS
<1> DEFINE new == [idx \in IndexesOf(class) |-> EntryOf(class, idx)]
<1>2. method_node_map' = Keep(method_node_map, new)
  BY <1>0, <1>1 DEF dumpClass
<1>3. /\ DOMAIN method_node_map' = DOMAIN method_node_map \cup IndexesOf(class)
      /\ \A idx \in DOMAIN method_node_map : method_node_map'[idx] = method_node_map[idx]
      /\ \A idx \in IndexesOf(class) \ DOMAIN method_node_map :
           method_node_map'[idx] = EntryOf(class, idx)
  BY <1>2 DEF Keep
<1>4. classIdx \in Nat /\ 1..k = 1..classIdx \cup {k} /\ \A c \in 1..classIdx : c < k
  BY <1>0, FileType DEF FileInv
<1>5. ASSUME NEW idx \in IndexesOf(class) \ DOMAIN method_node_map
      PROVE  EntryNode(idx) = EntryOf(class, idx)
  <2> DEFINE has == {c \in DOMAIN dex.classes : idx \in IndexesOf(dex.classes[c])}
  <2>1. has \subseteq Nat /\ k \in has
    BY <1>0, <1>1, FileType DEF FileInv
  <2>2. \A c \in has : c \notin 1..classIdx
    BY DEF FileInv
  <2>3. \A c \in has : k <= c
    BY <1>0, <1>4, <2>1, <2>2, FileType DEF FileInv
  <2>4. Min(has) = k
    <3> HIDE DEF has
    <3> QED
      BY <2>1, <2>3, MinIs
  <2> QED
    BY <1>1, <2>4 DEF EntryNode
<1>6. DOMAIN method_node_map' = UNION {IndexesOf(dex.classes[c]) : c \in 1..(classIdx + 1)}
  <2>1. UNION {IndexesOf(dex.classes[c]) : c \in 1..k} =
          (UNION {IndexesOf(dex.classes[c]) : c \in 1..classIdx}) \cup IndexesOf(class)
    BY <1>1, <1>4
  <2> QED
    BY <1>0, <1>3, <2>1 DEF FileInv
<1> QED
  BY <1>3, <1>5, <1>6 DEF FileInv

LEMMA DumpClassFile == FileInv /\ dumpClass => FileInv'
<1> SUFFICES ASSUME FileInv, dumpClass PROVE FileInv'
  OBVIOUS
<1>1. /\ dex' = dex /\ options' = options /\ next' = next /\ addr' = addr
      /\ phase = "classes" /\ phase' = phase /\ classIdx' = classIdx + 1
      /\ walking' = walking /\ walked' = walked
      /\ nodesptr_vec' = nodesptr_vec /\ edges_vec' = edges_vec
  BY DEF dumpClass, walkVars
<1>2. classIdx' \in 0..Len(dex.classes)
  BY <1>1, FileType DEF FileInv, dumpClass
<1>3. /\ DOMAIN method_node_map' = UNION {IndexesOf(dex.classes[c]) : c \in 1..classIdx'}
      /\ \A idx \in DOMAIN method_node_map' : method_node_map'[idx] = EntryNode(idx)
  BY <1>1, DumpClassKeepsFirst
<1>4. call_node_vec' =
        UNION {UNION {CallNodes(m) : m \in MethodsOf(dex.classes[c])} : c \in 1..classIdx'}
  <2>1. call_node_vec' =
          call_node_vec \cup UNION {CallNodes(m) : m \in MethodsOf(dex.classes[classIdx + 1])}
    BY DEF dumpClass, Collect
  <2>2. 1..classIdx' = 1..classIdx \cup {classIdx + 1}
    BY <1>1, FileType DEF FileInv
  <2> QED
    BY <2>1, <2>2 DEF FileInv
<1>5. /\ DOMAIN method_node_map' = UNION {IndexesOf(dex.classes[c])' : c \in 1..classIdx'}
      /\ \A idx \in DOMAIN method_node_map' : method_node_map'[idx] = EntryNode(idx)'
      /\ call_node_vec' = UNION {UNION {CallNodes(m)' : m \in MethodsOf(dex.classes[c])'} :
                                   c \in 1..classIdx'}
  BY <1>1, <1>3, <1>4, Fixed
<1> QED
  BY <1>1, <1>2, <1>5 DEF FileInv

LEMMA ProcessCallsFile == FileInv /\ process_calls => FileInv'
<1> SUFFICES ASSUME FileInv, process_calls PROVE FileInv'
  OBVIOUS
<1>1. /\ dex' = dex /\ options' = options /\ addr' = addr /\ classIdx' = classIdx
      /\ method_node_map' = method_node_map /\ call_node_vec' = call_node_vec
      /\ phase = "classes" /\ phase' = "walks" /\ classIdx = Len(dex.classes)
      /\ next = dex.next
  BY DEF process_calls, FileInv
<1>2. \A n \in Node : next'[n] = IF n \in call_node_vec THEN Links(n) ELSE dex.next[n]
  <2>1. \A n \in call_node_vec : dex.called[n] # NoCall
    BY <1>1, AllDumped
  <2> QED
    BY <1>1, <2>1 DEF process_calls, Links
<1>3. \A n \in Live : next'[n] = Links(n)
  <2>1. \A n \in Live : n \in Node /\ (n \notin call_node_vec => dex.called[n] = NoCall)
    BY <1>1, AllDumped, LiveType DEF FileInv
  <2>2. \A n : dex.called[n] = NoCall => Links(n) = dex.next[n]
    BY DEF Links
  <2> QED
    BY <1>2, <2>1, <2>2
<1>4. next' \in [Node -> Seq(Node)]
  <2>1. call_node_vec \subseteq Node \ {Root}
    BY <1>1, AllDumped, LiveType DEF FileInv
  <2>2. \A n \in call_node_vec : Links(n) \in Seq(Node)
    BY <1>1, <2>1, LinkType
  <2>3. \A n \in Node : dex.next[n] \in Seq(Node)
    BY <1>1 DEF FileInv
  <2>4. \A n \in Node : next'[n] \in Seq(Node)
    BY <1>2, <2>2, <2>3
  <2> QED
    BY <2>4 DEF process_calls
<1>5. Live' = Live /\ \A n : Links(n)' = Links(n)
  BY <1>1, Fixed
<1>6. /\ DOMAIN method_node_map' = UNION {IndexesOf(dex.classes[c])' : c \in 1..classIdx'}
      /\ \A idx \in DOMAIN method_node_map' : method_node_map'[idx] = EntryNode(idx)'
      /\ call_node_vec' = UNION {UNION {CallNodes(m)' : m \in MethodsOf(dex.classes[c])'} :
                                   c \in 1..classIdx'}
  BY <1>1, Fixed DEF FileInv
<1> QED
  BY <1>1, <1>3, <1>4, <1>5, <1>6 DEF FileInv

\* After that only the copy that a walk starts from changes.
LEMMA WalksFile ==
  FileInv /\ WalkInv /\ (StartWalk \/ WalkStep \/ EndWalk \/ dump_all \/ UNCHANGED vars) => FileInv'
<1> SUFFICES ASSUME FileInv, WalkInv, StartWalk \/ WalkStep \/ EndWalk \/ dump_all \/ UNCHANGED vars
             PROVE  FileInv'
  OBVIOUS
<1>1. /\ dex' = dex /\ options' = options /\ classIdx' = classIdx
      /\ method_node_map' = method_node_map /\ call_node_vec' = call_node_vec
  BY DEF StartWalk, WalkStep, EndWalk, dump_all, vars, fileVars
<1>2. /\ \A n : Links(n)' = Links(n)
      /\ Live' = Live
      /\ DOMAIN method_node_map' = UNION {IndexesOf(dex.classes[c])' : c \in 1..classIdx'}
      /\ \A idx \in DOMAIN method_node_map' : method_node_map'[idx] = EntryNode(idx)'
      /\ call_node_vec' = UNION {UNION {CallNodes(m)' : m \in MethodsOf(dex.classes[c])'} :
                                   c \in 1..classIdx'}
  BY <1>1, Fixed DEF FileInv
<1>3. CASE next' = next /\ addr' = addr /\ phase # "classes" /\ phase' \in {"walks", "written"}
  BY <1>1, <1>2, <1>3 DEF FileInv
<1>4. CASE StartWalk
  <2>1. PICK e : e = method_node_map[Min(ToWalk)]
    OBVIOUS
  <2>2. e \in Node \ {Root} /\ Root \in Node
    <3>1. ToWalk \subseteq Nat /\ ToWalk # {}
      <4>1. \A idx \in DOMAIN method_node_map : idx \in Nat
        BY <1>4, AllDumped, EntryNodeType DEF StartWalk, FileInv
      <4> QED
        BY <1>4, <4>1 DEF ToWalk, StartWalk
    <3>2. Min(ToWalk) \in ToWalk
      BY <3>1, MinFacts
    <3>3. Min(ToWalk) \in DOMAIN method_node_map
      BY <3>2 DEF ToWalk
    <3>4. e \in Live
      BY <1>4, <2>1, <3>3, AllDumped DEF StartWalk, FileInv
    <3> QED
      BY <3>4, LiveType, NodesAssumption DEF FileInv
  <2>3. next' = [next EXCEPT ![Root] = next[e]] /\ addr' = [addr EXCEPT ![Root] = addr[e]]
    BY <1>4, <2>1 DEF StartWalk
  <2>4. next' \in [Node -> Seq(Node)] /\ addr' \in [Node -> Addr]
    BY <2>2, <2>3 DEF FileInv
  <2>5. \A n \in Node \ {Root} : next'[n] = next[n] /\ addr'[n] = addr[n]
    BY <2>2, <2>3 DEF FileInv
  <2>6. phase = "walks" /\ phase' = "walks"
    BY <1>4 DEF StartWalk
  <2>7. \A n \in Live' : next'[n] = Links(n)'
    BY <1>2, <2>5, <2>6, LiveType DEF FileInv
  <2>8. \A n \in Node \ {Root} : addr'[n] = dex'.addr[n]
    BY <1>1, <2>5 DEF FileInv
  <2> QED
    BY <1>1, <1>2, <2>4, <2>6, <2>7, <2>8 DEF FileInv
<1>5. CASE WalkStep \/ EndWalk \/ dump_all
  <2>1. next' = next /\ addr' = addr
    <3>1. CASE WalkStep
      BY <3>1 DEF WalkStep, Walk!Next, Walk!PushLeaf, Walk!Descend, Walk!StopDescent,
                  Walk!PopAndDump, Walk!PopSilently, Walk!TakeNextChild, Walk!CutFeet, Walk!Return
    <3>2. CASE EndWalk \/ dump_all
      BY <3>2 DEF EndWalk, dump_all, walkVars
    <3> QED
      BY <1>5, <3>1, <3>2
  <2>2. phase # "classes" /\ phase' \in {"walks", "written"}
    BY <1>5 DEF WalkStep, EndWalk, dump_all, fileVars, WalkInv
  <2> QED
    BY <1>3, <2>1, <2>2
<1>6. CASE UNCHANGED vars
  BY <1>1, <1>2, <1>6 DEF FileInv, vars, fileVars, walkVars
<1> QED
  BY <1>4, <1>5, <1>6

-----------------------------------------------------------------------------
(***************************************************************************)
(* The walks                                                               *)
(***************************************************************************)

\* A walk has its method's entry under two pointers.
Walking ==
  /\ phase = "walks"
  /\ walking \in DOMAIN method_node_map
  /\ next[Root] = Links(method_node_map[walking])
  /\ addr[Root] = addr[method_node_map[walking]]

\* What nextAll is on every node: of the copy, what it is on the original.
LEMMA NextAll ==
  ASSUME FileInv, Walking
  PROVE  /\ nextAll \in [Node -> Seq(Node)]
         /\ \A n \in Live \cup {Root} : nextAll[n] = next[n]
         /\ \A n \in Live \cup {Root} : WP!Children(n) = Range(next[n])
         /\ \A n \in Live \cup {Root} : WP!Children(n) \subseteq Live
         /\ \A n \in Node : \E k \in Node \ {Root} :
              addr[k] = addr[n] /\ nextAll[n] = Links(k) /\ (n # Root => k = n)
<1>0. /\ dex \in Dexes /\ phase # "classes" /\ classIdx = Len(dex.classes)
      /\ Live \subseteq Node \ {Root} /\ Root \in Node
  BY LiveType, NodesAssumption DEF FileInv, Walking
<1>1. PICK e \in Live : e = method_node_map[walking]
  BY <1>0, AllDumped DEF Walking
<1>2. next[Root] = Links(e) /\ addr[Root] = addr[e]
  BY <1>1 DEF Walking
<1>3. \A n \in Node \ {Root} : Links(n) \in Seq(Node \ {Root}) /\ Links(n) \in Seq(Node)
  BY <1>0, LinkType
<1>4. nextAll \in [Node -> Seq(Node)]
  <2>1. \A n \in Node : (IF n = Root THEN next[Root] ELSE Links(n)) \in Seq(Node)
    BY <1>0, <1>2, <1>3
  <2> QED
    BY <2>1 DEF nextAll
<1>5. \A n \in Live \cup {Root} : nextAll[n] = next[n]
  BY <1>0 DEF nextAll, FileInv
<1>6. \A n \in Live \cup {Root} : \E k \in Live : nextAll[n] = Links(k)
  BY <1>0, <1>2 DEF nextAll
<1>7. \A n \in Live \cup {Root} : WP!Children(n) = Range(nextAll[n])
  <2>1. \A n \in Node : DOMAIN nextAll[n] = 1..Len(nextAll[n])
    BY <1>4
  <2> QED
    BY <1>0, <2>1 DEF WP!Children, Range
<1>8. \A n \in Live \cup {Root} : WP!Children(n) \subseteq Live
  <2>1. \A k \in Live : Range(Links(k)) \subseteq Live
    BY <1>0, LinkType
  <2> QED
    BY <1>6, <1>7, <2>1
<1>9. \A n \in Node : \E k \in Node \ {Root} :
        addr[k] = addr[n] /\ nextAll[n] = Links(k) /\ (n # Root => k = n)
  BY <1>0, <1>2 DEF nextAll
<1> QED
  BY <1>4, <1>5, <1>7, <1>8, <1>9

LEMMA NextAllSameCode ==
  ASSUME FileInv, Walking
  PROVE  WP!SameCode
<1>1. SUFFICES ASSUME NEW m \in Node, NEW n \in Node, addr[m] = addr[n]
               PROVE  WP!AddrsOf(WP!Children(m)) = WP!AddrsOf(WP!Children(n))
  BY DEF WP!SameCode
<1>2. PICK j \in Node \ {Root} : addr[j] = addr[m] /\ nextAll[m] = Links(j)
  BY NextAll
<1>3. PICK k \in Node \ {Root} : addr[k] = addr[n] /\ nextAll[n] = Links(k)
  BY NextAll
<1>4. /\ Len(Links(j)) = Len(Links(k))
      /\ \A i \in 1..Len(Links(j)) : addr[Links(j)[i]] = addr[Links(k)[i]]
  <2>1. classIdx = Len(dex.classes)
    BY DEF FileInv, Walking
  <2>2. addr[j] = addr[k]
    BY <1>1, <1>2, <1>3
  <2> QED
    BY <2>1, <2>2, LinksOfOneAddress
<1> QED
  BY <1>2, <1>3, <1>4 DEF WP!AddrsOf, WP!Children

\* What StartWalk sets up.
WalkBegun ==
  /\ Walking
  /\ stack = <<>> /\ visited = {} /\ edges = {}
  /\ current = Root /\ pc = "left"

LEMMA WalkBegins == FileInv /\ WalkBegun => WalkInv
<1> SUFFICES ASSUME FileInv, WalkBegun PROVE WalkInv
  OBVIOUS
<1> USE DEF WalkBegun
<1>1. WP!OnStack = {}
  BY LenProperties, EmptySeq DEF WP!OnStack
<1>2. WP!TypeOK
  BY NextAll, NodesAssumption DEF WP!TypeOK, FileInv
<1>3. WP!Inv
  BY <1>1, NextAllSameCode
     DEF WP!Inv, WP!VisitedClosed, WP!FirstInHand, WP!Covered, WP!AddrsOf
<1>4. WP!DisciplineInv
  BY <1>1, LenProperties, EmptySeq DEF WP!DisciplineInv, WP!StackDiscipline
<1>5. WP!ResultInv
  BY FS_EmptySet DEF WP!ResultInv, IsFiniteSet, WP!IsFiniteSet
<1>6. WP!Held \subseteq Live \cup {Root}
  BY <1>1 DEF WP!Held
<1> QED
  BY <1>2, <1>3, <1>4, <1>5, <1>6 DEF WalkInv, Walking

\* On what a walk holds, the graph of the program is nextAll.
LEMMA WalkBridge ==
  ASSUME FileInv, WalkInv, WalkStep
  PROVE  WP!Next /\ nextAll' = nextAll
<1>1. Walking /\ WP!TypeOK /\ WP!Held \subseteq Live \cup {Root} /\ Walk!Next
  BY DEF WalkInv, Walking, WalkStep
<1>2. nextAll[current] = next[current]
  BY <1>1, NextAll DEF WP!Held
<1>3. stack # <<>> => WP!Top \in WP!OnStack
  <2>1. WP!RootAssumption /\ WP!ProgramsAssumption
    BY NodesAssumption DEF WP!RootAssumption, WP!ProgramsAssumption
  <2> QED
    BY <1>1, <2>1, WP!PopFacts DEF WP!Top, WP!OnStack, WP!Elems, WP!TypeOK
<1>4. stack # <<>> => nextAll[WP!Top] = next[WP!Top]
  BY <1>1, <1>3, NextAll DEF WP!Held
<1>5. next' = next
  BY <1>1 DEF Walk!Next, Walk!PushLeaf, Walk!Descend, Walk!StopDescent,
              Walk!PopAndDump, Walk!PopSilently, Walk!TakeNextChild, Walk!CutFeet, Walk!Return
<1>6. nextAll' = nextAll
  BY <1>5 DEF nextAll, Links, called_method_info, WalkStep, fileVars
<1>7. CASE Walk!PushLeaf
  BY <1>2, <1>6, <1>7 DEF Walk!PushLeaf, WP!PushLeaf, WP!Next, Walk!OnStack, WP!OnStack
<1>8. CASE Walk!Descend
  BY <1>2, <1>6, <1>8 DEF Walk!Descend, WP!Descend, WP!Next, Walk!OnStack, WP!OnStack
<1>9. CASE Walk!StopDescent
  BY <1>2, <1>6, <1>9 DEF Walk!StopDescent, WP!StopDescent, WP!Next, Walk!OnStack, WP!OnStack
<1>10. CASE Walk!PopAndDump
  BY <1>4, <1>6, <1>10
     DEF Walk!PopAndDump, WP!PopAndDump, WP!Next, Walk!Destackable, WP!Destackable, Walk!Destack,
         WP!Destack, Walk!Top, WP!Top, Walk!Popped, WP!Popped, Walk!AddrsOf, WP!AddrsOf,
         Walk!Children, WP!Children
<1>11. CASE Walk!PopSilently
  BY <1>4, <1>6, <1>11
     DEF Walk!PopSilently, WP!PopSilently, WP!Next, Walk!Destackable, WP!Destackable,
         Walk!Top, WP!Top, Walk!Popped, WP!Popped, Walk!AddrsOf, WP!AddrsOf
<1>12. CASE Walk!TakeNextChild
  BY <1>4, <1>6, <1>12
     DEF Walk!TakeNextChild, WP!TakeNextChild, WP!Next, Walk!Branching, WP!Branching,
         Walk!Unvisited, WP!Unvisited, Walk!OnStack, WP!OnStack,
         Walk!Top, WP!Top, Walk!AddrsOf, WP!AddrsOf
<1>13. CASE Walk!CutFeet
  BY <1>4, <1>6, <1>13
     DEF Walk!CutFeet, WP!CutFeet, WP!Next, Walk!Branching, WP!Branching, Walk!Destack,
         WP!Destack, Walk!Unvisited, WP!Unvisited, Walk!OnStack, WP!OnStack,
         Walk!Top, WP!Top, Walk!Popped, WP!Popped, Walk!AddrsOf, WP!AddrsOf,
         Walk!Children, WP!Children
<1>14. CASE Walk!Return
  BY <1>6, <1>14 DEF Walk!Return, WP!Return, WP!Next
<1>15. WP!Next
  BY <1>1, <1>7, <1>8, <1>9, <1>10, <1>11, <1>12, <1>13, <1>14 DEF Walk!Next
<1> QED
  BY <1>6, <1>15

LEMMA WalkInvStep ==
  ASSUME FileInv, WalkInv, WalkStep
  PROVE  WalkInv'
<1>1. /\ dex' = dex /\ options' = options /\ method_node_map' = method_node_map
      /\ walking' = walking /\ phase' = phase /\ walking # NoMethod
  BY DEF WalkStep, fileVars
<1>2. WP!Next /\ nextAll' = nextAll
  BY WalkBridge
<1>3. Walking /\ WP!TypeOK /\ WP!Inv /\ WP!DisciplineInv /\ WP!ResultInv
      /\ WP!Held \subseteq Live \cup {Root} /\ [WP!Next]_(WP!vars)
  BY <1>1, <1>2 DEF WalkInv, Walking
<1>4. WP!RootAssumption /\ WP!ProgramsAssumption
  BY NodesAssumption DEF WP!RootAssumption, WP!ProgramsAssumption
<1>5. WP!TypeOK' /\ WP!Inv' /\ WP!DisciplineInv' /\ WP!ResultInv'
  BY <1>3, <1>4, WP!TypeStep, WP!InvStep, WP!DisciplineStep, WP!ResultStep
<1>6. next' = next /\ addr' = addr
  BY DEF WalkStep, Walk!Next, Walk!PushLeaf, Walk!Descend, Walk!StopDescent,
         Walk!PopAndDump, Walk!PopSilently, Walk!TakeNextChild, Walk!CutFeet, Walk!Return
<1>7. Live' = Live /\ \A n : Links(n)' = Links(n)
  BY <1>1, Fixed
<1>8. WP!Held' \subseteq Live \cup {Root}
  <2>1. WP!Held' \subseteq WP!Held \cup UNION {WP!Children(n) : n \in WP!Held}
    BY <1>3, <1>4, WP!HeldStep
  <2>2. \A n \in WP!Held : WP!Children(n) \subseteq Live
    BY <1>3, NextAll
  <2> QED
    BY <1>3, <2>1, <2>2
<1>9. next'[Root] = Links(method_node_map[walking]) /\ addr'[Root] = addr'[method_node_map[walking]]
  BY <1>3, <1>6 DEF Walking
<1>10. Links(method_node_map[walking])' = Links(method_node_map[walking])
  BY <1>1 DEF Links, called_method_info
<1> QED
  BY <1>1, <1>3, <1>5, <1>7, <1>8, <1>9, <1>10 DEF WalkInv, Walking

LEMMA WalkInvStart ==
  ASSUME FileInv, FileInv', WalkInv, StartWalk
  PROVE  WalkInv'
<1>1. /\ dex' = dex /\ options' = options /\ method_node_map' = method_node_map
      /\ classIdx' = classIdx /\ phase = "walks" /\ phase' = "walks"
  BY DEF StartWalk
<1>2. PICK idx : idx = Min(ToWalk)
  OBVIOUS
<1>3. idx \in DOMAIN method_node_map
  <2>1. \A i \in DOMAIN method_node_map : i \in Nat
    BY <1>1, AllDumped, EntryNodeType DEF FileInv
  <2>2. ToWalk \subseteq Nat /\ ToWalk # {}
    BY <2>1 DEF ToWalk, StartWalk
  <2>3. idx \in ToWalk
    BY <1>2, <2>2, MinFacts
  <2> QED
    BY <2>3 DEF ToWalk
<1>4. PICK e \in Live : e = method_node_map[idx]
  BY <1>1, <1>3, AllDumped DEF FileInv
<1>5. e \in Node \ {Root} /\ Root \in Node
  BY LiveType, NodesAssumption DEF FileInv
<1>6. /\ walking' = idx
      /\ next' = [next EXCEPT ![Root] = next[e]] /\ addr' = [addr EXCEPT ![Root] = addr[e]]
      /\ stack' = <<>> /\ visited' = {} /\ edges' = {} /\ current' = Root /\ pc' = "left"
  BY <1>2, <1>4 DEF StartWalk
<1>7. next'[Root] = next[e] /\ addr'[Root] = addr[e] /\ addr'[e] = addr[e] /\ next[e] = Links(e)
  BY <1>1, <1>5, <1>6 DEF FileInv
<1>8. Links(e)' = Links(e)
  BY <1>1, Fixed
<1>9. Walking'
  BY <1>1, <1>3, <1>4, <1>6, <1>7, <1>8 DEF Walking
<1>10. WalkBegun'
  BY <1>6, <1>9 DEF WalkBegun
<1> QED
  BY <1>10, WalkBegins, PTL

-----------------------------------------------------------------------------
(***************************************************************************)
(* The nodes to write                                                      *)
(***************************************************************************)

\* One turn of the loop that adds what a walk has handed back, and the turns
\* before it.
Chosen(s) == CHOOSE n \in s : TRUE

AddOne(a, v, n) == IF a[n] \in Range(v) THEN v ELSE Append(v, a[n])

Turn(a, vec, f, s) == IF s = {} THEN vec ELSE AddOne(a, f[s \ {Chosen(s)}], Chosen(s))

IsAdding(a, vec, S, f) == f = [s \in SUBSET S |-> Turn(a, vec, f, s)]

LEMMA SmallerSet ==
  ASSUME NEW S, IsFiniteSet(S), NEW s \in SUBSET S
  PROVE  /\ IsFiniteSet(s) /\ Cardinality(s) \in 0..Cardinality(S) /\ Cardinality(s) \in Nat
         /\ s = {} <=> Cardinality(s) = 0
         /\ s # {} => /\ Chosen(s) \in s /\ s \ {Chosen(s)} \in SUBSET S
                      /\ Cardinality(s \ {Chosen(s)}) = Cardinality(s) - 1
<1>1. IsFiniteSet(s) /\ Cardinality(s) <= Cardinality(S)
  BY FS_Subset
<1>2. Cardinality(s) \in Nat /\ Cardinality(S) \in Nat
  BY <1>1, FS_CardinalityType
<1>3. s = {} <=> Cardinality(s) = 0
  BY <1>1, FS_EmptySet
<1>4. ASSUME s # {}
      PROVE  /\ Chosen(s) \in s
             /\ Cardinality(s \ {Chosen(s)}) = Cardinality(s) - 1
  <2>1. Chosen(s) \in s
    BY <1>4 DEF Chosen
  <2> QED
    BY <1>1, <2>1, FS_RemoveElement
<1> QED
  BY <1>1, <1>2, <1>3, <1>4

\* The loop is a function from the nodes it has gone over to what it has then.
LEMMA AddingExists ==
  ASSUME NEW a, NEW vec, NEW S, IsFiniteSet(S)
  PROVE  \E f : IsAdding(a, vec, S, f)
<1> DEFINE Right(f, m) == /\ DOMAIN f = SUBSET S
                          /\ \A s \in SUBSET S : Cardinality(s) <= m => f[s] = Turn(a, vec, f, s)
<1>0. \A s \in SUBSET S : Cardinality(s) \in 0..Cardinality(S) /\ (Cardinality(s) = 0 => s = {})
  BY SmallerSet
<1>1. PICK n \in Nat : n = Cardinality(S)
  BY FS_CardinalityType
<1>2. PICK T : T = {m \in 0..n : \E f : Right(f, m)}
  OBVIOUS
<1>3. 0 \in T
  <2>1. PICK f : f = [s \in SUBSET S |-> vec]
    OBVIOUS
  <2>2. ASSUME NEW s \in SUBSET S, Cardinality(s) <= 0 PROVE f[s] = Turn(a, vec, f, s)
    <3>1. s = {}
      BY <1>0, <1>1, <2>2
    <3> QED
      BY <2>1, <3>1 DEF Turn
  <2>3. Right(f, 0)
    BY <2>1, <2>2
  <2> HIDE DEF Right
  <2> QED
    BY <1>1, <1>2, <2>3
<1>4. ASSUME NEW m \in 1..n, m - 1 \in T PROVE m \in T
  <2>1. PICK f : Right(f, m - 1)
    BY <1>2, <1>4
  <2>2. PICK g : g = [s \in SUBSET S |-> IF Cardinality(s) = m THEN Turn(a, vec, f, s) ELSE f[s]]
    OBVIOUS
  <2>3. ASSUME NEW s \in SUBSET S, Cardinality(s) <= m PROVE g[s] = Turn(a, vec, g, s)
    <3>1. Turn(a, vec, g, s) = Turn(a, vec, f, s)
      <4>1. CASE s = {}
        BY <4>1 DEF Turn
      <4>2. CASE s # {}
        <5>1. s \ {Chosen(s)} \in SUBSET S /\ Cardinality(s \ {Chosen(s)}) # m
          BY <1>1, <2>3, <4>2, SmallerSet
        <5>2. g[s \ {Chosen(s)}] = f[s \ {Chosen(s)}]
          BY <2>2, <5>1
        <5> QED
          BY <4>2, <5>2 DEF Turn
      <4> QED
        BY <4>1, <4>2
    <3>2. CASE Cardinality(s) = m
      BY <2>2, <3>1, <3>2
    <3>3. CASE Cardinality(s) # m
      <4>1. Cardinality(s) <= m - 1
        <5>1. Cardinality(s) \in Nat /\ m \in Nat
          BY <1>0, <1>1
        <5> QED
          BY <2>3, <3>3, <5>1
      <4> QED
        BY <2>1, <2>2, <3>1, <3>3, <4>1
    <3> QED
      BY <3>2, <3>3
  <2>4. Right(g, m)
    BY <2>2, <2>3
  <2> HIDE DEF Right
  <2> QED
    BY <1>1, <1>2, <2>4
<1>5. \A m \in 0..n : m \in T
  BY <1>1, <1>3, <1>4, Upwards
<1>6. PICK f : Right(f, n)
  <2> HIDE DEF Right
  <2>1. n \in T
    BY <1>1, <1>5
  <2> QED
    BY <1>2, <2>1
<1>7. ASSUME NEW s \in SUBSET S PROVE f[s] = Turn(a, vec, f, s)
  <2>1. Cardinality(s) <= n
    BY <1>0, <1>1
  <2> QED
    BY <1>6, <2>1
<1>8. PICK g : g = [s \in SUBSET S |-> f[s]]
  OBVIOUS
<1>9. ASSUME NEW s \in SUBSET S PROVE g[s] = Turn(a, vec, g, s)
  <2>1. s # {} => g[s \ {Chosen(s)}] = f[s \ {Chosen(s)}]
    BY <1>8, SmallerSet
  <2>2. Turn(a, vec, g, s) = Turn(a, vec, f, s)
    BY <2>1 DEF Turn
  <2> QED
    BY <1>7, <1>8, <2>2
<1>10. g = [s \in SUBSET S |-> Turn(a, vec, g, s)]
  BY <1>8, <1>9
<1> QED
  BY <1>10 DEF IsAdding

\* What a turn leaves: no address twice, and those of the nodes gone over.
IsAdded(a, vec, s, v) ==
  /\ v \in Seq(Addr)
  /\ IsInjective(v)
  /\ Range(v) = Range(vec) \cup {a[n] : n \in s}

LEMMA AddOneFacts ==
  ASSUME NEW a, NEW vec, NEW s, NEW v, IsAdded(a, vec, s, v), NEW n, a[n] \in Addr
  PROVE  IsAdded(a, vec, s \cup {n}, AddOne(a, v, n))
<1>1. {a[k] : k \in s \cup {n}} = {a[k] : k \in s} \cup {a[n]}
  OBVIOUS
<1>2. CASE a[n] \in Range(v)
  BY <1>1, <1>2 DEF IsAdded, AddOne
<1>3. CASE a[n] \notin Range(v)
  <2>1. PICK w : w = Append(v, a[n])
    OBVIOUS
  <2>2. /\ w \in Seq(Addr) /\ Len(v) \in Nat /\ Len(w) = Len(v) + 1
        /\ \A i \in 1..Len(v) : w[i] = v[i]
        /\ w[Len(v) + 1] = a[n]
    BY <2>1, AppendProperties, LenProperties DEF IsAdded
  <2>3. DOMAIN v = 1..Len(v) /\ DOMAIN w = 1..Len(v) \cup {Len(v) + 1}
    BY <2>2 DEF IsAdded
  <2>4. Range(w) = Range(v) \cup {a[n]}
    BY <2>2, <2>3 DEF Range
  <2>5. IsInjective(w)
    <3>1. \A i \in 1..Len(v) : w[i] # a[n]
      BY <1>3, <2>2, <2>3 DEF Range
    <3>2. \A i, j \in 1..Len(v) : w[i] = w[j] => i = j
      BY <2>2, <2>3 DEF IsAdded, IsInjective
    <3> QED
      BY <2>2, <2>3, <3>1, <3>2 DEF IsInjective
  <2>6. AddOne(a, v, n) = w
    BY <1>3, <2>1 DEF AddOne
  <2> QED
    BY <1>1, <2>2, <2>4, <2>5, <2>6 DEF IsAdded
<1> QED
  BY <1>2, <1>3

\* No address is listed twice, and none of the walk's is missing.
LEMMA AddNodesFacts ==
  ASSUME NEW vec \in Seq(Addr), IsInjective(vec), IsFiniteSet(visited),
         \A n \in visited : addr[n] \in Addr
  PROVE  IsAdded(addr, vec, visited, AddNodes(vec))
<1>1. PICK a, S : a = addr /\ S = visited
  OBVIOUS
<1>2. PICK h : IsAdding(a, vec, S, h)
  BY <1>1, AddingExists
<1>3. PICK f : f = CHOOSE g : g = [s \in SUBSET S |-> Turn(a, vec, g, s)]
  OBVIOUS
<1>4. f = [s \in SUBSET S |-> Turn(a, vec, f, s)]
  BY <1>2, <1>3 DEF IsAdding
<1>5. AddNodes(vec) = f[S]
  BY <1>1, <1>3 DEF AddNodes, FoldSet, MapThenFoldSet, Turn, AddOne, Chosen
<1> DEFINE wrong == {Cardinality(s) : s \in {t \in SUBSET S : ~IsAdded(a, vec, t, f[t])}}
<1>6. SUFFICES ASSUME wrong # {} PROVE FALSE
  <2>1. SUFFICES IsAdded(a, vec, S, f[S])
    BY <1>1, <1>5
  <2> QED
    OBVIOUS
<1>7. wrong \subseteq Nat
  <2>1. \A t \in SUBSET S : Cardinality(t) \in Nat
    BY <1>1, SmallerSet
  <2> QED
    BY <2>1
<1>8. PICK least \in wrong : \A k \in wrong : least <= k
  <2> HIDE DEF wrong
  <2> QED
    BY <1>6, <1>7, LeastOf
<1>9. PICK s \in SUBSET S : ~IsAdded(a, vec, s, f[s]) /\ Cardinality(s) = least
  OBVIOUS
<1>10. f[s] = Turn(a, vec, f, s)
  BY <1>4
<1>11. CASE s = {}
  BY <1>9, <1>10, <1>11 DEF Turn, IsAdded
<1>12. CASE s # {}
  <2>1. PICK n, t : n = Chosen(s) /\ t = s \ {n}
    OBVIOUS
  <2>2. n \in s /\ t \in SUBSET S /\ Cardinality(t) = Cardinality(s) - 1
        /\ Cardinality(s) \in Nat /\ Cardinality(t) \in Nat
    BY <1>1, <1>12, <2>1, SmallerSet
  <2>3. IsAdded(a, vec, t, f[t])
    <3>1. Cardinality(t) \notin wrong
      <4>1. least \in Nat /\ ~(least <= Cardinality(t))
        BY <1>9, <2>2
      <4> HIDE DEF wrong
      <4> QED
        BY <1>8, <4>1
    <3> QED
      BY <2>2, <3>1
  <2>4. IsAdded(a, vec, t \cup {n}, AddOne(a, f[t], n))
    BY <1>1, <2>2, <2>3, AddOneFacts
  <2>5. t \cup {n} = s /\ f[s] = AddOne(a, f[t], n)
    BY <1>10, <1>12, <2>1, <2>2 DEF Turn
  <2> QED
    BY <1>9, <2>4, <2>5
<1> QED
  BY <1>11, <1>12

-----------------------------------------------------------------------------
(***************************************************************************)
(* The graph to write                                                      *)
(***************************************************************************)
NothingYet == walked = {} /\ nodesptr_vec = <<>> /\ edges_vec = {} /\ phase # "written"

LEMMA NothingYetGraph == NothingYet => GraphInv
<1> SUFFICES ASSUME NothingYet PROVE GraphInv
  OBVIOUS
<1>1. nodesptr_vec \in Seq(Addr) /\ DOMAIN nodesptr_vec = {}
  BY EmptySeq DEF NothingYet
<1>2. Range(nodesptr_vec) = {} /\ IsInjective(nodesptr_vec)
  BY <1>1 DEF Range, IsInjective
<1> QED
  BY <1>1, <1>2 DEF GraphInv, NothingYet

LEMMA GraphStays ==
  ASSUME FileInv, GraphInv,
         dex' = dex, options' = options, method_node_map' = method_node_map,
         walked' = walked, nodesptr_vec' = nodesptr_vec, edges_vec' = edges_vec,
         \A n \in Node \ {Root} : addr'[n] = addr[n],
         phase # "classes",
         phase' = "written" => walking' = NoMethod /\ walked' = DOMAIN method_node_map'
  PROVE  GraphInv'
<1>1. Live' = Live /\ \A n : Links(n)' = Links(n)
  BY Fixed
<1>2. classIdx = Len(dex.classes) /\ dex \in Dexes
  BY DEF FileInv
<1>3. Live \subseteq Node \ {Root}
  BY <1>2, LiveType
<1>4. \A n \in Live : Range(Links(n)) \subseteq Live
  BY <1>2, <1>3, LinkType
<1>5. \A idx \in walked : method_node_map[idx] \in Live
  BY <1>2, AllDumped DEF GraphInv
<1>6. \A n \in Live : addr'[n] = addr[n]
  BY <1>3
<1>7. \A idx \in walked' : addr'[method_node_map'[idx]] \in Range(nodesptr_vec')
  BY <1>5, <1>6 DEF GraphInv
<1>8. \A n \in Live' : addr'[n] \in Range(nodesptr_vec') =>
        \A c \in Range(Links(n)') :
          addr'[c] \in Range(nodesptr_vec') /\ <<addr'[n], addr'[c]>> \in edges_vec'
  BY <1>1, <1>4, <1>6 DEF GraphInv
<1>9. \A e \in edges_vec' :
        \E n \in Live' : \E c \in Range(Links(n)') : e = <<addr'[n], addr'[c]>>
  BY <1>1, <1>4, <1>6 DEF GraphInv
<1>10. Range(nodesptr_vec') = Range(nodesptr_vec)'
  OBVIOUS
<1> QED
  BY <1>7, <1>8, <1>9 DEF GraphInv, Range

\* A walk that has ended has been wherever its edges lead.
LEMMA WalkDone ==
  ASSUME FileInv, WalkInv, walking # NoMethod, pc = "done"
  PROVE  /\ Walking /\ IsFiniteSet(visited) /\ visited \subseteq Live \cup {Root}
         /\ addr[Root] \in {addr[v] : v \in visited}
         /\ \A v \in visited : \A c \in WP!Children(v) :
              addr[c] \in {addr[w] : w \in visited} /\ <<v, c>> \in edges
         /\ \A e \in edges : \E v \in visited : \E c \in WP!Children(v) : e = <<v, c>>
<1>1. /\ Walking /\ WP!Inv /\ WP!ResultInv
      /\ WP!Held \subseteq Live \cup {Root}
  BY DEF WalkInv, Walking
<1>2. stack = <<>>
  BY <1>1 DEF WP!ResultInv
<1>3. WP!OnStack = {}
  BY <1>2, LenProperties, EmptySeq DEF WP!OnStack
<1>4. WP!Covered = {addr[v] : v \in visited}
  BY <1>3 DEF WP!Covered, WP!AddrsOf
<1>5. IsFiniteSet(visited) /\ edges = UNION {{n} \X WP!Children(n) : n \in visited}
  BY <1>1 DEF WP!ResultInv, WP!IsFiniteSet, IsFiniteSet
<1>6. visited \subseteq Live \cup {Root}
  BY <1>1 DEF WP!Held
<1>7. \A v \in visited : \A c \in WP!Children(v) : addr[c] \in {addr[w] : w \in visited}
  BY <1>1, <1>4 DEF WP!Inv, WP!VisitedClosed, WP!AddrsOf
<1>8. \A v \in visited : \A c \in WP!Children(v) : <<v, c>> \in edges
  <2>1. SUFFICES ASSUME NEW v \in visited, NEW c \in WP!Children(v) PROVE <<v, c>> \in edges
    OBVIOUS
  <2>2. <<v, c>> \in {v} \X WP!Children(v)
    OBVIOUS
  <2> QED
    BY <1>5, <2>2
<1>9. \A e \in edges : \E v \in visited : \E c \in WP!Children(v) : e = <<v, c>>
  BY <1>5
<1>10. addr[Root] \in {addr[v] : v \in visited}
  BY <1>1, <1>4 DEF WP!Inv
<1> QED
  BY <1>1, <1>5, <1>6, <1>7, <1>8, <1>9, <1>10

LEMMA EndWalkGraph ==
  ASSUME FileInv, WalkInv, GraphInv, EndWalk
  PROVE  GraphInv'
<1>1. /\ dex' = dex /\ options' = options /\ method_node_map' = method_node_map
      /\ addr' = addr /\ phase' = phase
      /\ walking # NoMethod /\ pc = "done"
      /\ nodesptr_vec' = AddNodes(nodesptr_vec)
      /\ edges_vec' = edges_vec \cup EdgesByAddr
      /\ walked' = walked \cup {walking}
  BY DEF EndWalk, walkVars, Walked
<1>2. Live' = Live /\ \A n : Links(n)' = Links(n)
  BY <1>1, Fixed
<1>3. PICK A : A = {addr[v] : v \in visited}
  OBVIOUS
<1>4. /\ Walking /\ IsFiniteSet(visited) /\ visited \subseteq Live \cup {Root}
      /\ addr[Root] \in A
      /\ \A v \in visited : \A c \in WP!Children(v) : addr[c] \in A /\ <<v, c>> \in edges
      /\ \A e \in edges : \E v \in visited : \E c \in WP!Children(v) : e = <<v, c>>
  BY <1>1, <1>3, WalkDone
<1>5. phase = "walks" /\ dex \in Dexes /\ classIdx = Len(dex.classes)
  BY <1>4 DEF Walking, FileInv
<1>6. Live \subseteq Node \ {Root} /\ Root \in Node
  BY <1>5, LiveType, NodesAssumption
<1>7. PICK e \in Live : e = method_node_map[walking]
  BY <1>4, <1>5, AllDumped DEF Walking
<1>8. /\ \A n \in Live : WP!Children(n) = Range(Links(n))
      /\ WP!Children(Root) = Range(Links(e)) /\ addr[Root] = addr[e]
  <2>1. \A n \in Live \cup {Root} : WP!Children(n) = Range(next[n])
    BY <1>4, NextAll
  <2>2. \A n \in Live : next[n] = Links(n)
    BY <1>5 DEF FileInv
  <2> QED
    BY <1>4, <1>7, <2>1, <2>2 DEF Walking
<1>9. /\ nodesptr_vec' \in Seq(Addr) /\ IsInjective(nodesptr_vec')
      /\ Range(nodesptr_vec') = Range(nodesptr_vec) \cup A
  <2>1. \A v \in visited : addr[v] \in Addr
    BY <1>4, <1>6 DEF FileInv
  <2>2. IsAdded(addr, nodesptr_vec, visited, AddNodes(nodesptr_vec))
    BY <1>4, <2>1, AddNodesFacts DEF GraphInv
  <2> QED
    BY <1>1, <1>3, <2>2 DEF IsAdded
<1>10. \A idx \in walked' : addr[method_node_map[idx]] \in Range(nodesptr_vec')
  BY <1>1, <1>4, <1>7, <1>8, <1>9 DEF GraphInv
<1>11. walked' \subseteq DOMAIN method_node_map
  BY <1>1, <1>4 DEF GraphInv, Walking
<1>12. ASSUME NEW n \in Live, addr[n] \in Range(nodesptr_vec'), NEW c \in Range(Links(n))
       PROVE  addr[c] \in Range(nodesptr_vec') /\ <<addr[n], addr[c]>> \in edges_vec'
  <2>1. CASE addr[n] \in Range(nodesptr_vec)
    BY <1>1, <1>9, <2>1 DEF GraphInv
  <2>2. CASE addr[n] \in A
    <3>1. PICK v \in visited : addr[v] = addr[n]
      BY <1>3, <2>2
    <3>2. WP!AddrsOf(WP!Children(v)) = WP!AddrsOf(WP!Children(n))
      BY <1>4, <1>6, <3>1, NextAllSameCode DEF WP!SameCode
    <3>3. PICK d \in WP!Children(v) : addr[d] = addr[c]
      BY <1>8, <3>2 DEF WP!AddrsOf
    <3>4. addr[d] \in A /\ <<v, d>> \in edges
      BY <1>4
    <3>5. <<addr[<<v, d>>[1]], addr[<<v, d>>[2]]>> \in EdgesByAddr
      BY <3>4 DEF EdgesByAddr
    <3>6. <<addr[n], addr[c]>> \in EdgesByAddr
      BY <3>1, <3>3, <3>5
    <3> QED
      BY <1>1, <1>9, <3>3, <3>4, <3>6
  <2> QED
    BY <1>9, <1>12, <2>1, <2>2
<1>13. ASSUME NEW x \in edges_vec'
       PROVE  \E n \in Live : \E c \in Range(Links(n)) : x = <<addr[n], addr[c]>>
  <2>1. CASE x \in edges_vec
    BY <2>1 DEF GraphInv
  <2>2. CASE x \in EdgesByAddr
    <3>1. PICK y \in edges : x = <<addr[y[1]], addr[y[2]]>>
      BY <2>2 DEF EdgesByAddr
    <3>2. PICK v \in visited : \E c \in WP!Children(v) : y = <<v, c>>
      BY <1>4
    <3>3. PICK c \in WP!Children(v) : y = <<v, c>>
      BY <3>2
    <3>4. x = <<addr[v], addr[c]>>
      BY <3>1, <3>3
    <3> QED
      BY <1>4, <1>7, <1>8, <3>4
  <2> QED
    BY <1>1, <2>1, <2>2
<1>14. phase' # "written"
  BY <1>1, <1>5
<1>15. \A n : Range(Links(n))' = Range(Links(n))
  BY <1>2 DEF Range
<1>16. Range(nodesptr_vec)' = Range(nodesptr_vec')
  BY DEF Range
<1> QED
  BY <1>1, <1>2, <1>9, <1>10, <1>11, <1>12, <1>13, <1>14, <1>15, <1>16
     DEF GraphInv, IsInjective

-----------------------------------------------------------------------------
(***************************************************************************)
(* The theorems                                                            *)
(***************************************************************************)
LEMMA IInvInit == Init => IInv
<1> SUFFICES ASSUME Init PROVE IInv
  OBVIOUS
<1>1. dex \in Dexes /\ classIdx = 0 /\ method_node_map = <<>> /\ call_node_vec = {}
      /\ walked = {} /\ walking = NoMethod /\ nodesptr_vec = <<>> /\ edges_vec = {}
      /\ phase = "classes" /\ next = dex.next /\ addr = dex.addr
  BY DEF Init
<1>2. /\ dex.next \in [Node -> Seq(Node)] /\ dex.addr \in [Node -> Addr]
      /\ Len(dex.classes) \in Nat
  <2>1. dex.next \in [Node -> Seq(Node \ {Root})]
    BY <1>1, FileType
  <2>2. \A n \in Node : dex.next[n] \in Seq(Node)
    BY <2>1
  <2> QED
    BY <1>1, <2>1, <2>2, FileType
<1>3. DOMAIN method_node_map = {} /\ 1..classIdx = {}
  BY <1>1, EmptySeq
<1>4. FileInv
  BY <1>1, <1>2, <1>3 DEF FileInv
<1>5. GraphInv
  BY <1>1, NothingYetGraph DEF NothingYet
<1> QED
  BY <1>1, <1>4, <1>5 DEF IInv, WalkInv

LEMMA IInvStep == IInv /\ [Next]_vars => IInv'
<1> SUFFICES ASSUME FileInv, WalkInv, GraphInv, [Next]_vars PROVE IInv'
  BY DEF IInv
<1>1. CASE dumpClass \/ process_calls
  <2>1. FileInv'
    BY <1>1, DumpClassFile, ProcessCallsFile
  <2>2. walking' = NoMethod
    BY <1>1 DEF FileInv, dumpClass, process_calls
  <2>3. NothingYet'
    BY <1>1 DEF FileInv, dumpClass, process_calls, NothingYet
  <2>4. GraphInv'
    BY <2>3, NothingYetGraph, PTL
  <2> QED
    BY <2>1, <2>2, <2>4 DEF IInv, WalkInv
<1>2. CASE StartWalk \/ WalkStep \/ EndWalk \/ dump_all \/ UNCHANGED vars
  <2>1. FileInv'
    BY <1>2, WalksFile
  <2>2. CASE StartWalk
    <3>1. WalkInv'
      BY <2>1, <2>2, WalkInvStart
    <3>2. \A n \in Node \ {Root} : addr'[n] = addr[n]
      BY <2>2 DEF StartWalk, FileInv
    <3>3. GraphInv'
      BY <2>2, <3>2, GraphStays DEF StartWalk
    <3> QED
      BY <2>1, <3>1, <3>3 DEF IInv
  <2>3. CASE WalkStep
    <3>1. WalkInv'
      BY <2>3, WalkInvStep
    <3>2. addr' = addr
      BY <2>3 DEF WalkStep, Walk!Next, Walk!PushLeaf, Walk!Descend, Walk!StopDescent,
                  Walk!PopAndDump, Walk!PopSilently, Walk!TakeNextChild, Walk!CutFeet, Walk!Return
    <3>3. phase = "walks" /\ phase' = "walks"
      BY <2>3 DEF WalkStep, WalkInv, fileVars
    <3>4. GraphInv'
      BY <2>3, <3>2, <3>3, GraphStays DEF WalkStep, fileVars
    <3> QED
      BY <2>1, <3>1, <3>4 DEF IInv
  <2>4. CASE EndWalk
    BY <2>1, <2>4, EndWalkGraph DEF IInv, WalkInv, EndWalk
  <2>5. CASE dump_all
    <3>1. walked' = DOMAIN method_node_map' /\ walking' = NoMethod
      BY <2>5 DEF dump_all, ToWalk, GraphInv
    <3>2. GraphInv'
      BY <2>5, <3>1, GraphStays DEF dump_all, walkVars
    <3> QED
      BY <2>1, <3>1, <3>2 DEF IInv, WalkInv
  <2>6. CASE UNCHANGED vars
    <3>1. UNCHANGED vars /\ nextAll' = nextAll
      BY <2>6 DEF vars, fileVars, walkVars, nextAll, Links, called_method_info
    <3>2. WalkInv'
      <4>1. Live' = Live /\ \A n : Links(n)' = Links(n)
        BY <2>6, Fixed DEF vars, fileVars
      <4>2. CASE walking = NoMethod
        BY <2>6, <4>2 DEF vars, fileVars, WalkInv
      <4>3. CASE walking # NoMethod
        <5>1. /\ WP!TypeOK /\ WP!Inv /\ WP!DisciplineInv /\ WP!ResultInv
              /\ WP!Held \subseteq Live \cup {Root} /\ [WP!Next]_(WP!vars)
          BY <3>1, <4>3 DEF WalkInv, vars, walkVars, WP!vars
        <5>2. WP!RootAssumption /\ WP!ProgramsAssumption
          BY NodesAssumption DEF WP!RootAssumption, WP!ProgramsAssumption
        <5>3. WP!TypeOK' /\ WP!Inv' /\ WP!DisciplineInv' /\ WP!ResultInv'
          BY <5>1, <5>2, WP!TypeStep, WP!InvStep, WP!DisciplineStep, WP!ResultStep
        <5>4. WP!Held' = WP!Held
          BY <2>6 DEF vars, walkVars, WP!Held, WP!OnStack
        <5> QED
          BY <2>6, <4>1, <4>3, <5>1, <5>3, <5>4 DEF vars, fileVars, walkVars, WalkInv
      <4> QED
        BY <4>2, <4>3
    <3>3. GraphInv'
      BY <2>6, Fixed DEF vars, fileVars, walkVars, GraphInv, Range, IsInjective
    <3> QED
      BY <2>1, <3>2, <3>3 DEF IInv
  <2> QED
    BY <1>2, <2>2, <2>3, <2>4, <2>5, <2>6
<1> QED
  BY <1>1, <1>2 DEF Next

LEMMA IInvAlways == Spec => []IInv
BY IInvInit, IInvStep, PTL DEF Spec

\* Whatever the walks of the methods have in common, by pointer or by address, an
\* instruction is written once.
THEOREM NodesAreUniqueHolds == Spec => []NodesAreUnique
<1>1. IInv => NodesAreUnique
  BY DEF IInv, GraphInv, NodesAreUnique
<1> QED
  BY <1>1, IInvAlways, PTL

\* The reference, in terms of the linked graph.
LEMMA ReferenceLinks ==
  ASSUME FileInv, phase # "classes", NEW a
  PROVE  \A b \in SuccAt(a) : \E n \in NodesAt(a) : \E c \in Range(Links(n)) : b = addr[c]
<1>1. dex \in Dexes /\ classIdx = Len(dex.classes)
  BY DEF FileInv
<1>2. \A n \in NodesAt(a) : n \in Live /\ n \in Node \ {Root}
  BY <1>1, LiveType DEF NodesAt
<1>3. \A n \in NodesAt(a) : Range(dex.next[n]) \subseteq Range(Links(n))
  BY <1>1, <1>2, LinkType
<1>4. ASSUME NEW b \in SuccAt(a)
      PROVE  \E n \in NodesAt(a) : \E c \in Range(Links(n)) : b = addr[c]
  <2>1. CASE b \in {addr[k] : k \in UNION {Range(dex.next[n]) : n \in NodesAt(a)}}
    BY <1>3, <2>1
  <2>2. CASE b \in {EntryAddr(idx) : idx \in CalledAt(a)}
    <3>1. PICK idx \in CalledAt(a) : b = EntryAddr(idx)
      BY <2>2
    <3>2. PICK n \in NodesAt(a) : idx = dex.called[n]
      BY DEF CalledAt
    <3>3. /\ idx \in Defined /\ idx \in Nat /\ idx < dex.methodIdsSize
      BY <1>1, FileType DEF CalledAt
    <3>4. dex.called[n] # NoCall /\ called_method_info(n) = idx
      BY <3>2, <3>3, NodesAssumption DEF called_method_info
    <3>5. idx \in DOMAIN method_node_map /\ method_node_map[idx] = EntryNode(idx)
      BY <1>1, <3>3, AllDumped
    <3>6. method_node_map[idx] \in Range(Links(n))
      BY <1>1, <1>2, <3>4, <3>5, LinkType
    <3> QED
      BY <3>1, <3>5, <3>6 DEF EntryAddr
  <2> QED
    BY <2>1, <2>2 DEF SuccAt
<1> QED
  BY <1>4

LEMMA CompleteByInv == IInv => GraphIsComplete
<1> SUFFICES ASSUME FileInv, GraphInv, phase = "written"
             PROVE  /\ Reachable \subseteq Range(nodesptr_vec)
                    /\ \A a \in Reachable : {a} \X SuccAt(a) \subseteq edges_vec
  BY DEF IInv, GraphIsComplete
<1>1. classIdx = Len(dex.classes) /\ walked = DOMAIN method_node_map
  BY DEF FileInv, GraphInv
<1>2. PICK S : S = Range(nodesptr_vec)
  OBVIOUS
<1>3. S \in SUBSET Addr
  <2>1. DOMAIN nodesptr_vec = 1..Len(nodesptr_vec)
    BY DEF GraphInv
  <2>2. \A i \in 1..Len(nodesptr_vec) : nodesptr_vec[i] \in Addr
    BY ElementOfSeq DEF GraphInv
  <2> QED
    BY <1>2, <2>1, <2>2 DEF Range
<1>4. {EntryAddr(idx) : idx \in Defined} \subseteq S
  BY <1>1, <1>2, AllDumped DEF GraphInv, EntryAddr
<1>5. ASSUME NEW a \in S, NEW b \in SuccAt(a)
      PROVE  b \in S /\ <<a, b>> \in edges_vec
  <2>1. PICK n \in NodesAt(a) : \E c \in Range(Links(n)) : b = addr[c]
    BY ReferenceLinks
  <2>2. PICK c \in Range(Links(n)) : b = addr[c]
    BY <2>1
  <2>3. n \in Live /\ addr[n] = a
    BY DEF NodesAt
  <2> QED
    BY <1>2, <2>2, <2>3 DEF GraphInv
<1>6. Reachable \subseteq S
  BY <1>3, <1>4, <1>5 DEF Reachable
<1> QED
  BY <1>2, <1>5, <1>6

\* When graph.edg is written nothing is missing of what the dumped methods reach:
\* calls to methods of later classes, recursion and calls from one walk into the
\* nodes of another included.
THEOREM GraphIsCompleteHolds == Spec => []GraphIsComplete
BY CompleteByInv, IInvAlways, PTL

LEMMA SoundByInv == IInv => GraphIsSound
<1> SUFFICES ASSUME FileInv, GraphInv, phase = "written", NEW e \in edges_vec
             PROVE  \/ e[2] \in SuccAt(e[1])
                    \/ /\ \E n \in NodesAt(e[1]) :
                            dex.called[n] \in Nat /\ dex.called[n] >= dex.methodIdsSize
                       /\ 0 \in Defined /\ e[2] = EntryAddr(0)
  BY DEF IInv, GraphIsSound
<1>1. classIdx = Len(dex.classes) /\ dex \in Dexes
  BY DEF FileInv
<1>2. PICK n \in Live : \E c \in Range(Links(n)) : e = <<addr[n], addr[c]>>
  BY DEF GraphInv
<1>3. PICK c \in Range(Links(n)) : e = <<addr[n], addr[c]>>
  BY <1>2
<1>4. n \in Node \ {Root} /\ n \in NodesAt(e[1]) /\ e[2] = addr[c]
  BY <1>1, <1>3, LiveType DEF NodesAt
<1>5. CASE c \in Range(dex.next[n])
  BY <1>4, <1>5 DEF SuccAt
<1>6. CASE c \notin Range(dex.next[n])
  <2>1. PICK idx \in DOMAIN method_node_map :
          /\ c = method_node_map[idx]
          /\ dex.called[n] # NoCall /\ idx = called_method_info(n)
    BY <1>1, <1>4, <1>6, LinkType
  <2>2. idx \in Defined /\ e[2] = EntryAddr(idx)
    BY <1>1, <1>4, <2>1, AllDumped DEF EntryAddr
  <2>3. dex.called[n] \in Nat /\ dex.methodIdsSize \in Nat
    BY <1>1, <1>4, <2>1, FileType
  <2>4. CASE dex.called[n] < dex.methodIdsSize
    <3>1. idx = dex.called[n] /\ idx \in 0..(dex.methodIdsSize - 1)
      BY <2>1, <2>3, <2>4 DEF called_method_info
    <3>2. idx \in CalledAt(e[1])
      BY <1>4, <2>2, <3>1 DEF CalledAt
    <3> QED
      BY <2>2, <3>2 DEF SuccAt
  <2>5. CASE ~(dex.called[n] < dex.methodIdsSize)
    <3>1. idx = 0 /\ dex.called[n] >= dex.methodIdsSize
      BY <2>1, <2>3, <2>5 DEF called_method_info
    <3> QED
      BY <1>4, <2>2, <2>3, <3>1
  <2> QED
    BY <2>4, <2>5
<1> QED
  BY <1>5, <1>6

\* And what is written is there: an edge is a successor that the code has, or a
\* call that was resolved, but for those to an index that no method has.
THEOREM GraphIsSoundHolds == Spec => []GraphIsSound
BY SoundByInv, IInvAlways, PTL

-----------------------------------------------------------------------------
(***************************************************************************)
(* The graph gets written: what is left to do at most, of classes, of      *)
(* methods, and of the walk at hand.                                       *)
(***************************************************************************)
PerWalk == 5 * Cardinality(Node) + 6

MethodsLeft == Defined \ (walked \cup {walking})

WalkLeft == IF walking = NoMethod THEN 0 ELSE WP!StepsLeft + 1

StepsLeft ==
  IF phase = "written" THEN 0
  ELSE (Len(dex.classes) - classIdx) + (IF phase = "classes" THEN 2 ELSE 1)
         + PerWalk * Cardinality(MethodsLeft) + WalkLeft

LEMMA ImageFinite ==
  ASSUME NEW S, IsFiniteSet(S), NEW f, DOMAIN f = S
  PROVE  IsFiniteSet({f[x] : x \in S})
<1>1. PICK T : T = {f[x] : x \in S}
  OBVIOUS
<1>2. PICK g : g = [x \in S |-> f[x]]
  OBVIOUS
<1>3. g \in Surjection(S, T)
  BY <1>1, <1>2 DEF Surjection
<1> QED
  BY <1>1, <1>3, FS_Surjection

\* The methods of a file that can be dumped are finitely many.
LEMMA DefinedFinite ==
  ASSUME dex \in Dexes
  PROVE  /\ IsFiniteSet(Defined) /\ Defined \subseteq Nat
         /\ IsFiniteSet(MethodsLeft) /\ Cardinality(MethodsLeft) \in Nat
<1>1. ASSUME NEW class \in Range(dex.classes) PROVE IsFiniteSet(IndexesOf(class))
  <2>1. DOMAIN class = 1..Len(class) /\ Len(class) \in Nat
    BY FileType
  <2>2. IsFiniteSet(DOMAIN class)
    BY <2>1, FS_Interval
  <2>3. PICK D : D = DumpedOf(class)
    OBVIOUS
  <2>4. IsFiniteSet(D)
    BY <2>2, <2>3, FS_Subset DEF DumpedOf
  <2>5. PICK f : f = [i \in D |-> class[i].idx]
    OBVIOUS
  <2>6. IsFiniteSet({f[i] : i \in D})
    BY <2>4, <2>5, ImageFinite
  <2>7. IndexesOf(class) = {f[i] : i \in D}
    BY <2>3, <2>5 DEF IndexesOf, MethodsOf
  <2> QED
    BY <2>6, <2>7
<1>2. Len(dex.classes) \in Nat /\ DOMAIN dex.classes = 1..Len(dex.classes)
      /\ Range(dex.classes) = {dex.classes[c] : c \in 1..Len(dex.classes)}
  BY FileType
<1>3. PICK C : C = 1..Len(dex.classes)
  OBVIOUS
<1>4. IsFiniteSet(C)
  BY <1>2, <1>3, FS_Interval
<1>5. PICK f : f = [c \in C |-> IndexesOf(dex.classes[c])]
  OBVIOUS
<1>6. IsFiniteSet({f[c] : c \in C})
  BY <1>4, <1>5, ImageFinite
<1>7. {f[c] : c \in C} = {IndexesOf(class) : class \in Range(dex.classes)}
  BY <1>2, <1>3, <1>5
<1>8. IsFiniteSet(UNION {IndexesOf(class) : class \in Range(dex.classes)})
  BY <1>1, <1>6, <1>7, FS_UNION
<1>9. IsFiniteSet(Defined)
  BY <1>8 DEF Defined
<1>10. IsFiniteSet(MethodsLeft)
  BY <1>9, FS_Difference DEF MethodsLeft
<1> QED
  BY <1>9, <1>10, EntryNodeType, FS_CardinalityType

LEMMA WalkAssumptions == WP!RootAssumption /\ WP!ProgramsAssumption
BY NodesAssumption DEF WP!RootAssumption, WP!ProgramsAssumption

LEMMA SameCounts ==
  ASSUME NEW S
  PROVE  /\ IsFiniteSet(S) <=> WP!IsFiniteSet(S)
         /\ Cardinality(S) = WP!Cardinality(S)
BY DEF IsFiniteSet, WP!IsFiniteSet, Cardinality, WP!Cardinality

\* The nodes on the stack of a walk are a path from the copy of its entry.
RouteInv == walking # NoMethod => WP!PathInv

LEMMA RouteInit == Init => RouteInv
BY DEF Init, RouteInv

RouteBegun == stack = <<>> /\ current = Root

LEMMA RouteBegins == RouteBegun => WP!PathInv
BY LenProperties, EmptySeq DEF RouteBegun, WP!PathInv, WP!StackIsPath

LEMMA RouteStep == IInv /\ RouteInv /\ [Next]_vars => RouteInv'
<1> SUFFICES ASSUME FileInv, WalkInv, GraphInv, RouteInv, [Next]_vars PROVE RouteInv'
  BY DEF IInv
<1>1. CASE dumpClass \/ process_calls \/ EndWalk \/ dump_all
  <2>1. walking' = NoMethod
    BY <1>1 DEF FileInv, dumpClass, process_calls, EndWalk, dump_all
  <2> QED
    BY <2>1 DEF RouteInv
<1>2. CASE StartWalk
  <2>1. RouteBegun'
    BY <1>2 DEF StartWalk, RouteBegun
  <2>2. WP!PathInv'
    BY <2>1, RouteBegins, PTL
  <2> QED
    BY <2>2 DEF RouteInv
<1>3. CASE WalkStep
  <2>1. walking' = walking /\ walking # NoMethod
    BY <1>3 DEF WalkStep, fileVars
  <2>2. WP!TypeOK /\ WP!PathInv /\ [WP!Next]_(WP!vars)
    BY <1>3, <2>1, WalkBridge DEF WalkInv, RouteInv
  <2>3. WP!PathInv'
    BY <2>2, WalkAssumptions, WP!PathStep
  <2> QED
    BY <2>3 DEF RouteInv
<1>4. CASE UNCHANGED vars
  <2>1. UNCHANGED vars /\ nextAll' = nextAll
    BY <1>4 DEF vars, fileVars, walkVars, nextAll, Links, called_method_info
  <2>2. walking' = walking /\ UNCHANGED (WP!vars)
    BY <2>1 DEF vars, fileVars, walkVars, WP!vars
  <2>3. CASE walking = NoMethod
    BY <2>2, <2>3 DEF RouteInv
  <2>4. CASE walking # NoMethod
    <3>1. WP!TypeOK /\ WP!PathInv /\ [WP!Next]_(WP!vars)
      BY <2>2, <2>4 DEF WalkInv, RouteInv
    <3>2. WP!PathInv'
      BY <3>1, WalkAssumptions, WP!PathStep
    <3> QED
      BY <3>2 DEF RouteInv
  <2> QED
    BY <2>3, <2>4
<1> QED
  BY <1>1, <1>2, <1>3, <1>4 DEF Next

LEMMA RouteAlways == Spec => [](IInv /\ RouteInv)
BY IInvInit, IInvStep, RouteInit, RouteStep, PTL DEF Spec

-----------------------------------------------------------------------------
\* A walk takes no more steps than PerWalk allows for.
WalkTyped == WP!TypeOK /\ pc = "left"
WalkIsShort == WP!StepsLeft <= 5 * Cardinality(Node) + 4 /\ WP!StepsLeft \in Nat

LEMMA WalkShort ==
  ASSUME IsFiniteSet(Node)
  PROVE  WalkTyped => WalkIsShort
<1> SUFFICES ASSUME WalkTyped PROVE WalkIsShort
  OBVIOUS
<1>1. WP!IsFiniteSet(Node) /\ Cardinality(Node) = WP!Cardinality(Node)
  BY SameCounts
<1>2. WP!TypeOK /\ WP!IsFiniteSet(Node) /\ pc = "left"
  BY <1>1 DEF WalkTyped
<1>3. WP!StepsLeft <= 5 * WP!Cardinality(Node) + 4
  BY <1>2, WalkAssumptions, WP!MostSteps
<1>4. WP!StepsLeft \in Nat
  BY <1>2, WalkAssumptions, WP!AtWork DEF WP!Working
<1> QED
  BY <1>1, <1>3, <1>4 DEF WalkIsShort

WalkCounts == WP!StepsLeft \in Nat

LEMMA WalkCounted ==
  ASSUME IsFiniteSet(Node)
  PROVE  WalkCounts
<1>1. WP!IsFiniteSet(Node)
  BY SameCounts
<1>2. CASE WP!Working
  BY <1>1, <1>2, WalkAssumptions, WP!AtWork DEF WalkCounts
<1>3. CASE ~WP!Working
  BY <1>3 DEF WP!StepsLeft, WalkCounts
<1> QED
  BY <1>2, <1>3

LEMMA StepsOfWalk ==
  ASSUME FileInv, WalkInv, RouteInv, IsFiniteSet(Node), ~Walk!SharesCode, WalkStep
  PROVE  WP!StepsLeft \in Nat /\ WP!StepsLeft' < WP!StepsLeft /\ WP!StepsLeft' \in Nat
<1>1. WP!TypeOK /\ WP!DisciplineInv /\ WP!PathInv /\ WP!Next
  BY WalkBridge DEF WalkInv, RouteInv, WalkStep
<1>2. WP!IsFiniteSet(Node)
  BY SameCounts
<1>3. ~WP!SharesCode
  BY DEF Walk!SharesCode, WP!SharesCode
<1>4. WP!StepsLeft \in Nat /\ WP!StepsLeft' < WP!StepsLeft
  BY <1>1, <1>2, <1>3, WalkAssumptions, WP!FewerLeft
<1>5. WalkCounts'
  BY WalkCounted, PTL
<1> QED
  BY <1>4, <1>5 DEF WalkCounts

LEMMA OneMethodLess ==
  ASSUME NEW p \in Nat, NEW k \in Nat
  PROVE  p * k \in Nat /\ p * (k + 1) = p * k + p
OBVIOUS

\* What of the count a step leaves as it is.
LEMMA SameMethods ==
  ASSUME dex' = dex, options' = options, walked' \cup {walking'} = walked \cup {walking}
  PROVE  MethodsLeft' = MethodsLeft
BY Fixed DEF MethodsLeft

LEMMA FewerClasses ==
  ASSUME IInv, dex \in Dexes, NEW p \in Nat, p = PerWalk, dumpClass \/ process_calls
  PROVE  StepsLeft \in Nat /\ StepsLeft' < StepsLeft
<1>1. /\ phase = "classes" /\ walking = NoMethod /\ walking' = NoMethod
      /\ dex' = dex /\ options' = options /\ walked' = walked
      /\ classIdx \in 0..Len(dex.classes) /\ Len(dex.classes) \in Nat
  BY FileType DEF IInv, FileInv, dumpClass, process_calls
<1>2. MethodsLeft' = MethodsLeft
  BY <1>1, SameMethods
<1>3. PICK k \in Nat : k = Cardinality(MethodsLeft)
  BY DefinedFinite
<1>4. k = Cardinality(MethodsLeft')
  BY <1>2, <1>3
<1>41. PICK q \in Nat : q = p * k
  BY OneMethodLess
<1>5. StepsLeft = (Len(dex.classes) - classIdx) + 2 + q + 0
  BY <1>1, <1>3, <1>41 DEF StepsLeft, WalkLeft
<1>7. PerWalk' = p
  BY DEF PerWalk
<1>8. CASE dumpClass
  <2>1. phase' = "classes" /\ classIdx' = classIdx + 1 /\ classIdx < Len(dex.classes)
    BY <1>8 DEF dumpClass
  <2>2. StepsLeft' = (Len(dex.classes) - (classIdx + 1)) + 2 + q + 0
    BY <1>1, <1>4, <1>41, <1>7, <2>1 DEF StepsLeft, WalkLeft
  <2> QED
    BY <1>1, <1>5, <2>1, <2>2
<1>9. CASE process_calls
  <2>1. phase' = "walks" /\ classIdx' = classIdx
    BY <1>9 DEF process_calls
  <2>2. StepsLeft' = (Len(dex.classes) - classIdx) + 1 + q + 0
    BY <1>1, <1>4, <1>41, <1>7, <2>1 DEF StepsLeft, WalkLeft
  <2> QED
    BY <1>1, <1>5, <2>1, <2>2
<1> QED
  BY <1>8, <1>9

LEMMA FewerMethods ==
  ASSUME IInv, IInv', dex \in Dexes, IsFiniteSet(Node), NEW p \in Nat, p = PerWalk, StartWalk
  PROVE  StepsLeft \in Nat /\ StepsLeft' < StepsLeft
<1>1. /\ phase = "walks" /\ walking = NoMethod /\ phase' = "walks"
      /\ dex' = dex /\ options' = options /\ walked' = walked /\ classIdx' = classIdx
      /\ classIdx = Len(dex.classes) /\ Len(dex.classes) \in Nat
      /\ walking' = Min(ToWalk) /\ ToWalk # {}
      /\ stack' = <<>> /\ current' = Root /\ pc' = "left"
  BY FileType DEF IInv, FileInv, StartWalk
<1>2. DOMAIN method_node_map = Defined /\ Defined \subseteq Nat
  BY <1>1, AllDumped, DefinedFinite DEF IInv
<1>3. PICK m : m = Min(ToWalk)
  OBVIOUS
<1>4. m \in Defined /\ m \notin walked /\ m # NoMethod
  <2>1. ToWalk \subseteq Nat /\ ToWalk = Defined \ walked
    BY <1>2 DEF ToWalk
  <2>2. m \in ToWalk
    BY <1>1, <1>3, <2>1, MinFacts
  <2> QED
    BY <1>2, <2>1, <2>2, NodesAssumption
<1>5. MethodsLeft' = MethodsLeft \ {m} /\ m \in MethodsLeft
  <2>1. Defined' = Defined
    BY <1>1, Fixed
  <2>2. NoMethod \notin Defined
    BY <1>2, NodesAssumption
  <2> QED
    BY <1>1, <1>3, <1>4, <2>1, <2>2 DEF MethodsLeft
<1>6. PICK k \in Nat : k + 1 = Cardinality(MethodsLeft) /\ k = Cardinality(MethodsLeft')
  <2>1. IsFiniteSet(MethodsLeft) /\ Cardinality(MethodsLeft) \in Nat
    BY DefinedFinite
  <2>2. Cardinality(MethodsLeft \ {m}) = Cardinality(MethodsLeft) - 1
    BY <1>5, <2>1, FS_RemoveElement
  <2>3. Cardinality(MethodsLeft \ {m}) \in Nat
    BY <2>1, FS_RemoveElement, FS_CardinalityType
  <2>4. Cardinality(MethodsLeft') = Cardinality(MethodsLeft \ {m})
    BY <1>5
  <2> QED
    BY <2>1, <2>2, <2>3, <2>4
<1>7. StepsLeft = 0 + 1 + p * (k + 1) + 0
  BY <1>1, <1>6 DEF StepsLeft, WalkLeft
<1>8. PerWalk' = p
  BY DEF PerWalk
<1>9. PICK w : w = WP!StepsLeft'
  OBVIOUS
<1>10. w \in Nat /\ w + 2 <= p
  <2>1. (WalkTyped => WalkIsShort)'
    BY WalkShort, PTL
  <2>2. WP!TypeOK'
    BY <1>1, <1>3, <1>4 DEF IInv, WalkInv
  <2>3. WalkTyped'
    BY <1>1, <2>2 DEF WalkTyped
  <2>4. WalkIsShort'
    BY <2>1, <2>3
  <2>5. w <= 5 * Cardinality(Node) + 4 /\ w \in Nat
    BY <1>9, <2>4 DEF WalkIsShort
  <2> QED
    BY <2>5, FS_CardinalityType DEF PerWalk
<1>11. StepsLeft' = 0 + 1 + p * k + (w + 1)
  BY <1>1, <1>3, <1>4, <1>6, <1>8, <1>9 DEF StepsLeft, WalkLeft
<1>12. p * k \in Nat /\ p * (k + 1) = p * k + p
  BY OneMethodLess
<1>13. PICK q \in Nat : q = p * k
  BY <1>12
<1>14. StepsLeft = 1 + q + p /\ StepsLeft' = 1 + q + (w + 1)
  BY <1>7, <1>11, <1>12, <1>13
<1> QED
  BY <1>10, <1>14

LEMMA FewerOfWalk ==
  ASSUME IInv, RouteInv, dex \in Dexes, IsFiniteSet(Node), NEW p \in Nat, p = PerWalk,
         ~Walk!SharesCode, WalkStep
  PROVE  StepsLeft \in Nat /\ StepsLeft' < StepsLeft
<1>1. /\ walking # NoMethod /\ walking' = walking /\ phase' = phase
      /\ dex' = dex /\ options' = options /\ walked' = walked /\ classIdx' = classIdx
  BY DEF WalkStep, fileVars
<1>2. phase = "walks" /\ classIdx = Len(dex.classes) /\ Len(dex.classes) \in Nat
  BY <1>1, FileType DEF IInv, FileInv, WalkInv
<1>3. PICK w, w1 : w = WP!StepsLeft /\ w1 = WP!StepsLeft'
  OBVIOUS
<1>4. w \in Nat /\ w1 \in Nat /\ w1 < w
  BY <1>3, StepsOfWalk DEF IInv
<1>5. MethodsLeft' = MethodsLeft
  BY <1>1, SameMethods
<1>6. PICK k \in Nat : k = Cardinality(MethodsLeft)
  BY DefinedFinite
<1>7. k = Cardinality(MethodsLeft')
  BY <1>5, <1>6
<1>8. PICK q \in Nat : q = p * k
  BY OneMethodLess
<1>9. PerWalk' = p
  BY DEF PerWalk
<1>10. StepsLeft = 0 + 1 + q + (w + 1)
  BY <1>1, <1>2, <1>3, <1>6, <1>8 DEF StepsLeft, WalkLeft
<1>11. StepsLeft' = 0 + 1 + q + (w1 + 1)
  BY <1>1, <1>2, <1>3, <1>7, <1>8, <1>9 DEF StepsLeft, WalkLeft
<1> QED
  BY <1>4, <1>8, <1>10, <1>11

LEMMA FewerAtEnd ==
  ASSUME IInv, dex \in Dexes, NEW p \in Nat, p = PerWalk, EndWalk \/ dump_all
  PROVE  StepsLeft \in Nat /\ StepsLeft' < StepsLeft
<1>1. PICK k \in Nat : k = Cardinality(MethodsLeft)
  BY DefinedFinite
<1>2. PICK q \in Nat : q = p * k
  BY OneMethodLess
<1>3. phase = "walks" /\ classIdx = Len(dex.classes) /\ Len(dex.classes) \in Nat
  BY FileType DEF IInv, FileInv, WalkInv, EndWalk, dump_all
<1>4. CASE EndWalk
  <2>1. /\ walking # NoMethod /\ walking' = NoMethod /\ phase' = phase /\ pc = "done"
        /\ dex' = dex /\ options' = options /\ classIdx' = classIdx
        /\ walked' = walked \cup {walking}
    BY <1>4 DEF EndWalk, Walked
  <2>2. MethodsLeft' = MethodsLeft
    <3>1. Defined' = Defined /\ NoMethod \notin Defined
      BY <2>1, Fixed, DefinedFinite, NodesAssumption
    <3> QED
      BY <2>1, <3>1 DEF MethodsLeft
  <2>3. k = Cardinality(MethodsLeft')
    BY <1>1, <2>2
  <2>4. WP!StepsLeft = 0
    BY <2>1 DEF WP!StepsLeft, WP!Working
  <2>5. PerWalk' = p
    BY DEF PerWalk
  <2>6. StepsLeft = 0 + 1 + q + 1
    BY <1>1, <1>2, <1>3, <2>1, <2>4 DEF StepsLeft, WalkLeft
  <2>7. StepsLeft' = 0 + 1 + q + 0
    BY <1>2, <1>3, <2>1, <2>3, <2>5 DEF StepsLeft, WalkLeft
  <2> QED
    BY <2>6, <2>7
<1>5. CASE dump_all
  <2>1. walking = NoMethod /\ phase' = "written"
    BY <1>5 DEF dump_all
  <2>2. StepsLeft = 0 + 1 + q + 0
    BY <1>1, <1>2, <1>3, <2>1 DEF StepsLeft, WalkLeft
  <2>3. StepsLeft' = 0
    BY <2>1 DEF StepsLeft
  <2> QED
    BY <2>2, <2>3
<1> QED
  BY <1>4, <1>5

LEMMA FewerLeft ==
  ASSUME IsFiniteSet(Node)
  PROVE  IInv /\ IInv' /\ RouteInv /\ ~Walk!SharesCode /\ Next =>
           StepsLeft \in Nat /\ StepsLeft' < StepsLeft
<1>1. PICK p : p = PerWalk
  OBVIOUS
<1>2. p \in Nat
  BY <1>1, FS_CardinalityType DEF PerWalk
<1> QED
  BY <1>1, <1>2, FewerClasses, FewerMethods, FewerOfWalk, FewerAtEnd DEF Next, IInv, FileInv

MostSteps ==
  classIdx = 0 /\ phase = "classes" =>
    StepsLeft = Len(dex.classes) + 2 + PerWalk * Cardinality(Defined)

LEMMA MostStepsByInv ==
  ASSUME IsFiniteSet(Node)
  PROVE  IInv => MostSteps
<1> SUFFICES ASSUME IInv, classIdx = 0, phase = "classes"
             PROVE  StepsLeft = Len(dex.classes) + 2 + PerWalk * Cardinality(Defined)
  BY DEF MostSteps
<1>1. walking = NoMethod /\ walked = {} /\ dex \in Dexes /\ Len(dex.classes) \in Nat
  BY FileType DEF IInv, FileInv
<1>2. MethodsLeft = Defined
  BY <1>1, DefinedFinite, NodesAssumption DEF MethodsLeft
<1>3. PICK p, k : p = PerWalk /\ k = Cardinality(Defined)
  OBVIOUS
<1>4. p \in Nat /\ k \in Nat
  BY <1>1, <1>3, DefinedFinite, FS_CardinalityType DEF PerWalk
<1>5. PICK q \in Nat : q = p * k
  BY <1>4, OneMethodLess
<1>6. Cardinality(MethodsLeft) = k
  BY <1>2, <1>3
<1>7. StepsLeft = (Len(dex.classes) - 0) + 2 + q + 0
  BY <1>1, <1>3, <1>5, <1>6 DEF StepsLeft, WalkLeft
<1> QED
  BY <1>1, <1>3, <1>5, <1>7

(***************************************************************************)
(* Every step towards graph.edg leaves fewer to do, from at most one for   *)
(* each class, two, and for each method five for each node and six: with   *)
(* recursion and mutual recursion the walks still end, and no method is    *)
(* walked again.  This is what GetsWritten needs besides fairness.         *)
(***************************************************************************)
THEOREM StepsRunOut ==
  IsFiniteSet(Node) =>
    (Spec => /\ []MostSteps
             /\ [][~Walk!SharesCode => StepsLeft \in Nat /\ StepsLeft' < StepsLeft]_vars)
<1> SUFFICES ASSUME IsFiniteSet(Node)
             PROVE  Spec => /\ []MostSteps
                            /\ [][~Walk!SharesCode => StepsLeft \in Nat /\ StepsLeft' < StepsLeft]_vars
  OBVIOUS
<1>1. IInv /\ IInv' /\ RouteInv /\ [Next]_vars =>
        [~Walk!SharesCode => StepsLeft \in Nat /\ StepsLeft' < StepsLeft]_vars
  BY FewerLeft
<1>2. IInv => MostSteps
  BY MostStepsByInv
<1> QED
  BY <1>1, <1>2, RouteAlways, PTL DEF Spec
=============================================================================
