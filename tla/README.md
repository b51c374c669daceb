# DexGraph in TLA+

DexGraph is Android's `dexdump` turned into a tool that reads the bytecode of a
`classes.dex` (or of the one in a Jar, Zip or APK), builds the control flow graph of
every method, links calls to the methods they call, and appends the result to
`graph.edg`.  This directory holds specifications of that program, the configurations
that TLC checks them with, and theorems about them that TLAPS checks.  Paths below are
relative to `src/`.

## The system

| Part | Source | State it keeps | Operations | What makes it correct |
|---|---|---|---|---|
| Command line | `src/dexdump/DexDump.cpp` (`main`, `process`) | `gOptions`, the accumulated `result`, `optind` | parse options, process one file after the other, exit | an exit status of 0 means that every file was processed |
| Opening | `src/libdex/CmdUtils.cpp` | the temporary file, `result`, `removeTemp`, file descriptors | unzip to a temporary file, open, map, unlink | maps what it extracted itself; leaves no temporary file; removes no file of others |
| Parsing and lookup | `src/libdex/DexFile.cpp` | pointers into the file, class lookup table, auxiliary chunks | check and parse, find a class, decode debug information | lookups find what was added and end; checks are not fooled by sizes |
| Byte order and verification | `src/libdex/DexSwapVerify.cpp`, `DexDataMap.cpp` | the file itself, read position, the data map | swap each section, verify it, cross-verify references | each item is swapped once, before it is read; references lead to items of the right kind |
| Decoding | `src/libdex/InstrUtils.cpp`, `Leb128.cpp`, `DexClass.cpp`, `DexCatch.cpp`, `DexProto.cpp` | none, or a read position | widths, formats, operands, class data, handlers | decoders agree with one another on sizes |
| Debug information | `dexDecodeDebugInfo` in `DexFile.cpp`; `intraVerifyDebugInfoItem` in `DexSwapVerify.cpp` | a read position, the locals in the registers | verify a stream; decode it with a callback for each line and local | the decoder reads what the verifier has looked at; each local is reported once |
| Archive | `src/libdex/ZipArchive.cpp`, `dexUnzipToFile` in `CmdUtils.cpp` | descriptor, mapping, hash table of entries, the zlib stream | open, find an entry, extract it, close | reads lie in the map; all is given back; success means a whole file |
| Method graph | `dumpBytecodes` and `dumpInstruction` in `DexDump.cpp`; `construct_node_from_vec` in `src/TreeConstructor/TCNode.cpp`; `TCHelper.cpp`; `OpcodeType.cpp` | `node_vector`, `node_queue`, `cluster_map`, `next_nodes` | decode, cut into clusters, link ifs, jumps, switches | a node's successors are those of its instruction |
| Program graph | `processDexFile`, `dumpClass`, `dumpMethod`; `process_calls` | `method_node_map`, `call_node_vec`, `nodesptr_vec`, `edges_vec` | collect methods, link calls, walk, merge, write | what is written is the program's reachable graph, each instruction once |
| Traversal | `binary_traversal` and its helpers in `TCNode.cpp`; `dump_single_node` in `FmtEdg.cpp` | the stack, `visited_nodeptr_vec`, `current_node`, the results | descend, pop and dump, take the next child | returns; hands back all that is reachable, and only that |
| Output | `FmtEdg.cpp` (`FmtDot.cpp` has no caller left) | `graph.edg` | three appends per file | the three blocks of a file belong together |

The parts call one another in one thread: `main` calls `process` for each file,
`process` opens, maps and parses it and calls `processDexFile`, which collects the
methods' graphs, links the calls, walks and writes.  Two processes in one directory
share `graph.edg` and, with the same `-t`, the name of the temporary file.

What is hard here is not concurrency inside the program, for there is none, but

* **identity**: the same instruction exists as several nodes (the copy a walk starts
  from and the original; two methods that share a code item), and the code compares
  nodes by pointer in some places and by address in others;
* **long sequences of legal steps**: the walk keeps its stack, its `current_node` and
  two visited lists in step over several helper functions, each of which checks only
  a part of what it relies on;
* **order**: calls can be linked only when all classes are read, walks copy the entry
  node only after that, passes over the clusters rely on the one before;
* **partial failure**: every system call may fail, `goto bail` leaves from everywhere,
  exceptions skip one method of a class; a process may be killed with a temporary file
  in the directory;
* **boundaries**: instructions of width zero, payloads, switch targets that are halved.

`hazards` in `PROJECT.json` lists these at their lines, with the properties that cover
each.

## The modules

### GraphDump, Traversal, TraversalProofs

`GraphDump` is what a traversal promises its caller: it hands back reachable
addresses, each with all of its out-edges, and returns only when none is missing.

`Traversal` is `binary_traversal`, one action per way through each helper: `PushLeaf`,
`Descend` and `StopDescent` are the loop of `left_traversal_stack`; `PopAndDump` and
`PopSilently` the popping loop; `TakeNextChild` and `CutFeet` what
`binary_process_multiplefeet_node` and `binary_process_cuttedfeet_node` do with a node
of several successors; `Return` the end.  `Node` are pointers, `addr` is `baseAddr`;
`visited` stands both for `visited_nodeptr_vec` and for the returned `nodesptr_vec`,
which get the same nodes at the same moments.  `edges` is a set: how often an edge is
listed is not modelled.  The refinement `ImplementsDump` maps nodes and edges to
addresses.

### MethodGraph, MethodGraphProofs

One method from its code to its graph.  `dumpInstruction` decodes one instruction and
appends its node; `EndOfCode` ends the loop (a width of zero ends it early);
`TakeCluster` is one turn of the outer loop of `get_node_clusters`;
`process_if_clusters`, `process_jmp_clusters` and `process_switch_clusters` are the
passes.  Offsets are counted in instructions: the code keeps `insns` and `insnIdx` in
step by the width of every instruction, and the passes only compare offsets.
Undefined behaviour (`front()` of an empty queue, of an empty argument list) leads to
the phase `undefined`, of which nothing more is said.  The reference is `Flow`, where
the Dalvik instruction may go; the properties say exactly where the graph differs from
it.

### ProgramGraph, ProgramGraphProofs

`processDexFile`.  `dumpClass` collects the entry nodes and call nodes of a class's
methods and skips those that `dumpMethod` throws for; `process_calls` links the calls;
`StartWalk`, `WalkStep` and `EndWalk` walk each method with the actions of `Traversal`
(an instance, over nodes that the methods share) and merge the result; `dump_all`
writes.  The methods' own flow is taken as `MethodGraph` leaves it.  `call_node_vec` and
`edges_vec` are sets, for nothing depends on their order or on how often they hold the
same; `nodesptr_vec` is a sequence, because `NodesAreUnique` is about that.  The reference
is the program's graph by address, read off the file.

### Instructions, BytecodeScan

`MethodGraph` counts in instructions; `BytecodeScan` is the same loop of `dumpBytecodes`
over 16-bit code units.  `Instructions` has the three tables of `InstrUtils.cpp` for all
256 opcodes (widths, flags, formats), `dexDecodeInstruction` with its sign extensions,
and `OpCodeClassifier`.  `insnWidth` finds the width of an instruction or of a payload,
`OperandOffsets`, `get_packed_switch_payload` and `get_sparse_switch_offsets` compute the
targets from the operands and the payloads, `opt_called_method_info` the method that is
called (0 for an index past `methodIdsSize`, for `dumpInstruction` swallows the exception
of `get_method_info`).  A step of `BytecodeScan` is a step of `MethodGraph`'s decoding
(`ImplementsDecoding`), with offsets of units mapped to the numbers of the instructions
that start there.

### DexDump, DexDumpProofs

`main`, `process`, `dexOpenAndMap`, `dexUnzipToFile` and the three appends of
`dump_all`, for several processes in one directory.  A step is one system call with
all of its outcomes; a process may be killed before any of them.  The Zip functions,
`dexFileParse` and `mmap` are modelled by their outcomes.  `fs` holds the temporary
files with their makers, `edg` the appends: `Written` says of one process what it has
appended, whatever others have in between.  `left`, `lost`, `wild` are history: a
removal that the system refused, an append that failed unnoticed, a map used unfilled.

### ItemVisitors, SwapVerify, SwapVerifyProofs

`dexFixByteOrdering`, a function of `libdex` that no call of the tool reaches.  A `file`
is what the visitors read: the header, the map with its sections, and for each section
its items with their fields and lengths; `dirty` are the bytes that are not 0, of which
the checks of padding ask.  `ItemVisitors` has one operator per visitor, which says
whether it accepts the item, and the data map with its binary search.  `SwapVerify` is
the machine around them: `CheckHeader` and `CheckMap`; `StartSection`, `SwapItem` and
`EndSection` for each section of the map in its order (a step is one item); `EndSwap`;
then `CrossItem` and `EndCrossSection` for the second pass.  The ends are `accepted`,
`failed`, and two that are not the code's: `undefined` where a visitor reads through an
index or an offset that nothing has verified yet (`CrossItemUnverified`), and `overrun`
where it may write behind an array: `dexDataMapAlloc` allocates nothing for the entries,
and the lists at `DexSwapVerify.cpp:1741` and `2722` get a byte for every four.  Every
property speaks of the runs that `Overrun` does not end.

What the model leaves out: the 32 bits in which `swapMap` computes the length of the map
list (a list that wraps is turned down all the same, when a type comes up twice, but its
entries may have been read behind the file until then); encodings (LEB128, modified
UTF-8, encoded values, debug opcodes) are right or wrong as a whole (`wellFormed`), and
only then have fields; the second pass looks at the padding again, which nothing has
changed.  What the code leaves
out, and the model with it: no visitor looks at the `debugInfoOff` of a code item;
annotations and encoded arrays are not cross-verified (`crossVerifyAnnotationItem` has no
caller); an entry 0 of an annotation set is read at the start of the file, as an annotation
of type 101; the static values of a class are never swapped (`BigEndian`).

### Lookup, ProbeTable, ProbeTableProofs

`Lookup` is what a table promises: the first entry of a name, or none.  `ProbeTable` is
the open hash table that libdex has twice: `client` is `classes` for
`dexCreateClassLookup`, `classLookupAdd` and `dexFindClass`, and `archive` for
`parseZipArchive`, `addToHash` and `dexZipFindEntry`.  They differ in size and in how a
failed allocation ends.  A step is one turn of a probing loop (`Probe`) or what comes
before and after it.  A slot holds the number of an entry; the hash is any function, for
nothing depends on which.  Masking with a power of two is `%` in `Home` and a return to
slot 0 in `After`.  `MaxEntries` is the bound of an archive's count (u2).

### ZipArchive, ZipArchiveProofs

`dexUnzipToFile` with all that it calls in `ZipArchive.cpp`: `dexZipOpenArchive` and
`MapArchive` (open, size, map), `ParseEnd` (the search for the end record, from the end
backwards), `WalkEntry` and `EndWalk` (one entry of the central directory per step),
`CreateOutput`, `FindEntry`, `dexZipGetEntryInfo` and `dexZipExtractEntryToFile`, then
`StoreEntry` or `inflateToFile` (`inflateInit2`, then the loop: `InflateMore`,
`WriteBlock`, `InflateEnd`, `CheckLength`; each way out of the loop passes `inflateEnd`,
which is part of the step, `InflationEnds`), `CloseOutput` and `CloseArchive`.  Each
system call may fail.  `own` are the descriptors, `map` is the mapping, `unfreed` what
else was taken and not freed: zlib's stream, or the buffer of the `read` that makes a
"mapping" here, which `sysFakeMapFile` leaves behind when the read fails.  A file is
its length and the headers at its offsets; headers are two or three units long and a
buffer two.  zlib is what the loop sees of it: how much a stream needs, how much it
yields, and whether it is sound.  `ImplementsUnzip` shows that these are the steps that
`DexDump` takes for an unzip, with their outcomes.

### DebugInfo, DebugInfoProofs

First `intraVerifyDebugInfoItem` goes over a stream (`VerifyHeader`, `VerifyName`,
`VerifyOpcode`), then, if it accepts, `dexDecodeDebugInfo` (`Start`, `Parameter`, and one
action or two for each kind of opcode).  Both read LEB128 numbers byte by byte, the one with
`readAndVerify...`, the other without a check.  `item` is a stream and what the decoder
uses of its method.  The decoder's two assertions, which the build compiles in
(`CMakeLists.txt` defines no `NDEBUG`), compare `insSize` with the prototype
(`AssertFails`), and nothing compares it with `registersSize`: `firstArg` is their
difference cut to 16 bits, and of an instance method with too few registers `this` is
written behind the array (`StartBehind`).  `boundaries` is history: where the verifier
found names and opcodes.  What the decoder reads or writes out of bounds ends it
(`StartBehind`, `OutOfBounds`, `DecodeBehindFile`) and is kept in `overrun`; a verifier
that itself leaves the file (`VerifyBehindFile`: the opcode is read without a look at the
limit) is not followed.  After a `DBG_SET_FILE`, whose operand the decoder does not read
(`fileSet`), nothing is promised of where it reads, and after an address that does not
fit 16 bits (`far`) nothing of the order of ranges.  Bytes have `Payload` and words `Word` as their size, so
that the theorems hold for 2^7 and 2^32 and the runs use 16 and 1024.  What a local is
called is not kept, only whether it has a name and a type, of which `DBG_RESTART_LOCAL`
asks; the signature of an extended local is read and checked, and forgotten, and so are
line numbers.

## The runs

| Run | Instance | Shows |
|---|---|---|
| `traversal` | all 2197 graphs of three instructions with at most two successors each, and two programs with a shared code item | stack discipline, nothing forgotten, refinement of `GraphDump`; without shared code the walk returns |
| `shared_code` | the shared code items | *violation*: the walk goes round for ever |
| `method_graph` | all verified codes of up to three instructions of eleven kinds; codes of four with branches and switches | the graph differs from the flow only as stated; construction returns |
| `switch_fallthrough` | codes of four | *violation*: a switch is linked to the wrong fallthrough |
| `bytecode_scan` | some 1200 assembled methods: one and more for each of the 256 opcodes with operands of zeros and of ones, payloads of every shape, pairs of branches over wide instructions | the loop over code units is `MethodGraph`'s; the tables of widths and formats agree; a call names the method it calls, or method 0 for one that the file has no name for |
| `program_graph` | three methods in five layouts over classes, with calls between any of them | the written graph is complete, sound and without duplicates |
| `dexdump` | two processes, one or two files each, the same temporary name or two | ownership of temporary files; what an exit status of zero means |
| `unfilled_map` | the same | *violation*: success is returned with nothing mapped |
| `swap_verify` | a file with two classes and a section of every type, a file of one string, and some 450 files that differ from the first in one place | what is accepted is sound; what a compiler writes is accepted; no byte is swapped twice; the data map is complete; what is read was verified, with two exceptions that the property names |
| `zip_archive` | some 60 archives as tools write them and some 900 that differ from one of four of them in one place, any system call failing | what is read lies in the map; everything taken is given back, with two exceptions that the property names; good archives are extracted; the steps are those of `DexDump` |
| `debug_info` | some 27000 pairs of a stream of up to four opcodes and a method of up to two registers and three argument words, with every kind of bad operand | up to a `DBG_SET_FILE` the decoder stays in step with the verifier; what it reads or writes out of bounds is `this` without a register, a register one too high, a type, or behind a `DBG_SET_FILE`; each local is reported once |
| `probe_table` | all inputs of up to four entries with three names, all hash functions into {0, 3, 7}, both clients | searches end, with the right answer; no table fills up |

**Why these bounds are enough.**  Every helper of the walk looks at the top of the
stack, its successors and two visited sets; three instructions give loops through the
entry (which exist under two pointers), self-loops, diamonds, double edges and cross
edges.  `TakeNextChildOfFront` and the other mutants are all caught within them; and
what the theorems cover needs no bound.  The passes of `MethodGraph` look at one
cluster and at one target at a time: an if, a jump or a switch, its target in the
middle of a cluster, and an instruction after it make four.  In `ProgramGraph` three
methods give a call to an earlier and to a later class, recursion and mutual recursion,
and one method that is not dumped; a fourth would repeat one of these.  In `DexDump`
two processes meet at a name, and two files per process carry state (`result`, the
temporary name) from one file to the next.  In `SwapVerify` one wrong field at a time is
enough for what a single check must catch, and each item type is there twice where
neighbours are compared; what two wrong fields hide from each other is not covered.  In
`ProbeTable` the hashes give homes in the first and the last slot of tables of 2, 4 and 8,
so that names collide and probing goes round; what the theorems cover needs no bound.

In `BytecodeScan` every opcode is there with the smallest and the largest operands, which
is where sign and width matter, and two branches or switches show that offsets stay
right behind wide instructions and payloads.  In `ZipArchive` the archives have up to
three entries and streams of up to three buffers; a change in one field of one header
reaches each check.  In `DebugInfo` four opcodes over two registers start, end and restart
a local and its neighbour in every order; methods with fewer registers than argument
words make `firstArg` wrap at 32, which stands for 2^16; numbers are of one, two and as many bytes as
there may be, in and just out of range; the theorems need no bound.

**Fairness.**  `Traversal`, `MethodGraph`, `ProgramGraph` and `ProbeTable` are one thread
that waits for nothing: `WF_vars(Next)` says that it goes on while it can.  `DexDump`
states no liveness, for any of its calls may block, and so has no fairness; nor do
`SwapVerify`, `ZipArchive`, `BytecodeScan` and `DebugInfo`, which promise nothing that must
happen.

**Deadlock** is not checked: each of these programs ends.

## What is proved

For every value of the constants that satisfies the assumptions named in the modules
(any graph, any number of nodes, processes, names):

* `TraversalProofs`: `TypeCorrect`; `StackDisciplineHolds` with the strengthening that
  in the descent `current` was not dumped; `StackIsPathHolds` with the strengthening
  that a `current` not on the stack is a successor of its top; `VisitedClosedHolds` and
  `WalkImplementsDump` from `Inv`: code at one address has successors at the same
  addresses (`SameCode`, from `ProgramsAssumption`), the entry is dumped or in hand,
  and so is every successor of a dumped node and the first successor of every node on
  the stack.  That last conjunct is why nodes with one successor may be popped without
  a look at it: the descent has taken it.  At the end nothing is in hand, so that the
  dumped addresses are closed under successors and hold all that is reachable; that
  they hold nothing else is a second invariant over the reachable set.
  `StepsRunOut` gives the variant of a walk: nodes not dumped, nodes never pushed, and
  where in its turn the walk is.  The one way to go round without dumping is to pop a node
  whose address was dumped before; without shared code only the copy of the entry is such
  a node, and `StackIsPath` and `StackDiscipline` leave it no place but the bottom of the
  stack, so that this pop is the last.
* `DexDumpProofs`: `TypeCorrect`, `MapsOwnExtractionHolds`, `NoTempLeftHolds` and
  `RemovesOwnFileOnlyHolds`, from the invariant `Ownership`: at which places of the
  program a process has a file of its own under its name, whether it is whole, and that
  at all others it has none.  `O_EXCL` is what keeps the processes apart: a step of one
  touches only a name that is free or its own.  `ZeroMeansWrittenHolds` from `EdgInv`: a
  process that nothing has happened to has appended as many parts as it has come to
  (`Due`), in their order.  What others append shifts its entries but keeps their number
  and order (`OthersAppend`); the part it appends itself is the next (`OwnAppend`).
* `ProbeTableProofs`: `TypeCorrect`, `ChainUnbrokenHolds`, `NeverFullHolds` and
  `TableImplementsLookup`, for any hash function and any input of up to 65535 entries.
  The invariant `IInv` measures slots by their distance from a name's home in the order
  of probing: no free slot is nearer to it than an entry of that name (`ChainUnbroken`),
  of two such entries the older is nearer (`NearestFirst`), each entry is in one slot
  (`Keeps`), and what a search has passed over is full and holds other names (`Passed`).
  So a search that meets a free slot has missed nothing, and one that meets its name has
  found the first.  That a slot stays free is a matter of counting: the table is an
  injection of its filled slots into fewer entries than it has slots.  `ProbesRunOut` adds
  that each probe brings a search nearer to every free slot: it never jumps over one.

* `ProgramGraphProofs`: `NodesAreUniqueHolds`, `GraphIsCompleteHolds` and
  `GraphIsSoundHolds`, for any file (`DexesAssumption`: code flows within its method, and
  nodes at one address are copies of one instruction).  `FileInv` says what the classes
  dumped so far have left, `WalkInv` that the walk at hand keeps the invariants of
  `TraversalProofs`, `GraphInv` that what is merged so far is closed: of every address in
  it all successors are in it and all edges.  The lemmas about a walk are those of
  `TraversalProofs`, taken from an instance.  There the graph is constant and code at one
  address is the same; here calls are linked only after all classes, and only those of
  methods that were dumped.  The bridge is `nextAll`, the graph with all calls linked: no
  walk leaves the nodes of dumped methods, and on these the two are one.  What
  `AddNodes` does, a fold over what a walk hands back, is taken apart node by node
  (`AddNodesFacts`).  `StepsRunOut` counts the classes, the methods not walked yet and what
  is left of the walk at hand, which is the variant of `TraversalProofs`.
* `MethodGraphProofs`: for code of any length (`CodesAssumption`), `ClustersPartitionHolds`,
  `TypeCorrect`, `SpuriousFlowHolds`, `MissingOnlyIntoClustersHolds`, `LinksOfCodeHolds`,
  `UndefinedHasACauseHolds`, `StepsRunOut` and `CopiesAgree`.
  The clusters are known from the turns of `get_node_clusters`: they start behind
  one another, cover what is taken, and each ends at the first instruction that ends one.
  For the links, `LinkInv` gives the successors of every node in every phase in closed form
  (`SuccOf`): within a cluster the next node, behind its end what the passes up to now have
  added.  With `DecodeInv`, that every node is its instruction, the difference to `Flow` can
  be read off.  `OrderInv` keeps the order of the successors as well.  So what the passes
  leave is a function of the code (`LinksOfCodeHolds`): no trace of the clusters is left,
  nor of which pass came first.  This is what puts `MethodGraph` and `ProgramGraph`
  together: two methods with one code_item are decoded apart and yet have the same flow
  at the same addresses, and none leaves its method (`CopiesAgree`).  It supposes that
  code_items do not overlap: so it is in a file that is as the format says, and no call of
  the tool checks it.  `UndefinedHasACauseHolds` names
  the code for which the construction reads the front of something empty.
* `DebugInfoProofs`: `InStepHolds` and `KnownOverrunsHolds`, for every stream, any number of
  registers and of argument words below 2^16 (`ItemsAssumption`; that there are enough of
  them is not assumed), and any size of bytes, words and tables.  `IInv` says that the places the verifier has been at are
  closed: each lies in the file (a number has at least one byte, `BytesNumber`), what is
  read there was looked at, and what follows it is another such place (`Followed`), or is
  at hand while the verifier is still at work.  The decoder starts at the first of them
  and goes from each to the one that follows, until it does not read the operand of a
  `DBG_SET_FILE`; from there on only `KnownOverruns` says what may happen.
  `LocalsAccountedHolds` from `LocalsInv`: no range and no life lies behind the address, so
  that what starts now is apart from all that has ended, and of the lives that began each
  was reported or is in a register.  Every opcode is one of two kinds of step: it rewrites
  one register (`Rewritten`), or it reports what is left at the end (`Completed`).
* `ZipArchiveProofs`: `ReleasedHolds` and `OpenedInMapHolds`, for any archive and any
  system call that fails, from two invariants.  `Held` says at each place of the program
  which descriptors are open, whether the file is mapped, whether the table exists and
  whether zlib's stream is held; and that a buffer is lost only to a refused call.
  `InMap` says that a walk that has not left the map stands behind a whole signature and
  in front of the end, and that each entry it has put into the table is one whose headers
  were checked.  `LengthsAssumption` and `ArchivesAssumption` name what is used of headers.
  `ImplementsUnzipHolds` is the refinement of `DexDump`: each step is one of its process's
  or changes nothing that `DexDump` knows of.  `OutputInv` is why: an output that is complete
  is whole (`Whole`), however it was inflated, and what a bail has for a result says whether
  there is an output.  `WellFormedExtractedHolds` follows an archive that was written as the
  format says (`WellFormedAssumption`) step by step (`OnItsWay`): the search finds its end
  record, the walk goes through its directory to the end, and no check turns it away.
* `SwapVerifyProofs`: `SwappedOnceHolds`, `DataMapCompleteHolds`, `ReadsVerifiedHolds`,
  `AcceptedIsSoundHolds` and `WellFormedAcceptedHolds`, for any file (`FilesAssumption`: fields are numbers, lists are
  lists, and no item is empty).  For the first, `IInv`
  follows the read position: what is swapped of the section at hand lies between its
  start and that position, each section swaps in front of the next one's offset, and both
  keep out of the header and the map list.  That the start of an item is a function of
  those before it (`Starts`) is proved by unfolding it item by item.
  For the second, `MapInv`: no entry lies behind the read position, so that an offset that
  `dexDataMapAdd` drops is that of the last entry, which then stands for it; the entries are
  in order (`InOrder`), each stands for an item, and each item of data that was passed has
  one.  The search is taken apart in the same way as `Starts`: there is one function from
  ranges to answers that goes by halves (`SearchExists`), and in a map in order a half is
  enough (`HalfEnough`).
  For the next two, `IntraInv` and `CrossInv` keep what each pass has asked of the items
  behind it.  `ReadsVerified` follows from the first.  For `AcceptedIsSound` the four parts
  are lemmas of their own: an offset that the data map knows by a type leads to an item of
  it (`OffsetLeads`, from `DataMapComplete`); tries that are each behind the one before
  are apart (`TriesApart`); data that names its class by its first member belongs to no
  other (`ClassesAreTheirOwn`); and a table whose neighbours were compared is sorted, first
  the strings by their text, then the types by their strings, then what is compared by both
  (`InOrderOfNames` from `Neighbours` and `RankRises`).
  `WellFormedAccepted` is the converse: a file that is as the format says (`AsTheFormatSays`:
  sections one behind the other, indices and offsets that lead to what they should, tables
  in order, tries apart, nothing said of a class twice) is turned away by no check.  Of
  the first pass it takes over what a visitor asks of its own item alone (`IntraVerify`, but
  for code, whose tries are said to be apart in any two); all that concerns several items or
  the layout of the file is said without the visitors.  `FormatInv` follows such a file
  through the sections: no read goes past the data, no padding is dirty, every offset asked
  for is in the data map (`DataMapComplete`), neighbours are in order because the table is,
  and the first member of class data, which alone is looked at, is of the class that all
  of them are of.
  `AcceptedIsSound` and `WellFormedAccepted` are proved for `~BigEndian`, as they are in the
  run: with the other byte order `swapClassDefItem` leaves the offset of the static values
  as it was, and another offset is verified.

Only model-checked, and why:

* liveness (`Terminates`, `Returns`, `GetsWritten`, `SearchesEnd`): `ENABLED` and fairness
  are out of the prover's reach.  What each rests on is proved, a number that every step
  leaves smaller (`StepsRunOut`, `ProbesRunOut`); that a step can be taken until the end is
  what TLC adds;
* `WidthsAgree`, `CallsNameTheirMethod` and `ImplementsDecoding` of `BytecodeScan`: they are
  about three tables of 256 opcodes and about bits of words, where a run over all opcodes
  says what a proof by 256 cases would.

## What is not modelled

* Class data (`DexClass.cpp`), catch handlers (`DexCatch.cpp`) and prototype strings
  (`DexProto.cpp`): readers that run straight through what `SwapVerify` has verified, or
  build a string for output; `ItemVisitors` takes class data and handlers as fields.
* What `dexFileParse` takes from a header (pointers, the auxiliary chunks of an optimized
  file), and the access functions of `DexFile.h`: by their results.
* Allocation: a `malloc` that fails is followed where the code handles it
  (`dexCreateClassLookup`, `parseZipArchive`, zlib), not where it does not look.
* The short read of `sysFakeMapFile`: the build does not define `HAVE_POSIX_FILEMAP`, so that
  a file is "mapped" by one `read`, and a read of less than all of it counts as success
  (`SysUtil.cpp:173`).  The models know a whole file in memory or a failure.
* How often an edge is written, and the layout of `graph.edg` (offsets, sizes, names).
* Unreadable bytecode: `MethodGraph` assumes what the Dalvik verifier checks of
  branches, and allows a nop nobody reaches in front of a payload (assemblers align them).
  A goto/32 and an instruction of width zero are in the model.
* A machine of the other byte order: `BigEndian` is FALSE in the run and in the theorems,
  and with it no property can tell whether a visitor swaps each field of its item.  The
  static values of a class are not swapped, so that with TRUE `WellFormedAccepted` does
  not hold.
* SHA-1, the opcode names, the DOT output and the register maps: no state, or no
  caller.

What the graph loses of the code is not a finding of its own but said exactly:
`SpuriousFlow` and `MissingOnlyIntoClusters` name every edge that `MethodGraph` adds or
lacks (a branch of an if into a cluster, half of the targets of a packed switch).

Two sentences of the documentation that no run can show: `README.md` says to run
`dexdump -D`, an option that `main` does not have (it prints the usage and exits with
2); and that the DOT output goes to standard output, which is commented out in
`processDexFile`.

## Plan

Done, in this order: `GraphDump` and `Traversal` (the heart of the tool), their proofs,
`MethodGraph`, `ProgramGraph` which composes the two, `DexDump` around them, its proofs,
`ItemVisitors` and `SwapVerify`, `Lookup` and `ProbeTable` with its proofs, `ZipArchive`
below `DexDump`, `Instructions` and `BytecodeScan` below `MethodGraph`, `DebugInfo` with
its proofs, the proofs about `ZipArchive`, `MethodGraph`, `SwapVerify` and `ProgramGraph`,
and with them every safety property of the runs but those of `BytecodeScan`; that
`MethodGraph` provides what `ProgramGraph` assumes of a method's own flow; and the variants
of the liveness properties.

Next:

1. Class data and handlers as readers of bounded streams, against what
   `intraVerifyClassDataItem` and `swapTriesAndCatches` let through.
2. `BytecodeScan` against all streams of code units, opcode by opcode, with a proof that
   does not go through the tables.
