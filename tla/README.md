# Verification of llmc

llmc model-checks LLVM programs. `ll2dmc` (library `libllmc`) translates an
LLVM module into another LLVM module that implements a *next-state function*
over a state vector; `llmc` compiles it to a shared object and lets the model
checker DMC (an external library) explore the state space. The interesting
program is therefore the *generated* one: what a state of a multi-threaded
program is, which steps it has, and what is atomic. That is what the core
modules specify, for any LLVM module, translated from the generator. Around it
stand the layout of the state vector and of memory, the built-in state-space
generators with their stores, and the driver.

## Inventory

| Part | Source | State | Operations | Modules |
|---|---|---|---|---|
| Transition groups | `LLDMCModelGenerator.h` 1650–1997 | program locations, list of groups | cut blocks into groups; front/back/run-time collapsability | `TransitionGroups` |
| Next-state function | `LLDMCModelGenerator.h` 668–1149 | `status`; `svout`; loop variables `pc`, `emitted` | `dmc_nextstates`, `model_step`, constructors and main start, status increment | `LLDMCModel` |
| Instructions | `LLDMCModelGenerator.h` 2249–3970 | registers, memory, pc of a process | one per LLVM instruction or modelled call | `LLDMCModel`, `StateVector` |
| Threads | `LLDMCModelGenerator.h` 3584–3770 | `processes[6]`, `threadsStarted`, `tres` | `pthread_create`, `pthread_join`, end of a start routine | `StateVector`, `LLDMCModel`, `PThreads` |
| Process stack | `ProcessStack.cpp` | interned frames `(pc, registers, result register, previous)` | `pushStackFrame`, `popStackFrame` | `StateVector` |
| Memory | `LLDMCModelGenerator.h` 2678–3080 | one chunk of memory and `msize` per process | allocate, load, store, pointer encoding | `StateVector`, `ByteMemory` |
| Atomics, intrinsics | `LLDMCModelGenerator.h` 2351–2540, 3370–3560 | memory, registers | atomicrmw, cmpxchg, `__atomic_*`, memcpy | `LLDMCModel`, `ByteMemory`, `AtomicRMW` |
| PHI nodes | `LLDMCModelGenerator.h` 3790–3898 | dependency map during generation | order and generate the stores of an edge | `PhiStores` |
| State vector layout | `LLDMCModelGenerator.h` 1220–1360, `generation/types/*.h` | tree of fields with offsets | size, offset, accessor | `SVLayout` (partly) |
| Verdict | `llmc/main.cpp` 205–238 | list of end states | count OK and failed end states | `LLDMCModel` (`reportedOK`), `SVLayout` |
| Chunk storage interface | `StateManager.cpp`, `ChunkMapper.cpp` | none (handles of DMC) | upload, download, delta, part | values only |
| State-space generators | `include/llmc/ssgen.h` | queues of states, counters | breadth-first search by one thread or by several | `SSGenST`, `SSGenMT`, both against `Exploration` |
| Interning stores | `include/llmc/treestore.h` | sets of values, tables of identifiers, slabs | insert, find, copy and modify, grow | `TreeStore` against `Interning`; `BucketSlab` |
| Driver | `llmc/main.cpp`, `ll2dmc.h` | files, list of errors | find tools, translate, compile, link, explore | `Driver` |
| Run-time libraries, IR helpers, pins declarations | `libllmcos/`, `llvmgen.h`, `LLVMLTS.cpp`, `pins.h.ll` | none that a property is about | printing, checks, IR builders | no |

How the parts interact: DMC calls `dmc_nextstates` with the identifier of a
state. It downloads the vector `src`, and according to `status` starts the
constructors, starts main, or calls `model_step` for each of the 6 slots. Each
call copies `src` to `svout`, runs transition groups on `svout` and uploads it.
Instructions of one process write the fields of other processes only in
`pthread_create` (a slot) and in stores through pointers (memory of another
process). The thread that joins reads `tres`, which a thread that ends writes.

The generators of `ssgen.h` play the part of DMC for models with the pins
interface: `go` pops a state, calls the model's `getNextAll`, and the model
calls back once per transition (`reportTransition`) and for every chunk it
stores, reads or modifies. States and chunks alike end up in a `TreeStore` (or
`TreeStore_2`), which the workers of `ssgen_mt` share. The driver hands files
from one tool to the next and trusts what it finds on disk.

What is hard here: which instructions may share an atomic step; a slot that is
recognised as free by its pc although nothing of it is cleared; the pc that is
stored before the group runs; a step that is dropped after it already changed
`svout`; state that is read from `src` in one place and from `svout` in
another; copies done one after the other that should be simultaneous
(arguments, PHI nodes); the decision that a path has ended because nobody
produced a successor; workers that append to a queue without its lock, and
others that pop meanwhile, or use a vector that another one resizes; entries of
a slab that overlap; and files that survive an invocation that failed.

Properties that make the parts correct:

* threads: identifiers unique among live threads, results visible only after
  the end and final, other threads' control state untouched, all of it a
  refinement of POSIX threads as `PThreads` states them;
* groups: a creator cannot be mistaken for a free slot, a path is not cut short
  while a thread can step, a call of `model_step` returns unless its process is
  in a loop that no other can influence; what shared memory can show is what
  sequential consistency allows;
* stack: parameters get the arguments, results and registers survive recursion;
* memory: an allocation is never handed out twice, an access changes its object
  only, atomic updates are not lost;
* PHI nodes: as if assigned at once;
* layout: no two fields share bytes;
* verdict: OK means that no assertion failed;
* generators: every reachable state is stored and expanded, none twice (for
  several workers: unless their appends to the queue overlap), and the search
  ends;
* stores: one value has one identifier for ever, an identifier is found again;
* driver: only the translation of the present input is linked and explored.

## Modules

The generated model:

* `TransitionGroups` – constant-level: the three collapsability predicates,
  `groupEnd` (one call of `createTransitionGroupsForInstruction`),
  `groupFronts` (the scan of the blocks), `isEmitter` and `locationAfter`.
  Locations are indices into the code, 0 is "none", as in `programLocations`.
* `StateVector` – the state vector as a record of functions on slots, and every
  operation of the generated code on it as an operator from vector to vector.
  `tres[t].status` holds the thread's own identifier as in the code, where 0
  means "no result". `asserted` is a history variable; nothing reads it but the
  property about the verdict.
* `LLDMCModel` – a behaviour is one path of the state space. `src` is the state
  DMC sees; `svout`, `stepping`, `ip`, `last`, `emitted` are the locals of the
  running `model_step` call, which executes one instruction per action.
  `refused` holds the slots whose call returned 0 for the current `src`; the
  loop over the slots is a choice of slot, since its iterations only share
  `src` and the number of successors. Returning 0 (`endNoReport`) drops `svout`.
* `PThreads` – abstract: identifiers in use, running threads, results.
  `LLDMCModel!ImplementsPThreads` maps the states DMC sees to it: nothing until
  main starts (constructors run in slot 0 under the tid main will have), then
  running are the tids of the slots with a pc, used are main's 0 and
  2..`threadsStarted`, results are the entries of `tres` with a status.
* `PhiStores` – the generator's loop that orders the stores of PHI nodes, with
  the order of the `unordered_map` left open. `StateVector!storePHIs` uses its
  result (one simultaneous assignment), under the condition that the moves can
  be ordered, which `wellFormed` demands because the generator asserts it.
* `ByteMemory` – the memory of one process byte by byte: objects, and the bytes
  that loads, stores, `atomicrmw`, `__atomic_*` and `memcpy` read and write, with
  the size of the type or its aligned size as in the code. What a kind of
  `atomicrmw` computes is the constant operator `NewVal`.
* `AtomicRMW` – the eleven kinds of `atomicrmw` on integers of any width, which
  the run `bytes` puts in for `NewVal`.
* `SVLayout` – an instruction at a time, `createRegisterMapping` fills the
  structs of registers; `generateTypes` builds the vector; `field`,
  `processField` and `vReg` are the addresses the generated code computes.

The built-in generators and stores:

* `Exploration` – abstract search of a graph: `found`, and `expansions`, which
  counts how often each state was expanded. A step expands a state that was
  found and has count 0, or finds a next state of an expanded one.
* `SSGenST` – `ssgen_st`: `pop`, `nextLevel` (the swap of the queues) and
  `reportTransition`, one action per callback; `expansions` is history.
  `ssgen_st_2` takes the same steps on another store. The store is a set here;
  that of `ssgen_st_2` is one only while no state gets a second identifier,
  which `find` does not ensure: it misses the first entry of a slab
  (`treestore.h:296`), and every slab in front of a new one, which becomes the
  whole list (`treestore.h:386`). What is said of `ssgen_st_2` holds under that
  condition.
* `SSGenMT` – `ssgen_mt`: every worker is a process. `emplace_back` runs without
  the lock that `getNextQueuedState` takes and is three steps (read the end,
  write the cell, move the end), so that the end can come to lie behind a cell
  nobody wrote (`Garbage`), or before the start. What a worker pops from such a
  cell is whatever its memory holds: a pointer to a state popped before, in a
  block the deque got back (`takeStale`, the state is expanded again), null
  (`takeNull`, the worker ends, line 422), or anything else (`takeWild`,
  following it is fatal). `raced` and `expansions` are history.
* `Interning` – abstract store: requests, and answers from a table per type.
* `TreeStore` – `TypeStore` insert and find are one step each, since they hold
  its mutex. The vector of stores has no lock: its size check, the allocation,
  each move of a store and the publication of the new array are steps. An
  array that was replaced keeps what the moves left in it.
* `BucketSlab` – one bucket of `TreeStore_2`, word by word: `slabFind` walks as
  the code does, `written` writes behind the place that was reserved.

The tool:

* `Driver` – invocations of `llmc` one after the other. A file is the version
  of the input it was made from and whether that translation was complete.

Instances and proofs:

* `MCLLDMC` – small LLVM modules, most of them cut down from
  `tests/correctness`. `MCSSGenMT`, `MCTreeStore`, `MCBucketSlab`, `MCDriver` –
  the graphs, workloads, instances and tool sets of the other runs.
* `LLDMCModel_proofs` (with the lemmas about `StateVector` and
  `TransitionGroups`), `SVLayout_proofs`, `Stores_proofs` (about `ByteMemory`
  and `PhiStores`, which it extends both), `SSGenST_proofs`, `SSGenMT_proofs`,
  `TreeStore_proofs`, `BucketSlab_proofs`, `Driver_proofs` – the theorems.

Definitions whose names end in `Mutated`, `Swapped`, `Forgetting`, `BySlot`,
`Uncounted`, `StaleTid`, `FreshMemory`, `NoHeader`, `AlwaysQueues`, `SameLevel`
or `Forever`, and `popNested`, are wrong variants of the definition that follows
them. Each property is violated when the named variant is put in, which shows
that the runs reach the case the property is about.

### Abstractions

* In `LLDMCModel` a register and a memory cell hold one value of any width;
  sizes are in cells, and an atomic instruction or a `memcpy` works on cells.
  Widths and alignment are the subject of `ByteMemory`, where Alignment = 2 and
  Radix = 2 stand for 4 and 256 of the code: what matters is that there are
  sizes below, at and above the alignment, and values with and without sign bit.
* A pointer is `(process + 1) * PtrBase + offset`; the code has 2^56 for
  `PtrBase`. A load or store through something that is not a pointer is not
  enabled: the generated code reads another chunk or aborts there.
* Constants and arithmetic stand for all instructions that map values to a
  register (`const`, `add`); switch, select and casts add nothing to control.
* State identifiers are the values they denote. `popStackFrame` takes the
  length of a register file from the identifier as bytes; DMC decides the unit
  and is outside the repository, so the model assumes that bytes are meant.
* `pthread_create` and `atomicrmw` leave their result registers alone, as the
  code does, and the modelled programs do not read them.
* In `SVLayout` a type is a size and an alignment, those of the data layout that
  the generated module is given (`LLDMCModelGenerator.h:323`): `i1`, `i8` and
  `i16` are aligned to 32 bits and take 4 bytes in a struct, larger integers
  their own size. Names are those of the generator.
* In `SSGenMT` the deque is an array with a start and an end; that a deque
  sometimes allocates another block in `emplace_back` is left out, so the races
  shown are a subset of those the code can have. `Capacity` is the end of its
  memory: a worker that pops behind it follows a wild pointer, and what is
  queued behind it is not kept.
* A `memcpy` collapses with its neighbours into one group, as in the code
  (`LLDMCModelGenerator.h:1733`). The programs checked are judged by the
  interleavings that remain; that removing the others loses no outcome is not
  checked.
* In `BucketSlab` the callers' threadID is 0, as in `ssgen_st_2`, and the hash
  that picks a bucket is left out: instances that are compared with each other
  are in one bucket.
* In `Driver` a tool may fail in any invocation, and leave or delete its output.

## Runs

The runs of `LLDMCModel` bound threads by `MaxTid = 5`, memory by 8 cells per
process and the register file by 6 cells, enough for the programs;
`PthreadCreate` and `AllocateMemory` carry these bounds in their guards. Two
runs disable the deadlock check: `slabs`, whose `MaxElements` ends a behaviour,
and `layout`, where generation is over after `generateTypes`. Elsewhere every
stop is an explicit stuttering step (`EndState`, `Stopped`), so a deadlock would
be a state without a defined continuation.

| Run | Checks | Shows |
|---|---|---|
| `threads` (`Threads.cfg`) | `TypeOK`, `LiveTidsUnique`, `ResultOnlyAfterEnd`, `PointersBelowMsize`, `ResultsCorrect`, `SequentiallyConsistent`, `UpdatesNotLost`, `ResultsFinal`, `OthersUntouched`, `ImplementsPThreads` | four slots, twenty programs: racing increments, a thread that creates a thread, a slot used again, a static constructor, sums and Fibonacci numbers by recursion in two threads, loops with PHI nodes, a checked assertion, Dekker's and the write-read-causality litmus tests, fetch-and-add, compare-and-exchange, a spin lock, publication through `memcpy` |
| `slots` (`Slots.cfg`) | `CreatorKeepsSlot`, `PCHasGroup`, `EndedMeansNoneCanStep`, `StepReturns` | two slots, so that the table fills up both at the start and in the middle of a group; a thread without a result; recursion, for the locations in frames; a loop that waits for a shared variable, and one that waits for nothing, so that its call never returns; a constructor |
| `phis` (`Phis.cfg`) | `AsIfAtOnce`, `AllStoredIfOrdered` | every combination of PHI nodes over four registers, every order |
| `bytes` (`Bytes.cfg`) | `ObjectsIntact`, `RMWAsCommented` | up to three objects of one to three bytes, two of them packed globals |
| `layout` (`Layout.cfg`) | `LeavesDisjoint`, `VerdictWordIsPC` | two functions with up to three registers of 1, 4 or 8 bytes each, as the data layout places them |
| `search_st` (`SearchST.cfg`) | `TypeOK`, `BreadthFirst`, `TransitionsCounted`, `ImplementsExploration`, `Complete` | every graph of three states with up to two ordered transitions per state |
| `search_mt` (`SearchMT.cfg`) | `TypeOK`, `NothingLostWithoutRace`, `TakenOnceWithoutRace`, `ImplementsSearch`, `Terminates` | three workers on a tree, a diamond with a cycle, a fan and a chain of five states; appends overlap each other and calls of `getNextQueuedState`, and cells nobody wrote are popped with each outcome |
| `intern` (`Intern.cfg`) | `FindSucceeds`, `ImplementsInterning` | two workers on one or two types, and one worker whose inserts make the vector grow twice |
| `slabs` (`Slabs.cfg`) | `HeadersIntact`, `EntriesInSlab`, `DataIntactUnlessShorter`, `FoundIsKnown` | five insertions of instances of one or two words into slabs of 22 words that hold 0 or 8 at first; an instance is mistaken for another only if a word reads as a length |
| `pipeline` (`Pipeline.cfg`) | `TypeOK`, `ExploredWasTranslated`, `LinksWhatItTranslated` | invocations with any tools, up to two edits of the input, any tool failing, kills anywhere |
| `verdict` (`Verdict.cfg`) | `OKMeansNoAssertionFailed` | violated, see below |
| `arguments` (`Arguments.cfg`) | `ArgumentsPassed` | violated, see below |

Why the bounds are enough:

* `threads`: the code has 6 slots. Three threads besides main are the smallest
  number with which a slot is reused while two other threads live, and the
  litmus tests need no more. `slots`: two slots are the smallest table that is
  full with a live creator. The exploration is not reduced by symmetry: slots
  are searched in order, so they are not interchangeable.
* `search_st` takes all graphs, so every order of levels, back edges, self
  loops and repeated transitions occurs. `search_mt`: three workers let two
  race while a third ends or pops; the code starts four. `Capacity` is the
  number of states, which the queue reaches only after a race. A deque whose
  end was moved back behind its start never looks empty; `Terminates` then says
  that its workers end or crash at the end of its memory at the latest.
* `intern`: two types and three identifiers let two inserts of one value, of
  two values and of two types race; the growth is by one element at a time and
  past several.
* `slabs`: a slab takes four entries of two words or more of one word, so that
  longer, equal and shorter entries follow each other and the fifth insertion
  may have to link another slab. Data words include one that looks like a
  length.
* `bytes`: objects below, at and above the alignment in packed and in aligned
  places; every bit pattern is stored.
* `pipeline`: a third version is there to tell "of the previous invocation" from
  "of an earlier one".

Fairness. `LLDMCModel` assumes `WF_vars(StepBody)` and nothing else: `StepBody`
is the body of one call of `model_step`, sequential code that runs to its return
once it was called. Which slot is stepped next is a choice of the path, and no
fairness is assumed of it: a path may let main spin for ever. `StepReturns` says
that each *call* returns even so, since a group ends before an access to shared
memory – unless the process stays for ever in a loop of `silentOps`, such as
`for(;;);`, which no other can influence or observe: on that one the loop of
`model_step` (`LLDMCModelGenerator.h:735`) does not end either. `SSGenST` is one sequential thread and assumes
`WF_vars(Next)`. `SSGenMT` assumes weak fairness of every worker's next step,
since the operating system runs every thread now and then; the mutexes are held
for one step of the model, so nothing stronger is needed. The other modules
have no liveness property and assume none.

### Disagreements found

Two runs expect a violation:

* `verdict`: `__assert_fail` has no effect (`LLDMCModelGenerator.h:3583`), the
  `unreachable` behind it leaves the pc at 0, and the driver counts the end
  state among those "OK (first process/thread terminated correctly)"
  (`main.cpp:230`).
* `arguments`: arguments are copied into the register file they are read from,
  one after the other (`ProcessStack.cpp:206`): `f(b, a)` passes `b` twice.

Others stand as the condition in a property that holds; without the condition
TLC finds the case:

* Main is set up in slot 0 whoever is there
  (`LLDMCModelGenerator.h:973`). `ResultsAreFinal` and the theorems next to it
  assume that constructors start no thread.
* PHI nodes that exchange values, or one that keeps its value on an edge, are
  never stored, against the assertion at `LLDMCModelGenerator.h:3897`:
  `AllStoredIfOrdered`.
* A store writes the aligned size of its type (`LLDMCModelGenerator.h:2927`,
  and the atomics at 3453), so an object that begins in the last alignment unit
  of another is overwritten: the second disjunct of `ObjectsIntact`.
* `atomicrmw nand` stores the complement of the sum
  (`LLDMCModelGenerator.h:2384`): excepted in `RMWAsCommented`.
* `model_step` does not return for a program that enters a loop without a
  visible instruction (`LLDMCModelGenerator.h:735`): the second disjunct of
  `StepReturns`.
* `ssgen_mt` appends to its queue without the lock (`ssgen.h:450`). When two
  appends overlap, states are lost, a state is expanded again, a worker ends
  early, or a wild pointer is followed: the condition of
  `NothingLostWithoutRace` and `TakenOnceWithoutRace`, the exception in
  `ImplementsSearch`, and the state "crashed" in `Terminates`.
* The vector of stores is resized while others may use it
  (`treestore.h:488`): only the workload with one worker lets it grow.
* Entries of a slab are written one entry behind the place that is reserved
  for them (`treestore.h:296`): `DataIntactUnlessShorter`. `find` therefore
  misses the first entry of a slab and walks over words nobody wrote. It takes
  whatever word it is at for an entry when the next one reads as the length it
  looks for; `FoundIsKnown` therefore speaks of instances that are `unambiguous`:
  what the slabs were filled with, the data of what was inserted and the
  instance's own words cannot be taken for lengths or identifiers. It says
  nothing of a known instance that is taken for a new one.
* The shared object is not removed before linking (`main.cpp:511`, `main.cpp:142`):
  `ExploredWasTranslated` speaks of complete translations, not of the present
  input; what is linked is of the present input (`LinksWhatItTranslated`).

## Proofs

Checked by TLAPS for all values of the constants, from the assumptions named in
the modules: `ConstantsAssumption` (there is a slot, a register, a memory cell,
and pointers of different processes differ from each other and from thread
identifiers, which have 32 bits where pointers start at 2^56), `ModulesAssumption` (LLVM's rules:
blocks end in terminators, jumps lead to the start of blocks, operands are
registers), `ConstAssumption`, `SSGenSTAssumption`, `SSGenMTAssumption` (there
is a worker), `TreeStoreAssumption`, `BucketSlabAssumption` (an instance fits
twice into an empty slab), `DriverAssumption`,
`SVLayoutAssumption` (there is a function). A condition that a theorem needs
beyond these, because the code breaks the property without it, stands in the
theorem.

The generated model, for any number of slots and any LLVM modules:

* `TypeCorrect` (`Spec => []TypeOK`). `TypeOK` is not inductive: executing an
  instruction needs it to be one of the module. `TypeInv` adds `GroupInCode`
  (`ip` and `last` lie in the code), which `EnterGroup` establishes because a
  group ends inside its code – theorem `GroupEnd`, from the fact that the code
  ends in a terminator. `GroupEnd` also says that a group ends at a call that
  starts a function or a thread. The operations on the state vector have one
  typing lemma each at the start of `LLDMCModel_proofs`.
* `LiveTidsAreUnique` (`Spec => []LiveTidsUnique`). Slots are not cleared when
  a thread ends, so the invariant `TidsInv` speaks of all slots: no tid is
  ahead of `threadsStarted`, two slots share a tid only if it is 0, and no live
  slot but that of main has tid 0 – for `src` and for `svout`. `OwnPCOnly`
  states what every instruction except `pthread_create` leaves alone.
* `CreatorsKeepTheirSlots` (`Spec => []CreatorKeepsSlot`). The pc of a process
  is stored before its group runs, so the argument is about groups: `StepInv`
  says that the stored pc of the running process is the location behind the end
  of its group or 0, and with `GroupEnd` a `pthread_create` is the end of its
  group and no terminator, so that the location behind it is not 0.
* `ProcessesResumeAtGroups` (`Spec => []PCHasGroup`). `GroupsFollow`, by
  induction over the scan that cuts a block: behind a group starts another or
  the block ends, and every block starts with a group. `PlacesInv` says that
  every pc and every location in a frame starts a group or is 0 – save that of a
  `pthread_create` which put its own location back; the part about `emitted`
  (the first group of a call of `model_step` that can create a thread runs
  before any was created) shows that the table was full in `src` as well.
* `ResultsComeAfterTheEnd` and `ResultsAreFinal`
  (`Spec /\ []MainComesFirst => []ResultOnlyAfterEnd`, `=> ResultsFinal`).
  `MainComesFirst` says that no thread was started before main, the condition
  without which the code at line 973 breaks both. The invariant `ResultsInv`:
  a tid that has a result is one of 2..`threadsStarted` and not that of a live
  slot, in `src` and in `svout`, and a running call has kept every result of `src`.
* `OthersAreUntouched` (`Spec /\ []ConstructorsEnd => OthersUntouched`).
  `ConstructorsEnd` says that slot 0 is free when main is put into it, the same
  line.
  `OthersInv`: while a call runs, `svout` differs from `src` in the control
  fields of the running slot and of slots that were free in `src` only.
* `PThreadsImplemented` (`HasMain`: every module has a main; then
  `Spec /\ []MainComesFirst => ImplementsPThreads`). A visible step is a whole
  call of `model_step`, of many instructions; `RefInv` relates `svout` to `src`
  while it runs: at most one slot was filled, with the next tid, in the group
  that makes the call visible, and no result but the process's own was added.
  The steps of constructors stutter, and when main starts no other slot is
  occupied, since an occupied slot has a tid that was handed out.
* `NoConstructorsSuffice` proves both conditions, `MainComesFirst` and
  `ConstructorsEnd`, for modules without constructors.
* `MemoryHandedOutOnce` (`Spec /\ []NoPointersMade => []PointersBelowMsize`).
  A pointer travels through registers, memory, saved frames and the results of
  threads, so `BoundsInv` speaks of all of them, in `src` and in `svout`: each
  value is no pointer or one below the msize of its process. Every operation on
  the state vector moves values or, `allocate`, raises an msize first. What the
  code does not promise is in `NoPointersMade`: a constant, a sum or an
  `atomicrmw` does not yield a pointer behind the msize (a program may compute
  one), and an allocation is not empty (`malloc(0)` returns the address of the
  next object).
* `StoredStays` (`Spec => []ObjectsIntact` of `ByteMemory`), for any size of
  memory, alignment, sizes of types and values of a byte. Invariant `MemoryInv`:
  objects lie one behind the other below msize, each with the room of its aligned
  size, and what was stored is there. Every operation is a write that sets the
  bytes of one object and reaches no further than its aligned size
  (`StoreWrites`, `CopyWrites`); an object in front of that one ends before it,
  and one behind is reached only when it is overlapped (`WriteKeepsInv`). All
  that is assumed of `NewVal` is that it yields as many bytes as it is given.
* `StoresAsIfAtOnce` and `OrderedStoresFinish` (`PhiSpec => []AsIfAtOnce`,
  `PhiSpec => []AllStoredIfOrdered` of `PhiStores`). Invariant: a register has its
  new value exactly when its PHI node is stored, and no pending PHI node reads a
  register that was overwritten. When the loop stops with stores left over, each
  of them is put off by another; the first of them in an order that exists is
  put off by none, so nothing is left.
* `FieldsDoNotOverlap` and `DriverReadsThePC` (`Spec => []LeavesDisjoint`,
  `Spec => []VerdictWordIsPC` of `SVLayout`), for any functions, registers and
  number of slots. `FieldsInOrder`: an element of a struct starts where those
  before it end, or behind, by induction over the recursion that defines the
  offsets. `LayoutInv`: from the moment the array of registers exists it has the
  size of the largest struct (`RegisterStructs`, `MaxInSet`), which is why a
  cast of it to any function's struct stays inside. The array is one of ints,
  and their number is a division (line 1284) that leaves no rest: under the data
  layout the size of a struct is a multiple of 4 (`StructIsType`).
  `SlotsInOrder` separates the slots. In front of the pc only the alignment of a process depends on the
  registers, and the offset of "processes" is a multiple of each alignment.

The built-in generators and stores, for any number of workers and any state
space, types and values:

* `FrontierTypeCorrect`, `SearchExplores` and `SearchIsExhaustive` of `SSGenST`
  (`Spec => []TypeOK`, `Spec => Abstract!SafeSpec`, and
  `Spec => [](stopped => Abstract!Searched)`): `SearchInv` says where a stored
  state can be – in one place of one queue, or expanded – that what was
  reported are the next states of those expanded, and that what has left the
  queues was popped once (`PoppedOnce`).
* `SearchGoesByDistance` (`Spec => []BreadthFirst`) and `PrintedCountIsExact`
  (`Spec => []TransitionsCounted`). `LevelInv` relates the two queues to the
  distance `within` defines by recursion; that the recursion has the closed form
  "ends of paths of that length" is a lemma, since an induction principle cannot
  be cited (below). `CountInv`: the counter is the number of transitions of
  expanded states and of the part already reported of the current one.
* `SearchIsImplemented` (`Spec => ImplementsSearch` of `SSGenMT`), overlapping
  appends included: only reachable states are stored, and a state is expanded a
  second time only by a worker that pops a cell nobody wrote. The invariant
  `SearchInv`: a state that a worker holds is stored, not expanded, and in no
  cell of the deque that is still to be popped (`HeldOnce`); a state is in one
  cell at most, and not expanded while its cell is ahead of the start
  (`QueuedOnce`); and what a worker still reports are next states of an expanded
  state (`ReportsNext`). So a race may damage the end of the deque, but a cell
  that was written yields a state that nobody expanded. `SearchTypeCorrect`
  proves `TypeOK`.
* `StatesAreTakenOnce` and `SearchIsComplete` (`Spec => []TakenOnceWithoutRace`,
  `Spec => []NothingLostWithoutRace`): a pop may come at any point of an append,
  and a worker ends as soon as it sees an empty queue, while others are still
  expanding. `CompleteInv` says that, as long as no two appends overlapped, the
  cells between the start and the end were all written, the only append under
  way works at the end, and every stored state that is not expanded is in the
  deque or in the hands of a worker that has not ended. So no worker pops
  garbage, every expansion is the first one, and the last worker leaves no
  state behind.
* `IdentifiersAreFound` and `StoresIntern` (`GrowsAlone`; then
  `Spec => []FindSucceeds`, `Spec => ImplementsInterning` of `TreeStore`).
  `GrowsAlone` says that a vector that has to grow has one worker; `MCTreeStore`
  assumes it of its workloads, and without it both fail. `TreeInv` says where
  the stores are: nobody resizes and every store is whole in the array the vector
  uses and empty in those before (`Settled`), or the only worker is moving
  them and each is whole in one of two arrays (`Moving`, `Alone`). So a type has
  one table wherever one looks (`OneHome`, `ContentsAre`), a resize does not
  change it, and an insert appends to it. In a table every value has one place,
  which makes the identifier the code chooses that of `Interning`.
* `HeadersStayIntact`, `EntriesStayInSlab`, `OnlyShorterOverwrites` and
  `FoundWasKnown` of `BucketSlab` (`HeadersIntact`, `EntriesInSlab`,
  `DataIntactUnlessShorter`, `FoundIsKnown`). `SlabInv` fixes where each entry
  lies relative to the one before it in its slab: behind its header, so that
  only its data can be lost; and which words of a slab were written by whom,
  from which it follows that a length that `slabFind` compares is that of an
  entry.

The driver, for any edits and tools:

* `OnlyTranslatedIsExplored` and `LinkedIsTranslated` (`Spec =>
  []ExploredWasTranslated`, `Spec => []LinksWhatItTranslated`), and
  `PipelineTypeCorrect`. `PipelineInv` says what the files are worth at each
  stage; between invocations only the shared object is, which is why an
  incomplete module that stays on disk does no harm.

Induction over data: the library's induction theorems cannot be used with the
installed provers. Where a recursive function had to be reasoned about
(`SSGenST!within`, `BucketSlab!slabFind`, `groupFronts`), the proof gives a
closed form or argues about a least counterexample.

Only model-checked, and why:

* `ResultsCorrect`, `SequentiallyConsistent`, `UpdatesNotLost` say what the
  particular programs of `MCLLDMC` compute.
* `EndedMeansNoneCanStep`: `waits` looks at the group at the pc of `src` with
  the registers of `src`. That is exact for the programs of `slots`; a module
  whose process first runs an invisible group, and blocks in the next, would
  need the registers computed on the way.
* `RMWAsCommented`: `AtomicRMW` takes its operations on bits from a module the
  provers cannot use.
* `StepReturns`, `Complete`, `Terminates` and the fairness of
  `ImplementsExploration` are liveness under fairness, whose condition is about
  `ENABLED`: out of the prover's reach.

## Not modelled

* The chunk store DMC and the model checker itself are outside the repository;
  uploads and downloads are the values they denote. `ChunkMapper` serves
  another generator and is not used by this one.
* Indirect calls, switch, select, getelementptr, insertvalue and the string
  functions the generator knows: they map values to registers or memory and add
  nothing to the control that the properties are about.
* The general tree `SVTree` with access by name: `SVLayout` has the tree the
  generator builds with it.
* `ssgen_mt::pins_chunk_put` (`ssgen.h:473`) returns through a pointer that was
  never set: its first call has no defined outcome, so there is no behaviour to
  model. The callbacks in `TreeStore` are those of `ssgen_st`.
* `TreeStore_2`'s choice of a bucket by hash, and the concurrent use of a
  bucket: its callers pass one thread identifier and run in one thread.
* `libllmcos` and `libllmcvm` print and check; calls of `__LLMCOS_*` in a
  program change nothing of the state. `llvmgen.h`, `GenerationContext.h` and
  `LLVMLTS.cpp` build IR; what they build is modelled where it is used.
* The declarations of the pins interface, and the stand-alone programs that
  measure hash maps and slabs.
* `ll2dmc/main.cpp` runs the `translate` step of `Driver` alone.

## Plan

Done: the generated model with atomics and intrinsics, byte-addressed memory,
layout, PHI nodes, the generators and their stores, the driver; thirty-three
theorems, which cover every safety property of `SVLayout`, `PhiStores`,
`ByteMemory`, `SSGenST`, `SSGenMT`, `TreeStore`, `BucketSlab` and `Driver`.

Left, in order:

1. Collapsing is sound: the same programs with every instruction a group of its
   own reach the same results; when `AssumeNonAtomicCollapsable` is, and when it
   is not, observable.
2. The result registers of `pthread_create` and `atomicrmw`, which keep what
   they held before; indirect calls.
3. `SVTree` by name.
