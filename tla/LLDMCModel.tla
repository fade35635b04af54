----------------------------- MODULE LLDMCModel -----------------------------
(***************************************************************************)
(* The next-state function that libllmc generates for an LLVM module       *)
(* (LLDMCModelGenerator.h), as the model checker DMC explores it.          *)
(*                                                                         *)
(* A behaviour is one path of the state space.  dmc_nextstates looks at    *)
(* the status of the state src; while constructors or main run it calls    *)
(* model_step for every process slot.  A call copies src to svout, runs    *)
(* transition groups of that process on svout, and either uploads svout as *)
(* a successor of src (Upload) or returns 0 and drops it (the process is   *)
(* blocked).  When every slot returned 0, the only successor of src is src *)
(* with the next status.                                                   *)
(*                                                                         *)
(* Each instruction is a step of its own here, on the private svout; only  *)
(* src is a state that DMC sees.  The loop over the slots becomes a choice *)
(* of slot: the path continues in the successor of one of them, and        *)
(* "refused" collects the slots that have returned 0 for the current src.  *)
(***************************************************************************)
EXTENDS StateVector, TransitionGroups

CONSTANT Modules   (* the LLVM modules to explore: records of               *)
                   (*   code    : sequence of instructions                  *)
                   (*   main    : location of main, 0 if absent             *)
                   (*   ctor    : location of _GLOBAL__sub_I_test.cpp, or 0 *)
                   (*   globals : cells of the global variables             *)
                   (*   phis    : moves of the PHI nodes, by branch and     *)
                   (*             target                                    *)

Instruction == [op : Ops, d : Operand, a : Operand, b : Int, fn : Nat]
Phi         == [from : Nat, to : Nat, d : Reg, a : Operand]
Module      == [code : Seq(Instruction), main : Nat, ctor : Nat, globals : Nat,
                phis : SUBSET Phi]

phisOn(mod, from, to) == {e \in mod.phis : e.from = from /\ e.to = to}

(* What LLVM guarantees: every block ends in a terminator, functions and   *)
(* branches lead to the first instruction of a block.  And what            *)
(* generateStoresForPHINodes asserts: the moves of an edge can be ordered. *)
blockStarts(c) == {1} \cup {l \in 2..Len(c) : c[l-1].op \in Terminators}

wellFormed(mod) ==
  /\ mod.code # <<>>
  /\ mod.code[Len(mod.code)].op \in Terminators
  /\ {mod.main, mod.ctor} \subseteq blockStarts(mod.code) \cup {0}
  /\ \A l \in DOMAIN mod.code :
       LET i == mod.code[l]
       IN  /\ i.op \in {"add", "store", "call", "create", "join", "memcpy", "atomicrmw", "cmpxchg",
                       "atomic_load", "atomic_store", "atomic_compare_exchange"} => i.b \in Operand
           /\ i.op \in {"cmpxchg", "atomic_compare_exchange"} => i.fn \in Reg
           /\ i.op = "cmpxchg" => i.d \in Reg /\ i.d + 1 \in Reg
           /\ i.op = "extractvalue" => i.a \in Reg /\ i.a + i.b \in Reg
           /\ i.op \in {"alloca", "malloc"} => i.b \in Nat
           /\ i.op \in {"call", "create", "br"} => i.fn \in blockStarts(mod.code)
           /\ i.op = "br" => i.b \in blockStarts(mod.code)
  /\ \A e \in mod.phis : \A S \in SUBSET phisOn(mod, e.from, e.to) :
       S # {} => \E first \in S : \A other \in S : other.a # first.d

ASSUME ModulesAssumption ==
  /\ Modules \subseteq Module
  /\ \A mod \in Modules : wellFormed(mod)

VARIABLES
  module,    \* the module, fixed along a behaviour
  fronts,    \* the program counters at which it has a transition group
  src,       \* the state vector DMC has given to dmc_nextstates
  svout,     \* the state vector under construction
  stepping,  \* the slot whose model_step call is running, or NoSlot
  ip,        \* next instruction of the current group
  last,      \* last instruction of the current group
  emitted,   \* a group visible to other processes has been run by this call
  refused    \* slots whose model_step call returned 0 for src

vars == <<module, fronts, src, svout, stepping, ip, last, emitted, refused>>

NoSlot == -1

self == stepping
pc   == svout.pc[self]
code == module.code
I    == code[ip]

TypeOK ==
  /\ module \in Modules
  /\ fronts \subseteq DOMAIN code
  /\ src \in StateVectorType
  /\ svout \in StateVectorType
  /\ stepping \in Slot \cup {NoSlot}
  /\ ip \in Nat /\ last \in Nat
  /\ emitted \in BOOLEAN
  /\ refused \subseteq Slot

Init ==
  /\ module \in Modules
  /\ fronts = groupFronts(module.code)
  /\ src = initialState(module.globals)
  /\ svout = src
  /\ stepping = NoSlot
  /\ ip = 1 /\ last = 0
  /\ emitted = FALSE
  /\ refused = {}

-----------------------------------------------------------------------------
(* dmc_nextstates *)

(* Mutated form: who was blocked in src is not tried again. *)
transitionMutated(s) ==
  /\ src' = s
  /\ svout' = s
  /\ refused' = refused
  /\ stepping' = NoSlot
  /\ ip' = 1 /\ last' = 0
  /\ emitted' = FALSE
  /\ UNCHANGED <<module, fronts>>

(* The successor s of src becomes the state the path continues in. *)
transition(s) ==
  /\ src' = s
  /\ svout' = s
  /\ refused' = {}
  /\ stepping' = NoSlot
  /\ ip' = 1 /\ last' = 0
  /\ emitted' = FALSE
  /\ UNCHANGED <<module, fronts>>

(* model_step returns 0: svout is dropped. *)
endNoReport ==
  /\ refused' = refused \cup {self}
  /\ svout' = src
  /\ stepping' = NoSlot
  /\ ip' = 1 /\ last' = 0
  /\ emitted' = FALSE
  /\ UNCHANGED <<module, fronts, src>>

ConstructorStart ==
  /\ stepping = NoSlot
  /\ src.status = START
  /\ LET started == IF module.ctor = 0 THEN src ELSE startFunction(src, 0, module.ctor)
     IN  transition([started EXCEPT !.status = RUNNING_CONSTRUCTORS])

MainStart ==
  /\ stepping = NoSlot
  /\ src.status = STARTING_MAIN
  /\ LET started == IF module.main = 0 THEN src ELSE startFunction(src, 0, module.main)
     IN  transition([started EXCEPT !.status = RUNNING_MAIN])

running == src.status \in {RUNNING_CONSTRUCTORS, RUNNING_MAIN}

(* No slot produced a successor: the status is incremented. *)
IncrementStatus ==
  /\ stepping = NoSlot
  /\ running
  /\ \A q \in Slot : src.pc[q] = 0 \/ q \in refused
  /\ transition([src EXCEPT !.status = @ + 1])

(* A state of any other status has no successor. *)
EndState ==
  /\ stepping = NoSlot
  /\ src.status = ENDED
  /\ UNCHANGED vars

-----------------------------------------------------------------------------
(* model_step: the loop over transition groups *)

BeginStep(q) ==
  /\ stepping = NoSlot
  /\ running
  /\ q \notin refused
  /\ src.pc[q] # 0
  /\ stepping' = q
  /\ svout' = src
  /\ UNCHANGED <<module, fronts, src, ip, last, emitted, refused>>

betweenGroups == stepping # NoSlot /\ ip > last

isFront(l) == l \in fronts

(* The pc is stored before the instructions of the group run. *)
EnterGroup ==
  /\ betweenGroups
  /\ isFront(pc)
  /\ ~(emitted /\ isEmitter(code, pc))
  /\ svout' = setPC(svout, self, locationAfter(code, pc))
  /\ ip' = pc
  /\ last' = groupEnd(code, pc)
  /\ emitted' = (emitted \/ isEmitter(code, pc))
  /\ UNCHANGED <<module, fronts, src, stepping, refused>>

(* while_end: the process has ended, or the next group is a second emitter. *)
Upload ==
  /\ betweenGroups
  /\ \/ pc = 0
     \/ isFront(pc) /\ emitted /\ isEmitter(code, pc)
  /\ transition(svout)

(* "No such program counter" *)
NoSuchPC ==
  /\ betweenGroups
  /\ pc # 0 /\ ~isFront(pc)
  /\ endNoReport

-----------------------------------------------------------------------------
(* generateNextStateForInstruction *)

executing(op) == stepping # NoSlot /\ ip <= last /\ I.op = op

resultsIn(s) ==
  /\ svout' = s
  /\ ip' = ip + 1
  /\ UNCHANGED <<module, fronts, src, stepping, last, emitted, refused>>

value(k) == operand(svout, self, k)

(* An instruction that only maps values to a register. *)
ValueMapped ==
  \/ executing("const") /\ resultsIn(setReg(svout, self, I.d, I.b))
  \/ executing("add") /\ resultsIn(setReg(svout, self, I.d, value(I.a) + value(I.b)))

(* alloca and malloc; the bound is that of the modelled memory. *)
AllocateMemory ==
  /\ executing("alloca") \/ executing("malloc")
  /\ svout.msize[self] + I.b <= MemWords
  /\ resultsIn(setReg(allocate(svout, self, I.b), self, I.d, makePointer(self, svout.msize[self])))

Load ==
  /\ executing("load")
  /\ isPointer(value(I.a))
  /\ resultsIn(setReg(svout, self, I.d, loadFrom(svout, value(I.a))))

(* Mutated form: a store goes to the memory of the storing process. *)
StoreMutated ==
  /\ executing("store")
  /\ isPointer(value(I.a))
  /\ resultsIn(storeTo(svout, makePointer(self, offsetOf(value(I.a))), value(I.b)))

Store ==
  /\ executing("store")
  /\ isPointer(value(I.a))
  /\ resultsIn(storeTo(svout, value(I.a), value(I.b)))

(* *ptr = *from, by one call of generateStore. *)
copyCell(ptr, from) ==
  /\ isPointer(ptr) /\ isPointer(from)
  /\ resultsIn(storeTo(svout, ptr, loadFrom(svout, from)))

AtomicLoad  == executing("atomic_load")  /\ copyCell(value(I.b), value(I.a))
AtomicStore == executing("atomic_store") /\ copyCell(value(I.a), value(I.b))
Memcpy      == executing("memcpy")       /\ copyCell(value(I.a), value(I.b))

(* The new value of the cell, by the kind of atomicrmw: exchange, add, sub. *)
newVal(kind, old, v) ==
  IF kind = 1 THEN old + v ELSE IF kind = 2 THEN old - v ELSE v

(* The old value is returned to the caller, who drops it: no register is    *)
(* assigned.                                                               *)
AtomicRMW ==
  /\ executing("atomicrmw")
  /\ isPointer(value(I.a))
  /\ resultsIn(storeTo(svout, value(I.a),
                       newVal(I.fn, loadFrom(svout, value(I.a)), value(I.b))))

(* Mutated form: a failed comparison is reported as a success. *)
CmpXchgMutated ==
  /\ executing("cmpxchg")
  /\ isPointer(value(I.a))
  /\ LET ptr == value(I.a)
         old == loadFrom(svout, ptr)
         s   == IF old = value(I.b) THEN storeTo(svout, ptr, value(I.fn)) ELSE svout
     IN  resultsIn(setReg(setReg(s, self, I.d, old), self, I.d + 1, 1))

(* The result is a struct in two registers: the old value and the success. *)
CmpXchg ==
  /\ executing("cmpxchg")
  /\ isPointer(value(I.a))
  /\ LET ptr == value(I.a)
         old == loadFrom(svout, ptr)
     IN  \/ /\ old = value(I.b)
            /\ resultsIn(setReg(setReg(storeTo(svout, ptr, value(I.fn)), self, I.d, old),
                                self, I.d + 1, 1))
         \/ /\ old # value(I.b)
            /\ resultsIn(setReg(setReg(svout, self, I.d, old), self, I.d + 1, 0))

ExtractValue ==
  /\ executing("extractvalue")
  /\ resultsIn(setReg(svout, self, I.d, value(I.a + I.b)))

(* __atomic_compare_exchange(ptr, expected, desired): all three are pointers. *)
AtomicCompareExchange ==
  /\ executing("atomic_compare_exchange")
  /\ LET ptr == value(I.a)  expected == value(I.b)  desired == value(I.fn)
     IN  /\ isPointer(ptr) /\ isPointer(expected) /\ isPointer(desired)
         /\ \/ /\ loadFrom(svout, ptr) = loadFrom(svout, expected)
               /\ resultsIn(setReg(storeTo(svout, ptr, loadFrom(svout, desired)), self, I.d, 1))
            \/ /\ loadFrom(svout, ptr) # loadFrom(svout, expected)
               /\ resultsIn(setReg(storeTo(svout, expected, loadFrom(svout, ptr)), self, I.d, 0))

Atomic ==
  \/ AtomicLoad \/ AtomicStore \/ Memcpy \/ AtomicRMW \/ CmpXchg \/ AtomicCompareExchange

(* br: to fn when the condition register is not 0, else to b. *)
Branch ==
  /\ executing("br")
  /\ LET target == IF I.a = NoReg \/ value(I.a) # 0 THEN I.fn ELSE I.b
     IN  resultsIn(storePHIs(setPC(svout, self, target), self, phisOn(module, ip, target)))

Unreachable ==
  /\ executing("unreachable")
  /\ resultsIn(svout)

Call ==
  /\ executing("call")
  /\ resultsIn(pushStackFrame(svout, self, I.fn, I.a, I.b, I.d))

Return ==
  /\ executing("ret")
  /\ resultsIn(IF svout.stk[self] # <<>>
               THEN popStackFrame(svout, self, I.a)
               ELSE endThread(svout, self, src.tid[self], I.a))

(* A declared function that the generated code does not execute. *)
External ==
  /\ executing("external")
  /\ resultsIn(svout)

AssertFail ==
  /\ executing("assert_fail")
  /\ resultsIn([svout EXCEPT !.asserted = TRUE])

(* pthread_create, with threads bounded by MaxTid. *)
PthreadCreate ==
  /\ executing("create")
  /\ svout.threadsStarted < MaxTid
  /\ isPointer(value(I.a))
  /\ \E q \in Slot : /\ isFirstFree(svout, q)
                     /\ resultsIn(createThread(svout, q, I.fn, value(I.b), value(I.a)))

(* No free slot: back to the location of the call. *)
PthreadCreateFull ==
  /\ executing("create")
  /\ freeSlots(svout) = {}
  /\ resultsIn(setPC(svout, self, ip))

(* pthread_join(a, b), with the result of the thread stored through b. *)
PthreadJoin ==
  /\ executing("join")
  /\ hasResult(svout, value(I.a))
  /\ LET returned == setReg(svout, self, I.d, 0)   \* join itself returns 0
         ptr      == operand(returned, self, I.b)
     IN  /\ ptr # 0 => isPointer(ptr)
         /\ resultsIn(IF ptr = 0 THEN returned
                      ELSE storeTo(returned, ptr, svout.tres[value(I.a)].value))

PthreadJoinBlocked ==
  /\ executing("join")
  /\ ~hasResult(svout, value(I.a))
  /\ endNoReport

-----------------------------------------------------------------------------
Execute ==
  \/ ValueMapped \/ ExtractValue \/ AllocateMemory \/ Load \/ Store \/ Atomic
  \/ Branch \/ Unreachable
  \/ Call \/ Return \/ External \/ AssertFail
  \/ PthreadCreate \/ PthreadCreateFull \/ PthreadJoin \/ PthreadJoinBlocked

(* The body of one call of model_step. *)
StepBody == EnterGroup \/ Upload \/ NoSuchPC \/ Execute

Next ==
  \/ ConstructorStart \/ MainStart \/ IncrementStatus \/ EndState
  \/ \E q \in Slot : BeginStep(q)
  \/ StepBody

(* A call of model_step runs to its return; nothing obliges a path to      *)
(* schedule any particular process.                                        *)
Spec == Init /\ [][Next]_vars /\ WF_vars(StepBody)

-----------------------------------------------------------------------------
(* Properties *)

(* A slot holds a thread that has not ended: its pc is not 0, or it is in  *)
(* the middle of a group (the pc is 0 while a group that ends its block    *)
(* runs, until the terminator sets it).                                    *)
live(q) == svout.pc[q] # 0 \/ (q = stepping /\ ip <= last)

(* A thread identifier never denotes two live threads, however often slots *)
(* are freed and reused (pthread_create's tid := threadsStarted + 1).      *)
LiveTidsUnique ==
  \A q1, q2 \in Slot :
    q1 # q2 /\ live(q1) /\ live(q2) => svout.tid[q1] # svout.tid[q2]

(* A result that pthread_join can see belongs to a thread that has ended:  *)
(* nobody joins a thread that still runs, or a tid not handed out yet.     *)
ResultOnlyAfterEnd ==
  \A t \in Tid :
    hasResult(svout, t) => /\ t \in 2..svout.threadsStarted
                           /\ \A q \in Slot : live(q) => svout.tid[q] # t

(* The result of a thread stays what it was when the thread ended, so that *)
(* every later pthread_join obtains it (popStackFrame's list of results).  *)
ResultsFinal ==
  [][\A t \in Tid : hasResult(src, t) => src'.tres[t] = src.tres[t]]_src

(* One step of a process leaves the control state of every other live      *)
(* thread alone: pthread_create only takes slots that are free, a return   *)
(* or a call only touches the own slot.                                    *)
OthersUntouched ==
  [][\A q \in Slot :
       src.pc[q] # 0 /\ q # stepping =>
         /\ src'.pc[q] = src.pc[q]   /\ src'.tid[q] = src.tid[q]
         /\ src'.stk[q] = src.stk[q] /\ src'.r[q] = src.r[q]]_src

(* pthread_create never takes the creator's own slot, although the slot is *)
(* recognised as free by a pc that the group has already overwritten.      *)
CreatorKeepsSlot ==
  stepping # NoSlot /\ executing("create") => self \notin freeSlots(svout)

(* A process goes on where a transition group starts, and so it does after *)
(* every return: its steps never end inside a group.  "No such program     *)
(* counter" is only met by a call of pthread_create, not the first of its  *)
(* group, that finds no free slot (lines 819 and 3682).                    *)
PCHasGroup ==
  /\ \A q \in Slot : /\ src.pc[q] # 0 => isFront(src.pc[q])
                     /\ \A k \in DOMAIN src.stk[q] : isFront(src.stk[q][k].pc)
  /\ betweenGroups /\ pc # 0 /\ ~isFront(pc) =>
       code[pc].op = "create" /\ freeSlots(src) = {}

(* Why the process in slot q cannot step: in its next group it joins a     *)
(* thread without a result, or creates a thread while no slot is free.     *)
waits(q) ==
  LET l == src.pc[q]
  IN  \E k \in l..groupEnd(code, l) :
        \/ code[k].op = "join" /\ ~hasResult(src, operand(src, q, code[k].a))
        \/ code[k].op = "create" /\ freeSlots(src) = {}

(* The state is only declared ENDED when no thread can go on: each has     *)
(* ended or waits, so no path is cut short (incrstatus of dmc_nextstates). *)
EndedMeansNoneCanStep ==
  src.status = ENDED => \A q \in Slot : src.pc[q] # 0 => waits(q)

(* Memory is never handed out twice: every pointer a thread holds in a     *)
(* register or in memory lies below the msize of the process it names,     *)
(* also after slots were freed and reused (generateAllocateMemory).        *)
PointersBelowMsize ==
  LET inBounds(v) == isPointer(v) => offsetOf(v) < svout.msize[creatorOf(v)]
  IN  \A q \in Slot : /\ \A k \in Reg : inBounds(svout.r[q][k])
                      /\ \A o \in Offset : inBounds(svout.m[q][o])

(* A called function finds in its parameters the values that the caller's  *)
(* registers had at the call (pushStackFrame, "Assign the arguments to the *)
(* parameters").                                                           *)
ArgumentsPassed ==
  [][stepping # NoSlot /\ executing("call") =>
       /\ I.a # NoReg => svout'.r[self][0] = svout.r[self][I.a]
       /\ I.b # NoReg => svout'.r[self][1] = svout.r[self][I.b]]_vars

(* The verdict on an end state that the driver prints: slot 6 of the state *)
(* vector, the pc of process 0, is 0.                                      *)
reportedOK == src.status = ENDED /\ src.pc[0] = 0

(* An end state reported as "OK (first process/thread terminated           *)
(* correctly)" comes from a path on which no assertion failed.             *)
OKMeansNoAssertionFailed == reportedOK => ~src.asserted

(* Instructions that change nothing but what belongs to the process, and   *)
(* wait for nobody.  (A copy by memcpy counts among them, as it does in    *)
(* isRuntimeCollapsableInstruction.)                                       *)
silentOps == {"const", "add", "extractvalue", "alloca", "malloc", "memcpy", "call",
              "br", "ret", "unreachable"}
             \cup (IF AssumeNonAtomicCollapsable THEN {"load", "store"} ELSE {})

mayFollow(l) ==
  LET i == code[l]
  IN  CASE i.op = "br"   -> {i.fn, i.b}
        [] i.op = "call" -> {i.fn}
        [] i.op = "ret"  -> {k + 1 : k \in {k \in DOMAIN code : code[k].op = "call"}}
        [] i.op = "unreachable" -> {}
        [] OTHER -> {l + 1}

(* The locations from which a process can go on for ever by silent         *)
(* instructions alone: each has a successor among them.                    *)
silentForEver ==
  LET after[n \in 0..Len(code)] ==   \* ... by n of them
        IF n = 0 THEN {l \in DOMAIN code : code[l].op \in silentOps}
        ELSE LET prev == after[n-1]
             IN  {l \in prev : mayFollow(l) \cap prev # {}}
  IN  after[Len(code)]

spinning == stepping # NoSlot /\ (IF ip <= last THEN ip ELSE pc) \in silentForEver

(* A call of model_step returns, also for a program that waits for a shared *)
(* variable in a loop - unless the process stays for ever in a loop that    *)
(* no other process can influence or observe, such as for(;;);.  Then the   *)
(* loop of model_step (lines 735-752) never ends either.                    *)
StepReturns == [](stepping # NoSlot => <>(stepping = NoSlot \/ []spinning))

-----------------------------------------------------------------------------
(* The generated model implements POSIX threads: in the states that DMC    *)
(* sees from the start of main on, the threads that have a slot, the       *)
(* identifiers handed out so far and the results stored.  The constructors *)
(* run in slot 0 before, under the identifier main is going to have.       *)
mainStarted == src.status >= RUNNING_MAIN
runningTids == IF mainStarted THEN {src.tid[q] : q \in {q \in Slot : src.pc[q] # 0}} ELSE {}
usedTids    == IF mainStarted THEN {0} \cup 2..src.threadsStarted ELSE {}
resultOf    == [t \in Tid |-> IF mainStarted /\ hasResult(src, t) THEN <<src.tres[t].value>>
                              ELSE <<>>]

Threads == INSTANCE PThreads WITH running <- runningTids, used <- usedTids,
                                  results <- resultOf

ImplementsPThreads == Threads!Spec

=============================================================================
