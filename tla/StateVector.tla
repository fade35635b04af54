---------------------------- MODULE StateVector ----------------------------
(***************************************************************************)
(* The state vector of the generated model and the operations the          *)
(* generated code performs on it: pointers and memory (makePointer,        *)
(* generateLoad, generateStore, generateAllocateMemory), stack frames      *)
(* (ProcessStack) and the thread table (pthread_create, pthread_join).     *)
(*                                                                         *)
(* A state vector is a record.  The array "processes" of structs is a      *)
(* struct of functions on slots.  Registers and memory are counted in      *)
(* cells, each of which holds one value whatever its width.                *)
(***************************************************************************)
EXTENDS Integers, Sequences

CONSTANTS
  MaxThreads,   (* MAX_THREADS: process slots in the state vector (6 in the code) *)
  NumRegs,      (* cells of the register file: that of the largest function       *)
  PtrBase,      (* 2^56 in the code: offsets of one process' memory               *)
  MemWords,     (* bound: cells of memory of a process                            *)
  MaxTid        (* bound: thread identifiers, hence created threads               *)

ASSUME ConstantsAssumption ==
  /\ MaxThreads \in Nat \ {0}
  /\ NumRegs \in Nat \ {0}
  /\ MemWords \in Nat \ {0}
  /\ MaxTid \in Nat \ {0}
  /\ PtrBase \in Nat /\ PtrBase >= MemWords /\ PtrBase > MaxTid

Slot   == 0..(MaxThreads - 1)
Reg    == 0..(NumRegs - 1)
NoReg  == -1
Operand == Reg \cup {NoReg}
Offset == 0..(MemWords - 1)
Tid    == 0..MaxTid

(* GlobalStatus *)
START                == 0
RUNNING_CONSTRUCTORS == 1
STARTING_MAIN        == 2
RUNNING_MAIN         == 3
ENDED                == 4
Status == START..ENDED

RegisterFile == [Reg -> Int]
ZeroRegs     == [k \in Reg |-> 0]
Frame        == [pc : Nat, regs : RegisterFile, res : Reg]

StateVectorType ==
  [ status         : Status,
    threadsStarted : Tid,
    tres           : [Tid -> [status : Tid, value : Int]],
    tid            : [Slot -> Tid],
    pc             : [Slot -> Nat],
    msize          : [Slot -> Nat],
    stk            : [Slot -> Seq(Frame)],
    r              : [Slot -> RegisterFile],
    m              : [Slot -> [Offset -> Int]],
    asserted       : BOOLEAN ]     \* history: an assertion failed on this path

(***************************************************************************)
(* dmc_initialstate: all zero, no thread started but main, the globals in  *)
(* the memory of process 0.                                                *)
(***************************************************************************)
initialState(globalsSize) ==
  [ status         |-> START,
    threadsStarted |-> 1,
    tres           |-> [t \in Tid |-> [status |-> 0, value |-> 0]],
    tid            |-> [p \in Slot |-> 0],
    pc             |-> [p \in Slot |-> 0],
    msize          |-> [p \in Slot |-> IF p = 0 THEN globalsSize ELSE 0],
    stk            |-> [p \in Slot |-> <<>>],
    r              |-> [p \in Slot |-> ZeroRegs],
    m              |-> [p \in Slot |-> [o \in Offset |-> 0]],
    asserted       |-> FALSE ]

-----------------------------------------------------------------------------
(* Pointers and memory *)

makePointer(p, offset)  == (p + 1) * PtrBase + offset
creatorOf(ptr)          == (ptr \div PtrBase) - 1
offsetOf(ptr)           == ptr % PtrBase
isPointer(ptr)          == creatorOf(ptr) \in Slot /\ offsetOf(ptr) \in Offset

loadFrom(s, ptr)        == s.m[creatorOf(ptr)][offsetOf(ptr)]
storeTo(s, ptr, v)      == [s EXCEPT !.m[creatorOf(ptr)][offsetOf(ptr)] = v]
allocate(s, p, n)       == [s EXCEPT !.msize[p] = @ + n]

(* vMap: the value of a register operand; a null constant is NoReg. *)
operand(s, p, k)        == IF k = NoReg THEN 0 ELSE s.r[p][k]
setReg(s, p, d, v)      == IF d = NoReg THEN s ELSE [s EXCEPT !.r[p][d] = v]
setPC(s, p, l)          == [s EXCEPT !.pc[p] = l]

(* The PHI nodes of one edge between blocks, as moves from a to d.  The    *)
(* generator orders the moves so that a register is read before it is      *)
(* overwritten, which amounts to doing them at once.                       *)
storePHIs(s, p, phis) ==
  [s EXCEPT !.r[p] = [k \in Reg |-> IF \E e \in phis : e.d = k
                                    THEN operand(s, p, (CHOOSE e \in phis : e.d = k).a)
                                    ELSE s.r[p][k]]]

-----------------------------------------------------------------------------
(* Stack frames *)

(* The arguments are copied to the parameters one after the other, each    *)
(* read from the register file that the previous copies already changed.   *)
assignArguments(regs, a, b) ==
  LET first == IF a = NoReg THEN regs ELSE [regs EXCEPT ![0] = regs[a]]
  IN  IF b = NoReg THEN first ELSE [first EXCEPT ![1] = first[b]]

(* pushStackFrame without a call site: the start of main, of the           *)
(* constructors or of a thread.  Registers, memory and tid are kept.       *)
startFunction(s, q, entry) ==
  [s EXCEPT !.stk[q] = <<>>, !.pc[q] = entry]

(* pushStackFrame for a call: d is the result register, a and b the        *)
(* argument registers.                                                     *)
pushStackFrame(s, p, entry, a, b, d) ==
  LET frame == [pc |-> s.pc[p], regs |-> s.r[p], res |-> IF d = NoReg THEN 0 ELSE d]
  IN  [s EXCEPT !.stk[p] = <<frame>> \o @,
                !.r[p]   = assignArguments(@, a, b),
                !.pc[p]  = entry]

(* Mutated form: the caller's registers are not restored. *)
popStackFrameMutated(s, p, value) ==
  LET frame == Head(s.stk[p])
  IN  [s EXCEPT !.stk[p] = Tail(@),
                !.pc[p]  = frame.pc,
                !.r[p]   = IF value = NoReg THEN @
                           ELSE [s.r[p] EXCEPT ![frame.res] = s.r[p][value]]]

(* popStackFrame when there is a frame; value is a register or NoReg. *)
popStackFrame(s, p, value) ==
  LET frame == Head(s.stk[p])
  IN  [s EXCEPT !.stk[p] = Tail(@),
                !.pc[p]  = frame.pc,
                !.r[p]   = IF value = NoReg THEN frame.regs
                           ELSE [frame.regs EXCEPT ![frame.res] = s.r[p][value]]]

(* Mutated forms: the fields of {tid, result} exchanged; the old list of   *)
(* results dropped; the result filed under the slot.                       *)
endThreadSwapped(s, p, tid, value) ==
  [s EXCEPT !.pc[p]     = 0,
            !.r[p]      = ZeroRegs,
            !.tres[tid] = IF value = NoReg THEN @
                          ELSE [status |-> s.r[p][value], value |-> tid]]

endThreadForgetting(s, p, tid, value) ==
  [s EXCEPT !.pc[p] = 0,
            !.r[p]  = ZeroRegs,
            !.tres  = [t \in Tid |->
                         IF t = tid /\ value # NoReg THEN [status |-> tid, value |-> s.r[p][value]]
                         ELSE [status |-> 0, value |-> 0]]]

endThreadBySlot(s, p, tid, value) ==
  [s EXCEPT !.pc[p]   = 0,
            !.r[p]    = ZeroRegs,
            !.tres[p] = IF value = NoReg THEN @
                        ELSE [status |-> tid, value |-> s.r[p][value]]]

(* popStackFrame of the last frame: the thread ends.  Its result goes to   *)
(* the list of thread results under the tid it had when the step began.    *)
endThread(s, p, tid, value) ==
  [s EXCEPT !.pc[p]     = 0,
            !.r[p]      = ZeroRegs,
            !.tres[tid] = IF value = NoReg THEN @
                          ELSE [status |-> tid, value |-> s.r[p][value]]]

-----------------------------------------------------------------------------
(* Threads *)

(* Mutated form: a slot is free when its process has no memory. *)
freeSlotsMutated(s) == {q \in Slot : s.msize[q] = 0}

freeSlots(s) == {q \in Slot : s.pc[q] = 0}

(* pthread_create takes the first slot whose pc is 0. *)
isFirstFree(s, q) == q \in freeSlots(s) /\ \A q2 \in freeSlots(s) : q <= q2

(* Mutated forms: threadsStarted is not counted up; a reused slot keeps    *)
(* its tid; the memory of a reused slot is handed out again.               *)
createThreadUncounted(s, q, entry, arg, ptr) ==
  LET new     == s.threadsStarted + 1
      started == [startFunction(s, q, entry) EXCEPT !.r[q][0] = arg, !.tid[q] = new]
  IN  storeTo(started, ptr, new)

createThreadStaleTid(s, q, entry, arg, ptr) ==
  LET new     == s.threadsStarted + 1
      started == [startFunction(s, q, entry) EXCEPT
                    !.r[q][0]        = arg,
                    !.tid[q]         = IF @ = 0 THEN new ELSE @,
                    !.threadsStarted = new]
  IN  storeTo(started, ptr, new)

createThreadFreshMemory(s, q, entry, arg, ptr) ==
  LET new     == s.threadsStarted + 1
      started == [startFunction(s, q, entry) EXCEPT
                    !.r[q][0]        = arg,
                    !.tid[q]         = new,
                    !.msize[q]       = 0,
                    !.threadsStarted = new]
  IN  storeTo(started, ptr, new)

(* The part of pthread_create for a free slot q: the thread function gets  *)
(* the value arg, the creator the new tid through the pointer ptr.         *)
createThread(s, q, entry, arg, ptr) ==
  LET new     == s.threadsStarted + 1
      started == [startFunction(s, q, entry) EXCEPT
                    !.r[q][0]        = arg,
                    !.tid[q]         = new,
                    !.threadsStarted = new]
  IN  storeTo(started, ptr, new)

hasResult(s, t) == t \in Tid /\ s.tres[t].status # 0

=============================================================================
