-------------------------- MODULE TransitionGroups --------------------------
(***************************************************************************)
(* How libllmc cuts the instructions of an LLVM module into transition     *)
(* groups (LLDMCModelGenerator::createTransitionGroups...).  A group is    *)
(* the unit that the generated model executes without looking at the other *)
(* processes; one call of model_step runs groups until it has run one that *)
(* is visible to other processes (an "emitter").                           *)
(*                                                                         *)
(* A module's code is a sequence of instructions in textual order: every   *)
(* instruction gets the next program location when the blocks are walked,  *)
(* so the location of an instruction is its index.  A basic block ends at  *)
(* its terminator.  Location 0 is "no instruction".                        *)
(***************************************************************************)
EXTENDS Integers, Sequences, FiniteSetsExt

CONSTANT AssumeNonAtomicCollapsable   (* _assumeNonAtomicCollapsable: treat *)
                                      (* plain loads and stores as private  *)

(***************************************************************************)
(* Instruction kinds.  "const" and "add" stand for the instructions that   *)
(* only map values to a register; "external" for a declared function       *)
(* without effect on the state vector; "assert_fail" for the declared      *)
(* function of that name, which the generator also gives no effect.  The   *)
(* functions __atomic_* and the intrinsic memcpy are calls as well; fence  *)
(* and switch are no kinds, since the generator aborts on them.            *)
(***************************************************************************)
Terminators == {"br", "ret", "unreachable"}
Calls       == {"malloc", "call", "create", "join", "external", "assert_fail", "memcpy",
                "atomic_load", "atomic_store", "atomic_compare_exchange"}
MemoryOps   == {"load", "store"}
AtomicOps   == {"atomicrmw", "cmpxchg"}
Ops         == Terminators \cup Calls \cup MemoryOps \cup AtomicOps
               \cup {"const", "add", "alloca", "extractvalue"}

PrivateOps == {"const", "add", "alloca", "malloc", "memcpy", "extractvalue"} \cup Terminators
              \cup (IF AssumeNonAtomicCollapsable THEN MemoryOps ELSE {})

isFrontCollapsable(i)   == i.op \in PrivateOps \cup {"join"}
isBackCollapsable(i)    == i.op \in PrivateOps

(* Mutated form: accesses to shared memory count as private. *)
isRuntimeCollapsableMutated(i) == i.op \in PrivateOps \cup MemoryOps \cup {"call"}

isRuntimeCollapsable(i) == i.op \in PrivateOps \cup {"call"}

(* Mutated form: instructions are absorbed after a call, too. *)
groupEndMutated(code, l) ==
  LET main == Min({k \in l..Len(code) : \/ ~isFrontCollapsable(code[k])
                                        \/ code[k].op \in Terminators})
      last == Min({k \in main..Len(code) : \/ code[k].op \in Terminators
                                           \/ ~isBackCollapsable(code[k+1])})
  IN  IF isFrontCollapsable(code[main]) THEN main ELSE last

(***************************************************************************)
(* The last location of the group whose first location is l.  Front        *)
(* collapsable instructions are taken up to and including the first one    *)
(* that is not; that main instruction absorbs back collapsable ones, but   *)
(* nothing is absorbed after a call.  Blocks are never crossed.            *)
(***************************************************************************)
groupEnd(code, l) ==
  LET main == Min({k \in l..Len(code) : \/ ~isFrontCollapsable(code[k])
                                        \/ code[k].op \in Terminators})
      last == Min({k \in main..Len(code) : \/ code[k].op \in Terminators \cup Calls
                                           \/ ~isBackCollapsable(code[k+1])})
  IN  IF isFrontCollapsable(code[main]) THEN main ELSE last

(* Mutated form: a group starts at the last instruction of the one before. *)
groupFrontsMutated(code) ==
  LET front[l \in 1..Len(code)] ==
        IF l = 1 THEN 1
        ELSE LET prev == front[l-1]
             IN  IF groupEnd(code, prev) = l THEN l ELSE prev
  IN  {l \in 1..Len(code) : front[l] = l}

(***************************************************************************)
(* The first locations of the groups: the scan of                          *)
(* createTransitionGroupsForBasicBlock, where front[l] is that of the      *)
(* group which holds l.                                                    *)
(***************************************************************************)
groupFronts(code) ==
  LET front[l \in 1..Len(code)] ==
        IF l = 1 THEN 1
        ELSE LET prev == front[l-1]
             IN  IF groupEnd(code, prev) = l - 1 THEN l ELSE prev
  IN  {l \in 1..Len(code) : front[l] = l}

(* A group is an emitter when it holds an instruction that other processes *)
(* can observe or that can block.                                          *)
isEmitter(code, l) ==
  \E k \in l..groupEnd(code, l) : ~isRuntimeCollapsable(code[k])

(* The location after the group's last instruction, 0 at the end of a block. *)
locationAfter(code, l) ==
  LET last == groupEnd(code, l)
  IN  IF code[last].op \in Terminators THEN 0 ELSE last + 1

=============================================================================
