------------------------------- MODULE SVLayout -------------------------------
(***************************************************************************)
(* Where the fields of the state vector lie.  createRegisterMapping gives  *)
(* every function a struct of registers; generateTypes reserves one array  *)
(* for the largest of them and builds the vector around it.  A field is    *)
(* reached by the offsets of the nested structs, a register by a cast of   *)
(* the array to the struct of its function.                                *)
(***************************************************************************)
EXTENDS Integers, Sequences, FiniteSetsExt

CONSTANTS Function,       \* the functions of the module
          RegisterSize,   \* sizes of registers in bytes: powers of 2 up to 8
          MaxRegisters,   \* bound: registers of a function
          MAX_THREADS

(* Without functions there are no registers, and nothing is generated.     *)
ASSUME SVLayoutAssumption ==
  /\ Function # {}
  /\ RegisterSize \subseteq {1, 2, 4, 8}
  /\ MaxRegisters \in Nat /\ MAX_THREADS \in Nat \ {0}

VARIABLES registerLayout,   \* function -> the sizes of its registers
          t_registers_max   \* the type of the array, NoType before generateTypes

vars == <<registerLayout, t_registers_max>>

-----------------------------------------------------------------------------
(* Types are a size and an alignment, as LLVM's data layout has them.      *)
(* That of the generated module aligns i1, i8 and i16 to 32 bits, so that  *)
(* they take 4 bytes in a struct.                                          *)
IntType(n) == LET bytes == Max({4, n}) IN [size |-> bytes, align |-> bytes]
NoType == [size |-> 0, align |-> 0]
Array(element, count) == [size |-> element.size * count, align |-> element.align]

roundUp(n, align) == ((n + align - 1) \div align) * align

(* The offset of each element of a struct, and of its end. *)
offsets(types) ==
  LET all == types
      at[k \in 1..Len(all) + 1] ==
        LET free == IF k = 1 THEN 0 ELSE at[k - 1] + all[k - 1].size
        IN  IF k > Len(all) THEN free ELSE roundUp(free, all[k].align)
  IN  at

Struct(types) ==
  LET align == Max({1} \cup {types[k].align : k \in DOMAIN types})
  IN  [size |-> roundUp(offsets(types)[Len(types) + 1], align), align |-> align]

registerTypes(F) == [k \in DOMAIN registerLayout[F] |-> IntType(registerLayout[F][k])]

(* The largest register struct. *)
registersSize == Max({Struct(registerTypes(F)).size : F \in Function})

(* Mutated form: the identifier is kept behind the pc. *)
processFieldsMutated ==
  << <<"status", IntType(4)>>, <<"pc", IntType(4)>>,
     <<"tid", IntType(4)>>, <<"msize", IntType(4)>>,
     <<"stk", IntType(8)>>, <<"r", t_registers_max>>, <<"m", IntType(8)>> >>

processFields ==
  << <<"status", IntType(4)>>, <<"tid", IntType(4)>>,
     <<"pc", IntType(4)>>, <<"msize", IntType(4)>>,
     <<"stk", IntType(8)>>, <<"r", t_registers_max>>, <<"m", IntType(8)>> >>

typesOf(fields) == LET all == fields IN [k \in DOMAIN all |-> all[k][2]]

process == Struct(typesOf(processFields))

vectorFields ==
  << <<"status", IntType(4)>>, <<"threadsStarted", IntType(4)>>, <<"tres", IntType(8)>>,
     <<"processes", Array(process, MAX_THREADS)>> >>

type_sv == Struct(typesOf(vectorFields))

-----------------------------------------------------------------------------
(* SVTree::getValue and SVAccessor::getValue add up the offsets of the     *)
(* fields on the way from the root.  Slots count from 0 here.              *)
index(fields, name) == CHOOSE k \in DOMAIN fields : fields[k][1] = name

field(name) ==
  LET k == index(vectorFields, name) IN
  [at |-> offsets(typesOf(vectorFields))[k], size |-> vectorFields[k][2].size]

processField(slot, name) ==
  LET k == index(processFields, name) IN
  [at   |-> field("processes").at + slot * process.size + offsets(typesOf(processFields))[k],
   size |-> processFields[k][2].size]

(* vReg: the k-th register of F in a process that executes F, as many bytes *)
(* of it as a store writes.                                                *)
vReg(slot, F, k) ==
  [at   |-> processField(slot, "r").at + offsets(registerTypes(F))[k],
   size |-> registerLayout[F][k]]

-----------------------------------------------------------------------------
Init ==
  /\ registerLayout = [F \in Function |-> <<>>]
  /\ t_registers_max = NoType

(* createRegisterMapping: the next argument or instruction of a function.  *)
newmap(F, n) ==
  /\ t_registers_max = NoType /\ Len(registerLayout[F]) < MaxRegisters
  /\ registerLayout' = [registerLayout EXCEPT ![F] = Append(@, n)]
  /\ UNCHANGED t_registers_max

(* Mutated form: the array is as large as the struct of some function.     *)
generateTypesMutated ==
  /\ t_registers_max = NoType
  /\ \E F \in Function : LET n == Struct(registerTypes(F)).size \div 4 IN
       n > 0 /\ t_registers_max' = Array(IntType(4), n)
  /\ UNCHANGED registerLayout

(* As many ints as the largest struct has.  Without any the generator      *)
(* stops: "size is 0" (LLVMLTS.cpp line 40).                               *)
generateTypes ==
  /\ t_registers_max = NoType /\ registersSize > 0
  /\ t_registers_max' = Array(IntType(4), registersSize \div 4)
  /\ UNCHANGED registerLayout

Next == generateTypes \/ \E F \in Function, n \in RegisterSize : newmap(F, n)

Spec == Init /\ [][Next]_vars

-----------------------------------------------------------------------------
generated == t_registers_max # NoType

disjoint(a, b) == a.at + a.size <= b.at \/ b.at + b.size <= a.at
within(a, b) == b.at <= a.at /\ a.at + a.size <= b.at + b.size

Slots == 0..MAX_THREADS - 1
names(fields) == {fields[k][1] : k \in DOMAIN fields}

(* The leaves of the vector, each under its path. *)
leaves ==
  {<<name>> : name \in names(vectorFields) \ {"processes"}}
    \cup {<<slot, name>> : slot \in Slots, name \in names(processFields)}

place(leaf) == IF Len(leaf) = 1 THEN field(leaf[1]) ELSE processField(leaf[1], leaf[2])

registers == UNION {{F} \X DOMAIN registerLayout[F] : F \in Function}

(* No write to a field or register of one process changes another field:   *)
(* leaves do not overlap and lie in the vector, and every register lies in  *)
(* the array "r" of its process, whose ints are counted in 32 bits (1284)  *)
(* for the largest struct, whatever the sizes and the order of registers.  *)
LeavesDisjoint ==
  generated =>
    LET all == [a \in leaves |-> place(a)]
        whole == [at |-> 0, size |-> type_sv.size]
    IN  /\ \A a, b \in leaves : a # b => disjoint(all[a], all[b])
        /\ \A a \in leaves : within(all[a], whole)
        /\ \A slot \in Slots, r \in registers :
             within(vReg(slot, r[1], r[2]), all[<<slot, "r">>])

(* The driver takes word 6 of an end state for the pc of the first process  *)
(* (llmc/main.cpp line 224, "TODO: make generic"), whatever the registers. *)
VerdictWordIsPC == generated => processField(0, "pc") = [at |-> 6 * 4, size |-> 4]
=============================================================================
