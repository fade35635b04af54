------------------------- MODULE LLDMCModel_proofs -------------------------
(***************************************************************************)
(* The generated model, for every set of modules and every size of the     *)
(* tables: its type correctness, the uniqueness of thread identifiers;     *)
(* and of threads: the creator of a thread keeps its slot, results belong  *)
(* to threads that have ended and stay, a step leaves other threads alone, *)
(* and the model implements PThreads; processes go on where groups start;  *)
(* and memory is never handed out twice.                                   *)
(***************************************************************************)
EXTENDS LLDMCModel, WellFoundedInduction, TLAPS

-----------------------------------------------------------------------------
(* Where a transition group ends, for every code that ends in a terminator. *)

Less == {ss \in Nat \X Nat : ss[1] < ss[2]}

(* The order on the natural numbers is well-founded. *)
LEMMA LessWF == IsWellFoundedOn(Less, Nat)
BY NatLessThanWellFounded, Zenon DEF OpToRel, Less

(* Min of FiniteSetsExt is the least element of a set of natural numbers.  *)
LEMMA MinInSet ==
  ASSUME NEW S \in SUBSET Nat, S # {}
  PROVE  /\ Min(S) \in S
         /\ \A y \in S : Min(S) <= y
<1>1. PICK x \in S : \A y \in S : ~ (<<y, x>> \in Less)
  BY WFMin, LessWF
<1>2. \A a, b \in Nat : a < b => <<a, b>> \in Less
  BY DEF Less
<1>3. \A y \in S : x <= y
  <2> SUFFICES ASSUME NEW y \in S PROVE x <= y
    OBVIOUS
  <2>1. ~ (y < x)
    BY <1>1, <1>2
  <2> QED
    BY <2>1
<1> QED
  BY <1>3 DEF Min

(* Induction, about a set of numbers. *)
LEMMA AllNumbers ==
  ASSUME NEW S, 0 \in S, \A n \in Nat : n \in S => n + 1 \in S
  PROVE  Nat \subseteq S
<1> DEFINE T == Nat \ S
<1> SUFFICES ASSUME T # {} PROVE FALSE
  OBVIOUS
<1>1. Min(T) \in T /\ \A m \in T : Min(T) <= m
  <2>1. T \in SUBSET Nat
    OBVIOUS
  <2> HIDE DEF T
  <2> QED
    BY <2>1, MinInSet
<1>2. PICK n \in T : \A m \in T : n <= m
  BY <1>1
<1>3. n # 0 /\ n - 1 \in Nat /\ (n - 1) + 1 = n /\ ~ (n <= n - 1)
  BY <1>2
<1>4. n - 1 \in S
  BY <1>2, <1>3
<1> QED
  BY <1>2, <1>3, <1>4

(* The group at l ends at or after l, inside the code and not beyond the   *)
(* first terminator; a call ends its group, so that the location stored    *)
(* for the process is the one behind the call                              *)
(* (createTransitionGroupsForInstruction).                                 *)
LEMMA GroupEnd ==
  ASSUME NEW Any, NEW c \in Seq(Any), NEW l \in DOMAIN c,
         c[Len(c)].op \in Terminators
  PROVE  /\ groupEnd(c, l) \in l..Len(c)
         /\ \A k \in l..(groupEnd(c, l) - 1) : c[k].op \notin Terminators \cup (Calls \ {"malloc", "memcpy", "join"})
         
<1> DEFINE mains == {k \in l..Len(c) : \/ ~isFrontCollapsable(c[k])
                                       \/ c[k].op \in Terminators}
           main  == Min(mains)
           ends == {k \in main..Len(c) : \/ c[k].op \in Terminators \cup Calls
                                          \/ ~isBackCollapsable(c[k+1])}
           end  == Min(ends)
<1>1. Len(c) \in Nat /\ l \in 1..Len(c)
  OBVIOUS
<1>2. main \in mains /\ \A y \in mains : main <= y
  <2>1. Len(c) \in mains
    BY <1>1
  <2>2. mains \in SUBSET Nat
    BY <1>1
  <2> HIDE DEF mains
  <2> QED
    BY <2>1, <2>2, MinInSet
<1>3. main \in l..Len(c)
  BY <1>2
<1> HIDE DEF main
<1>4. end \in ends /\ \A y \in ends : end <= y
  <2>1. Len(c) \in ends
    BY <1>1, <1>3
  <2>2. ends \in SUBSET Nat
    BY <1>1, <1>3
  <2> HIDE DEF ends
  <2> QED
    BY <2>1, <2>2, MinInSet
<1>5. end \in main..Len(c)
  BY <1>4
<1> HIDE DEF end
<1>6. groupEnd(c, l) = IF isFrontCollapsable(c[main]) THEN main ELSE end
  BY DEF groupEnd, main, end
<1>7. \A k \in l..(main - 1) : isFrontCollapsable(c[k]) /\ c[k].op \notin Terminators
  <2> SUFFICES ASSUME NEW k \in l..(main - 1)
               PROVE  isFrontCollapsable(c[k]) /\ c[k].op \notin Terminators
    OBVIOUS
  <2>1. k \in l..Len(c) /\ ~(main <= k)
    BY <1>1, <1>3
  <2> QED
    BY <1>2, <2>1
<1>8. \A k \in main..(end - 1) : c[k].op \notin Terminators \cup Calls
  <2> SUFFICES ASSUME NEW k \in main..(end - 1)
               PROVE  c[k].op \notin Terminators \cup Calls
    OBVIOUS
  <2>1. k \in main..Len(c) /\ ~(end <= k)
    BY <1>1, <1>3, <1>5
  <2> QED
    BY <1>4, <2>1
<1>9. groupEnd(c, l) \in l..Len(c)
  BY <1>1, <1>3, <1>5, <1>6
<1>10. ASSUME NEW k \in l..(groupEnd(c, l) - 1)
       PROVE  c[k].op \notin Terminators \cup (Calls \ {"malloc", "memcpy", "join"})
  <2>1. k \in l..(main - 1) \/ k \in main..(end - 1)
    BY <1>1, <1>3, <1>5, <1>6, <1>9
  <2>2. ASSUME isFrontCollapsable(c[k])
        PROVE  c[k].op \notin Calls \ {"malloc", "memcpy", "join"}
    BY <2>2 DEF isFrontCollapsable, PrivateOps, Terminators, Calls, MemoryOps
  <2> QED
    BY <1>7, <1>8, <2>1, <2>2
<1> QED
  BY <1>9, <1>10

-----------------------------------------------------------------------------
(***************************************************************************)
(* The groups of a module, for every code that ends in a terminator: they  *)
(* follow one another, and every block starts with one                     *)
(* (createTransitionGroupsForBasicBlock).                                  *)
(***************************************************************************)
frontAfter(f, c, l) ==
  IF l = 1 THEN 1
  ELSE LET prev == f[l - 1]
       IN  IF groupEnd(c, prev) = l - 1 THEN l ELSE prev

isFronts(f, c) == f = [l \in 1..Len(c) |-> frontAfter(f, c, l)]

(* The recursion has a solution. *)
LEMMA FrontsExist ==
  ASSUME NEW Any, NEW c \in Seq(Any)
  PROVE  \E f : isFronts(f, c)
<1> DEFINE N == Len(c)
           upTo(n) == \E f : f = [l \in 1..N |-> f[l]] /\
                         \A l \in 1..N : l <= n => f[l] = frontAfter(f, c, l)
           S == {n \in Nat : upTo(n)}
<1>1. N \in Nat
  OBVIOUS
<1>2. upTo(0)
  <2>1. \A l \in 1..N : ~ (l <= 0)
    BY <1>1
  <2> DEFINE g == [l \in 1..N |-> l]
  <2>2. g = [l \in 1..N |-> g[l]]
    OBVIOUS
  <2> QED
    BY <2>1, <2>2
<1>3. ASSUME NEW n \in Nat, upTo(n) PROVE upTo(n + 1)
  <2>1. PICK f : f = [l \in 1..N |-> f[l]] /\
                 \A l \in 1..N : l <= n => f[l] = frontAfter(f, c, l)
    BY <1>3
  <2> DEFINE g == [l \in 1..N |-> IF l = n + 1 THEN frontAfter(f, c, l) ELSE f[l]]
  <2>2. g = [l \in 1..N |-> g[l]]
    OBVIOUS
  <2>3. ASSUME NEW l \in 1..N, l <= n + 1
        PROVE  g[l] = frontAfter(g, c, l)
    <3>1. l # 1 => l - 1 \in 1..N /\ l - 1 # n + 1
      BY <1>1, <2>3
    <3>2. l # 1 => g[l - 1] = f[l - 1]
      BY <3>1
    <3>3. frontAfter(g, c, l) = frontAfter(f, c, l)
      BY <3>2 DEF frontAfter
    <3>4. CASE l = n + 1
      BY <3>3, <3>4
    <3>5. CASE l # n + 1
      <4>1. l <= n
        BY <1>1, <2>3, <3>5
      <4> QED
        BY <2>1, <3>3, <3>5, <4>1
    <3> QED
      BY <3>4, <3>5
  <2> HIDE DEF g
  <2> QED
    BY <2>2, <2>3
<1>4. upTo(N)
  <2> HIDE DEF upTo
  <2>1. 0 \in S /\ \A n \in Nat : n \in S => n + 1 \in S
    BY <1>2, <1>3
  <2> HIDE DEF S
  <2>2. N \in S
    BY <1>1, <2>1, AllNumbers
  <2> QED
    BY <2>2 DEF S
<1>5. PICK f : f = [l \in 1..N |-> f[l]] /\ \A l \in 1..N : l <= N => f[l] = frontAfter(f, c, l)
  BY <1>4
<1>6. \A l \in 1..N : f[l] = frontAfter(f, c, l)
  BY <1>1, <1>5
<1> QED
  BY <1>5, <1>6 DEF isFronts

(* groupFronts takes the locations that are the front of their group. *)
LEMMA FrontsAre ==
  ASSUME NEW Any, NEW c \in Seq(Any)
  PROVE  \E f : /\ \A l \in 1..Len(c) : f[l] = frontAfter(f, c, l)
                /\ groupFronts(c) = {l \in 1..Len(c) : f[l] = l}
<1> DEFINE f == CHOOSE f : isFronts(f, c)
<1>1. groupFronts(c) = {l \in 1..Len(c) : f[l] = l}
  BY DEF groupFronts, isFronts, frontAfter
<1>2. isFronts(f, c)
  BY FrontsExist
<1> HIDE DEF f
<1>3. \A l \in 1..Len(c) : f[l] = frontAfter(f, c, l)
  BY <1>2 DEF isFronts
<1> QED
  BY <1>1, <1>3

(* Behind a group starts the next, and every block starts with a group.    *)
LEMMA GroupsFollow ==
  ASSUME NEW Any, NEW c \in Seq(Any), c # <<>>, c[Len(c)].op \in Terminators
  PROVE  /\ \A m \in groupFronts(c) :
              groupEnd(c, m) < Len(c) => groupEnd(c, m) + 1 \in groupFronts(c)
         /\ 1 \in groupFronts(c)
         /\ \A l \in 2..Len(c) : c[l - 1].op \in Terminators => l \in groupFronts(c)
<1> DEFINE N == Len(c)
<1>1. N \in Nat /\ 1 <= N /\ DOMAIN c = 1..N
  OBVIOUS
<1>2. PICK f : /\ \A l \in 1..N : f[l] = frontAfter(f, c, l)
               /\ groupFronts(c) = {l \in 1..N : f[l] = l}
  BY FrontsAre
<1>3. ASSUME NEW l \in 1..N
      PROVE  /\ groupEnd(c, l) \in l..N
             /\ \A k \in l..(groupEnd(c, l) - 1) : c[k].op \notin Terminators
  BY <1>1, GroupEnd
<1>4. 1 \in 1..N /\ f[1] = 1
  BY <1>1, <1>2 DEF frontAfter
<1>5. ASSUME NEW l \in 2..N
      PROVE  /\ l - 1 \in 1..N /\ l \in 1..N
             /\ f[l] = IF groupEnd(c, f[l - 1]) = l - 1 THEN l ELSE f[l - 1]
  <2>1. l - 1 \in 1..N /\ l \in 1..N /\ l # 1
    BY <1>1
  <2> QED
    BY <1>2, <2>1 DEF frontAfter
<1>6. \A l \in 1..N : f[l] \in 1..l /\ groupEnd(c, f[l]) >= l
  <2> DEFINE S == {n \in Nat : n \in 1..N => f[n] \in 1..n /\ groupEnd(c, f[n]) >= n}
  <2>1. 0 \in S
    OBVIOUS
  <2>2. ASSUME NEW n \in Nat, n \in S PROVE n + 1 \in S
    <3> SUFFICES ASSUME n + 1 \in 1..N
                 PROVE  f[n + 1] \in 1..(n + 1) /\ groupEnd(c, f[n + 1]) >= n + 1
      OBVIOUS
    <3>1. CASE n = 0
      BY <1>3, <1>4, <3>1
    <3>2. CASE n # 0
      <4>1. n \in 1..N /\ n + 1 \in 2..N /\ (n + 1) - 1 = n
        BY <1>1, <3>2
      <4>2. f[n] \in 1..n /\ groupEnd(c, f[n]) >= n /\ f[n] \in 1..N
        BY <1>1, <2>2, <4>1
      <4>3. f[n + 1] = IF groupEnd(c, f[n]) = n THEN n + 1 ELSE f[n]
        BY <1>5, <4>1
      <4>4. groupEnd(c, f[n]) \in Nat /\ groupEnd(c, n + 1) \in (n + 1)..N
        BY <1>3, <4>2
      <4>5. CASE groupEnd(c, f[n]) = n
        BY <4>3, <4>4, <4>5
      <4>6. CASE groupEnd(c, f[n]) # n
        BY <4>2, <4>3, <4>4, <4>6
      <4> QED
        BY <4>5, <4>6
    <3> QED
      BY <3>1, <3>2
  <2> HIDE DEF S
  <2>3. Nat \subseteq S
    BY <2>1, <2>2, AllNumbers
  <2> QED
    BY <2>3 DEF S
<1>7. ASSUME NEW m \in groupFronts(c)
      PROVE  \A l \in m..groupEnd(c, m) : f[l] = m
  <2>1. m \in 1..N /\ f[m] = m /\ groupEnd(c, m) \in m..N
    BY <1>2, <1>3
  <2> DEFINE S == {n \in Nat : m + n <= groupEnd(c, m) => f[m + n] = m}
  <2>2. 0 \in S
    BY <2>1
  <2>3. ASSUME NEW n \in Nat, n \in S PROVE n + 1 \in S
    <3> SUFFICES ASSUME m + (n + 1) <= groupEnd(c, m) PROVE f[m + (n + 1)] = m
      OBVIOUS
    <3>1. m + (n + 1) \in 2..N /\ (m + (n + 1)) - 1 = m + n /\ m + n <= groupEnd(c, m)
          /\ groupEnd(c, m) # m + n
      BY <1>1, <2>1
    <3>2. f[m + n] = m
      BY <2>3, <3>1
    <3> QED
      BY <1>5, <3>1, <3>2
  <2>4. Nat \subseteq S
    <3> HIDE DEF S
    <3> QED
      BY <2>2, <2>3, AllNumbers
  <2>5. ASSUME NEW l \in m..groupEnd(c, m) PROVE f[l] = m
    <3>1. l - m \in Nat /\ m + (l - m) = l /\ l <= groupEnd(c, m)
      BY <2>1
    <3>2. l - m \in S
      BY <2>4, <3>1
    <3> QED
      BY <3>1, <3>2
  <2> QED
    BY <2>5
<1>8. ASSUME NEW m \in groupFronts(c), groupEnd(c, m) < N
      PROVE  groupEnd(c, m) + 1 \in groupFronts(c)
  <2>1. m \in 1..N /\ groupEnd(c, m) \in m..N
    BY <1>2, <1>3
  <2>2. groupEnd(c, m) \in m..groupEnd(c, m)
    BY <2>1
  <2>3. f[groupEnd(c, m)] = m
    BY <1>7, <2>2
  <2>4. groupEnd(c, m) + 1 \in 2..N /\ (groupEnd(c, m) + 1) - 1 = groupEnd(c, m)
    BY <1>1, <1>8, <2>1
  <2>5. f[groupEnd(c, m) + 1] = groupEnd(c, m) + 1 /\ groupEnd(c, m) + 1 \in 1..N
    BY <1>5, <2>3, <2>4
  <2> QED
    BY <1>2, <2>5
<1>9. ASSUME NEW l \in 2..N, c[l - 1].op \in Terminators
      PROVE  l \in groupFronts(c)
  <2>1. l - 1 \in 1..N /\ l \in 1..N
    BY <1>5
  <2>2. f[l - 1] \in 1..(l - 1) /\ groupEnd(c, f[l - 1]) >= l - 1
    BY <1>6, <2>1
  <2>3. f[l - 1] \in 1..N
    BY <2>1, <2>2
  <2>4. groupEnd(c, f[l - 1]) \in Nat
    BY <1>3, <2>3
  <2>5. ~ (l - 1 \in f[l - 1]..(groupEnd(c, f[l - 1]) - 1))
    BY <1>3, <1>9, <2>3
  <2>6. groupEnd(c, f[l - 1]) = l - 1
    BY <2>1, <2>2, <2>4, <2>5
  <2>7. f[l] = l
    BY <1>5, <2>6
  <2> QED
    BY <1>2, <2>1, <2>7
<1>10. 1 \in groupFronts(c)
  BY <1>2, <1>4
<1> QED
  BY <1>8, <1>9, <1>10

-----------------------------------------------------------------------------
(* The operations on the state vector keep its type: what each of them     *)
(* needs to know of its arguments, for every val of the constants.       *)
(* Slot 0 of main and of the globals, and the first register, exist. *)
LEMMA SlotZero == 0 \in Slot /\ 0 \in Reg /\ 0 \in Tid
BY ConstantsAssumption DEF Slot, Reg, Tid

(* dmc_initialstate gives a state vector of the declared layout. *)
LEMMA InitialStateType ==
  ASSUME NEW n \in Nat
  PROVE  initialState(n) \in StateVectorType
<1>1. 1 \in Tid /\ 0 \in Tid /\ START \in Status
  BY ConstantsAssumption DEF Tid, START, Status, ENDED
<1>2. [k \in Reg |-> 0] \in RegisterFile
  BY DEF RegisterFile
<1> QED
  BY <1>1, <1>2 DEF initialState, StateVectorType, ZeroRegs

(* A register file of one process replaced. *)
LEMMA RegistersType ==
  ASSUME NEW s \in StateVectorType, NEW p \in Slot, NEW regs \in RegisterFile
  PROVE  [s EXCEPT !.r[p] = regs] \in StateVectorType
<1>1. [s.r EXCEPT ![p] = regs] \in [Slot -> RegisterFile]
  BY DEF StateVectorType
<1>2. [s EXCEPT !.r[p] = regs] = [s EXCEPT !.r = [s.r EXCEPT ![p] = regs]]
  OBVIOUS
<1>3. \A f \in [Slot -> RegisterFile] : [s EXCEPT !.r = f] \in StateVectorType
  BY DEF StateVectorType
<1> QED
  BY <1>1, <1>2, <1>3

(* vMap: the val of an operand is an integer. *)
LEMMA OperandType ==
  ASSUME NEW s \in StateVectorType, NEW p \in Slot, NEW k \in Operand
  PROVE  operand(s, p, k) \in Int
BY DEF operand, Operand, StateVectorType, RegisterFile

(* generateLoad through a valid pointer gives an integer. *)
LEMMA LoadType ==
  ASSUME NEW s \in StateVectorType, NEW ptr \in Int, isPointer(ptr)
  PROVE  loadFrom(s, ptr) \in Int
BY DEF loadFrom, isPointer, StateVectorType

(* generateStore through a valid pointer keeps the layout. *)
LEMMA StoreType ==
  ASSUME NEW s \in StateVectorType, NEW ptr \in Int, isPointer(ptr), NEW v \in Int
  PROVE  storeTo(s, ptr, v) \in StateVectorType
BY DEF storeTo, isPointer, StateVectorType

(* generateAllocateMemory keeps the layout. *)
LEMMA AllocateType ==
  ASSUME NEW s \in StateVectorType, NEW p \in Slot, NEW n \in Nat
  PROVE  allocate(s, p, n) \in StateVectorType
<1> DEFINE grown == [s.msize EXCEPT ![p] = s.msize[p] + n]
<1>1. grown \in [Slot -> Nat]
  BY DEF StateVectorType
<1>2. allocate(s, p, n) = [s EXCEPT !.msize = grown]
  BY DEF allocate
<1>3. \A f \in [Slot -> Nat] : [s EXCEPT !.msize = f] \in StateVectorType
  BY DEF StateVectorType
<1> QED
  BY <1>1, <1>2, <1>3

(* vReg: storing the val of an instruction keeps the layout. *)
LEMMA SetRegType ==
  ASSUME NEW s \in StateVectorType, NEW p \in Slot, NEW d \in Operand, NEW v \in Int
  PROVE  setReg(s, p, d, v) \in StateVectorType
BY DEF setReg, Operand, StateVectorType, RegisterFile

(* Storing a program counter keeps the layout. *)
LEMMA SetPCType ==
  ASSUME NEW s \in StateVectorType, NEW p \in Slot, NEW l \in Nat
  PROVE  setPC(s, p, l) \in StateVectorType
BY DEF setPC, StateVectorType

(* The moves of the PHI nodes of an edge keep the layout. *)
LEMMA StorePHIsType ==
  ASSUME NEW s \in StateVectorType, NEW p \in Slot, NEW phis,
         \A e \in phis : e.a \in Operand
  PROVE  storePHIs(s, p, phis) \in StateVectorType
<1> DEFINE moved == [k \in Reg |-> IF \E e \in phis : e.d = k
                                   THEN operand(s, p, (CHOOSE e \in phis : e.d = k).a)
                                   ELSE s.r[p][k]]
<1>1. moved \in RegisterFile
  <2>1. ASSUME NEW k \in Reg, \E e \in phis : e.d = k
        PROVE  operand(s, p, (CHOOSE e \in phis : e.d = k).a) \in Int
    BY <2>1, OperandType
  <2>2. \A k \in Reg : s.r[p][k] \in Int
    BY DEF StateVectorType, RegisterFile
  <2> QED
    BY <2>1, <2>2 DEF RegisterFile
<1>2. storePHIs(s, p, phis) = [s EXCEPT !.r[p] = moved]
  BY DEF storePHIs
<1> HIDE DEF moved
<1> QED
  BY <1>1, <1>2, RegistersType

-----------------------------------------------------------------------------
(* Copying the arguments of a call gives a register file. *)
LEMMA AssignArgumentsType ==
  ASSUME NEW regs \in RegisterFile, NEW a \in Operand, NEW b \in Operand
  PROVE  assignArguments(regs, a, b) \in RegisterFile
<1> DEFINE first == IF a = NoReg THEN regs ELSE [regs EXCEPT ![0] = regs[a]]
<1>1. first \in RegisterFile
  BY DEF RegisterFile, Operand
<1>2. assignArguments(regs, a, b) = IF b = NoReg THEN first ELSE [first EXCEPT ![1] = first[b]]
  BY DEF assignArguments
<1> HIDE DEF first
<1> QED
  BY <1>1, <1>2 DEF RegisterFile, Operand

(* pushStackFrame without a call site keeps the layout. *)
LEMMA StartFunctionType ==
  ASSUME NEW s \in StateVectorType, NEW q \in Slot, NEW entry \in Nat
  PROVE  startFunction(s, q, entry) \in StateVectorType
<1>1. <<>> \in Seq(Frame)
  OBVIOUS
<1> QED
  BY <1>1 DEF startFunction, StateVectorType

(* The stack, the registers and the pc of one process replaced. *)
withControl(s, p, stk, regs, l) ==
  [s EXCEPT !.stk[p] = stk, !.r[p] = regs, !.pc[p] = l]

(* Such a replacement keeps the layout. *)
LEMMA ControlType ==
  ASSUME NEW s \in StateVectorType, NEW p \in Slot,
         NEW stk \in Seq(Frame), NEW regs \in RegisterFile, NEW l \in Nat
  PROVE  withControl(s, p, stk, regs, l) \in StateVectorType
<1> DEFINE stks == [s.stk EXCEPT ![p] = stk]
           rs   == [s.r EXCEPT ![p] = regs]
           pcs  == [s.pc EXCEPT ![p] = l]
<1>1. stks \in [Slot -> Seq(Frame)] /\ rs \in [Slot -> RegisterFile] /\ pcs \in [Slot -> Nat]
  BY DEF StateVectorType
<1>2. withControl(s, p, stk, regs, l) = [s EXCEPT !.stk = stks, !.r = rs, !.pc = pcs]
  BY DEF withControl
<1> HIDE DEF stks, rs, pcs
<1> QED
  BY <1>1, <1>2 DEF StateVectorType

(* pushStackFrame of a call saves a frame and keeps the layout. *)
LEMMA PushStackFrameType ==
  ASSUME NEW s \in StateVectorType, NEW p \in Slot, NEW entry \in Nat,
         NEW a \in Operand, NEW b \in Operand, NEW d \in Operand
  PROVE  pushStackFrame(s, p, entry, a, b, d) \in StateVectorType
<1> DEFINE frame == [pc |-> s.pc[p], regs |-> s.r[p], res |-> IF d = NoReg THEN 0 ELSE d]
           stk   == <<frame>> \o s.stk[p]
           regs  == assignArguments(s.r[p], a, b)
<1>1. s.pc[p] \in Nat /\ s.r[p] \in RegisterFile /\ s.stk[p] \in Seq(Frame)
  BY DEF StateVectorType
<1>2. frame \in Frame
  BY <1>1, SlotZero DEF Frame, Operand
<1>3. stk \in Seq(Frame)
  BY <1>1, <1>2
<1>4. regs \in RegisterFile
  BY <1>1, AssignArgumentsType
<1>5. pushStackFrame(s, p, entry, a, b, d) = withControl(s, p, stk, regs, entry)
  BY DEF pushStackFrame, withControl
<1> HIDE DEF stk, regs
<1> QED
  BY <1>3, <1>4, <1>5, ControlType

(* popStackFrame restores a saved frame and keeps the layout. *)
LEMMA PopStackFrameType ==
  ASSUME NEW s \in StateVectorType, NEW p \in Slot, NEW val \in Operand,
         s.stk[p] # <<>>
  PROVE  popStackFrame(s, p, val) \in StateVectorType
<1> DEFINE frame == Head(s.stk[p])
           stk   == Tail(s.stk[p])
           regs  == IF val = NoReg THEN frame.regs
                    ELSE [frame.regs EXCEPT ![frame.res] = s.r[p][val]]
<1>1. s.stk[p] \in Seq(Frame) /\ s.r[p] \in RegisterFile
  BY DEF StateVectorType
<1>2. frame \in Frame /\ stk \in Seq(Frame)
  BY <1>1
<1>3. frame.pc \in Nat /\ frame.regs \in RegisterFile /\ frame.res \in Reg
  BY <1>2 DEF Frame
<1>4. regs \in RegisterFile
  BY <1>1, <1>3 DEF RegisterFile, Operand
<1>5. popStackFrame(s, p, val) = withControl(s, p, stk, regs, frame.pc)
  BY DEF popStackFrame, withControl
<1> HIDE DEF stk, regs, frame
<1> QED
  BY <1>2, <1>3, <1>4, <1>5, ControlType

(* popStackFrame of the last frame files a result and keeps the layout. *)
LEMMA EndThreadType ==
  ASSUME NEW s \in StateVectorType, NEW p \in Slot, NEW t \in Tid, NEW val \in Operand
  PROVE  endThread(s, p, t, val) \in StateVectorType
<1> DEFINE new  == IF val = NoReg THEN s.tres[t] ELSE [status |-> t, value |-> s.r[p][val]]
           tres == [s.tres EXCEPT ![t] = new]
           rs   == [s.r EXCEPT ![p] = ZeroRegs]
           pcs  == [s.pc EXCEPT ![p] = 0]
<1>1. val # NoReg => s.r[p][val] \in Int
  BY DEF StateVectorType, RegisterFile, Operand
<1>2. new \in [status : Tid, value : Int]
  BY <1>1 DEF StateVectorType
<1>3. tres \in [Tid -> [status : Tid, value : Int]]
  BY <1>2 DEF StateVectorType
<1>4. rs \in [Slot -> RegisterFile] /\ pcs \in [Slot -> Nat]
  BY DEF StateVectorType, RegisterFile, ZeroRegs
<1>5. endThread(s, p, t, val) = [s EXCEPT !.pc = pcs, !.r = rs, !.tres = tres]
  BY DEF endThread
<1> HIDE DEF tres, rs, pcs
<1> QED
  BY <1>3, <1>4, <1>5 DEF StateVectorType

(* pthread_create in a slot keeps the layout while tids are left. *)
LEMMA CreateThreadType ==
  ASSUME NEW s \in StateVectorType, NEW q \in Slot, NEW entry \in Nat, NEW arg \in Int,
         NEW ptr \in Int, isPointer(ptr), s.threadsStarted < MaxTid
  PROVE  createThread(s, q, entry, arg, ptr) \in StateVectorType
<1> DEFINE new == s.threadsStarted + 1
           run == startFunction(s, q, entry)
           rs   == [run.r EXCEPT ![q] = [run.r[q] EXCEPT ![0] = arg]]
           tids == [run.tid EXCEPT ![q] = new]
           thr  == [run EXCEPT !.r[q][0] = arg, !.tid[q] = new, !.threadsStarted = new]
<1>1. run \in StateVectorType
  BY StartFunctionType
<1>2. new \in Tid /\ new \in Int
  <2>1. s.threadsStarted \in 0..MaxTid
    BY DEF StateVectorType, Tid
  <2> QED
    BY <2>1, ConstantsAssumption DEF Tid
<1> HIDE DEF run, new
<1>3. rs \in [Slot -> RegisterFile] /\ tids \in [Slot -> Tid]
  BY <1>1, <1>2 DEF StateVectorType, RegisterFile
<1>4. thr = [run EXCEPT !.r = rs, !.tid = tids, !.threadsStarted = new]
  OBVIOUS
<1> HIDE DEF rs, tids
<1>5. thr \in StateVectorType
  BY <1>1, <1>2, <1>3, <1>4 DEF StateVectorType
<1>6. createThread(s, q, entry, arg, ptr) = storeTo(thr, ptr, new)
  BY DEF createThread, new, run
<1> HIDE DEF thr
<1> QED
  BY <1>2, <1>5, <1>6, StoreType

-----------------------------------------------------------------------------
(* The instructions still to run are instructions of the module. *)
GroupInCode == last \in 0..Len(code) /\ ip \in 1..(last + 1)

TypeInv == TypeOK /\ GroupInCode

-----------------------------------------------------------------------------
(* What ModulesAssumption says of one module. *)
LEMMA ModuleFacts ==
  ASSUME NEW mod \in Modules
  PROVE  /\ mod \in Module
         /\ mod.code \in Seq(Instruction) /\ Len(mod.code) \in Nat \ {0}
         /\ mod.code[Len(mod.code)].op \in Terminators
         /\ mod.main \in Nat /\ mod.ctor \in Nat /\ mod.globals \in Nat
         /\ \A e \in mod.phis : e.a \in Operand
<1>1. mod \in Module /\ wellFormed(mod)
  BY ModulesAssumption
<1>2. mod.code \in Seq(Instruction) /\ mod.code # <<>> /\ mod.phis \in SUBSET Phi
  BY <1>1 DEF Module, wellFormed
<1>3. Len(mod.code) \in Nat \ {0}
  BY <1>2
<1>4. \A e \in mod.phis : e.a \in Operand
  BY <1>2 DEF Phi
<1> QED
  BY <1>1, <1>2, <1>3, <1>4 DEF Module, wellFormed

(* What it says of an instruction: which operands are registers, which are *)
(* sizes, and that jumps lead to locations.                                *)
LEMMA InstructionFacts ==
  ASSUME NEW mod \in Modules, NEW l \in DOMAIN mod.code
  PROVE  LET i == mod.code[l]
         IN  /\ i.d \in Operand /\ i.a \in Operand /\ i.b \in Int /\ i.fn \in Nat
             /\ i.op \in {"add", "store", "call", "create", "join", "memcpy", "atomicrmw", "cmpxchg",
                         "atomic_load", "atomic_store", "atomic_compare_exchange"} => i.b \in Operand
             /\ i.op \in {"cmpxchg", "atomic_compare_exchange"} => i.fn \in Reg
             /\ i.op = "cmpxchg" => i.d + 1 \in Reg
             /\ i.op = "extractvalue" => i.a + i.b \in Reg
             /\ i.op \in {"alloca", "malloc", "br"} => i.b \in Nat
<1> DEFINE i == mod.code[l]
<1>1. mod.code \in Seq(Instruction)
  BY ModuleFacts
<1>2. i \in Instruction
  BY <1>1
<1>3. /\ i.op \in {"add", "store", "call", "create", "join", "memcpy", "atomicrmw", "cmpxchg",
                  "atomic_load", "atomic_store", "atomic_compare_exchange"} => i.b \in Operand
      /\ i.op \in {"cmpxchg", "atomic_compare_exchange"} => i.fn \in Reg
      /\ i.op = "cmpxchg" => i.d + 1 \in Reg
      /\ i.op = "extractvalue" => i.a + i.b \in Reg
      /\ i.op \in {"alloca", "malloc"} => i.b \in Nat
      /\ i.op = "br" => i.b \in blockStarts(mod.code)
  BY ModulesAssumption DEF wellFormed
<1>4. blockStarts(mod.code) \subseteq Nat
  BY DEF blockStarts
<1> QED
  BY <1>2, <1>3, <1>4 DEF Instruction

(* Groups start at locations of the module. *)
LEMMA FrontsInCode ==
  ASSUME NEW mod \in Modules
  PROVE  groupFronts(mod.code) \subseteq DOMAIN mod.code
<1>1. DOMAIN mod.code = 1..Len(mod.code)
  BY ModuleFacts
<1> QED
  BY <1>1 DEF groupFronts

(* What a value is, and where the process that executes has its slot. *)
LEMMA Executing ==
  ASSUME TypeInv, stepping # NoSlot, ip <= last
  PROVE  /\ self \in Slot
         /\ ip \in DOMAIN code
         /\ \A k \in Operand : value(k) \in Int
         /\ svout \in StateVectorType
<1>1. self \in Slot /\ svout \in StateVectorType /\ module \in Modules
  BY DEF TypeInv, TypeOK, self
<1>2. DOMAIN code = 1..Len(code) /\ Len(code) \in Nat
  BY <1>1, ModuleFacts DEF code
<1>3. ip \in DOMAIN code
  BY <1>2 DEF TypeInv, TypeOK, GroupInCode
<1>4. \A k \in Operand : value(k) \in Int
  BY <1>1, OperandType DEF value
<1> QED
  BY <1>1, <1>3, <1>4

(* A step to another state vector of the right type. *)
LEMMA ResultsInType ==
  ASSUME TypeInv, ip <= last, NEW s \in StateVectorType, resultsIn(s)
  PROVE  TypeInv'
<1>1. ip + 1 \in 1..(last + 1)
  BY DEF TypeInv, TypeOK, GroupInCode
<1> QED
  BY <1>1 DEF TypeInv, TypeOK, GroupInCode, resultsIn, code

(* A new state that DMC sees. *)
LEMMA TransitionType ==
  ASSUME TypeInv, NEW s \in StateVectorType, transition(s)
  PROVE  TypeInv'
<1>1. Len(code) \in Nat
  BY ModuleFacts DEF TypeInv, TypeOK, code
<1> QED
  <2>1. TypeOK'
    BY DEF TypeInv, TypeOK, transition, code
  <2>2. last' = 0 /\ ip' = 1 /\ code' = code
    BY DEF transition, code
  <2>3. GroupInCode'
    BY <1>1, <2>2 DEF GroupInCode
  <2> QED
    BY <2>1, <2>3 DEF TypeInv

(* A call of model_step that returns 0. *)
LEMMA EndNoReportType ==
  ASSUME TypeInv, stepping # NoSlot, endNoReport
  PROVE  TypeInv'
<1>1. Len(code) \in Nat
  BY ModuleFacts DEF TypeInv, TypeOK, code
<1>2. self \in Slot
  BY DEF TypeInv, TypeOK, self
<1> QED
  <2>1. TypeOK'
    BY <1>2 DEF TypeInv, TypeOK, endNoReport, code
  <2>2. last' = 0 /\ ip' = 1 /\ code' = code
    BY DEF endNoReport, code
  <2>3. GroupInCode'
    BY <1>1, <2>2 DEF GroupInCode
  <2> QED
    BY <2>1, <2>3 DEF TypeInv

-----------------------------------------------------------------------------
(* The initial states. *)
LEMMA TypeInit == Init => TypeInv
<1> SUFFICES ASSUME Init PROVE TypeInv
  OBVIOUS
<1>1. module \in Modules /\ module.globals \in Nat /\ Len(module.code) \in Nat
  BY ModuleFacts DEF Init
<1>2. src \in StateVectorType
  BY <1>1, InitialStateType DEF Init
<1>3. fronts \subseteq DOMAIN code
  BY <1>1, FrontsInCode DEF Init, code
<1> QED
  <2>1. TypeOK
    BY <1>1, <1>2, <1>3 DEF Init, TypeOK
  <2>2. GroupInCode
    BY <1>1 DEF Init, GroupInCode, code
  <2> QED
    BY <2>1, <2>2 DEF TypeInv

(* The status of a state vector replaced. *)
LEMMA SetStatusType ==
  ASSUME NEW s \in StateVectorType, NEW n \in Status
  PROVE  [s EXCEPT !.status = n] \in StateVectorType
BY DEF StateVectorType

(* dmc_nextstates: the steps outside model_step. *)
LEMMA TypeNextstates ==
  ASSUME TypeInv, ConstructorStart \/ MainStart \/ IncrementStatus
  PROVE  TypeInv'
<1>1. src \in StateVectorType /\ module \in Modules
  BY DEF TypeInv, TypeOK
<1>2. module.main \in Nat /\ module.ctor \in Nat
  BY <1>1, ModuleFacts
<1>3. /\ startFunction(src, 0, module.ctor) \in StateVectorType
      /\ startFunction(src, 0, module.main) \in StateVectorType
  BY <1>1, <1>2, SlotZero, StartFunctionType
<1>4. {START, RUNNING_CONSTRUCTORS, STARTING_MAIN, RUNNING_MAIN, ENDED} \subseteq Status
  BY DEF Status, START, RUNNING_CONSTRUCTORS, STARTING_MAIN, RUNNING_MAIN, ENDED
<1>5. CASE ConstructorStart
  <2> DEFINE s == IF module.ctor = 0 THEN src ELSE startFunction(src, 0, module.ctor)
  <2>1. s \in StateVectorType
    BY <1>1, <1>3
  <2>2. transition([s EXCEPT !.status = RUNNING_CONSTRUCTORS])
    BY <1>5 DEF ConstructorStart
  <2> HIDE DEF s
  <2>3. [s EXCEPT !.status = RUNNING_CONSTRUCTORS] \in StateVectorType
    BY <1>4, <2>1, SetStatusType
  <2> QED
    BY <2>2, <2>3, TransitionType
<1>6. CASE MainStart
  <2> DEFINE s == IF module.main = 0 THEN src ELSE startFunction(src, 0, module.main)
  <2>1. s \in StateVectorType
    BY <1>1, <1>3
  <2>2. transition([s EXCEPT !.status = RUNNING_MAIN])
    BY <1>6 DEF MainStart
  <2> HIDE DEF s
  <2>3. [s EXCEPT !.status = RUNNING_MAIN] \in StateVectorType
    BY <1>4, <2>1, SetStatusType
  <2> QED
    BY <2>2, <2>3, TransitionType
<1>7. CASE IncrementStatus
  <2>1. src.status + 1 \in Status
    BY <1>7 DEF IncrementStatus, running, Status, START, ENDED, RUNNING_CONSTRUCTORS, RUNNING_MAIN
  <2>2. [src EXCEPT !.status = src.status + 1] \in StateVectorType
    BY <1>1, <2>1, SetStatusType
  <2>3. transition([src EXCEPT !.status = src.status + 1])
    BY <1>7 DEF IncrementStatus
  <2> QED
    BY <2>2, <2>3, TransitionType
<1> QED
  BY <1>5, <1>6, <1>7

(* The loop of model_step over transition groups. *)
LEMMA TypeGroups ==
  ASSUME TypeInv, EnterGroup \/ Upload \/ NoSuchPC
  PROVE  TypeInv'
<1>1. svout \in StateVectorType /\ module \in Modules /\ self \in Slot
  BY DEF TypeInv, TypeOK, EnterGroup, Upload, NoSuchPC, betweenGroups, self
<1>2. CASE EnterGroup
  <2>1. pc \in DOMAIN code
    BY <1>2 DEF EnterGroup, isFront, TypeInv, TypeOK
  <2>2. /\ code \in Seq(Instruction) /\ Len(code) \in Nat
        /\ code[Len(code)].op \in Terminators
        /\ DOMAIN code = 1..Len(code)
    <3>1. code \in Seq(Instruction) /\ Len(code) \in Nat /\ code[Len(code)].op \in Terminators
      BY <1>1, ModuleFacts DEF code
    <3> QED
      BY <3>1
  <2>3. groupEnd(code, pc) \in pc..Len(code)
    BY <2>1, <2>2, GroupEnd
  <2>4. locationAfter(code, pc) \in Nat
    BY <2>1, <2>2, <2>3 DEF locationAfter
  <2>5. setPC(svout, self, locationAfter(code, pc)) \in StateVectorType
    BY <1>1, <2>4, SetPCType
  <2>6. emitted' \in BOOLEAN
    BY <1>2 DEF EnterGroup, isEmitter, TypeInv, TypeOK
  <2>7. /\ groupEnd(code, pc) \in 0..Len(code)
        /\ pc \in 1..(groupEnd(code, pc) + 1)
    BY <2>1, <2>2, <2>3
  <2> QED
    BY <1>2, <2>5, <2>6, <2>7 DEF EnterGroup, TypeInv, TypeOK, GroupInCode, code
<1>3. CASE Upload
  BY <1>1, <1>3, TransitionType DEF Upload
<1>4. CASE NoSuchPC
  BY <1>4, EndNoReportType DEF NoSuchPC, betweenGroups
<1> QED
  BY <1>2, <1>3, <1>4

(* The atomic instructions and functions, and memcpy.                      *)
LEMMA TypeAtomic ==
  ASSUME TypeInv, Atomic
  PROVE  TypeInv'
<1>1. stepping # NoSlot /\ ip <= last
  BY DEF Atomic, executing, AtomicLoad, AtomicStore, Memcpy, AtomicRMW, CmpXchg,
         AtomicCompareExchange
<1>2. /\ self \in Slot /\ module \in Modules /\ ip \in DOMAIN module.code
      /\ svout \in StateVectorType
      /\ \A k \in Operand : value(k) \in Int
      /\ Reg \subseteq Operand /\ 0 \in Int /\ 1 \in Int
  BY <1>1, Executing DEF TypeInv, TypeOK, code, Operand
<1>3. /\ I.d \in Operand /\ I.a \in Operand /\ I.fn \in Nat
      /\ Atomic => I.b \in Operand
      /\ I.op \in {"cmpxchg", "atomic_compare_exchange"} => I.fn \in Operand
      /\ I.op = "cmpxchg" => I.d + 1 \in Operand
  BY <1>2, InstructionFacts DEF I, code, Atomic, executing, AtomicLoad, AtomicStore, Memcpy,
     AtomicRMW, CmpXchg, AtomicCompareExchange
<1> DEFINE A == value(I.a)  B == value(I.b)  F == value(I.fn)
<1>4. A \in Int /\ B \in Int /\ (I.op \in {"cmpxchg", "atomic_compare_exchange"} => F \in Int)
  BY <1>2, <1>3
<1>5. \A ptr \in Int : isPointer(ptr) =>
        /\ loadFrom(svout, ptr) \in Int
        /\ \A v \in Int : storeTo(svout, ptr, v) \in StateVectorType
  BY <1>2, LoadType, StoreType
<1>6. \A s \in StateVectorType, d \in Operand, v \in Int : setReg(s, self, d, v) \in StateVectorType
  BY <1>2, SetRegType
<1> HIDE DEF A, B, F
<1>7. CASE AtomicLoad \/ AtomicStore \/ Memcpy
  <2>1. PICK ptr \in Int, from \in Int : copyCell(ptr, from)
    BY <1>4, <1>7 DEF AtomicLoad, AtomicStore, Memcpy, A, B
  <2>2. storeTo(svout, ptr, loadFrom(svout, from)) \in StateVectorType
    BY <1>5, <2>1 DEF copyCell
  <2> QED
    BY <1>1, <2>1, <2>2, ResultsInType DEF copyCell
<1>8. CASE AtomicRMW
  <2> DEFINE new == newVal(I.fn, loadFrom(svout, A), B)
  <2>1. isPointer(A) /\ resultsIn(storeTo(svout, A, new))
    BY <1>8 DEF AtomicRMW, A, B
  <2>2. new \in Int
    BY <1>4, <1>5, <2>1 DEF newVal
  <2> HIDE DEF new
  <2>3. storeTo(svout, A, new) \in StateVectorType
    BY <1>4, <1>5, <2>1, <2>2
  <2> QED
    BY <1>1, <2>1, <2>3, ResultsInType
<1>9. CASE CmpXchg
  <2> DEFINE old == loadFrom(svout, A)
             success == setReg(setReg(storeTo(svout, A, F), self, I.d, old), self, I.d + 1, 1)
             failure == setReg(setReg(svout, self, I.d, old), self, I.d + 1, 0)
  <2>1. isPointer(A) /\ (resultsIn(success) \/ resultsIn(failure))
    BY <1>9 DEF CmpXchg, A, B, F
  <2>2. F \in Int /\ I.d + 1 \in Operand
    BY <1>3, <1>4, <1>9 DEF CmpXchg, executing
  <2>3. old \in Int /\ storeTo(svout, A, F) \in StateVectorType
    BY <1>4, <1>5, <2>1, <2>2
  <2> HIDE DEF old
  <2>4. success \in StateVectorType /\ failure \in StateVectorType
    BY <1>2, <1>3, <1>6, <2>2, <2>3
  <2> HIDE DEF success, failure
  <2> QED
    BY <1>1, <2>1, <2>4, ResultsInType
<1>10. CASE AtomicCompareExchange
  <2> DEFINE success == setReg(storeTo(svout, A, loadFrom(svout, F)), self, I.d, 1)
             failure == setReg(storeTo(svout, B, loadFrom(svout, A)), self, I.d, 0)
  <2>1. /\ isPointer(A) /\ isPointer(B) /\ isPointer(F)
        /\ resultsIn(success) \/ resultsIn(failure)
    BY <1>10 DEF AtomicCompareExchange, A, B, F
  <2>2. F \in Int
    BY <1>4, <1>10 DEF AtomicCompareExchange, executing
  <2>3. success \in StateVectorType /\ failure \in StateVectorType
    BY <1>2, <1>3, <1>4, <1>5, <1>6, <2>1, <2>2
  <2> HIDE DEF success, failure
  <2> QED
    BY <1>1, <2>1, <2>3, ResultsInType
<1> QED
  BY <1>7, <1>8, <1>9, <1>10 DEF Atomic

(* generateNextStateForInstruction: one instruction.                       *)
LEMMA TypeExecute ==
  ASSUME TypeInv, Execute
  PROVE  TypeInv'
<1>1. stepping # NoSlot /\ ip <= last
  BY DEF Execute, executing, ValueMapped, AllocateMemory, Load, Store, Branch, Unreachable,
         Call, Return, External, AssertFail, PthreadCreate, PthreadCreateFull,
         PthreadJoin, PthreadJoinBlocked, ExtractValue, Atomic, AtomicLoad, AtomicStore, Memcpy,
         AtomicRMW, CmpXchg, AtomicCompareExchange
<1>2. /\ self \in Slot /\ module \in Modules /\ ip \in DOMAIN module.code
      /\ ip \in Nat
      /\ src \in StateVectorType /\ svout \in StateVectorType
      /\ \A k \in Operand : value(k) \in Int
  BY <1>1, Executing DEF TypeInv, TypeOK, code
<1>3. /\ I.d \in Operand /\ I.a \in Operand /\ I.b \in Int /\ I.fn \in Nat
      /\ I.op \in {"add", "store", "call", "create", "join"} => I.b \in Operand
      /\ I.op \in {"alloca", "malloc", "br"} => I.b \in Nat
  BY <1>2, InstructionFacts DEF I, code
<1>4. CASE ValueMapped
  <2>1. CASE executing("const") /\ resultsIn(setReg(svout, self, I.d, I.b))
    <3>1. setReg(svout, self, I.d, I.b) \in StateVectorType
      BY <1>2, <1>3, SetRegType
    <3> QED
      BY <1>1, <2>1, <3>1, ResultsInType
  <2>2. CASE executing("add") /\ resultsIn(setReg(svout, self, I.d, value(I.a) + value(I.b)))
    <3>1. I.b \in Operand
      BY <1>3, <2>2 DEF executing
    <3>2. value(I.a) + value(I.b) \in Int
      BY <1>2, <1>3, <3>1
    <3>3. setReg(svout, self, I.d, value(I.a) + value(I.b)) \in StateVectorType
      BY <1>2, <1>3, <3>2, SetRegType
    <3> QED
      BY <1>1, <2>2, <3>3, ResultsInType
  <2> QED
    BY <1>4, <2>1, <2>2 DEF ValueMapped
<1>5. CASE AllocateMemory
  <2> DEFINE ptr == makePointer(self, svout.msize[self])
  <2>1. I.b \in Nat
    BY <1>3, <1>5 DEF AllocateMemory, executing
  <2>2. svout.msize[self] \in Nat
    BY <1>2 DEF StateVectorType
  <2>3. ptr \in Int
    BY <1>2, <2>2, ConstantsAssumption DEF makePointer, Slot
  <2>4. allocate(svout, self, I.b) \in StateVectorType
    BY <1>2, <2>1, AllocateType
  <2> HIDE DEF ptr
  <2>5. setReg(allocate(svout, self, I.b), self, I.d, ptr) \in StateVectorType
    BY <1>2, <1>3, <2>3, <2>4, SetRegType
  <2>6. resultsIn(setReg(allocate(svout, self, I.b), self, I.d, ptr))
    BY <1>5 DEF AllocateMemory, ptr
  <2> QED
    BY <1>1, <2>5, <2>6, ResultsInType
<1>6. CASE Load
  <2>1. loadFrom(svout, value(I.a)) \in Int
    BY <1>2, <1>3, <1>6, LoadType DEF Load
  <2>2. setReg(svout, self, I.d, loadFrom(svout, value(I.a))) \in StateVectorType
    BY <1>2, <1>3, <2>1, SetRegType
  <2> QED
    BY <1>1, <1>6, <2>2, ResultsInType DEF Load
<1>7. CASE Store
  <2>1. I.b \in Operand
    BY <1>3, <1>7 DEF Store, executing
  <2>2. value(I.a) \in Int /\ value(I.b) \in Int
    BY <1>2, <1>3, <2>1
  <2>3. storeTo(svout, value(I.a), value(I.b)) \in StateVectorType
    BY <1>2, <1>7, <2>2, StoreType DEF Store
  <2> QED
    BY <1>1, <1>7, <2>3, ResultsInType DEF Store
<1>8. CASE Branch
  <2> DEFINE target == IF I.a = NoReg \/ value(I.a) # 0 THEN I.fn ELSE I.b
             phis   == phisOn(module, ip, target)
  <2>1. I.op = "br"
    BY <1>8 DEF Branch, executing
  <2>2. target \in Nat
    BY <1>3, <2>1
  <2>3. \A e \in phis : e.a \in Operand
    BY <1>2, ModuleFacts DEF phisOn
  <2>4. resultsIn(storePHIs(setPC(svout, self, target), self, phis))
    BY <1>8 DEF Branch
  <2> HIDE DEF target, phis
  <2>5. setPC(svout, self, target) \in StateVectorType
    BY <1>2, <2>2, SetPCType
  <2>6. storePHIs(setPC(svout, self, target), self, phis) \in StateVectorType
    BY <1>2, <2>3, <2>5, StorePHIsType
  <2> QED
    BY <1>1, <2>4, <2>6, ResultsInType
<1>9. CASE Unreachable
  BY <1>1, <1>2, <1>9, ResultsInType DEF Unreachable
<1>10. CASE Call
  <2>1. I.b \in Operand
    BY <1>3, <1>10 DEF Call, executing
  <2>2. pushStackFrame(svout, self, I.fn, I.a, I.b, I.d) \in StateVectorType
    BY <1>2, <1>3, <2>1, PushStackFrameType
  <2> QED
    BY <1>1, <1>10, <2>2, ResultsInType DEF Call
<1>11. CASE Return
  <2>1. CASE svout.stk[self] # <<>>
    <3>1. popStackFrame(svout, self, I.a) \in StateVectorType
      BY <1>2, <1>3, <2>1, PopStackFrameType
    <3> QED
      BY <1>1, <1>11, <2>1, <3>1, ResultsInType DEF Return
  <2>2. CASE svout.stk[self] = <<>>
    <3>1. src.tid[self] \in Tid
      BY <1>2 DEF StateVectorType
    <3>2. endThread(svout, self, src.tid[self], I.a) \in StateVectorType
      BY <1>2, <1>3, <3>1, EndThreadType
    <3> QED
      BY <1>1, <1>11, <2>2, <3>2, ResultsInType DEF Return
  <2> QED
    BY <2>1, <2>2
<1>12. CASE External
  BY <1>1, <1>2, <1>12, ResultsInType DEF External
<1>13. CASE AssertFail
  <2>1. [svout EXCEPT !.asserted = TRUE] \in StateVectorType
    BY <1>2 DEF StateVectorType
  <2> QED
    BY <1>1, <1>13, <2>1, ResultsInType DEF AssertFail
<1>14. CASE PthreadCreate
  <2>1. I.b \in Operand
    BY <1>3, <1>14 DEF PthreadCreate, executing
  <2>2. value(I.a) \in Int /\ value(I.b) \in Int
    BY <1>2, <1>3, <2>1
  <2>3. PICK q \in Slot : resultsIn(createThread(svout, q, I.fn, value(I.b), value(I.a)))
    BY <1>14 DEF PthreadCreate
  <2>4. createThread(svout, q, I.fn, value(I.b), value(I.a)) \in StateVectorType
    BY <1>2, <1>3, <1>14, <2>2, CreateThreadType DEF PthreadCreate
  <2> QED
    BY <1>1, <2>3, <2>4, ResultsInType
<1>15. CASE PthreadCreateFull
  <2>1. setPC(svout, self, ip) \in StateVectorType
    BY <1>2, SetPCType
  <2> QED
    BY <1>1, <1>15, <2>1, ResultsInType DEF PthreadCreateFull
<1>16. CASE PthreadJoin
  <2> DEFINE returned == setReg(svout, self, I.d, 0)
             ptr      == operand(returned, self, I.b)
             res      == svout.tres[value(I.a)].value
             stored   == IF ptr = 0 THEN returned ELSE storeTo(returned, ptr, res)
  <2>1. I.b \in Operand
    BY <1>3, <1>16 DEF PthreadJoin, executing
  <2>2. returned \in StateVectorType
    BY <1>2, <1>3, SetRegType
  <2>3. ptr \in Int
    BY <1>2, <2>1, <2>2, OperandType
  <2>4. value(I.a) \in Tid
    BY <1>16 DEF PthreadJoin, hasResult
  <2>5. res \in Int
    BY <1>2, <2>4 DEF StateVectorType
  <2>6. /\ ptr # 0 => isPointer(ptr)
        /\ resultsIn(stored)
    BY <1>16 DEF PthreadJoin
  <2> HIDE DEF returned, ptr, res
  <2>7. stored \in StateVectorType
    BY <2>2, <2>3, <2>5, <2>6, StoreType
  <2> QED
    BY <1>1, <2>6, <2>7, ResultsInType
<1>17. CASE PthreadJoinBlocked
  BY <1>1, <1>17, EndNoReportType DEF PthreadJoinBlocked
<1>18. CASE Atomic
  BY <1>18, TypeAtomic
<1>19. CASE ExtractValue
  <2>1. I.a + I.b \in Operand
    BY <1>2, <1>19, InstructionFacts DEF ExtractValue, executing, I, code, Operand
  <2>2. setReg(svout, self, I.d, value(I.a + I.b)) \in StateVectorType
    BY <1>2, <1>3, <2>1, SetRegType
  <2> QED
    BY <1>1, <1>19, <2>2, ResultsInType DEF ExtractValue
<1> QED
  BY <1>4, <1>5, <1>6, <1>7, <1>8, <1>9, <1>10, <1>11, <1>12, <1>13, <1>14, <1>15, <1>16,
     <1>17, <1>18, <1>19 DEF Execute

(* Every step keeps the types. *)
LEMMA TypeStep == TypeInv /\ [Next]_vars => TypeInv'
<1> SUFFICES ASSUME TypeInv, [Next]_vars PROVE TypeInv'
  OBVIOUS
<1>1. CASE ConstructorStart \/ MainStart \/ IncrementStatus
  BY <1>1, TypeNextstates
<1>2. CASE EnterGroup \/ Upload \/ NoSuchPC
  BY <1>2, TypeGroups
<1>3. CASE Execute
  BY <1>3, TypeExecute
<1>4. CASE UNCHANGED vars \/ EndState
  BY <1>4 DEF EndState, vars, TypeInv, TypeOK, GroupInCode, code
<1>5. ASSUME NEW q \in Slot, BeginStep(q)
      PROVE  TypeInv'
  BY <1>5 DEF BeginStep, TypeInv, TypeOK, GroupInCode, code
<1> QED
  BY <1>1, <1>2, <1>3, <1>4, <1>5 DEF Next, StepBody

(* In every state of every behaviour the state vectors have the layout of  *)
(* StateVectorType, whatever the modules, the number of slots and the      *)
(* sizes of registers and memory.                                          *)
THEOREM TypeCorrect == Spec => []TypeOK
<1>1. TypeInv => TypeOK
  BY DEF TypeInv
<1> QED
  BY <1>1, TypeInit, TypeStep, PTL DEF Spec

-----------------------------------------------------------------------------
(***************************************************************************)
(* Uniqueness of the identifiers of live threads.  A slot keeps the tid of *)
(* the thread it held last, and slots that no thread was put in have 0, so *)
(* the invariant is about all slots, not only live ones: two slots have    *)
(* the same tid only if that is 0, no tid is ahead of threadsStarted, and  *)
(* only slot 0, where main runs, may be live with tid 0.                   *)
(***************************************************************************)
TidsCounted(s)  == \A q \in Slot : s.tid[q] <= s.threadsStarted
TidsDistinct(s) == \A q1, q2 \in Slot : q1 # q2 /\ s.tid[q1] = s.tid[q2] => s.tid[q1] = 0

OnlyMainHasNone ==
  /\ \A q \in Slot \ {0} : src.pc[q] # 0 => src.tid[q] # 0
  /\ \A q \in Slot \ {0} : live(q) => svout.tid[q] # 0

TidsInv ==
  /\ TypeInv
  /\ TidsCounted(src) /\ TidsCounted(svout)
  /\ TidsDistinct(src) /\ TidsDistinct(svout)
  /\ OnlyMainHasNone

(* The thread table as an instruction of process p leaves it, unless it is *)
(* pthread_create.                                                         *)
OwnPCOnly(s, s2, p) ==
  /\ s2.tid = s.tid /\ s2.threadsStarted = s.threadsStarted
  /\ \A q \in Slot \ {p} : s2.pc[q] = s.pc[q]

(* The operations on the state vector that change no tid. *)
LEMMA OwnPCOnlyOperations ==
  ASSUME NEW s \in StateVectorType, NEW p \in Slot
  PROVE  /\ OwnPCOnly(s, s, p)
         /\ \A d, v : OwnPCOnly(s, setReg(s, p, d, v), p)
         /\ \A d, v, n : OwnPCOnly(s, setReg(allocate(s, p, n), p, d, v), p)
         /\ \A ptr, v : OwnPCOnly(s, storeTo(s, ptr, v), p)
         /\ \A d, v, ptr, w : OwnPCOnly(s, storeTo(setReg(s, p, d, v), ptr, w), p)
         /\ \A d, v, ptr, w : OwnPCOnly(s, setReg(storeTo(s, ptr, w), p, d, v), p)
         /\ \A d, v, d2, v2 : OwnPCOnly(s, setReg(setReg(s, p, d, v), p, d2, v2), p)
         /\ \A d, v, d2, v2, ptr, w :
              OwnPCOnly(s, setReg(setReg(storeTo(s, ptr, w), p, d, v), p, d2, v2), p)
         /\ \A l : OwnPCOnly(s, setPC(s, p, l), p)
         /\ \A l, phis : OwnPCOnly(s, storePHIs(setPC(s, p, l), p, phis), p)
         /\ \A e, a, b, d : OwnPCOnly(s, pushStackFrame(s, p, e, a, b, d), p)
         /\ \A v : OwnPCOnly(s, popStackFrame(s, p, v), p)
         /\ \A t, v : OwnPCOnly(s, endThread(s, p, t, v), p)
<1>1. OwnPCOnly(s, s, p)
  BY DEF StateVectorType, OwnPCOnly
<1>2. \A d, v : OwnPCOnly(s, setReg(s, p, d, v), p)
  BY DEF StateVectorType, OwnPCOnly, setReg
<1>3. \A d, v, n : OwnPCOnly(s, setReg(allocate(s, p, n), p, d, v), p)
  BY DEF StateVectorType, OwnPCOnly, setReg, allocate
<1>4. \A ptr, v : OwnPCOnly(s, storeTo(s, ptr, v), p)
  BY DEF StateVectorType, OwnPCOnly, storeTo
<1>5. \A d, v, ptr, w : OwnPCOnly(s, storeTo(setReg(s, p, d, v), ptr, w), p)
  BY DEF StateVectorType, OwnPCOnly, storeTo, setReg
<1>6. \A l : OwnPCOnly(s, setPC(s, p, l), p)
  BY DEF StateVectorType, OwnPCOnly, setPC
<1>7. \A l, phis : OwnPCOnly(s, storePHIs(setPC(s, p, l), p, phis), p)
  BY DEF StateVectorType, OwnPCOnly, setPC, storePHIs
<1>8. \A e, a, b, d : OwnPCOnly(s, pushStackFrame(s, p, e, a, b, d), p)
  BY DEF StateVectorType, OwnPCOnly, pushStackFrame
<1>9. \A v : OwnPCOnly(s, popStackFrame(s, p, v), p)
  BY DEF StateVectorType, OwnPCOnly, popStackFrame
<1>10. \A t, v : OwnPCOnly(s, endThread(s, p, t, v), p)
  BY DEF StateVectorType, OwnPCOnly, endThread
<1>11. \A d, v, ptr, w : OwnPCOnly(s, setReg(storeTo(s, ptr, w), p, d, v), p)
  BY DEF StateVectorType, OwnPCOnly, storeTo, setReg
<1>12. \A d, v, d2, v2 : OwnPCOnly(s, setReg(setReg(s, p, d, v), p, d2, v2), p)
  BY DEF StateVectorType, OwnPCOnly, setReg
<1>13. \A d, v, d2, v2, ptr, w :
         OwnPCOnly(s, setReg(setReg(storeTo(s, ptr, w), p, d, v), p, d2, v2), p)
  BY DEF StateVectorType, OwnPCOnly, storeTo, setReg
<1> QED
  BY <1>1, <1>2, <1>3, <1>4, <1>5, <1>6, <1>7, <1>8, <1>9, <1>10, <1>11, <1>12, <1>13

(* An instruction that changes no tid. *)
LEMMA OwnPCOnlyTids ==
  ASSUME TidsInv, TypeInv', stepping # NoSlot, ip <= last,
         NEW s \in StateVectorType, resultsIn(s), OwnPCOnly(svout, s, self)
  PROVE  TidsInv'
<1>1. self \in Slot /\ svout \in StateVectorType /\ src' = src /\ svout' = s
      /\ stepping' = stepping /\ svout'.tid = svout.tid
      /\ svout'.threadsStarted = svout.threadsStarted
  BY Executing DEF TidsInv, resultsIn, OwnPCOnly
<1>2. TidsCounted(src)' /\ TidsCounted(svout)' /\ TidsDistinct(src)' /\ TidsDistinct(svout)'
  BY <1>1 DEF TidsInv, TidsCounted, TidsDistinct
<1>3. ASSUME NEW q \in Slot \ {0}, live(q)'
      PROVE  svout'.tid[q] # 0
  <2>1. CASE q = self
    BY <1>1, <2>1 DEF TidsInv, OnlyMainHasNone, live, self
  <2>2. CASE q # self
    <3>1. svout.pc[q] # 0
      BY <1>1, <1>3, <2>2 DEF live, OwnPCOnly, self
    <3> QED
      BY <1>1, <3>1 DEF TidsInv, OnlyMainHasNone, live
  <2> QED
    BY <2>1, <2>2
<1>4. OnlyMainHasNone'
  BY <1>1, <1>3 DEF TidsInv, OnlyMainHasNone
<1> QED
  BY <1>2, <1>4 DEF TidsInv

(* pthread_create: the new tid is the first beyond all others.             *)
LEMMA CreateTids ==
  ASSUME TidsInv, TypeInv', stepping # NoSlot, ip <= last,
         NEW q \in Slot, NEW entry, NEW arg, NEW ptr,
         createThread(svout, q, entry, arg, ptr) \in StateVectorType,
         resultsIn(createThread(svout, q, entry, arg, ptr))
  PROVE  TidsInv'
<1> DEFINE new == svout.threadsStarted + 1
<1>1. /\ svout \in StateVectorType /\ src' = src /\ stepping' = stepping
      /\ svout' = createThread(svout, q, entry, arg, ptr)
  BY DEF TidsInv, TypeInv, TypeOK, resultsIn
<1>2. /\ svout'.threadsStarted = new
      /\ svout'.tid = [svout.tid EXCEPT ![q] = new]
      /\ \A q2 \in Slot \ {q} : svout'.pc[q2] = svout.pc[q2]
  <2> DEFINE s == createThread(svout, q, entry, arg, ptr)
  <2>1. s.threadsStarted = new
    BY <1>1 DEF createThread, startFunction, storeTo, StateVectorType
  <2>2. s.tid = [svout.tid EXCEPT ![q] = new]
    BY <1>1 DEF createThread, startFunction, storeTo, StateVectorType
  <2>3. s.pc = [svout.pc EXCEPT ![q] = entry]
    BY <1>1 DEF createThread, startFunction, storeTo, StateVectorType
  <2>4. svout.pc \in [Slot -> Nat]
    BY <1>1 DEF StateVectorType
  <2> HIDE DEF s, new
  <2> QED
    BY <1>1, <2>1, <2>2, <2>3, <2>4 DEF s
<1>3. svout.threadsStarted \in Nat /\ \A q2 \in Slot : svout.tid[q2] \in Nat
  BY <1>1 DEF StateVectorType, Tid
<1>4. /\ svout'.tid[q] = new
      /\ \A q2 \in Slot \ {q} : svout'.tid[q2] = svout.tid[q2]
  BY <1>1, <1>2 DEF StateVectorType
<1>5. \A q2 \in Slot : svout.tid[q2] < new
  BY <1>3 DEF TidsInv, TidsCounted
<1> HIDE DEF new
<1>6. TidsCounted(svout)'
  BY <1>2, <1>3, <1>4, <1>5 DEF TidsCounted, new
<1>7. TidsDistinct(svout)'
  <2> SUFFICES ASSUME NEW q1 \in Slot, NEW q2 \in Slot, q1 # q2, svout'.tid[q1] = svout'.tid[q2]
               PROVE  svout'.tid[q1] = 0
    BY DEF TidsDistinct
  <2>1. q1 # q /\ q2 # q
    BY <1>3, <1>4, <1>5 DEF new
  <2> QED
    BY <1>4, <2>1 DEF TidsInv, TidsDistinct
<1>8. ASSUME NEW q2 \in Slot \ {0}, live(q2)'
      PROVE  svout'.tid[q2] # 0
  <2>1. CASE q2 = q
    BY <1>3, <1>4, <2>1 DEF new
  <2>2. CASE q2 # q
    <3>1. live(q2)
      BY <1>1, <1>2, <1>8, <2>2 DEF live
    <3> QED
      BY <1>4, <2>2, <3>1 DEF TidsInv, OnlyMainHasNone
  <2> QED
    BY <2>1, <2>2
<1>9. OnlyMainHasNone' /\ TidsCounted(src)' /\ TidsDistinct(src)'
  BY <1>1, <1>8 DEF TidsInv, OnlyMainHasNone, TidsCounted, TidsDistinct
<1> QED
  BY <1>6, <1>7, <1>9 DEF TidsInv

(* A new state that DMC sees, made from src or svout with the same tids.   *)
LEMMA TransitionTids ==
  ASSUME TypeInv', NEW s \in StateVectorType, transition(s),
         TidsCounted(s), TidsDistinct(s),
         \A q \in Slot \ {0} : s.pc[q] # 0 => s.tid[q] # 0
  PROVE  TidsInv'
<1>1. src' = s /\ svout' = s /\ stepping' = NoSlot
  BY DEF transition
<1>2. \A q \in Slot : q # NoSlot
  BY DEF Slot, NoSlot
<1>3. \A q \in Slot : live(q)' => s.pc[q] # 0
  BY <1>1, <1>2 DEF live
<1>4. OnlyMainHasNone'
  BY <1>1, <1>3 DEF OnlyMainHasNone
<1> QED
  BY <1>1, <1>4 DEF TidsInv, TidsCounted, TidsDistinct

(* A call of model_step that returns 0. *)
LEMMA EndNoReportTids ==
  ASSUME TidsInv, TypeInv', endNoReport
  PROVE  TidsInv'
<1>1. src' = src /\ svout' = src /\ stepping' = NoSlot
  BY DEF endNoReport
<1>2. \A q \in Slot : q # NoSlot
  BY DEF Slot, NoSlot
<1>3. \A q \in Slot : live(q)' => src.pc[q] # 0
  BY <1>1, <1>2 DEF live
<1>4. OnlyMainHasNone'
  BY <1>1, <1>3 DEF OnlyMainHasNone, TidsInv
<1> QED
  BY <1>1, <1>4 DEF TidsInv, TidsCounted, TidsDistinct

(* The initial states: all tids are 0, and no slot is live. *)
LEMMA TidsInit == Init => TidsInv
<1> SUFFICES ASSUME Init PROVE TidsInv
  OBVIOUS
<1>1. TypeInv
  BY TypeInit
<1>2. svout = src /\ src = initialState(module.globals) /\ ip = 1 /\ last = 0
  BY DEF Init
<1>3. \A q \in Slot : src.tid[q] = 0 /\ src.pc[q] = 0
  BY <1>2 DEF initialState
<1>4. src.threadsStarted = 1
  BY <1>2 DEF initialState
<1>5. TidsCounted(src) /\ TidsDistinct(src)
  BY <1>3, <1>4 DEF TidsCounted, TidsDistinct
<1>6. OnlyMainHasNone
  BY <1>2, <1>3 DEF OnlyMainHasNone, live
<1> QED
  BY <1>1, <1>2, <1>5, <1>6 DEF TidsInv

(* dmc_nextstates: constructors and main are started in slot 0. *)
LEMMA TidsNextstates ==
  ASSUME TidsInv, TypeInv', ConstructorStart \/ MainStart \/ IncrementStatus
  PROVE  TidsInv'
<1>1. src \in StateVectorType /\ module \in Modules /\ src' \in StateVectorType
  BY DEF TidsInv, TypeInv, TypeOK
<1>2. transition(src')
  BY DEF ConstructorStart, MainStart, IncrementStatus, transition
<1>3. /\ src'.tid = src.tid /\ src'.threadsStarted = src.threadsStarted
      /\ \A q \in Slot \ {0} : src'.pc[q] = src.pc[q]
  <2>1. CASE ConstructorStart
    BY <1>1, <2>1, SlotZero DEF ConstructorStart, transition, startFunction, StateVectorType
  <2>2. CASE MainStart
    BY <1>1, <2>2, SlotZero DEF MainStart, transition, startFunction, StateVectorType
  <2>3. CASE IncrementStatus
    BY <1>1, <2>3 DEF IncrementStatus, transition, StateVectorType
  <2> QED
    BY <2>1, <2>2, <2>3
<1>4. TidsCounted(src)' /\ TidsDistinct(src)'
  BY <1>3 DEF TidsInv, TidsCounted, TidsDistinct
<1>5. src' = svout' /\ stepping' = NoSlot
  BY <1>2 DEF transition
<1>6. \A q \in Slot : q # NoSlot
  BY DEF Slot, NoSlot
<1>7. OnlyMainHasNone'
  BY <1>3, <1>5, <1>6 DEF TidsInv, OnlyMainHasNone, live
<1> QED
  BY <1>4, <1>5, <1>7 DEF TidsInv, TidsCounted, TidsDistinct

(* The loop of model_step over transition groups. *)
LEMMA TidsGroups ==
  ASSUME TidsInv, TypeInv', EnterGroup \/ Upload \/ NoSuchPC
  PROVE  TidsInv'
<1>1. svout \in StateVectorType /\ module \in Modules /\ self \in Slot
  BY DEF TidsInv, TypeInv, TypeOK, EnterGroup, Upload, NoSuchPC, betweenGroups, self
<1>2. CASE EnterGroup
  <2>1. pc \in DOMAIN code
    BY <1>2 DEF EnterGroup, isFront, TidsInv, TypeInv, TypeOK
  <2>2. DOMAIN code = 1..Len(code)
    BY <1>1, ModuleFacts DEF code
  <2>3. live(self)
    BY <2>1, <2>2 DEF live, pc
  <2>4. /\ svout'.tid = svout.tid /\ svout'.threadsStarted = svout.threadsStarted
        /\ \A q \in Slot \ {self} : svout'.pc[q] = svout.pc[q]
        /\ src' = src /\ stepping' = stepping
    BY <1>1, <1>2 DEF EnterGroup, setPC, StateVectorType
  <2>5. \A q \in Slot : live(q)' => live(q)
    BY <2>3, <2>4 DEF live, self
  <2>6. OnlyMainHasNone'
    BY <2>4, <2>5 DEF TidsInv, OnlyMainHasNone
  <2> QED
    BY <2>4, <2>6 DEF TidsInv, TidsCounted, TidsDistinct
<1>3. CASE Upload
  <2>1. \A q \in Slot \ {0} : svout.pc[q] # 0 => svout.tid[q] # 0
    BY DEF TidsInv, OnlyMainHasNone, live
  <2> QED
    BY <1>1, <1>3, <2>1, TransitionTids DEF Upload, TidsInv
<1>4. CASE NoSuchPC
  BY <1>4, EndNoReportTids DEF NoSuchPC
<1> QED
  BY <1>2, <1>3, <1>4

(* generateNextStateForInstruction: only pthread_create touches a tid.     *)
LEMMA TidsExecute ==
  ASSUME TidsInv, TypeInv', Execute
  PROVE  TidsInv'
<1>1. stepping # NoSlot /\ ip <= last
  BY DEF Execute, executing, ValueMapped, AllocateMemory, Load, Store, Branch, Unreachable,
         Call, Return, External, AssertFail, PthreadCreate, PthreadCreateFull,
         PthreadJoin, PthreadJoinBlocked, ExtractValue, Atomic, AtomicLoad, AtomicStore, Memcpy,
         AtomicRMW, CmpXchg, AtomicCompareExchange
<1>2. self \in Slot /\ svout \in StateVectorType
  BY <1>1, Executing DEF TidsInv
<1>3. CASE PthreadCreate
  <2>1. PICK q \in Slot : resultsIn(createThread(svout, q, I.fn, value(I.b), value(I.a)))
    BY <1>3 DEF PthreadCreate
  <2>2. svout' = createThread(svout, q, I.fn, value(I.b), value(I.a)) /\ svout' \in StateVectorType
    BY <2>1 DEF resultsIn, TypeInv, TypeOK
  <2> QED
    BY <1>1, <2>1, <2>2, CreateTids
<1>4. CASE PthreadJoinBlocked
  BY <1>4, EndNoReportTids DEF PthreadJoinBlocked
<1>5. CASE ~(PthreadCreate \/ PthreadJoinBlocked)
  <2>1. PICK s : resultsIn(s) /\ OwnPCOnly(svout, s, self)
    <3>1. CASE ValueMapped
      BY <1>2, <3>1, OwnPCOnlyOperations DEF ValueMapped
    <3>2. CASE AllocateMemory
      BY <1>2, <3>2, OwnPCOnlyOperations DEF AllocateMemory
    <3>3. CASE Load
      BY <1>2, <3>3, OwnPCOnlyOperations DEF Load
    <3>4. CASE Store
      BY <1>2, <3>4, OwnPCOnlyOperations DEF Store
    <3>5. CASE Branch
      BY <1>2, <3>5, OwnPCOnlyOperations DEF Branch
    <3>6. CASE Unreachable \/ External
      BY <1>2, <3>6, OwnPCOnlyOperations DEF Unreachable, External
    <3>7. CASE Call
      BY <1>2, <3>7, OwnPCOnlyOperations DEF Call
    <3>8. CASE Return
      BY <1>2, <3>8, OwnPCOnlyOperations DEF Return
    <3>9. CASE AssertFail
      <4> DEFINE failed == [svout EXCEPT !.asserted = TRUE]
      <4>1. resultsIn(failed)
        BY <3>9 DEF AssertFail
      <4>2. failed.tid = svout.tid /\ failed.threadsStarted = svout.threadsStarted
            /\ failed.pc = svout.pc
        BY <1>2 DEF StateVectorType
      <4> HIDE DEF failed
      <4>3. OwnPCOnly(svout, failed, self)
        BY <4>2 DEF OwnPCOnly
      <4> QED
        BY <4>1, <4>3
    <3>10. CASE PthreadCreateFull
      BY <1>2, <3>10, OwnPCOnlyOperations DEF PthreadCreateFull
    <3>11. CASE PthreadJoin
      BY <1>2, <3>11, OwnPCOnlyOperations DEF PthreadJoin
    <3>12. CASE AtomicLoad \/ AtomicStore \/ Memcpy \/ AtomicRMW
      BY <1>2, <3>12, OwnPCOnlyOperations DEF AtomicLoad, AtomicStore, Memcpy, copyCell, AtomicRMW
    <3>13. CASE CmpXchg
      BY <1>2, <3>13, OwnPCOnlyOperations DEF CmpXchg
    <3>14. CASE AtomicCompareExchange
      BY <1>2, <3>14, OwnPCOnlyOperations DEF AtomicCompareExchange
    <3>15. CASE ExtractValue
      BY <1>2, <3>15, OwnPCOnlyOperations DEF ExtractValue
    <3> QED
      BY <1>5, <3>1, <3>2, <3>3, <3>4, <3>5, <3>6, <3>7, <3>8, <3>9, <3>10, <3>11, <3>12,
         <3>13, <3>14, <3>15 DEF Execute, Atomic
  <2>2. s \in StateVectorType
    BY <2>1 DEF resultsIn, TypeInv, TypeOK
  <2> QED
    BY <1>1, <2>1, <2>2, OwnPCOnlyTids
<1> QED
  BY <1>3, <1>4, <1>5

(* Every step keeps the invariant. *)
LEMMA TidsStep == TidsInv /\ [Next]_vars => TidsInv'
<1> SUFFICES ASSUME TidsInv, [Next]_vars PROVE TidsInv'
  OBVIOUS
<1>1. TypeInv'
  BY TypeStep DEF TidsInv
<1>2. CASE ConstructorStart \/ MainStart \/ IncrementStatus
  BY <1>1, <1>2, TidsNextstates
<1>3. CASE EnterGroup \/ Upload \/ NoSuchPC
  BY <1>1, <1>3, TidsGroups
<1>4. CASE Execute
  BY <1>1, <1>4, TidsExecute
<1>5. CASE UNCHANGED vars \/ EndState
  BY <1>1, <1>5 DEF EndState, vars, TidsInv, TidsCounted, TidsDistinct, OnlyMainHasNone, live
<1>6. ASSUME NEW q \in Slot, BeginStep(q)
      PROVE  TidsInv'
  <2>1. /\ src' = src /\ svout' = src /\ stepping' = q /\ ip' = ip /\ last' = last
        /\ src.pc[q] # 0
    BY <1>6 DEF BeginStep
  <2>2. \A q2 \in Slot : live(q2)' => src.pc[q2] # 0
    BY <2>1 DEF live
  <2>3. OnlyMainHasNone'
    BY <2>1, <2>2 DEF TidsInv, OnlyMainHasNone
  <2> QED
    BY <1>1, <2>1, <2>3 DEF TidsInv, TidsCounted, TidsDistinct
<1> QED
  BY <1>2, <1>3, <1>4, <1>5, <1>6 DEF Next, StepBody

(* No two live threads ever have the same identifier, although slots and   *)
(* the pc and tid in them are reused without being cleared: for any number *)
(* of slots, threads and modules.                                          *)
THEOREM LiveTidsAreUnique == Spec => []LiveTidsUnique
<1>1. TidsInv => LiveTidsUnique
  <2> SUFFICES ASSUME TidsInv, NEW q1 \in Slot, NEW q2 \in Slot,
                      q1 # q2, live(q1), live(q2), svout.tid[q1] = svout.tid[q2]
               PROVE  FALSE
    BY DEF LiveTidsUnique
  <2>1. svout.tid[q1] = 0 /\ svout.tid[q2] = 0
    BY DEF TidsInv, TidsDistinct
  <2> QED
    BY <2>1 DEF TidsInv, OnlyMainHasNone
<1> QED
  BY <1>1, TidsInit, TidsStep, PTL DEF Spec

-----------------------------------------------------------------------------
(* Threads. *)

(* The thread table untouched, and untouched but for the pc of process p.  *)
SameTable(s, s2) ==
  /\ s2.tid = s.tid /\ s2.threadsStarted = s.threadsStarted
  /\ s2.tres = s.tres /\ s2.status = s.status

SameThreads(s, s2) == SameTable(s, s2) /\ s2.pc = s.pc

SameButPC(s, s2, p) == SameTable(s, s2) /\ \A q \in Slot \ {p} : s2.pc[q] = s.pc[q]

-----------------------------------------------------------------------------
(* Operations on registers and memory. *)
LEMMA DataOperations ==
  ASSUME NEW s \in StateVectorType, NEW p \in Slot
  PROVE  /\ SameThreads(s, s)
         /\ SameThreads(s, [s EXCEPT !.asserted = TRUE])
         /\ \A d, v : SameThreads(s, setReg(s, p, d, v))
         /\ \A d, v, n : SameThreads(s, setReg(allocate(s, p, n), p, d, v))
         /\ \A ptr, v : SameThreads(s, storeTo(s, ptr, v))
         /\ \A d, v, ptr, w : SameThreads(s, storeTo(setReg(s, p, d, v), ptr, w))
         /\ \A d, v, ptr, w : SameThreads(s, setReg(storeTo(s, ptr, w), p, d, v))
         /\ \A d, v, d2, v2 : SameThreads(s, setReg(setReg(s, p, d, v), p, d2, v2))
         /\ \A d, v, d2, v2, ptr, w :
              SameThreads(s, setReg(setReg(storeTo(s, ptr, w), p, d, v), p, d2, v2))
<1> USE DEF StateVectorType, SameThreads, SameTable
<1>1. SameThreads(s, s) /\ SameThreads(s, [s EXCEPT !.asserted = TRUE])
  OBVIOUS
<1>2. \A d, v : SameThreads(s, setReg(s, p, d, v))
  BY DEF setReg
<1>3. \A d, v, n : SameThreads(s, setReg(allocate(s, p, n), p, d, v))
  BY DEF setReg, allocate
<1>4. \A ptr, v : SameThreads(s, storeTo(s, ptr, v))
  BY DEF storeTo
<1>5. \A d, v, ptr, w : SameThreads(s, storeTo(setReg(s, p, d, v), ptr, w))
  BY DEF storeTo, setReg
<1>6. \A d, v, ptr, w : SameThreads(s, setReg(storeTo(s, ptr, w), p, d, v))
  BY DEF storeTo, setReg
<1>7. \A d, v, d2, v2 : SameThreads(s, setReg(setReg(s, p, d, v), p, d2, v2))
  BY DEF setReg
<1>8. \A d, v, d2, v2, ptr, w :
        SameThreads(s, setReg(setReg(storeTo(s, ptr, w), p, d, v), p, d2, v2))
  BY DEF storeTo, setReg
<1> QED
  BY <1>1, <1>2, <1>3, <1>4, <1>5, <1>6, <1>7, <1>8

(* Operations that set the pc of the process that executes. *)
LEMMA ControlOperations ==
  ASSUME NEW s \in StateVectorType, NEW p \in Slot
  PROVE  /\ SameButPC(s, s, p)
         /\ SameButPC(s, [s EXCEPT !.asserted = TRUE], p)
         /\ \A l : SameButPC(s, setPC(s, p, l), p)
         /\ \A l, phis : SameButPC(s, storePHIs(setPC(s, p, l), p, phis), p)
         /\ \A e, a, b, d : SameButPC(s, pushStackFrame(s, p, e, a, b, d), p)
         /\ \A v : SameButPC(s, popStackFrame(s, p, v), p)
<1> USE DEF StateVectorType, SameButPC, SameTable
<1>1. SameButPC(s, s, p) /\ SameButPC(s, [s EXCEPT !.asserted = TRUE], p)
  OBVIOUS
<1>2. \A l : SameButPC(s, setPC(s, p, l), p)
  BY DEF setPC
<1>3. \A l, phis : SameButPC(s, storePHIs(setPC(s, p, l), p, phis), p)
  BY DEF setPC, storePHIs
<1>4. \A e, a, b, d : SameButPC(s, pushStackFrame(s, p, e, a, b, d), p)
  BY DEF pushStackFrame
<1>5. \A v : SameButPC(s, popStackFrame(s, p, v), p)
  BY DEF popStackFrame
<1> QED
  BY <1>1, <1>2, <1>3, <1>4, <1>5

(* The thread table as endThread leaves it. *)
LEMMA EndThreadEffect ==
  ASSUME NEW s \in StateVectorType, NEW p \in Slot, NEW t \in Tid, NEW v \in Operand
  PROVE  LET s2 == endThread(s, p, t, v)
         IN  /\ s2.tid = s.tid /\ s2.threadsStarted = s.threadsStarted /\ s2.status = s.status
             /\ s2.pc[p] = 0 /\ \A q \in Slot \ {p} : s2.pc[q] = s.pc[q]
             /\ \A t2 \in Tid \ {t} : s2.tres[t2] = s.tres[t2]
             /\ s2.tres[t] = s.tres[t] \/ s2.tres[t].status = t
<1> DEFINE new == IF v = NoReg THEN s.tres[t] ELSE [status |-> t, value |-> s.r[p][v]]
           s2  == endThread(s, p, t, v)
<1>1. /\ s2.tid = s.tid /\ s2.threadsStarted = s.threadsStarted /\ s2.status = s.status
      /\ s2.pc = [s.pc EXCEPT ![p] = 0]
      /\ s2.tres = [s.tres EXCEPT ![t] = new]
  BY DEF endThread, StateVectorType
<1>2. s.pc \in [Slot -> Nat] /\ s.tres \in [Tid -> [status : Tid, value : Int]]
  BY DEF StateVectorType
<1>3. new = s.tres[t] \/ new.status = t
  OBVIOUS
<1> HIDE DEF new, s2
<1>4. s2.tres[t] = new /\ \A t2 \in Tid \ {t} : s2.tres[t2] = s.tres[t2]
  BY <1>1, <1>2
<1>5. s2.pc[p] = 0 /\ \A q \in Slot \ {p} : s2.pc[q] = s.pc[q]
  BY <1>1, <1>2
<1> QED
  BY <1>1, <1>3, <1>4, <1>5 DEF s2

(* The thread table as createThread leaves it. *)
LEMMA CreateThreadEffect ==
  ASSUME NEW s \in StateVectorType, NEW q \in Slot, NEW entry, NEW arg, NEW ptr
  PROVE  LET s2 == createThread(s, q, entry, arg, ptr)
         IN  /\ s2.threadsStarted = s.threadsStarted + 1
             /\ s2.tres = s.tres /\ s2.status = s.status
             /\ s2.tid[q] = s.threadsStarted + 1 /\ s2.pc[q] = entry
             /\ \A q2 \in Slot \ {q} : s2.tid[q2] = s.tid[q2] /\ s2.pc[q2] = s.pc[q2]
<1> DEFINE new == s.threadsStarted + 1
           s2  == createThread(s, q, entry, arg, ptr)
<1>1. /\ s2.threadsStarted = new /\ s2.tres = s.tres /\ s2.status = s.status
      /\ s2.tid = [s.tid EXCEPT ![q] = new]
      /\ s2.pc = [s.pc EXCEPT ![q] = entry]
  BY DEF createThread, startFunction, storeTo, StateVectorType
<1>2. s.pc \in [Slot -> Nat] /\ s.tid \in [Slot -> Tid]
  BY DEF StateVectorType
<1> HIDE DEF new, s2
<1>3. /\ s2.tid[q] = new /\ s2.pc[q] = entry
      /\ \A q2 \in Slot \ {q} : s2.tid[q2] = s.tid[q2] /\ s2.pc[q2] = s.pc[q2]
  BY <1>1, <1>2
<1> QED
  BY <1>1, <1>3 DEF new, s2

-----------------------------------------------------------------------------
(* The instructions that end a group.                                      *)
GroupEnders == Terminators \cup (Calls \ {"malloc", "memcpy", "join"})

(* What generateNextStateForInstruction does to the thread table: nothing, *)
(* or, at the end of a group, the pc of the own process set, the own       *)
(* thread ended or another one created.                                    *)
Continues ==
  /\ ip' = ip + 1
  /\ UNCHANGED <<module, fronts, src, stepping, last, emitted, refused>>

Ends    == I.op = "ret" /\ svout' = endThread(svout, self, src.tid[self], I.a)
Creates == /\ I.op = "create" /\ svout.threadsStarted < MaxTid
           /\ \E q \in freeSlots(svout), arg, ptr \in Int :
                svout' = createThread(svout, q, I.fn, arg, ptr)

LEMMA ExecuteEffects ==
  ASSUME TypeInv, Execute
  PROVE  /\ stepping # NoSlot /\ ip <= last
         /\ \/ endNoReport
            \/ /\ Continues
               /\ \/ I.op \notin GroupEnders /\ SameThreads(svout, svout')
                  \/ I.op \in GroupEnders /\ SameButPC(svout, svout', self)
                  \/ Ends
                  \/ Creates
<1>1. stepping # NoSlot /\ ip <= last
  BY DEF Execute, executing, ValueMapped, AllocateMemory, Load, Store, Branch, Unreachable,
         Call, Return, External, AssertFail, PthreadCreate, PthreadCreateFull,
         PthreadJoin, PthreadJoinBlocked, ExtractValue, Atomic, AtomicLoad, AtomicStore, Memcpy,
         AtomicRMW, CmpXchg, AtomicCompareExchange
<1>2. /\ self \in Slot /\ svout \in StateVectorType
      /\ \A k \in Operand : value(k) \in Int
      /\ I.a \in Operand /\ (I.op = "create" => I.b \in Operand)
  BY <1>1, Executing, InstructionFacts DEF TypeInv, TypeOK, code, I
<1>3. \A s : resultsIn(s) => Continues /\ svout' = s
  BY DEF resultsIn, Continues
<1>4. \A s, s2, p : SameThreads(s, s2) => SameButPC(s, s2, p)
  BY DEF SameThreads, SameButPC
<1>5. CASE \/ ValueMapped \/ AllocateMemory \/ Load \/ Store \/ ExtractValue
           \/ PthreadJoin \/ Atomic
  <2>1. \E s : resultsIn(s) /\ SameThreads(svout, s)
    <3>1. CASE ValueMapped \/ ExtractValue
      BY <1>2, <3>1, DataOperations DEF ValueMapped, ExtractValue
    <3>2. CASE AllocateMemory
      BY <1>2, <3>2, DataOperations DEF AllocateMemory
    <3>3. CASE Load \/ Store
      BY <1>2, <3>3, DataOperations DEF Load, Store
    <3>4. CASE PthreadJoin
      BY <1>2, <3>4, DataOperations DEF PthreadJoin
    <3>5. CASE AtomicLoad \/ AtomicStore \/ Memcpy \/ AtomicRMW
      BY <1>2, <3>5, DataOperations DEF AtomicLoad, AtomicStore, Memcpy, copyCell, AtomicRMW
    <3>6. CASE CmpXchg
      BY <1>2, <3>6, DataOperations DEF CmpXchg
    <3>7. CASE AtomicCompareExchange
      BY <1>2, <3>7, DataOperations DEF AtomicCompareExchange
    <3> QED
      BY <1>5, <3>1, <3>2, <3>3, <3>4, <3>5, <3>6, <3>7 DEF Atomic
  <2>2. Continues /\ SameThreads(svout, svout')
    BY <1>3, <2>1
  <2> QED
    BY <1>1, <1>4, <2>2
<1>6. CASE Branch \/ Unreachable \/ Call \/ External \/ AssertFail \/ PthreadCreateFull
  <2>1. \E s : resultsIn(s) /\ SameButPC(svout, s, self)
    BY <1>2, <1>6, ControlOperations
       DEF Branch, Unreachable, Call, External, AssertFail, PthreadCreateFull
  <2>2. I.op \in GroupEnders
    BY <1>6 DEF Branch, Unreachable, Call, External, AssertFail, PthreadCreateFull, executing,
                GroupEnders, Terminators, Calls
  <2> QED
    BY <1>1, <1>3, <2>1, <2>2
<1>7. CASE Return
  <2>1. I.op = "ret" /\ I.op \in GroupEnders
    BY <1>7 DEF Return, executing, GroupEnders, Terminators
  <2>2. CASE svout.stk[self] # <<>>
    <3>1. resultsIn(popStackFrame(svout, self, I.a))
      BY <1>7, <2>2 DEF Return
    <3>2. SameButPC(svout, popStackFrame(svout, self, I.a), self)
      BY <1>2, ControlOperations
    <3> QED
      BY <1>1, <1>3, <2>1, <3>1, <3>2
  <2>3. CASE svout.stk[self] = <<>>
    <3>1. resultsIn(endThread(svout, self, src.tid[self], I.a))
      BY <1>7, <2>3 DEF Return
    <3> QED
      BY <1>1, <1>3, <2>1, <3>1 DEF Ends
  <2> QED
    BY <2>2, <2>3
<1>8. CASE PthreadCreate
  <2>1. I.op = "create" /\ value(I.a) \in Int /\ value(I.b) \in Int
    BY <1>2, <1>8 DEF PthreadCreate, executing
  <2>2. PICK q \in Slot : /\ isFirstFree(svout, q)
                          /\ resultsIn(createThread(svout, q, I.fn, value(I.b), value(I.a)))
    BY <1>8 DEF PthreadCreate
  <2>3. /\ q \in freeSlots(svout) /\ Continues
        /\ svout' = createThread(svout, q, I.fn, value(I.b), value(I.a))
    BY <1>3, <2>2 DEF isFirstFree
  <2>4. Creates
    BY <1>8, <2>1, <2>3 DEF Creates, PthreadCreate
  <2> QED
    BY <1>1, <2>3, <2>4
<1>9. CASE PthreadJoinBlocked
  BY <1>1, <1>9 DEF PthreadJoinBlocked
<1> QED
  BY <1>5, <1>6, <1>7, <1>8, <1>9 DEF Execute

-----------------------------------------------------------------------------
(***************************************************************************)
(* One call of model_step: it works on a running state and on a process    *)
(* that is not at its end; and while a group runs, what is left of it ends *)
(* at its last instruction, and the stored pc is the location behind it,   *)
(* or 0 at the end of a block.                                             *)
(***************************************************************************)
InGroup  == stepping # NoSlot /\ ip <= last
AsCut    == \A k \in ip..(last - 1) : code[k].op \notin GroupEnders
PCStored == pc = IF code[last].op \in Terminators THEN 0 ELSE last + 1

StepInv ==
  /\ TidsInv
  /\ stepping = NoSlot => ip > last
  /\ stepping # NoSlot => running /\ src.pc[self] # 0 /\ svout.status = src.status
  /\ InGroup => AsCut /\ PCStored

(* Where an instruction that ends a group stands. *)
LEMMA EndersAreLast ==
  ASSUME StepInv, InGroup, I.op \in GroupEnders
  PROVE  ip = last
<1>1. ip \in Nat /\ last \in Nat /\ ip <= last
  BY DEF StepInv, TidsInv, TypeInv, TypeOK, InGroup
<1>2. ip \notin ip..(last - 1)
  BY DEF StepInv, AsCut, I
<1> QED
  BY <1>1, <1>2

LEMMA StepInvInit == Init => StepInv
BY TidsInit DEF Init, StepInv, InGroup

(* A new group: what GroupEnd says of it. *)
LEMMA StepInvEnterGroup ==
  ASSUME StepInv, TidsInv', EnterGroup
  PROVE  StepInv'
<1>1. /\ self \in Slot /\ svout \in StateVectorType /\ module \in Modules
      /\ stepping # NoSlot /\ pc \in DOMAIN code
  BY DEF StepInv, TidsInv, TypeInv, TypeOK, EnterGroup, betweenGroups, isFront, self
<1>2. code \in Seq(Instruction) /\ Len(code) \in Nat /\ code[Len(code)].op \in Terminators
  BY <1>1, ModuleFacts DEF code
<1>3. /\ groupEnd(code, pc) \in pc..Len(code)
      /\ \A k \in pc..(groupEnd(code, pc) - 1) : code[k].op \notin GroupEnders
  BY <1>1, <1>2, GroupEnd DEF GroupEnders
<1>4. /\ ip' = pc /\ last' = groupEnd(code, pc) /\ code' = code
      /\ stepping' = stepping /\ src' = src
      /\ svout' = setPC(svout, self, locationAfter(code, pc))
  BY DEF EnterGroup, code
<1>5. svout'.status = svout.status /\ svout'.pc[self] = locationAfter(code, pc)
  BY <1>1, <1>4 DEF setPC, StateVectorType
<1>6. AsCut'
  BY <1>3, <1>4 DEF AsCut
<1>7. self' = self
  BY <1>4 DEF self
<1>8. PCStored'
  BY <1>4, <1>5, <1>7 DEF PCStored, pc, locationAfter
<1>9. running' /\ src'.pc[self'] # 0 /\ svout'.status = src'.status
  BY <1>1, <1>4, <1>5, <1>7 DEF StepInv, running
<1> QED
  BY <1>1, <1>4, <1>6, <1>8, <1>9 DEF StepInv

(* One instruction: the own pc only changes at the end of the group. *)
LEMMA StepInvExecute ==
  ASSUME StepInv, TidsInv', Execute
  PROVE  StepInv'
<1>1. TypeInv
  BY DEF StepInv, TidsInv
<1>2. CASE endNoReport
  BY <1>2 DEF endNoReport, StepInv, InGroup
<1>3. CASE ~endNoReport
  <2>1. /\ stepping # NoSlot /\ ip <= last /\ Continues
        /\ \/ I.op \notin GroupEnders /\ SameThreads(svout, svout')
           \/ I.op \in GroupEnders /\ SameButPC(svout, svout', self)
           \/ Ends
           \/ Creates
    BY <1>1, <1>3, ExecuteEffects
  <2>2. /\ self \in Slot /\ svout \in StateVectorType /\ I.a \in Operand
        /\ src.tid[self] \in Tid /\ ip \in Nat /\ last \in Nat
    BY <1>1, <2>1, Executing, InstructionFacts DEF TypeInv, TypeOK, code, I, StateVectorType
  <2>3. svout'.status = svout.status
    <3>1. CASE Ends
      BY <2>2, <3>1, EndThreadEffect DEF Ends
    <3>2. CASE Creates
      BY <2>2, <3>2, CreateThreadEffect DEF Creates, freeSlots
    <3> QED
      BY <2>1, <3>1, <3>2 DEF SameThreads, SameButPC, SameTable
  <2>4. running' /\ src'.pc[self'] # 0 /\ svout'.status = src'.status
    BY <2>1, <2>3 DEF StepInv, Continues, running, self
  <2>5. ASSUME InGroup'
        PROVE  AsCut' /\ PCStored'
    <3>1. ip + 1 <= last /\ ip' = ip + 1 /\ last' = last /\ code' = code /\ self' = self
      BY <2>1, <2>5 DEF InGroup, Continues, code, self
    <3>2. I.op \notin GroupEnders
      BY <2>1, <2>2, <3>1, EndersAreLast DEF InGroup
    <3>3. SameThreads(svout, svout')
      BY <2>1, <3>2 DEF Ends, Creates, GroupEnders, Terminators, Calls
    <3>4. AsCut /\ PCStored
      BY <2>1 DEF StepInv, InGroup
    <3>5. AsCut'
      BY <2>2, <3>1, <3>4 DEF AsCut
    <3>6. PCStored'
      BY <3>1, <3>3, <3>4 DEF PCStored, pc, SameThreads
    <3> QED
      BY <3>5, <3>6
  <2> QED
    BY <2>1, <2>4, <2>5 DEF StepInv, Continues
<1> QED
  BY <1>2, <1>3

LEMMA StepInvStep == StepInv /\ [Next]_vars => StepInv'
<1> SUFFICES ASSUME StepInv, [Next]_vars PROVE StepInv'
  OBVIOUS
<1>1. TidsInv'
  BY TidsStep DEF StepInv
<1>2. CASE ConstructorStart \/ MainStart \/ IncrementStatus \/ Upload
  BY <1>1, <1>2 DEF ConstructorStart, MainStart, IncrementStatus, Upload, transition, StepInv, InGroup
<1>3. CASE EnterGroup
  BY <1>1, <1>3, StepInvEnterGroup
<1>4. CASE NoSuchPC
  BY <1>1, <1>4 DEF NoSuchPC, endNoReport, StepInv, InGroup
<1>5. CASE Execute
  BY <1>1, <1>5, StepInvExecute
<1>6. CASE UNCHANGED vars \/ EndState
  BY <1>1, <1>6 DEF EndState, vars, StepInv, InGroup, AsCut, PCStored, running, code, pc, self
<1>7. ASSUME NEW q \in Slot, BeginStep(q)
      PROVE  StepInv'
  <2>1. ip > last /\ ip \in Nat /\ last \in Nat
    BY <1>7 DEF BeginStep, StepInv, TidsInv, TypeInv, TypeOK
  <2>2. /\ running /\ src.pc[q] # 0 /\ stepping' = q /\ src' = src /\ svout' = src
        /\ ip' = ip /\ last' = last
    BY <1>7 DEF BeginStep
  <2>3. ~InGroup'
    BY <2>1, <2>2 DEF InGroup
  <2> QED
    BY <1>1, <2>1, <2>2, <2>3 DEF StepInv, running, self
<1> QED
  BY <1>2, <1>3, <1>4, <1>5, <1>6, <1>7 DEF Next, StepBody

LEMMA StepInvariant == Spec => []StepInv
<1> QED
  BY StepInvInit, StepInvStep, PTL DEF Spec

(* The slot of a process that calls pthread_create does not look free. *)
LEMMA CreatorIsNotFree ==
  ASSUME StepInv, InGroup, I.op = "create"
  PROVE  self \notin freeSlots(svout)
<1>1. I.op \in GroupEnders /\ I.op \notin Terminators
  BY DEF GroupEnders, Terminators, Calls
<1>2. ip = last
  BY <1>1, EndersAreLast
<1>3. pc = last + 1 /\ last \in Nat
  BY <1>1, <1>2 DEF StepInv, PCStored, I, TidsInv, TypeInv, TypeOK
<1> QED
  BY <1>3 DEF freeSlots, pc

(* pthread_create is the last of its group, so the pc stored before the    *)
(* group ran is not 0 and the creator's slot does not look free (line      *)
(* 1969, and createTransitionGroupsForInstruction, which ends a group at a *)
(* call), for any module and any number of slots.                          *)
THEOREM CreatorsKeepTheirSlots == Spec => []CreatorKeepsSlot
<1>1. StepInv => CreatorKeepsSlot
  BY CreatorIsNotFree DEF CreatorKeepsSlot, executing, InGroup
<1> QED
  BY <1>1, StepInvariant, PTL

-----------------------------------------------------------------------------
(***************************************************************************)
(* The results of threads.  main takes over slot 0 with the tid in it, so  *)
(* what follows holds when no thread was created before main starts: when  *)
(* the constructors of the module start none (generateMainStart, line 973).*)
(*                                                                         *)
(* A result is filed under a tid that was handed out, none under that of a *)
(* thread that lives, in src or in svout; and the results of src stay in   *)
(* svout while a call of model_step works on it.                           *)
(***************************************************************************)
MainComesFirst == src.status = STARTING_MAIN => src.threadsStarted = 1

Filed(s) ==
  /\ s.threadsStarted >= 1
  /\ \A q \in Slot : s.tid[q] # 0 => s.tid[q] >= 2
  /\ \A t \in Tid : hasResult(s, t) => t \in 2..s.threadsStarted

ResultsInv ==
  /\ StepInv
  /\ Filed(src) /\ Filed(svout)
  /\ \A q \in Slot : src.pc[q] # 0 => ~hasResult(src, src.tid[q])
  /\ \A q \in Slot : live(q) => ~hasResult(svout, svout.tid[q])
  /\ stepping # NoSlot =>
       /\ svout.tid[self] = src.tid[self]
       /\ \A t \in Tid : hasResult(src, t) => svout.tres[t] = src.tres[t]
  /\ src.status = START => src.threadsStarted = 1

LEMMA NoSlotIsNone == \A q \in Slot : q # NoSlot
BY DEF Slot, NoSlot

(* A step on svout that leaves tids and results alone. *)
LEMMA ResultsSame ==
  ASSUME ResultsInv, StepInv', stepping # NoSlot, SameTable(svout, svout'),
         src' = src, stepping' = stepping, \A q \in Slot : live(q)' => live(q)
  PROVE  ResultsInv'
<1>1. Filed(src)' /\ Filed(svout)'
  BY DEF ResultsInv, Filed, SameTable, hasResult
<1> QED
  BY <1>1 DEF ResultsInv, SameTable, hasResult, self

(* A call of model_step that returns 0. *)
LEMMA ResultsEndNoReport ==
  ASSUME ResultsInv, StepInv', endNoReport
  PROVE  ResultsInv'
<1>1. src' = src /\ svout' = src /\ stepping' = NoSlot
  BY DEF endNoReport
<1>2. \A q \in Slot : live(q)' => src.pc[q] # 0
  BY <1>1, NoSlotIsNone DEF live
<1> QED
  BY <1>1, <1>2 DEF ResultsInv, Filed, hasResult

(* A new state that DMC sees. *)
LEMMA ResultsTransition ==
  ASSUME StepInv', NEW s, transition(s), Filed(s), s.status # START,
         \A q \in Slot : s.pc[q] # 0 => ~hasResult(s, s.tid[q])
  PROVE  ResultsInv'
<1>1. src' = s /\ svout' = s /\ stepping' = NoSlot
  BY DEF transition
<1>2. \A q \in Slot : live(q)' => s.pc[q] # 0
  BY <1>1, NoSlotIsNone DEF live
<1> QED
  BY <1>1, <1>2 DEF ResultsInv, Filed, hasResult

LEMMA ResultsInit == Init => ResultsInv
<1> SUFFICES ASSUME Init PROVE ResultsInv
  OBVIOUS
<1>1. /\ StepInv /\ svout = src /\ src = initialState(module.globals)
      /\ stepping = NoSlot
  BY StepInvInit DEF Init
<1>2. /\ src.threadsStarted = 1
      /\ \A q \in Slot : src.tid[q] = 0 /\ src.pc[q] = 0
      /\ \A t \in Tid : src.tres[t].status = 0
  BY <1>1 DEF initialState
<1>3. Filed(src)
  BY <1>2 DEF Filed, hasResult
<1>4. \A t : ~hasResult(src, t)
  BY <1>2 DEF hasResult
<1> QED
  BY <1>1, <1>2, <1>3, <1>4 DEF ResultsInv

(* Constructors and main start when there is no result at all. *)
LEMMA ResultsNextstates ==
  ASSUME ResultsInv, MainComesFirst, StepInv', ConstructorStart \/ MainStart \/ IncrementStatus
  PROVE  ResultsInv'
<1>1. src \in StateVectorType /\ src' \in StateVectorType
  BY DEF ResultsInv, StepInv, TidsInv, TypeInv, TypeOK
<1>2. transition(src')
  BY DEF ConstructorStart, MainStart, IncrementStatus, transition
<1>3. /\ src'.tid = src.tid /\ src'.threadsStarted = src.threadsStarted
      /\ src'.tres = src.tres
  BY <1>1 DEF ConstructorStart, MainStart, IncrementStatus, transition, startFunction, StateVectorType
<1>4. src'.status # START
  BY <1>1 DEF ConstructorStart, MainStart, IncrementStatus, transition, startFunction,
              running, StateVectorType, START, RUNNING_CONSTRUCTORS, STARTING_MAIN, RUNNING_MAIN
<1>5. Filed(src')
  BY <1>3 DEF ResultsInv, Filed, hasResult
<1>6. \A q \in Slot : src'.pc[q] # 0 => ~hasResult(src', src'.tid[q])
  <2>1. CASE ConstructorStart \/ MainStart
    <3>1. src.threadsStarted = 1
      BY <2>1 DEF ConstructorStart, MainStart, ResultsInv, MainComesFirst
    <3>2. \A t \in Tid : ~hasResult(src', t)
      BY <1>3, <3>1, <1>5 DEF Filed
    <3> QED
      BY <1>1, <3>2 DEF StateVectorType
  <2>2. CASE IncrementStatus
    <3>1. src'.pc = src.pc
      BY <1>1, <2>2 DEF IncrementStatus, transition, StateVectorType
    <3> QED
      BY <1>3, <3>1 DEF ResultsInv, hasResult
  <2> QED
    BY <2>1, <2>2
<1> QED
  BY <1>2, <1>4, <1>5, <1>6, ResultsTransition

(* A thread ends: its result is filed under the tid it has. *)
LEMMA ResultsEnds ==
  ASSUME ResultsInv, StepInv', InGroup, Continues, Ends
  PROVE  ResultsInv'
<1> DEFINE t0 == src.tid[self]
<1>1. /\ TypeInv /\ TidsCounted(svout) /\ TidsDistinct(svout) /\ stepping # NoSlot
      /\ src.pc[self] # 0 /\ svout.tid[self] = t0 /\ svout \in StateVectorType
  BY DEF ResultsInv, StepInv, TidsInv, TypeInv, TypeOK, InGroup
<1>2. self \in Slot /\ t0 \in Tid /\ I.a \in Operand
  BY <1>1, Executing, InstructionFacts DEF InGroup, TypeInv, TypeOK, code, I, StateVectorType
<1>3. /\ svout'.tid = svout.tid /\ svout'.threadsStarted = svout.threadsStarted
      /\ svout'.pc[self] = 0 /\ \A q \in Slot \ {self} : svout'.pc[q] = svout.pc[q]
      /\ \A t \in Tid \ {t0} : svout'.tres[t] = svout.tres[t]
      /\ svout'.tres[t0] = svout.tres[t0] \/ svout'.tres[t0].status = t0
  BY <1>1, <1>2, EndThreadEffect DEF Ends
<1>4. src' = src /\ stepping' = stepping /\ self' = self /\ ip' = ip + 1 /\ last' = last
  BY DEF Continues, self
<1>5. ip = last /\ ip \in Nat
  BY <1>1, EndersAreLast DEF ResultsInv, Ends, GroupEnders, Terminators, TypeInv, TypeOK
<1>6. t0 \in Nat /\ svout.threadsStarted \in Nat /\ t0 <= svout.threadsStarted
  BY <1>1, <1>2 DEF TidsCounted, Tid, StateVectorType
<1> HIDE DEF t0
<1>7. Filed(svout)'
  <2>1. ASSUME NEW t \in Tid, hasResult(svout', t)
        PROVE  t \in 2..svout'.threadsStarted
    <3>1. CASE hasResult(svout, t)
      BY <1>3, <3>1 DEF ResultsInv, Filed
    <3>2. CASE ~hasResult(svout, t)
      <4>1. t = t0 /\ t0 # 0
        BY <1>3, <2>1, <3>2 DEF hasResult
      <4>2. t0 >= 2
        BY <1>1, <1>2, <4>1 DEF ResultsInv, Filed
      <4> QED
        BY <1>3, <1>6, <4>1, <4>2
    <3> QED
      BY <3>1, <3>2
  <2> QED
    BY <1>3, <2>1 DEF ResultsInv, Filed
<1>8. ASSUME NEW q \in Slot, live(q)'
      PROVE  ~hasResult(svout', svout'.tid[q])
  <2>1. q # self /\ live(q)
    BY <1>3, <1>4, <1>5, <1>8 DEF live, self
  <2>2. CASE svout.tid[q] = t0
    <3>1. svout'.tid[q] = 0
      BY <1>1, <1>2, <1>3, <2>1, <2>2 DEF TidsDistinct
    <3>2. 0 \notin 2..svout'.threadsStarted
      OBVIOUS
    <3> QED
      BY <1>7, <3>1, <3>2 DEF Filed, hasResult
  <2>3. CASE svout.tid[q] # t0
    BY <1>3, <2>1, <2>3 DEF ResultsInv, hasResult
  <2> QED
    BY <2>2, <2>3
<1>9. ~hasResult(src, t0)
  BY <1>1, <1>2 DEF ResultsInv, t0
<1>10. \A t \in Tid : hasResult(src, t) => svout'.tres[t] = src.tres[t]
  BY <1>1, <1>3, <1>9 DEF ResultsInv
<1>11. Filed(src)'
  BY <1>4 DEF ResultsInv, Filed, hasResult
<1> QED
  BY <1>1, <1>3, <1>4, <1>7, <1>8, <1>10, <1>11 DEF ResultsInv, t0, hasResult

(* A thread is created: there is no result under the new tid yet. *)
LEMMA ResultsCreates ==
  ASSUME ResultsInv, StepInv', InGroup, Continues, Creates
  PROVE  ResultsInv'
<1>1. PICK q \in freeSlots(svout), arg \in Int, ptr \in Int :
        svout' = createThread(svout, q, I.fn, arg, ptr)
  BY DEF Creates
<1>2. /\ svout \in StateVectorType /\ q \in Slot /\ stepping # NoSlot
      /\ svout.threadsStarted \in Nat
  <2>1. svout \in StateVectorType /\ stepping # NoSlot
    BY DEF ResultsInv, StepInv, TidsInv, TypeInv, TypeOK, InGroup
  <2>2. q \in Slot
    BY DEF freeSlots
  <2>3. svout.threadsStarted \in Nat
    BY <2>1 DEF StateVectorType, Tid
  <2> QED
    BY <2>1, <2>2, <2>3
<1>3. /\ svout'.threadsStarted = svout.threadsStarted + 1
      /\ svout'.tres = svout.tres
      /\ svout'.tid[q] = svout.threadsStarted + 1
      /\ \A q2 \in Slot \ {q} : svout'.tid[q2] = svout.tid[q2] /\ svout'.pc[q2] = svout.pc[q2]
  BY <1>1, <1>2, CreateThreadEffect
<1>4. src' = src /\ stepping' = stepping /\ self' = self
  BY DEF Continues, self
<1>5. self \in Slot \ {q}
  BY <1>2, CreatorIsNotFree DEF ResultsInv, Creates, StepInv, TidsInv, TypeInv, TypeOK, self
<1>6. \A t : hasResult(svout', t) <=> hasResult(svout, t)
  BY <1>3 DEF hasResult
<1>7. Filed(svout)'
  BY <1>2, <1>3, <1>6 DEF ResultsInv, Filed
<1>8. ASSUME NEW q2 \in Slot, live(q2)'
      PROVE  ~hasResult(svout', svout'.tid[q2])
  <2>1. CASE q2 = q
    <3>1. svout.threadsStarted + 1 \notin 2..svout.threadsStarted
      BY <1>2
    <3> QED
      BY <1>3, <1>6, <2>1, <3>1 DEF ResultsInv, Filed, hasResult
  <2>2. CASE q2 # q
    <3>1. live(q2)
      BY <1>3, <1>4, <1>8, <2>2 DEF live, InGroup
    <3> QED
      BY <1>3, <1>6, <2>2, <3>1 DEF ResultsInv
  <2> QED
    BY <2>1, <2>2
<1>9. Filed(src)'
  BY <1>4 DEF ResultsInv, Filed, hasResult
<1> QED
  BY <1>2, <1>3, <1>4, <1>5, <1>7, <1>8, <1>9 DEF ResultsInv, hasResult

(* One instruction. *)
LEMMA ResultsExecute ==
  ASSUME ResultsInv, StepInv', Execute
  PROVE  ResultsInv'
<1>1. TypeInv
  BY DEF ResultsInv, StepInv, TidsInv
<1>2. CASE endNoReport
  BY <1>2, ResultsEndNoReport
<1>3. CASE InGroup /\ Continues /\ SameButPC(svout, svout', self)
  <2>1. \A q \in Slot : live(q)' => live(q)
    BY <1>3 DEF SameButPC, live, InGroup, Continues, self
  <2> QED
    BY <1>3, <2>1, ResultsSame DEF SameButPC, InGroup, Continues
<1>4. CASE InGroup /\ Continues /\ Ends
  BY <1>4, ResultsEnds
<1>5. CASE InGroup /\ Continues /\ Creates
  BY <1>5, ResultsCreates
<1> QED
  BY <1>1, <1>2, <1>3, <1>4, <1>5, ExecuteEffects DEF InGroup, SameThreads, SameButPC

LEMMA ResultsStep == ResultsInv /\ MainComesFirst /\ [Next]_vars => ResultsInv'
<1> SUFFICES ASSUME ResultsInv, MainComesFirst, [Next]_vars PROVE ResultsInv'
  OBVIOUS
<1>1. StepInv'
  BY StepInvStep DEF ResultsInv
<1>2. CASE ConstructorStart \/ MainStart \/ IncrementStatus
  BY <1>1, <1>2, ResultsNextstates
<1>3. CASE EnterGroup
  <2>1. /\ self \in Slot /\ svout \in StateVectorType /\ module \in Modules
        /\ stepping # NoSlot /\ pc \in DOMAIN code
    BY <1>3 DEF ResultsInv, StepInv, TidsInv, TypeInv, TypeOK, EnterGroup, betweenGroups, isFront, self
  <2>2. SameButPC(svout, svout', self) /\ src' = src /\ stepping' = stepping
    BY <1>3, <2>1, ControlOperations DEF EnterGroup
  <2>3. pc # 0
    BY <2>1, ModuleFacts DEF code
  <2>4. \A q \in Slot : live(q)' => live(q)
    BY <2>2, <2>3 DEF live, SameButPC, self, pc
  <2> QED
    BY <1>1, <2>1, <2>2, <2>4, ResultsSame DEF SameButPC
<1>4. CASE Upload
  <2>1. svout.status # START
    BY <1>4 DEF Upload, betweenGroups, ResultsInv, StepInv, running, START,
                RUNNING_CONSTRUCTORS, RUNNING_MAIN
  <2>2. \A q \in Slot : svout.pc[q] # 0 => ~hasResult(svout, svout.tid[q])
    BY DEF ResultsInv, live
  <2> QED
    BY <1>1, <1>4, <2>1, <2>2, ResultsTransition DEF Upload, ResultsInv
<1>5. CASE NoSuchPC
  BY <1>1, <1>5, ResultsEndNoReport DEF NoSuchPC
<1>6. CASE Execute
  BY <1>1, <1>6, ResultsExecute
<1>7. CASE UNCHANGED vars \/ EndState
  BY <1>1, <1>7 DEF EndState, vars, ResultsInv, Filed, live, hasResult, self
<1>8. ASSUME NEW q \in Slot, BeginStep(q)
      PROVE  ResultsInv'
  <2>1. /\ src' = src /\ svout' = src /\ stepping' = q /\ ip' = ip /\ last' = last
        /\ src.pc[q] # 0
    BY <1>8 DEF BeginStep
  <2>2. \A q2 \in Slot : live(q2)' => src.pc[q2] # 0
    BY <2>1 DEF live
  <2> QED
    BY <1>1, <2>1, <2>2 DEF ResultsInv, Filed, hasResult, self
<1> QED
  BY <1>2, <1>3, <1>4, <1>5, <1>6, <1>7, <1>8 DEF Next, StepBody

LEMMA ResultsInvariant == Spec /\ []MainComesFirst => []ResultsInv
<1> QED
  BY ResultsInit, ResultsStep, PTL DEF Spec

(* pthread_join sees a result only of a thread that has ended (popStackFrame *)
(* files it under the thread's own tid, and no live thread has that tid).  *)
THEOREM ResultsComeAfterTheEnd == Spec /\ []MainComesFirst => []ResultOnlyAfterEnd
<1>1. ResultsInv => ResultOnlyAfterEnd
  BY DEF ResultsInv, Filed, ResultOnlyAfterEnd
<1> QED
  BY <1>1, ResultsInvariant, PTL

(* A result stays as it is: later ends extend the list of results and      *)
(* replace nothing in it (popStackFrame).                                  *)
THEOREM ResultsAreFinal == Spec /\ []MainComesFirst => ResultsFinal
<1>1. ResultsInv /\ [Next]_vars =>
        [\A t \in Tid : hasResult(src, t) => src'.tres[t] = src.tres[t]]_src
  <2> SUFFICES ASSUME ResultsInv, [Next]_vars, src' # src, NEW t \in Tid, hasResult(src, t)
               PROVE  src'.tres[t] = src.tres[t]
    OBVIOUS
  <2>1. src \in StateVectorType
    BY DEF ResultsInv, StepInv, TidsInv, TypeInv, TypeOK
  <2>2. CASE ConstructorStart \/ MainStart \/ IncrementStatus
    BY <2>1, <2>2 DEF ConstructorStart, MainStart, IncrementStatus, transition, startFunction,
                      StateVectorType
  <2>3. CASE Upload
    BY <2>3 DEF Upload, transition, betweenGroups, ResultsInv
  <2>4. CASE Execute
    BY <2>4, ExecuteEffects DEF endNoReport, Continues, ResultsInv, StepInv, TidsInv
  <2>5. CASE EnterGroup \/ NoSuchPC \/ EndState \/ UNCHANGED vars
    BY <2>5 DEF EnterGroup, NoSuchPC, endNoReport, EndState, vars
  <2>6. \A q \in Slot : ~BeginStep(q)
    BY DEF BeginStep
  <2> QED
    BY <2>2, <2>3, <2>4, <2>5, <2>6 DEF Next, StepBody
<1> QED
  BY <1>1, ResultsInvariant, PTL DEF Spec, ResultsFinal

-----------------------------------------------------------------------------
(***************************************************************************)
(* The generated model implements PThreads, for modules with a main whose  *)
(* constructors have started no thread when main starts (PThreads starts   *)
(* with main).                                                             *)
(*                                                                         *)
(* What one call of model_step has done so far: it has created at most one *)
(* thread, in another slot, since only one group of the call is an emitter *)
(* and pthread_create ends its group; and it has changed no result but     *)
(* that of its own thread, when that has ended.                            *)
(***************************************************************************)
HasMain == \A mod \in Modules : mod.main # 0

Same(q) == svout.pc[q] = src.pc[q] /\ svout.tid[q] = src.tid[q]

NoneCreated ==
  svout.threadsStarted = src.threadsStarted /\ \A q \in Slot \ {self} : Same(q)

OneCreated ==
  /\ svout.threadsStarted = src.threadsStarted + 1
  /\ \E new \in Slot \ {self} :
       /\ src.pc[new] = 0 /\ svout.pc[new] # 0 /\ svout.tid[new] = svout.threadsStarted
       /\ \A q \in Slot \ {self, new} : Same(q)

CreateAhead == InGroup /\ \E k \in ip..last : code[k].op = "create"

OwnResultOnly ==
  /\ \A t \in Tid \ {src.tid[self]} : svout.tres[t] = src.tres[t]
  /\ live(self) => svout.tres = src.tres

CallSoFar ==
  /\ NoneCreated \/ (OneCreated /\ emitted)
  /\ CreateAhead => NoneCreated /\ emitted
  /\ OwnResultOnly

RefInv ==
  /\ ResultsInv
  /\ stepping # NoSlot => CallSoFar

(* A step on svout that leaves tids, results and other processes alone.    *)
LEMMA CallSame ==
  ASSUME CallSoFar, SameButPC(svout, svout', self), src' = src, stepping' = stepping,
         emitted => emitted', live(self)' => live(self),
         CreateAhead' => NoneCreated /\ emitted'
  PROVE  CallSoFar'
<1>1. self' = self
  BY DEF self
<1>2. NoneCreated => NoneCreated'
  BY <1>1 DEF NoneCreated, Same, SameButPC, SameTable
<1>3. OneCreated => OneCreated'
  BY <1>1 DEF OneCreated, Same, SameButPC, SameTable
<1>4. OwnResultOnly'
  BY <1>1 DEF CallSoFar, OwnResultOnly, SameButPC, SameTable
<1> QED
  BY <1>2, <1>3, <1>4 DEF CallSoFar

(* A new group: when it creates a thread it is an emitter, and no group    *)
(* before it in this call was one.                                         *)
LEMMA CallEnterGroup ==
  ASSUME RefInv, ResultsInv', EnterGroup
  PROVE  CallSoFar'
<1>1. /\ self \in Slot /\ svout \in StateVectorType /\ module \in Modules
      /\ stepping # NoSlot /\ pc \in DOMAIN code /\ CallSoFar
  BY DEF RefInv, ResultsInv, StepInv, TidsInv, TypeInv, TypeOK, EnterGroup, betweenGroups,
         isFront, self
<1>2. SameButPC(svout, svout', self) /\ src' = src /\ stepping' = stepping
  BY <1>1, ControlOperations DEF EnterGroup
<1>3. pc # 0
  <2>1. code \in Seq(Instruction)
    BY <1>1, ModuleFacts DEF code
  <2> QED
    BY <1>1, <2>1
<1>4. live(self)
  BY <1>3 DEF live, pc
<1>5. emitted => emitted'
  BY DEF EnterGroup
<1>6. ASSUME CreateAhead'
      PROVE  NoneCreated /\ emitted'
  <2>1. PICK k \in pc..groupEnd(code, pc) : code[k].op = "create"
    BY <1>6 DEF CreateAhead, EnterGroup, code
  <2>2. ~isRuntimeCollapsable(code[k])
    BY <2>1 DEF isRuntimeCollapsable, PrivateOps, Terminators, MemoryOps
  <2>3. isEmitter(code, pc)
    BY <2>1, <2>2 DEF isEmitter
  <2>4. ~emitted /\ emitted'
    BY <2>3 DEF EnterGroup
  <2> QED
    BY <1>1, <2>4 DEF CallSoFar
<1> QED
  BY <1>1, <1>2, <1>4, <1>5, <1>6, CallSame

(* The thread ends. *)
LEMMA CallEnds ==
  ASSUME RefInv, ResultsInv', InGroup, Continues, Ends
  PROVE  CallSoFar'
<1> DEFINE t0 == src.tid[self]
<1>1. TypeInv /\ StepInv /\ stepping # NoSlot /\ svout \in StateVectorType /\ CallSoFar
  BY DEF RefInv, ResultsInv, StepInv, TidsInv, TypeInv, TypeOK, InGroup
<1>2. self \in Slot /\ t0 \in Tid /\ I.a \in Operand
  BY <1>1, Executing, InstructionFacts DEF InGroup, TypeInv, TypeOK, code, I, StateVectorType
<1>3. /\ svout'.tid = svout.tid /\ svout'.threadsStarted = svout.threadsStarted
      /\ svout'.pc[self] = 0 /\ \A q \in Slot \ {self} : svout'.pc[q] = svout.pc[q]
      /\ \A t \in Tid \ {t0} : svout'.tres[t] = svout.tres[t]
  BY <1>1, <1>2, EndThreadEffect DEF Ends
<1>4. /\ src' = src /\ stepping' = stepping /\ self' = self /\ ip' = ip + 1 /\ last' = last
      /\ emitted' = emitted
  BY DEF Continues, self
<1>5. ip = last /\ ip \in Nat
  BY <1>1, EndersAreLast DEF Ends, GroupEnders, Terminators, TypeInv, TypeOK
<1>6. ~live(self)' /\ ~InGroup'
  BY <1>3, <1>4, <1>5 DEF live, InGroup
<1>7. OwnResultOnly'
  BY <1>1, <1>3, <1>4, <1>6 DEF CallSoFar, OwnResultOnly
<1>8. NoneCreated => NoneCreated'
  BY <1>3, <1>4 DEF NoneCreated, Same
<1>9. OneCreated => OneCreated'
  BY <1>3, <1>4 DEF OneCreated, Same
<1> QED
  BY <1>1, <1>4, <1>6, <1>7, <1>8, <1>9 DEF CallSoFar, CreateAhead

(* Functions start at a location. *)
LEMMA EntryFacts ==
  ASSUME NEW mod \in Modules, NEW l \in DOMAIN mod.code, mod.code[l].op = "create"
  PROVE  mod.code[l].fn # 0
<1>1. mod.code[l].fn \in blockStarts(mod.code)
  BY ModulesAssumption DEF wellFormed
<1> QED
  BY <1>1 DEF blockStarts

(* A thread is created. *)
LEMMA CallCreates ==
  ASSUME RefInv, ResultsInv', InGroup, Continues, Creates
  PROVE  CallSoFar'
<1>1. PICK q \in freeSlots(svout), arg \in Int, ptr \in Int :
        svout' = createThread(svout, q, I.fn, arg, ptr)
  BY DEF Creates
<1>2. /\ StepInv /\ TypeInv /\ stepping # NoSlot /\ svout \in StateVectorType
      /\ CallSoFar
  BY DEF RefInv, ResultsInv, StepInv, TidsInv, TypeInv, TypeOK, InGroup
<1>3. q \in Slot /\ svout.pc[q] = 0
  BY DEF freeSlots
<1>4. /\ svout'.threadsStarted = svout.threadsStarted + 1
      /\ svout'.tres = svout.tres
      /\ svout'.tid[q] = svout.threadsStarted + 1 /\ svout'.pc[q] = I.fn
      /\ \A q2 \in Slot \ {q} : svout'.tid[q2] = svout.tid[q2] /\ svout'.pc[q2] = svout.pc[q2]
  BY <1>1, <1>2, <1>3, CreateThreadEffect
<1>5. /\ src' = src /\ stepping' = stepping /\ self' = self /\ ip' = ip + 1 /\ last' = last
      /\ emitted' = emitted
  BY DEF Continues, self
<1>6. ip \in DOMAIN code /\ module \in Modules /\ ip \in Nat /\ last \in Nat
  BY <1>2, Executing DEF InGroup, TypeInv, TypeOK
<1>7. I.fn # 0
  BY <1>6, EntryFacts DEF Creates, I, code
<1>8. q # self
  BY <1>2, CreatorIsNotFree DEF Creates
<1>9. NoneCreated /\ emitted
  <2>1. ip \in ip..last /\ code[ip].op = "create"
    BY <1>6 DEF InGroup, Creates, I
  <2> QED
    BY <1>2, <2>1 DEF CallSoFar, CreateAhead
<1>10. src.pc[q] = 0
  BY <1>3, <1>8, <1>9 DEF NoneCreated, Same
<1>11. OneCreated'
  BY <1>3, <1>4, <1>5, <1>7, <1>8, <1>9, <1>10 DEF OneCreated, NoneCreated, Same
<1>12. ip = last
  BY <1>2, EndersAreLast DEF Creates, GroupEnders, Calls
<1>13. ~InGroup'
  BY <1>5, <1>6, <1>12 DEF InGroup
<1>14. live(self)
  BY DEF live, InGroup, self
<1>15. svout.tres = src.tres
  BY <1>2, <1>14 DEF CallSoFar, OwnResultOnly
<1>16. OwnResultOnly'
  BY <1>4, <1>5, <1>15 DEF OwnResultOnly
<1> QED
  BY <1>5, <1>9, <1>11, <1>13, <1>16 DEF CallSoFar, CreateAhead

LEMMA RefExecute ==
  ASSUME RefInv, ResultsInv', Execute
  PROVE  stepping' # NoSlot => CallSoFar'
<1>1. TypeInv /\ stepping # NoSlot /\ ip <= last /\ CallSoFar
  <2>1. TypeInv
    BY DEF RefInv, ResultsInv, StepInv, TidsInv
  <2> QED
    BY <2>1, ExecuteEffects DEF RefInv
<1>2. CASE endNoReport
  BY <1>2 DEF endNoReport
<1>3. CASE Continues /\ SameButPC(svout, svout', self)
  <2>1. live(self)
    BY <1>1 DEF live, self
  <2>2. CreateAhead' => NoneCreated /\ emitted'
    <3> SUFFICES ASSUME CreateAhead' PROVE CreateAhead
      BY <1>1, <1>3 DEF CallSoFar, Continues
    <3>1. ip \in Nat /\ last \in Nat /\ ip' = ip + 1 /\ last' = last /\ code' = code
      BY <1>1, <1>3 DEF TypeInv, TypeOK, Continues, code
    <3> QED
      BY <1>1, <3>1 DEF CreateAhead, InGroup
  <2> QED
    BY <1>1, <1>3, <2>1, <2>2, CallSame DEF Continues
<1>4. CASE Continues /\ Ends
  BY <1>1, <1>4, CallEnds DEF InGroup
<1>5. CASE Continues /\ Creates
  BY <1>1, <1>5, CallCreates DEF InGroup
<1> QED
  BY <1>1, <1>2, <1>3, <1>4, <1>5, ExecuteEffects DEF SameThreads, SameButPC

LEMMA RefInit == Init => RefInv
BY ResultsInit DEF Init, RefInv

LEMMA RefStep == RefInv /\ MainComesFirst /\ [Next]_vars => RefInv'
<1> SUFFICES ASSUME RefInv, MainComesFirst, [Next]_vars PROVE RefInv'
  OBVIOUS
<1>1. ResultsInv'
  BY ResultsStep DEF RefInv
<1>2. ASSUME stepping' # NoSlot
      PROVE  CallSoFar'
  <2>1. CASE ConstructorStart \/ MainStart \/ IncrementStatus \/ Upload \/ NoSuchPC
    BY <1>2, <2>1 DEF ConstructorStart, MainStart, IncrementStatus, Upload, NoSuchPC,
                      transition, endNoReport
  <2>2. CASE EnterGroup
    BY <1>1, <2>2, CallEnterGroup
  <2>3. CASE Execute
    BY <1>1, <1>2, <2>3, RefExecute
  <2>4. CASE UNCHANGED vars \/ EndState
    BY <1>2, <2>4 DEF EndState, vars, RefInv, CallSoFar, NoneCreated, OneCreated, Same,
                      CreateAhead, InGroup, OwnResultOnly, live, self, code
  <2>5. ASSUME NEW q \in Slot, BeginStep(q)
        PROVE  CallSoFar'
    <3>1. /\ svout' = src /\ src' = src /\ ip' = ip /\ last' = last
          /\ ip > last /\ ip \in Nat /\ last \in Nat
      BY <2>5 DEF BeginStep, RefInv, ResultsInv, StepInv, TidsInv, TypeInv, TypeOK
    <3>2. ~InGroup'
      BY <3>1 DEF InGroup
    <3> QED
      BY <3>1, <3>2 DEF CallSoFar, NoneCreated, Same, CreateAhead, OwnResultOnly
  <2> QED
    BY <2>1, <2>2, <2>3, <2>4, <2>5 DEF Next, StepBody
<1> QED
  BY <1>1, <1>2 DEF RefInv

-----------------------------------------------------------------------------
(* The identifiers that a call of model_step has handed out when it        *)
(* returns: none or the next one.                                          *)
created == IF svout.threadsStarted = src.threadsStarted THEN {} ELSE {svout.threadsStarted}

LEMMA UploadFacts ==
  ASSUME RefInv, Upload, src.status = RUNNING_MAIN
  PROVE  /\ self \in Slot /\ src.pc[self] # 0 /\ src' = svout
         /\ svout.tid[self] = src.tid[self] /\ src.tid[self] \in Tid
         /\ src \in StateVectorType /\ svout \in StateVectorType
         /\ src.status = RUNNING_MAIN /\ svout.status = RUNNING_MAIN
         /\ StepInv /\ CallSoFar
<1>1. stepping # NoSlot /\ src' = svout
  BY DEF Upload, betweenGroups, transition
<1>2. StepInv /\ TypeInv /\ CallSoFar
  BY <1>1 DEF RefInv, ResultsInv, StepInv, TidsInv
<1>3. self \in Slot /\ src \in StateVectorType /\ svout \in StateVectorType
  BY <1>1, <1>2 DEF TypeInv, TypeOK, self
<1> QED
  BY <1>1, <1>2, <1>3 DEF RefInv, ResultsInv, StepInv, StateVectorType

(* used of PThreads. *)
LEMMA UploadUsed ==
  ASSUME RefInv, Upload, src.status = RUNNING_MAIN
  PROVE  created \in Threads!Fresh /\ usedTids' = usedTids \cup created
<1> DEFINE n == src.threadsStarted
<1>1. /\ src' = svout /\ src.status = RUNNING_MAIN /\ svout.status = RUNNING_MAIN
      /\ n \in Nat /\ svout.threadsStarted \in Tid /\ CallSoFar
  BY UploadFacts DEF StateVectorType, Tid
<1>2. n >= 1
  BY DEF RefInv, ResultsInv, Filed
<1>3. svout.threadsStarted = n \/ svout.threadsStarted = n + 1
  BY <1>1 DEF CallSoFar, NoneCreated, OneCreated
<1>4. usedTids = 2..n \cup {0} /\ usedTids' = 2..svout.threadsStarted \cup {0}
  BY <1>1 DEF usedTids, mainStarted, RUNNING_MAIN
<1> HIDE DEF n
<1>5. CASE svout.threadsStarted = n
  <2>1. created = {}
    BY <1>5 DEF created, n
  <2> QED
    BY <1>4, <1>5, <2>1 DEF Threads!Fresh
<1>6. CASE svout.threadsStarted = n + 1
  <2>1. created = {n + 1}
    BY <1>1, <1>6 DEF created, n
  <2>2. n + 1 \in Tid \ usedTids
    BY <1>1, <1>2, <1>4, <1>6
  <2>3. 2..(n + 1) = 2..n \cup {n + 1}
    BY <1>1, <1>2
  <2> QED
    BY <1>4, <1>6, <2>1, <2>2, <2>3 DEF Threads!Fresh
<1> QED
  BY <1>3, <1>5, <1>6

(* running of PThreads, the own thread left aside. *)
LEMMA UploadOthers ==
  ASSUME RefInv, Upload, src.status = RUNNING_MAIN
  PROVE  /\ \A q \in Slot \ {self} : svout.pc[q] # 0 =>
              svout.tid[q] \in created \/ (Same(q) /\ src.pc[q] # 0)
         /\ \A q \in Slot \ {self} : src.pc[q] # 0 => Same(q)
         /\ \A t \in created : \E q \in Slot \ {self} : svout.pc[q] # 0 /\ svout.tid[q] = t
         /\ src.tid[self] \notin created
<1> DEFINE n == src.threadsStarted
<1>1. n \in Nat /\ CallSoFar /\ self \in Slot
  BY UploadFacts DEF StateVectorType, Tid
<1>2. src.tid[self] <= n /\ src.tid[self] \in Nat
  BY UploadFacts DEF StepInv, TidsInv, TidsCounted, Tid
<1>3. CASE NoneCreated
  <2>1. created = {}
    BY <1>3 DEF created, NoneCreated
  <2> QED
    BY <1>3, <2>1 DEF NoneCreated, Same
<1>4. CASE OneCreated
  <2>1. created = {n + 1} /\ svout.threadsStarted = n + 1
    BY <1>1, <1>4 DEF created, OneCreated
  <2>2. PICK new \in Slot \ {self} :
          /\ src.pc[new] = 0 /\ svout.pc[new] # 0 /\ svout.tid[new] = n + 1
          /\ \A q \in Slot \ {self, new} : Same(q)
    BY <1>4, <2>1 DEF OneCreated
  <2> HIDE DEF n
  <2>3. ASSUME NEW q \in Slot \ {self}, svout.pc[q] # 0
        PROVE  svout.tid[q] \in created \/ (Same(q) /\ src.pc[q] # 0)
    <3>1. CASE q = new
      BY <2>1, <2>2, <3>1
    <3>2. CASE q # new
      BY <2>2, <2>3, <3>2 DEF Same
    <3> QED
      BY <3>1, <3>2
  <2>4. \A q \in Slot \ {self} : src.pc[q] # 0 => Same(q)
    BY <2>2
  <2>5. \A t \in created : \E q \in Slot \ {self} : svout.pc[q] # 0 /\ svout.tid[q] = t
    BY <2>1, <2>2
  <2>6. src.tid[self] \notin created
    BY <1>1, <1>2, <2>1
  <2> QED
    BY <2>3, <2>4, <2>5, <2>6
<1> QED
  BY <1>1, <1>3, <1>4 DEF CallSoFar

(* No other thread that runs has the identifier of the one that steps. *)
LEMMA UploadAlone ==
  ASSUME RefInv, Upload, src.status = RUNNING_MAIN, NEW q \in Slot \ {self}, src.pc[q] # 0
  PROVE  src.tid[q] # src.tid[self]
<1>1. /\ self \in Slot /\ src.pc[self] # 0
      /\ TidsDistinct(src) /\ OnlyMainHasNone
  BY UploadFacts DEF StepInv, TidsInv
<1>2. SUFFICES ASSUME src.tid[q] = src.tid[self] PROVE FALSE
  OBVIOUS
<1>3. src.tid[q] = 0 /\ src.tid[self] = 0
  BY <1>1, <1>2 DEF TidsDistinct
<1> QED
  BY <1>1, <1>3 DEF OnlyMainHasNone

LEMMA UploadRunning ==
  ASSUME RefInv, Upload, src.status = RUNNING_MAIN
  PROVE  /\ src.tid[self] \in runningTids
         /\ svout.pc[self] # 0 => runningTids' = runningTids \cup created
         /\ svout.pc[self] = 0 => runningTids' = (runningTids \cup created) \ {src.tid[self]}
<1> DEFINE t0 == src.tid[self]
<1>1. /\ self \in Slot /\ src.pc[self] # 0 /\ src' = svout /\ svout.tid[self] = t0
      /\ svout.status = RUNNING_MAIN
  BY UploadFacts
<1>2. /\ runningTids  = {src.tid[q] : q \in {q \in Slot : src.pc[q] # 0}}
      /\ runningTids' = {svout.tid[q] : q \in {q \in Slot : svout.pc[q] # 0}}
  BY <1>1 DEF runningTids, mainStarted, RUNNING_MAIN
<1>3. t0 \in runningTids
  BY <1>1, <1>2
<1>4. ASSUME NEW q \in Slot \ {self}, svout.pc[q] # 0
      PROVE  svout.tid[q] \in (runningTids \cup created) \ {t0}
  <2>1. CASE svout.tid[q] \in created
    BY <2>1, UploadOthers
  <2>2. CASE Same(q) /\ src.pc[q] # 0
    BY <1>2, <2>2, UploadAlone DEF Same
  <2> QED
    BY <1>4, <2>1, <2>2, UploadOthers
<1>5. ASSUME NEW t \in (runningTids \cup created) \ {t0}
      PROVE  t \in runningTids'
  <2>1. CASE t \in created
    BY <1>2, <2>1, UploadOthers
  <2>2. CASE t \in runningTids
    <3>1. PICK q \in Slot : src.pc[q] # 0 /\ t = src.tid[q]
      BY <1>2, <2>2
    <3>2. q # self
      BY <1>5, <3>1
    <3> QED
      BY <1>2, <3>1, <3>2, UploadOthers DEF Same
  <2> QED
    BY <1>5, <2>1, <2>2
<1> HIDE DEF t0
<1>6. CASE svout.pc[self] # 0
  <2>1. t0 \in runningTids'
    BY <1>1, <1>2, <1>6
  <2>2. \A t \in runningTids' : t \in runningTids \cup created
    BY <1>1, <1>2, <1>3, <1>4
  <2> QED
    BY <1>3, <1>5, <1>6, <2>1, <2>2 DEF t0
<1>7. CASE svout.pc[self] = 0
  <2>1. \A t \in runningTids' : t \in (runningTids \cup created) \ {t0}
    BY <1>2, <1>4, <1>7
  <2> QED
    BY <1>3, <1>5, <1>7, <2>1 DEF t0
<1> QED
  BY <1>3, <1>6, <1>7 DEF t0

(* A visible step of a thread: it runs on or ends. *)
LEMMA UploadIsStep ==
  ASSUME RefInv, Upload, src.status = RUNNING_MAIN
  PROVE  Threads!Next
<1> DEFINE t0 == src.tid[self]
<1>1. /\ src' = svout /\ t0 \in Tid /\ OwnResultOnly /\ self \in Slot
      /\ src.pc[self] # 0 /\ svout.status = RUNNING_MAIN
  BY UploadFacts DEF CallSoFar
<1>2. created \in Threads!Fresh /\ usedTids' = usedTids \cup created /\ t0 \in runningTids
  BY UploadUsed, UploadRunning
<1>3. /\ resultOf  = [t \in Tid |-> IF hasResult(src, t) THEN <<src.tres[t].value>> ELSE <<>>]
      /\ resultOf' = [t \in Tid |-> IF hasResult(svout, t) THEN <<svout.tres[t].value>> ELSE <<>>]
  BY <1>1 DEF resultOf, mainStarted, RUNNING_MAIN
<1>4. CASE svout.pc[self] # 0
  <2>1. svout.tres = src.tres
    BY <1>1, <1>4 DEF OwnResultOnly, live
  <2>2. resultOf' = resultOf
    BY <1>3, <2>1 DEF hasResult
  <2>3. Threads!Run(t0)
    BY <1>2, <1>4, <2>2, UploadRunning DEF Threads!Run
  <2> QED
    BY <1>1, <2>3 DEF Threads!Next
<1>5. CASE svout.pc[self] = 0
  <2>1. ~hasResult(src, t0)
    BY <1>1 DEF RefInv, ResultsInv
  <2>2. resultOf[t0] = <<>>
    BY <1>1, <1>3, <2>1
  <2>3. \A t \in Tid \ {t0} : resultOf'[t] = resultOf[t]
    BY <1>1, <1>3 DEF OwnResultOnly, hasResult
  <2>4. resultOf' = [resultOf EXCEPT ![t0] = resultOf'[t0]]
    BY <1>1, <1>3, <2>3
  <2>5. Threads!Finish(t0)
    BY <1>2, <1>5, <2>2, <2>4, UploadRunning DEF Threads!Finish
  <2> QED
    BY <1>1, <2>5 DEF Threads!Next
<1> QED
  BY <1>4, <1>5

(* main starts: the first thread of PThreads.  No thread was started, so   *)
(* no slot but the first is occupied and there is no result.               *)
LEMMA MainStartIsStep ==
  ASSUME HasMain, RefInv, MainComesFirst, MainStart
  PROVE  Threads!Next
<1> USE DEF START, RUNNING_CONSTRUCTORS, STARTING_MAIN, RUNNING_MAIN, ENDED
<1>1. /\ src \in StateVectorType /\ module \in Modules /\ src.status = STARTING_MAIN
      /\ TidsCounted(src) /\ OnlyMainHasNone /\ Filed(src) /\ src.threadsStarted = 1
  BY DEF RefInv, ResultsInv, StepInv, TidsInv, TypeInv, TypeOK, MainStart, MainComesFirst
<1>2. \A q \in Slot : src.tid[q] = 0
  BY <1>1 DEF StateVectorType, Tid, TidsCounted, Filed
<1>3. \A q \in Slot \ {0} : src.pc[q] = 0
  BY <1>1, <1>2 DEF OnlyMainHasNone
<1>4. \A t \in Tid : ~hasResult(src, t)
  BY <1>1 DEF Filed
<1>5. transition([startFunction(src, 0, module.main) EXCEPT !.status = RUNNING_MAIN])
  BY <1>1 DEF MainStart, HasMain
<1>6. /\ src'.tid = src.tid /\ src'.tres = src.tres /\ src'.threadsStarted = 1
      /\ src'.status = RUNNING_MAIN /\ src'.pc = [src.pc EXCEPT ![0] = module.main]
  BY <1>1, <1>5 DEF transition, startFunction, StateVectorType
<1>7. src'.pc[0] # 0 /\ \A q \in Slot \ {0} : src'.pc[q] = 0
  BY <1>1, <1>3, <1>6, SlotZero DEF HasMain, StateVectorType
<1>8. mainStarted' /\ ~mainStarted
  BY <1>1, <1>6 DEF mainStarted
<1>9. runningTids' = {0}
  BY <1>2, <1>6, <1>7, <1>8, SlotZero DEF runningTids
<1>10. usedTids = {} /\ usedTids' = {0}
  BY <1>6, <1>8 DEF usedTids
<1>11. resultOf' = resultOf
  BY <1>4, <1>6 DEF resultOf, hasResult
<1> QED
  BY <1>9, <1>10, <1>11, SlotZero DEF Threads!Next, Threads!Start

(* What PThreads sees of the states before main.                           *)
LEMMA NothingSeenBefore ==
  ~mainStarted =>
    runningTids = {} /\ usedTids = {} /\ resultOf = [t \in Tid |-> <<>>]
BY DEF runningTids, usedTids, resultOf

LEMMA RefNext ==
  ASSUME HasMain
  PROVE  RefInv /\ MainComesFirst /\ [Next]_vars => [Threads!Next]_(Threads!vars)
<1> SUFFICES ASSUME RefInv, MainComesFirst, [Next]_vars
             PROVE  Threads!Next \/ UNCHANGED Threads!vars
  OBVIOUS
<1> USE DEF START, RUNNING_CONSTRUCTORS, STARTING_MAIN, RUNNING_MAIN, ENDED
<1>1. src \in StateVectorType /\ module \in Modules
  BY DEF RefInv, ResultsInv, StepInv, TidsInv, TypeInv, TypeOK
<1>2. ASSUME ~mainStarted, ~mainStarted'
      PROVE  UNCHANGED Threads!vars
  <2>1. runningTids = {} /\ usedTids = {} /\ resultOf = [t \in Tid |-> <<>>]
    BY <1>2, NothingSeenBefore
  <2>2. runningTids' = {} /\ usedTids' = {} /\ resultOf' = [t \in Tid |-> <<>>]
    BY <1>2 DEF runningTids, usedTids, resultOf
  <2> QED
    BY <2>1, <2>2 DEF Threads!vars
<1>3. CASE Upload
  <2>1. src' = svout /\ svout.status = src.status
    BY <1>3 DEF Upload, betweenGroups, transition, RefInv, ResultsInv, StepInv
  <2>2. src.status = RUNNING_MAIN \/ src.status = RUNNING_CONSTRUCTORS
    BY <1>3 DEF Upload, betweenGroups, RefInv, ResultsInv, StepInv, running
  <2>3. CASE src.status = RUNNING_MAIN
    BY <1>3, <2>3, UploadIsStep
  <2>4. CASE src.status = RUNNING_CONSTRUCTORS
    BY <1>2, <2>1, <2>4 DEF mainStarted
  <2> QED
    BY <2>2, <2>3, <2>4
<1>4. CASE MainStart
  BY <1>4, MainStartIsStep
<1>5. CASE ConstructorStart
  <2>1. src'.status = RUNNING_CONSTRUCTORS /\ src.status = START
    BY <1>1, <1>5 DEF ConstructorStart, transition, startFunction, StateVectorType
  <2> QED
    BY <1>2, <2>1 DEF mainStarted
<1>6. CASE IncrementStatus
  <2>1. transition([src EXCEPT !.status = src.status + 1])
    BY <1>6 DEF IncrementStatus
  <2>2. /\ src'.pc = src.pc /\ src'.tid = src.tid /\ src'.tres = src.tres
        /\ src'.threadsStarted = src.threadsStarted
        /\ src'.status >= RUNNING_MAIN <=> src.status >= RUNNING_MAIN
    BY <1>1, <1>6, <2>1 DEF IncrementStatus, running, transition, StateVectorType
  <2> QED
    BY <2>2 DEF Threads!vars, runningTids, usedTids, resultOf, mainStarted, hasResult
<1>7. CASE src' = src
  BY <1>7 DEF Threads!vars, runningTids, usedTids, resultOf, mainStarted, hasResult
<1>8. CASE Execute
  BY <1>7, <1>8, ExecuteEffects DEF endNoReport, Continues, RefInv, ResultsInv, StepInv, TidsInv
<1>9. CASE EnterGroup \/ NoSuchPC \/ EndState \/ UNCHANGED vars \/ \E q \in Slot : BeginStep(q)
  BY <1>7, <1>9 DEF EnterGroup, NoSuchPC, endNoReport, EndState, vars, BeginStep
<1> QED
  BY <1>3, <1>4, <1>5, <1>6, <1>8, <1>9 DEF Next, StepBody

LEMMA RefInitial == Init => Threads!Init
<1> SUFFICES ASSUME Init PROVE Threads!Init
  OBVIOUS
<1>1. src.status = START
  BY DEF Init, initialState
<1>2. ~mainStarted
  BY <1>1 DEF mainStarted, START, RUNNING_MAIN
<1> QED
  BY <1>2, NothingSeenBefore DEF Threads!Init

(* The generated model of a program implements POSIX threads as PThreads   *)
(* states them, for any modules with a main and any table sizes, if the    *)
(* constructors have not started a thread when main starts in slot 0       *)
(* (generateMainStart, line 973).                                          *)
THEOREM PThreadsImplemented ==
  ASSUME HasMain
  PROVE  Spec /\ []MainComesFirst => ImplementsPThreads
<1>1. RefInv /\ MainComesFirst /\ [Next]_vars => [Threads!Next]_(Threads!vars)
  BY RefNext
<1> QED
  BY <1>1, RefInit, RefStep, RefInitial, PTL DEF Spec, ImplementsPThreads, Threads!Spec

-----------------------------------------------------------------------------
(***************************************************************************)
(* A step of one process and the control state of the others.  A call of   *)
(* model_step works on svout; what it has left of every other live thread  *)
(* is what src holds, although each call may fill free slots, and frees    *)
(* the own one when its thread ends.  main is started in slot 0 whatever   *)
(* runs there: the constructors must have ended (generateMainStart).       *)
(***************************************************************************)
ConstructorsEnd == src.status = STARTING_MAIN => src.pc[0] = 0

SameControl(s, s2, q) ==
  /\ s2.pc[q] = s.pc[q]   /\ s2.tid[q] = s.tid[q]
  /\ s2.stk[q] = s.stk[q] /\ s2.r[q] = s.r[q]

LeavesOthers(s, s2, p) == \A q \in Slot \ {p} : s.pc[q] # 0 => SameControl(s, s2, q)

LEMMA LeavesOthersData ==
  ASSUME NEW s \in StateVectorType, NEW p \in Slot
  PROVE  /\ LeavesOthers(s, s, p)
         /\ LeavesOthers(s, [s EXCEPT !.asserted = TRUE], p)
         /\ \A d, v : LeavesOthers(s, setReg(s, p, d, v), p)
         /\ \A d, v, n : LeavesOthers(s, setReg(allocate(s, p, n), p, d, v), p)
         /\ \A ptr, v : LeavesOthers(s, storeTo(s, ptr, v), p)
         /\ \A d, v, ptr, w : LeavesOthers(s, storeTo(setReg(s, p, d, v), ptr, w), p)
         /\ \A d, v, ptr, w : LeavesOthers(s, setReg(storeTo(s, ptr, w), p, d, v), p)
         /\ \A d, v, d2, v2 : LeavesOthers(s, setReg(setReg(s, p, d, v), p, d2, v2), p)
         /\ \A d, v, d2, v2, ptr, w :
              LeavesOthers(s, setReg(setReg(storeTo(s, ptr, w), p, d, v), p, d2, v2), p)
<1> USE DEF StateVectorType, LeavesOthers, SameControl
<1>1. LeavesOthers(s, s, p) /\ LeavesOthers(s, [s EXCEPT !.asserted = TRUE], p)
  OBVIOUS
<1>2. \A d, v : LeavesOthers(s, setReg(s, p, d, v), p)
  BY DEF setReg
<1>3. \A d, v, n : LeavesOthers(s, setReg(allocate(s, p, n), p, d, v), p)
  BY DEF setReg, allocate
<1>4. \A ptr, v : LeavesOthers(s, storeTo(s, ptr, v), p)
  BY DEF storeTo
<1>5. \A d, v, ptr, w : LeavesOthers(s, storeTo(setReg(s, p, d, v), ptr, w), p)
  BY DEF storeTo, setReg
<1>6. \A d, v, ptr, w : LeavesOthers(s, setReg(storeTo(s, ptr, w), p, d, v), p)
  BY DEF storeTo, setReg
<1>7. \A d, v, d2, v2 : LeavesOthers(s, setReg(setReg(s, p, d, v), p, d2, v2), p)
  BY DEF setReg
<1>8. \A d, v, d2, v2, ptr, w :
        LeavesOthers(s, setReg(setReg(storeTo(s, ptr, w), p, d, v), p, d2, v2), p)
  BY DEF storeTo, setReg
<1> QED
  BY <1>1, <1>2, <1>3, <1>4, <1>5, <1>6, <1>7, <1>8

LEMMA LeavesOthersControl ==
  ASSUME NEW s \in StateVectorType, NEW p \in Slot
  PROVE  /\ \A l : LeavesOthers(s, setPC(s, p, l), p)
         /\ \A l, phis : LeavesOthers(s, storePHIs(setPC(s, p, l), p, phis), p)
         /\ \A e, a, b, d : LeavesOthers(s, pushStackFrame(s, p, e, a, b, d), p)
         /\ \A v : LeavesOthers(s, popStackFrame(s, p, v), p)
         /\ \A t, v : LeavesOthers(s, endThread(s, p, t, v), p)
         /\ \A q \in freeSlots(s) : \A e, a, ptr : LeavesOthers(s, createThread(s, q, e, a, ptr), p)
<1> USE DEF StateVectorType, LeavesOthers, SameControl
<1>1. \A l : LeavesOthers(s, setPC(s, p, l), p)
  BY DEF setPC
<1>2. \A l, phis : LeavesOthers(s, storePHIs(setPC(s, p, l), p, phis), p)
  BY DEF setPC, storePHIs
<1>3. \A e, a, b, d : LeavesOthers(s, pushStackFrame(s, p, e, a, b, d), p)
  BY DEF pushStackFrame
<1>4. \A v : LeavesOthers(s, popStackFrame(s, p, v), p)
  BY DEF popStackFrame
<1>5. \A t, v : LeavesOthers(s, endThread(s, p, t, v), p)
  BY DEF endThread
<1>6. ASSUME NEW q \in freeSlots(s), NEW e, NEW a, NEW ptr
      PROVE  LeavesOthers(s, createThread(s, q, e, a, ptr), p)
  <2> DEFINE new == s.threadsStarted + 1
             s2  == createThread(s, q, e, a, ptr)
  <2>1. /\ s2.tid = [s.tid EXCEPT ![q] = new] /\ s2.pc = [s.pc EXCEPT ![q] = e]
        /\ s2.stk = [s.stk EXCEPT ![q] = <<>>]
        /\ s2.r = [s.r EXCEPT ![q] = [s.r[q] EXCEPT ![0] = a]]
    BY DEF createThread, startFunction, storeTo
  <2>2. s.pc[q] = 0
    BY DEF freeSlots
  <2> HIDE DEF s2
  <2> QED
    BY <2>1, <2>2 DEF s2
<1> QED
  BY <1>1, <1>2, <1>3, <1>4, <1>5, <1>6

LEMMA ExecuteLeavesOthers ==
  ASSUME TypeInv, Execute
  PROVE  /\ src' = src
         /\ endNoReport \/ (stepping' = stepping /\ LeavesOthers(svout, svout', self))
<1>1. stepping # NoSlot /\ ip <= last
  BY ExecuteEffects
<1>2. self \in Slot /\ svout \in StateVectorType
  BY <1>1, Executing
<1>3. \A s : resultsIn(s) => src' = src /\ stepping' = stepping /\ svout' = s
  BY DEF resultsIn
<1>4. CASE \E s : resultsIn(s) /\ LeavesOthers(svout, s, self)
  BY <1>3, <1>4
<1>5. CASE ValueMapped \/ ExtractValue \/ AllocateMemory \/ Load \/ Store
  <2>1. \E s : resultsIn(s) /\ LeavesOthers(svout, s, self)
    BY <1>2, <1>5, LeavesOthersData DEF ValueMapped, ExtractValue, AllocateMemory, Load, Store
  <2> QED
    BY <1>4, <2>1
<1>6. CASE PthreadJoin
  <2>1. \E s : resultsIn(s) /\ LeavesOthers(svout, s, self)
    BY <1>2, <1>6, LeavesOthersData DEF PthreadJoin
  <2> QED
    BY <1>4, <2>1
<1>7. CASE AtomicLoad \/ AtomicStore \/ Memcpy \/ AtomicRMW
  <2>1. \E s : resultsIn(s) /\ LeavesOthers(svout, s, self)
    BY <1>2, <1>7, LeavesOthersData DEF AtomicLoad, AtomicStore, Memcpy, copyCell, AtomicRMW
  <2> QED
    BY <1>4, <2>1
<1>8. CASE CmpXchg
  <2>1. \E s : resultsIn(s) /\ LeavesOthers(svout, s, self)
    BY <1>2, <1>8, LeavesOthersData DEF CmpXchg
  <2> QED
    BY <1>4, <2>1
<1>9. CASE AtomicCompareExchange
  <2>1. \E s : resultsIn(s) /\ LeavesOthers(svout, s, self)
    BY <1>2, <1>9, LeavesOthersData DEF AtomicCompareExchange
  <2> QED
    BY <1>4, <2>1
<1>10. CASE Branch \/ Unreachable \/ Call \/ External \/ AssertFail \/ PthreadCreateFull
  <2>1. \E s : resultsIn(s) /\ LeavesOthers(svout, s, self)
    BY <1>2, <1>10, LeavesOthersData, LeavesOthersControl
       DEF Branch, Unreachable, Call, External, AssertFail, PthreadCreateFull
  <2> QED
    BY <1>4, <2>1
<1>11. CASE Return
  <2>1. \E s : resultsIn(s) /\ LeavesOthers(svout, s, self)
    BY <1>2, <1>11, LeavesOthersControl DEF Return
  <2> QED
    BY <1>4, <2>1
<1>12. CASE PthreadCreate
  <2>1. PICK q \in freeSlots(svout) : resultsIn(createThread(svout, q, I.fn, value(I.b), value(I.a)))
    BY <1>12 DEF PthreadCreate, isFirstFree
  <2> QED
    BY <1>2, <1>4, <2>1, LeavesOthersControl
<1>13. CASE PthreadJoinBlocked
  BY <1>13 DEF PthreadJoinBlocked, endNoReport
<1> QED
  BY <1>5, <1>6, <1>7, <1>8, <1>9, <1>10, <1>11, <1>12, <1>13 DEF Execute, Atomic

OthersInv ==
  /\ StepInv
  /\ stepping # NoSlot => LeavesOthers(src, svout, stepping)
  /\ src.status = START => \A q \in Slot : src.pc[q] = 0

LEMMA OthersInit == Init => OthersInv
<1> SUFFICES ASSUME Init PROVE OthersInv
  OBVIOUS
<1>1. src = initialState(module.globals) /\ stepping = NoSlot
  BY DEF Init
<1>2. \A q \in Slot : src.pc[q] = 0
  BY <1>1 DEF initialState
<1> QED
  BY <1>1, <1>2, StepInvInit DEF OthersInv

(* What a call has left alone stays so when one of its steps does.         *)
LEMMA LeavesOthersOn ==
  ASSUME NEW s, NEW s2, NEW s3, NEW p, LeavesOthers(s, s2, p), LeavesOthers(s2, s3, p)
  PROVE  LeavesOthers(s, s3, p)
BY DEF LeavesOthers, SameControl

LEMMA OthersStep == OthersInv /\ [Next]_vars => OthersInv'
<1> SUFFICES ASSUME OthersInv, [Next]_vars PROVE OthersInv'
  OBVIOUS
<1>1. StepInv /\ StepInv' /\ TypeInv /\ src \in StateVectorType
  BY StepInvStep DEF OthersInv, StepInv, TidsInv, TypeInv, TypeOK
<1>2. CASE ConstructorStart \/ MainStart \/ IncrementStatus
  <2>1. \E s : transition(s) /\ s.status # START
    BY <1>1, <1>2 DEF ConstructorStart, MainStart, IncrementStatus, running, startFunction,
                      StateVectorType, START, RUNNING_CONSTRUCTORS, RUNNING_MAIN
  <2> QED
    BY <1>1, <2>1 DEF OthersInv, transition
<1>3. CASE Upload
  <2>1. transition(svout) /\ svout.status # START
    BY <1>1, <1>3 DEF Upload, betweenGroups, StepInv, running, START, RUNNING_CONSTRUCTORS,
                      RUNNING_MAIN
  <2> QED
    BY <1>1, <2>1 DEF OthersInv, transition
<1>4. CASE NoSuchPC
  BY <1>1, <1>4 DEF NoSuchPC, endNoReport, OthersInv
<1>5. CASE EnterGroup
  <2>1. /\ svout' = setPC(svout, self, locationAfter(code, pc)) /\ self \in Slot
        /\ svout \in StateVectorType /\ UNCHANGED <<src, stepping>> /\ stepping # NoSlot
    BY <1>1, <1>5 DEF EnterGroup, betweenGroups, TypeInv, TypeOK, self
  <2>2. LeavesOthers(svout, svout', self)
    BY <2>1, LeavesOthersControl
  <2> QED
    BY <1>1, <2>1, <2>2, LeavesOthersOn DEF OthersInv, self
<1>6. CASE Execute
  <2>1. stepping # NoSlot
    BY <1>1, <1>6, ExecuteEffects
  <2>2. CASE endNoReport
    BY <1>1, <2>2 DEF endNoReport, OthersInv
  <2>3. CASE ~endNoReport
    <3>1. src' = src /\ stepping' = stepping /\ LeavesOthers(svout, svout', stepping)
      BY <1>1, <1>6, <2>3, ExecuteLeavesOthers DEF self
    <3> QED
      BY <1>1, <2>1, <3>1, LeavesOthersOn DEF OthersInv
  <2> QED
    BY <2>2, <2>3
<1>7. ASSUME NEW q \in Slot, BeginStep(q)
      PROVE  OthersInv'
  <2>1. stepping' = q /\ svout' = src /\ src' = src
    BY <1>7 DEF BeginStep
  <2>2. LeavesOthers(src, svout', q)
    BY <1>1, <2>1, LeavesOthersData
  <2> QED
    BY <1>1, <2>1, <2>2 DEF OthersInv
<1>8. CASE EndState \/ UNCHANGED vars
  BY <1>1, <1>8 DEF EndState, vars, OthersInv
<1> QED
  BY <1>2, <1>3, <1>4, <1>5, <1>6, <1>7, <1>8 DEF Next, StepBody

LEMMA OthersInvariant == Spec => []OthersInv
  BY OthersInit, OthersStep, PTL DEF Spec

(* Every step that DMC sees leaves the pc, tid, stack and registers of the *)
(* other live threads alone (pushStackFrame, popStackFrame, pthread_create *)
(* and the starts of the constructors and of main).                        *)
THEOREM OthersAreUntouched == Spec /\ []ConstructorsEnd => OthersUntouched
<1> DEFINE Untouched == \A q \in Slot : src.pc[q] # 0 /\ q # stepping => SameControl(src, src', q)
<1>1. OthersInv /\ ConstructorsEnd /\ [Next]_vars => [Untouched]_src
  <2> SUFFICES ASSUME OthersInv, ConstructorsEnd, [Next]_vars, src' # src
               PROVE  Untouched
    OBVIOUS
  <2>1. src \in StateVectorType /\ TypeInv
    BY DEF OthersInv, StepInv, TidsInv, TypeInv, TypeOK
  <2>2. CASE ConstructorStart
    BY <2>2 DEF ConstructorStart, OthersInv
  <2>3. CASE MainStart
    <3>1. src.pc[0] = 0
      BY <2>3 DEF MainStart, ConstructorsEnd
    <3>2. \A q \in Slot \ {0} : SameControl(src, src', q)
      BY <2>1, <2>3 DEF MainStart, transition, startFunction, StateVectorType, SameControl
    <3> QED
      BY <3>1, <3>2
  <2>4. CASE IncrementStatus
    BY <2>1, <2>4 DEF IncrementStatus, transition, StateVectorType, SameControl
  <2>5. CASE Upload
    BY <2>5 DEF Upload, betweenGroups, transition, OthersInv, LeavesOthers
  <2>6. CASE Execute
    BY <2>1, <2>6, ExecuteLeavesOthers
  <2>7. CASE EnterGroup \/ NoSuchPC \/ EndState \/ UNCHANGED vars
    BY <2>7 DEF EnterGroup, NoSuchPC, endNoReport, EndState, vars
  <2>8. \A q \in Slot : ~BeginStep(q)
    BY DEF BeginStep
  <2> QED
    BY <2>2, <2>3, <2>4, <2>5, <2>6, <2>7, <2>8 DEF Next, StepBody
<1>2. [Untouched]_src =>
        [\A q \in Slot :
           src.pc[q] # 0 /\ q # stepping =>
             /\ src'.pc[q] = src.pc[q]   /\ src'.tid[q] = src.tid[q]
             /\ src'.stk[q] = src.stk[q] /\ src'.r[q] = src.r[q]]_src
  BY DEF SameControl
<1> QED
  BY <1>1, <1>2, OthersInvariant, PTL DEF Spec, OthersUntouched

(***************************************************************************)
(* A module without constructors meets the conditions: slot 0 is free, and *)
(* no thread was started, when main starts.                                *)
(***************************************************************************)
NoConstructors == \A mod \in Modules : mod.ctor = 0

BeforeMain ==
  src.status \in {START, RUNNING_CONSTRUCTORS, STARTING_MAIN} =>
    /\ stepping = NoSlot /\ src.threadsStarted = 1
    /\ \A q \in Slot : src.pc[q] = 0

(* Before main runs there is no thread, so no call of model_step. *)
LEMMA BeforeMainStep ==
  ASSUME NoConstructors, StepInv, BeforeMain, [Next]_vars
  PROVE  BeforeMain'
<1> USE DEF START, RUNNING_CONSTRUCTORS, STARTING_MAIN, RUNNING_MAIN, ENDED
<1>1. src \in StateVectorType /\ module \in Modules /\ src.status \in 0..4
  BY DEF StepInv, TidsInv, TypeInv, TypeOK, StateVectorType, Status
<1>2. CASE ConstructorStart
  <2>1. transition([src EXCEPT !.status = RUNNING_CONSTRUCTORS])
    BY <1>1, <1>2 DEF ConstructorStart, NoConstructors
  <2> QED
    BY <1>1, <1>2, <2>1 DEF ConstructorStart, BeforeMain, transition, StateVectorType
<1>3. CASE MainStart
  <2>1. src'.status = RUNNING_MAIN
    BY <1>1, <1>3 DEF MainStart, transition, startFunction, StateVectorType
  <2> QED
    BY <2>1 DEF BeforeMain
<1>4. CASE IncrementStatus
  <2>1. transition([src EXCEPT !.status = src.status + 1])
    BY <1>4 DEF IncrementStatus
  <2>2. /\ src'.status = src.status + 1 /\ src'.pc = src.pc
        /\ src'.threadsStarted = src.threadsStarted /\ stepping' = NoSlot
    BY <1>1, <2>1 DEF transition, StateVectorType
  <2> QED
    BY <1>1, <1>4, <2>2 DEF IncrementStatus, running, BeforeMain
<1>5. CASE StepBody
  <2>1. stepping # NoSlot
    BY <1>5, ExecuteEffects DEF StepBody, EnterGroup, Upload, NoSuchPC, betweenGroups,
       StepInv, TidsInv
  <2>2. src'.status = src.status
    <3>1. CASE Upload
      BY <2>1, <3>1 DEF Upload, transition, StepInv
    <3>2. CASE EnterGroup \/ NoSuchPC
      BY <3>2 DEF EnterGroup, NoSuchPC, endNoReport
    <3>3. CASE Execute
      BY <3>3, ExecuteEffects DEF endNoReport, Continues, StepInv, TidsInv
    <3> QED
      BY <1>5, <3>1, <3>2, <3>3 DEF StepBody
  <2> QED
    BY <2>1, <2>2 DEF BeforeMain
<1>6. CASE UNCHANGED vars \/ EndState
  BY <1>6 DEF EndState, vars, BeforeMain
<1>7. ASSUME NEW q \in Slot, BeginStep(q)
      PROVE  BeforeMain'
  BY <1>7 DEF BeginStep, BeforeMain
<1> QED
  BY <1>2, <1>3, <1>4, <1>5, <1>6, <1>7 DEF Next

LEMMA NoConstructorsSuffice ==
  ASSUME NoConstructors
  PROVE  Spec => []ConstructorsEnd /\ []MainComesFirst
<1>1. Init => BeforeMain
  BY DEF Init, initialState, BeforeMain
<1>2. StepInv /\ BeforeMain /\ [Next]_vars => BeforeMain'
  BY BeforeMainStep
<1>3. BeforeMain => ConstructorsEnd /\ MainComesFirst
  BY SlotZero DEF BeforeMain, ConstructorsEnd, MainComesFirst
<1> QED
  BY <1>1, <1>2, <1>3, StepInvInit, StepInvStep, PTL DEF Spec

-----------------------------------------------------------------------------
(***************************************************************************)
(* Where processes go on.  A pc is stored by a group (the location behind  *)
(* it, where the next group starts), by a branch or the start of a         *)
(* function (the start of a block), or is taken from a frame, which keeps  *)
(* one that a group stored.  Only a pthread_create without a free slot     *)
(* puts back a location inside its group; since the call is the first of   *)
(* this model_step to create a thread, the slots were full in src already. *)
(***************************************************************************)
Framed(s) == \A q \in Slot : \A k \in DOMAIN s.stk[q] : s.stk[q][k].pc \in fronts

NoneFilled == \A q \in Slot \ {self} : svout.pc[q] = src.pc[q]

TriedAgain == ip > last /\ code[pc].op = "create" /\ freeSlots(src) = {}

Placed ==
  /\ Framed(svout) /\ \A q \in Slot \ {self} : svout.pc[q] \in fronts \cup {0}
  /\ pc \in fronts \cup {0} \/ TriedAgain
  /\ NoneFilled \/ emitted
  /\ CreateAhead => NoneFilled /\ emitted

PlacesInv ==
  /\ StepInv
  /\ fronts = groupFronts(code)
  /\ Framed(src) /\ \A q \in Slot : src.pc[q] \in fronts \cup {0}
  /\ stepping # NoSlot => Placed

(* What the operations do to the stacks. *)
LEMMA StacksData ==
  ASSUME NEW s \in StateVectorType, NEW p \in Slot
  PROVE  /\ [s EXCEPT !.asserted = TRUE].stk = s.stk
         /\ \A d, v : setReg(s, p, d, v).stk = s.stk
         /\ \A d, v, n : setReg(allocate(s, p, n), p, d, v).stk = s.stk
         /\ \A ptr, v : storeTo(s, ptr, v).stk = s.stk
         /\ \A d, v, ptr, w : storeTo(setReg(s, p, d, v), ptr, w).stk = s.stk
         /\ \A d, v, ptr, w : setReg(storeTo(s, ptr, w), p, d, v).stk = s.stk
         /\ \A d, v, d2, v2 : setReg(setReg(s, p, d, v), p, d2, v2).stk = s.stk
         /\ \A d, v, d2, v2, ptr, w :
              setReg(setReg(storeTo(s, ptr, w), p, d, v), p, d2, v2).stk = s.stk
<1> USE DEF StateVectorType
<1>1. [s EXCEPT !.asserted = TRUE].stk = s.stk
  OBVIOUS
<1>2. \A d, v : setReg(s, p, d, v).stk = s.stk
  BY DEF setReg
<1>3. \A d, v, n : setReg(allocate(s, p, n), p, d, v).stk = s.stk
  BY DEF setReg, allocate
<1>4. \A ptr, v : storeTo(s, ptr, v).stk = s.stk
  BY DEF storeTo
<1>5. \A d, v, ptr, w : storeTo(setReg(s, p, d, v), ptr, w).stk = s.stk
  BY DEF storeTo, setReg
<1>6. \A d, v, ptr, w : setReg(storeTo(s, ptr, w), p, d, v).stk = s.stk
  BY DEF storeTo, setReg
<1>7. \A d, v, d2, v2 : setReg(setReg(s, p, d, v), p, d2, v2).stk = s.stk
  BY DEF setReg
<1>8. \A d, v, d2, v2, ptr, w :
        setReg(setReg(storeTo(s, ptr, w), p, d, v), p, d2, v2).stk = s.stk
  BY DEF storeTo, setReg
<1> QED
  BY <1>1, <1>2, <1>3, <1>4, <1>5, <1>6, <1>7, <1>8

(* The frame that pushStackFrame saves. *)
savedFrame(s, p, d) == [pc |-> s.pc[p], regs |-> s.r[p], res |-> IF d = NoReg THEN 0 ELSE d]

LEMMA StacksCall ==
  ASSUME NEW s \in StateVectorType, NEW p \in Slot
  PROVE  \A e, a, b, d :
           /\ pushStackFrame(s, p, e, a, b, d).pc[p] = e
           /\ pushStackFrame(s, p, e, a, b, d).stk
                = [s.stk EXCEPT ![p] = <<savedFrame(s, p, d)>> \o s.stk[p]]
BY DEF pushStackFrame, savedFrame, StateVectorType

LEMMA StacksSetPC ==
  ASSUME NEW s \in StateVectorType, NEW p \in Slot
  PROVE  \A l : setPC(s, p, l).stk = s.stk /\ setPC(s, p, l).pc[p] = l
BY DEF setPC, StateVectorType

LEMMA StacksMove ==
  ASSUME NEW s \in StateVectorType, NEW p \in Slot
  PROVE  \A l, phis : /\ storePHIs(setPC(s, p, l), p, phis).stk = s.stk
                     /\ storePHIs(setPC(s, p, l), p, phis).pc[p] = l
BY DEF setPC, storePHIs, StateVectorType

LEMMA StacksPop ==
  ASSUME NEW s \in StateVectorType, NEW p \in Slot
  PROVE  \A v : /\ popStackFrame(s, p, v).pc[p] = Head(s.stk[p]).pc
               /\ popStackFrame(s, p, v).stk = [s.stk EXCEPT ![p] = Tail(s.stk[p])]
BY DEF popStackFrame, StateVectorType

LEMMA StacksEnd ==
  ASSUME NEW s \in StateVectorType, NEW p \in Slot
  PROVE  \A t, v : endThread(s, p, t, v).stk = s.stk /\ endThread(s, p, t, v).pc[p] = 0
BY DEF endThread, StateVectorType

LEMMA StacksCreate ==
  ASSUME NEW s \in StateVectorType, NEW p \in Slot
  PROVE  \A e, a, ptr : createThread(s, p, e, a, ptr).stk = [s.stk EXCEPT ![p] = <<>>]
BY DEF createThread, startFunction, storeTo, StateVectorType

LEMMA FramedSame ==
  ASSUME NEW s, NEW s2, Framed(s), s2.stk = s.stk
  PROVE  Framed(s2)
BY DEF Framed

LEMMA FramedPush ==
  ASSUME NEW s \in StateVectorType, NEW s2, NEW p \in Slot, NEW frame, Framed(s),
         s2.stk = [s.stk EXCEPT ![p] = <<frame>> \o s.stk[p]], frame.pc \in fronts
  PROVE  Framed(s2)
<1>1. s.stk \in [Slot -> Seq(Frame)]
  BY DEF StateVectorType
<1>2. s2.stk[p] = <<frame>> \o s.stk[p] /\ \A q \in Slot \ {p} : s2.stk[q] = s.stk[q]
  BY <1>1
<1>3. ASSUME NEW k \in DOMAIN s2.stk[p] PROVE s2.stk[p][k].pc \in fronts
  <2>1. s.stk[p] \in Seq(Frame)
    BY <1>1
  <2>2. k = 1 \/ k - 1 \in DOMAIN s.stk[p]
    BY <1>2, <2>1
  <2>3. k = 1 => s2.stk[p][k] = frame
    BY <1>2, <2>1
  <2>4. k # 1 => s2.stk[p][k] = s.stk[p][k - 1]
    BY <1>2, <2>1, <2>2
  <2> QED
    BY <2>2, <2>3, <2>4 DEF Framed
<1> QED
  BY <1>2, <1>3 DEF Framed

LEMMA FramedPop ==
  ASSUME NEW s \in StateVectorType, NEW s2, NEW p \in Slot, Framed(s), s.stk[p] # <<>>,
         s2.stk = [s.stk EXCEPT ![p] = Tail(s.stk[p])]
  PROVE  Framed(s2) /\ Head(s.stk[p]).pc \in fronts
<1>1. s.stk \in [Slot -> Seq(Frame)]
  BY DEF StateVectorType
<1>2. s2.stk[p] = Tail(s.stk[p]) /\ \A q \in Slot \ {p} : s2.stk[q] = s.stk[q]
  BY <1>1
<1>3. s.stk[p] \in Seq(Frame)
  BY <1>1
<1>4. \A k \in DOMAIN Tail(s.stk[p]) :
        k + 1 \in DOMAIN s.stk[p] /\ Tail(s.stk[p])[k] = s.stk[p][k + 1]
  BY <1>3
<1>5. 1 \in DOMAIN s.stk[p] /\ Head(s.stk[p]) = s.stk[p][1]
  BY <1>3
<1> QED
  BY <1>2, <1>4, <1>5 DEF Framed

(* Blocks and groups of the module. *)
LEMMA ModuleFronts ==
  ASSUME NEW mod \in Modules
  PROVE  /\ blockStarts(mod.code) \subseteq groupFronts(mod.code)
         /\ {mod.main, mod.ctor} \subseteq groupFronts(mod.code) \cup {0}
         /\ \A m \in groupFronts(mod.code) :
              locationAfter(mod.code, m) \in groupFronts(mod.code) \cup {0}
<1> DEFINE c == mod.code
<1>1. c \in Seq(Instruction) /\ Len(c) \in Nat \ {0} /\ c[Len(c)].op \in Terminators /\ c # <<>>
  BY ModuleFacts
<1>2. /\ \A m \in groupFronts(c) : groupEnd(c, m) < Len(c) => groupEnd(c, m) + 1 \in groupFronts(c)
      /\ 1 \in groupFronts(c)
      /\ \A l \in 2..Len(c) : c[l - 1].op \in Terminators => l \in groupFronts(c)
  BY <1>1, GroupsFollow
<1>3. blockStarts(c) \subseteq groupFronts(c)
  BY <1>2 DEF blockStarts
<1>4. {mod.main, mod.ctor} \subseteq blockStarts(c) \cup {0}
  BY ModulesAssumption DEF wellFormed
<1>5. ASSUME NEW m \in groupFronts(c)
      PROVE  locationAfter(c, m) \in groupFronts(c) \cup {0}
  <2>1. m \in DOMAIN c
    BY FrontsInCode
  <2>2. groupEnd(c, m) \in m..Len(c)
    BY <1>1, <2>1, GroupEnd
  <2>3. c[groupEnd(c, m)].op \notin Terminators => groupEnd(c, m) # Len(c)
    BY <1>1
  <2>4. m \in 1..Len(c)
    BY <1>1, <2>1
  <2>5. c[groupEnd(c, m)].op \notin Terminators => groupEnd(c, m) < Len(c)
    BY <1>1, <2>2, <2>3, <2>4
  <2> QED
    BY <1>2, <2>5 DEF locationAfter
<1> QED
  BY <1>3, <1>4, <1>5

LEMMA FramedStart ==
  ASSUME NEW s \in StateVectorType, NEW s2, NEW p \in Slot, Framed(s),
         s2.stk = [s.stk EXCEPT ![p] = <<>>]
  PROVE  Framed(s2)
<1>1. s2.stk[p] = <<>> /\ \A q \in Slot \ {p} : s2.stk[q] = s.stk[q]
  BY DEF StateVectorType
<1>2. DOMAIN s2.stk[p] = {}
  BY <1>1
<1> QED
  BY <1>1, <1>2 DEF Framed

LEMMA PlacesInit == Init => PlacesInv
<1> SUFFICES ASSUME Init PROVE PlacesInv
  OBVIOUS
<1>1. StepInv
  BY StepInvInit
<1>2. \A q \in Slot : src.stk[q] = <<>> /\ src.pc[q] = 0
  BY DEF Init, initialState
<1>3. \A q \in Slot : DOMAIN src.stk[q] = {}
  BY <1>2
<1> QED
  BY <1>1, <1>2, <1>3 DEF Init, PlacesInv, Framed, code

(* A state that DMC sees; and a call of model_step that returns 0.         *)
LEMMA PlacesTransition ==
  ASSUME StepInv', fronts = groupFronts(code), NEW s, transition(s),
         Framed(s), \A q \in Slot : s.pc[q] \in fronts \cup {0}
  PROVE  PlacesInv'
BY DEF PlacesInv, transition, Framed, code

LEMMA PlacesEndNoReport ==
  ASSUME PlacesInv, StepInv', endNoReport
  PROVE  PlacesInv'
BY DEF PlacesInv, endNoReport, Framed, code

(* A new group. *)
LEMMA PlacesEnterGroup ==
  ASSUME PlacesInv, StepInv', EnterGroup
  PROVE  PlacesInv'
<1>1. /\ self \in Slot /\ svout \in StateVectorType /\ module \in Modules
      /\ stepping # NoSlot /\ pc \in fronts /\ Placed
  BY DEF PlacesInv, StepInv, TidsInv, TypeInv, TypeOK, EnterGroup, betweenGroups, isFront, self
<1>2. /\ ip' = pc /\ last' = groupEnd(code, pc) /\ code' = code /\ fronts' = fronts
      /\ stepping' = stepping /\ src' = src /\ self' = self
      /\ svout' = setPC(svout, self, locationAfter(code, pc))
  BY DEF EnterGroup, code, self
<1>3. svout'.stk = svout.stk /\ pc' = locationAfter(code, pc)
  <2>1. \A l : setPC(svout, self, l).stk = svout.stk /\ setPC(svout, self, l).pc[self] = l
    BY <1>1, StacksSetPC
  <2>2. pc' = svout'.pc[self]
    BY <1>2 DEF pc
  <2> QED
    BY <1>2, <2>1, <2>2
<1>4. \A q \in Slot \ {self} : svout'.pc[q] = svout.pc[q]
  <2>1. \A l : SameButPC(svout, setPC(svout, self, l), self)
    BY <1>1, ControlOperations
  <2> QED
    BY <1>2, <2>1 DEF SameButPC
<1>5. pc' \in fronts \cup {0}
  BY <1>1, <1>3, ModuleFronts DEF PlacesInv, code
<1>6. ASSUME CreateAhead'
      PROVE  NoneFilled /\ emitted'
  <2>1. PICK k \in pc..groupEnd(code, pc) : code[k].op = "create"
    BY <1>2, <1>6 DEF CreateAhead
  <2>2. ~isRuntimeCollapsable(code[k])
    BY <2>1 DEF isRuntimeCollapsable, PrivateOps, Terminators, MemoryOps
  <2>3. isEmitter(code, pc)
    BY <2>1, <2>2 DEF isEmitter
  <2>4. ~emitted /\ emitted'
    BY <2>3 DEF EnterGroup
  <2> QED
    BY <1>1, <2>4 DEF Placed
<1>7. emitted => emitted'
  BY DEF EnterGroup
<1>8. NoneFilled => NoneFilled'
  BY <1>2, <1>4 DEF NoneFilled
<1>9. Framed(svout)'
  BY <1>1, <1>2, <1>3 DEF Placed, Framed
<1>10. \A q \in Slot \ {self} : svout'.pc[q] \in fronts \cup {0}
  BY <1>1, <1>4 DEF Placed
<1>11. (NoneFilled \/ emitted)'
  BY <1>1, <1>7, <1>8 DEF Placed
<1>12. Placed'
  BY <1>2, <1>5, <1>6, <1>8, <1>9, <1>10, <1>11 DEF Placed
<1> QED
  BY <1>2, <1>12 DEF PlacesInv, Framed

(* An instruction that leaves the other processes where they are.          *)
LEMMA PlacesContinue ==
  ASSUME PlacesInv, StepInv', InGroup, Continues, Framed(svout)',
         \A q \in Slot \ {self} : svout'.pc[q] = svout.pc[q],
         pc' \in fronts \cup {0} \/ TriedAgain'
  PROVE  PlacesInv'
<1>1. Placed /\ ip \in Nat /\ last \in Nat /\ stepping # NoSlot
  BY DEF PlacesInv, InGroup, StepInv, TidsInv, TypeInv, TypeOK
<1>2. /\ ip' = ip + 1 /\ last' = last /\ code' = code /\ fronts' = fronts
      /\ stepping' = stepping /\ src' = src /\ self' = self /\ emitted' = emitted
  BY DEF Continues, code, self
<1>3. NoneFilled => NoneFilled'
  BY <1>2 DEF NoneFilled
<1>4. CreateAhead' => CreateAhead
  BY <1>1, <1>2 DEF CreateAhead, InGroup
<1>5. Placed'
  BY <1>1, <1>2, <1>3, <1>4 DEF Placed
<1> QED
  BY <1>2, <1>5 DEF PlacesInv, Framed

(* Where the process stands while a group runs. *)
LEMMA PlacesInGroup ==
  ASSUME PlacesInv, InGroup
  PROVE  /\ TypeInv /\ StepInv /\ stepping # NoSlot /\ ip <= last
         /\ ip \in Nat /\ last \in Nat /\ self \in Slot
         /\ svout \in StateVectorType /\ svout.stk \in [Slot -> Seq(Frame)]
         /\ module \in Modules /\ ip \in DOMAIN code
         /\ Placed /\ pc \in fronts \cup {0} /\ 0 \notin fronts
         /\ blockStarts(code) \subseteq fronts
<1>1. /\ TypeInv /\ StepInv /\ stepping # NoSlot /\ ip <= last /\ ip \in Nat /\ last \in Nat
      /\ svout \in StateVectorType /\ module \in Modules /\ Placed
  BY DEF PlacesInv, InGroup, StepInv, TidsInv, TypeInv, TypeOK
<1>2. self \in Slot /\ ip \in DOMAIN code
  BY <1>1, Executing
<1>3. ~TriedAgain
  BY <1>1 DEF TriedAgain
<1>4. pc \in fronts \cup {0}
  BY <1>1, <1>3 DEF Placed
<1>5. blockStarts(code) \subseteq fronts
  BY <1>1, ModuleFronts DEF PlacesInv, code
<1>6. 0 \notin fronts
  BY DEF PlacesInv, groupFronts
<1>7. svout.stk \in [Slot -> Seq(Frame)]
  BY <1>1 DEF StateVectorType
<1> QED
  BY <1>1, <1>2, <1>4, <1>5, <1>6, <1>7

(* The operations that only work on registers and memory. *)
Kept(s, s2) == SameThreads(s, s2) /\ s2.stk = s.stk

LEMMA KeptOperations ==
  ASSUME NEW s \in StateVectorType, NEW p \in Slot
  PROVE  /\ Kept(s, s)
         /\ Kept(s, [s EXCEPT !.asserted = TRUE])
         /\ \A d, v : Kept(s, setReg(s, p, d, v))
         /\ \A d, v, n : Kept(s, setReg(allocate(s, p, n), p, d, v))
         /\ \A ptr, v : Kept(s, storeTo(s, ptr, v))
         /\ \A d, v, ptr, w : Kept(s, storeTo(setReg(s, p, d, v), ptr, w))
         /\ \A d, v, ptr, w : Kept(s, setReg(storeTo(s, ptr, w), p, d, v))
         /\ \A d, v, d2, v2 : Kept(s, setReg(setReg(s, p, d, v), p, d2, v2))
         /\ \A d, v, d2, v2, ptr, w :
              Kept(s, setReg(setReg(storeTo(s, ptr, w), p, d, v), p, d2, v2))
BY DataOperations, StacksData DEF Kept

(* The instructions that set no pc. *)
LEMMA PlacesData ==
  ASSUME PlacesInv, StepInv', InGroup,
         \/ ValueMapped \/ ExtractValue \/ AllocateMemory \/ Load \/ Store \/ PthreadJoin \/ Atomic
         \/ Unreachable \/ External \/ AssertFail
  PROVE  PlacesInv'
<1>1. /\ self \in Slot /\ svout \in StateVectorType /\ Placed /\ pc \in fronts \cup {0}
  BY PlacesInGroup
<1>2. \E s : resultsIn(s) /\ Kept(svout, s)
  <2>1. CASE ValueMapped \/ ExtractValue
    BY <1>1, <2>1, KeptOperations DEF ValueMapped, ExtractValue
  <2>2. CASE AllocateMemory
    BY <1>1, <2>2, KeptOperations DEF AllocateMemory
  <2>3. CASE Load \/ Store
    BY <1>1, <2>3, KeptOperations DEF Load, Store
  <2>4. CASE PthreadJoin
    BY <1>1, <2>4, KeptOperations DEF PthreadJoin
  <2>5. CASE AtomicLoad \/ AtomicStore \/ Memcpy \/ AtomicRMW
    BY <1>1, <2>5, KeptOperations
       DEF AtomicLoad, AtomicStore, Memcpy, copyCell, AtomicRMW
  <2>6. CASE CmpXchg
    BY <1>1, <2>6, KeptOperations DEF CmpXchg
  <2>7. CASE AtomicCompareExchange
    BY <1>1, <2>7, KeptOperations DEF AtomicCompareExchange
  <2>8. CASE Unreachable \/ External \/ AssertFail
    BY <1>1, <2>8, KeptOperations DEF Unreachable, External, AssertFail
  <2> QED
    BY <2>1, <2>2, <2>3, <2>4, <2>5, <2>6, <2>7, <2>8 DEF Atomic
<1>3. Continues /\ Kept(svout, svout')
  BY <1>2 DEF resultsIn, Continues
<1>4. Framed(svout)' /\ self' = self /\ fronts' = fronts
  BY <1>1, <1>3 DEF Placed, Framed, Kept, Continues, self
<1>5. svout'.pc = svout.pc
  BY <1>3 DEF Kept, SameThreads
<1>6. pc' \in fronts \cup {0}
  BY <1>1, <1>4, <1>5 DEF pc
<1> QED
  BY <1>3, <1>4, <1>5, <1>6, PlacesContinue

(* br and call go to the start of a block; a call is the last of its group *)
(* and leaves the location behind it in the frame.                         *)
LEMMA PlacesJump ==
  ASSUME PlacesInv, StepInv', InGroup, Branch \/ Call
  PROVE  PlacesInv'
<1>1. /\ self \in Slot /\ svout \in StateVectorType /\ Placed /\ pc \in fronts \cup {0}
      /\ StepInv /\ ip \in Nat /\ last \in Nat /\ module \in Modules /\ ip \in DOMAIN module.code
      /\ blockStarts(code) \subseteq fronts
  BY PlacesInGroup DEF code
<1>2. I.op \in {"call", "br"} /\ I = module.code[ip]
  BY DEF Branch, Call, executing, I, code
<1>3. I.fn \in fronts /\ (I.op = "br" => I.b \in fronts)
  BY <1>1, <1>2, ModulesAssumption DEF wellFormed, code
<1>4. Framed(svout)
  BY <1>1 DEF Placed
<1>5. CASE Branch
  <2>1. PICK l, phis : l \in fronts /\ resultsIn(storePHIs(setPC(svout, self, l), self, phis))
    <3> DEFINE target == IF I.a = NoReg \/ value(I.a) # 0 THEN I.fn ELSE I.b
    <3>1. target \in fronts
      BY <1>3, <1>5 DEF Branch, executing
    <3>2. resultsIn(storePHIs(setPC(svout, self, target), self, phisOn(module, ip, target)))
      BY <1>5 DEF Branch
    <3> QED
      BY <3>1, <3>2
  <2> DEFINE s == storePHIs(setPC(svout, self, l), self, phis)
  <2>2. s.stk = svout.stk /\ s.pc[self] = l /\ SameButPC(svout, s, self)
    <3>1. \A m, moves : /\ storePHIs(setPC(svout, self, m), self, moves).stk = svout.stk
                        /\ storePHIs(setPC(svout, self, m), self, moves).pc[self] = m
      BY <1>1, StacksMove
    <3>2. \A m, moves : SameButPC(svout, storePHIs(setPC(svout, self, m), self, moves), self)
      BY <1>1, ControlOperations
    <3> QED
      BY <3>1, <3>2
  <2>3. Continues /\ svout' = s
    BY <2>1 DEF resultsIn, Continues
  <2> HIDE DEF s
  <2>4. self' = self /\ fronts' = fronts
    BY <2>3 DEF Continues, self
  <2>5. Framed(svout)' /\ pc' = l /\ \A q \in Slot \ {self} : svout'.pc[q] = svout.pc[q]
    BY <1>4, <2>2, <2>3, <2>4 DEF Framed, pc, SameButPC
  <2> QED
    BY <2>1, <2>3, <2>4, <2>5, PlacesContinue
<1>6. CASE Call
  <2> DEFINE s == pushStackFrame(svout, self, I.fn, I.a, I.b, I.d)
             frame == savedFrame(svout, self, I.d)
  <2>1. I.op \in GroupEnders /\ I.op \notin Terminators
    BY <1>6 DEF Call, executing, GroupEnders, Terminators, Calls
  <2>2. ip = last
    BY <1>1, <2>1, EndersAreLast
  <2>3. pc = last + 1
    BY <1>1, <2>1, <2>2 DEF StepInv, PCStored, I
  <2>4. pc \in fronts
    BY <1>1, <2>3
  <2>5. frame.pc = pc
    BY DEF savedFrame, pc
  <2>6. s.stk = [svout.stk EXCEPT ![self] = <<frame>> \o svout.stk[self]] /\ s.pc[self] = I.fn
    <3>1. \A e, a, b, d :
            /\ pushStackFrame(svout, self, e, a, b, d).pc[self] = e
            /\ pushStackFrame(svout, self, e, a, b, d).stk
                 = [svout.stk EXCEPT ![self] = <<savedFrame(svout, self, d)>> \o svout.stk[self]]
      BY <1>1, StacksCall
    <3> QED
      BY <3>1
  <2>7. SameButPC(svout, s, self)
    BY <1>1, ControlOperations
  <2>8. Continues /\ svout' = s
    BY <1>6 DEF Call, resultsIn, Continues
  <2> HIDE DEF s, frame
  <2>9. Framed(s)
    BY <1>1, <1>4, <2>4, <2>5, <2>6, FramedPush
  <2>10. self' = self /\ fronts' = fronts
    BY <2>8 DEF Continues, self
  <2>11. Framed(svout)' /\ pc' = I.fn /\ \A q \in Slot \ {self} : svout'.pc[q] = svout.pc[q]
    BY <2>6, <2>7, <2>8, <2>9, <2>10 DEF Framed, pc, SameButPC
  <2> QED
    BY <1>3, <2>8, <2>10, <2>11, PlacesContinue
<1> QED
  BY <1>5, <1>6

(* ret goes back to the location in the frame, or ends the thread. *)
LEMMA PlacesReturn ==
  ASSUME PlacesInv, StepInv', InGroup, Return
  PROVE  PlacesInv'
<1>1. /\ self \in Slot /\ svout \in StateVectorType /\ Placed /\ Framed(svout)
      /\ src \in StateVectorType /\ TypeInv /\ stepping # NoSlot /\ ip <= last
  BY PlacesInGroup DEF Placed, TypeInv, TypeOK
<1>2. src.tid[self] \in Tid /\ I.a \in Operand
  BY <1>1, Executing, InstructionFacts DEF TypeInv, TypeOK, code, I, StateVectorType
<1>3. \E s : /\ resultsIn(s) /\ Framed(s) /\ s.pc[self] \in fronts \cup {0}
            /\ \A q \in Slot \ {self} : s.pc[q] = svout.pc[q]
  <2>1. CASE svout.stk[self] # <<>>
    <3> DEFINE s == popStackFrame(svout, self, I.a)
    <3>1. resultsIn(s)
      BY <2>1 DEF Return
    <3>2. /\ s.pc[self] = Head(svout.stk[self]).pc
          /\ s.stk = [svout.stk EXCEPT ![self] = Tail(svout.stk[self])]
          /\ SameButPC(svout, s, self)
      <4>1. \A v : /\ popStackFrame(svout, self, v).pc[self] = Head(svout.stk[self]).pc
                   /\ popStackFrame(svout, self, v).stk = [svout.stk EXCEPT ![self] = Tail(svout.stk[self])]
        BY <1>1, StacksPop
      <4>2. \A v : SameButPC(svout, popStackFrame(svout, self, v), self)
        BY <1>1, ControlOperations
      <4> QED
        BY <4>1, <4>2, Zenon
    <3> HIDE DEF s
    <3>3. Framed(s) /\ Head(svout.stk[self]).pc \in fronts
      BY <1>1, <2>1, <3>2, FramedPop
    <3> QED
      BY <3>1, <3>2, <3>3 DEF SameButPC
  <2>2. CASE svout.stk[self] = <<>>
    <3> DEFINE s == endThread(svout, self, src.tid[self], I.a)
    <3>1. resultsIn(s)
      BY <2>2 DEF Return
    <3>2. s.stk = svout.stk /\ s.pc[self] = 0
      <4>1. \A t, v : /\ endThread(svout, self, t, v).stk = svout.stk
                      /\ endThread(svout, self, t, v).pc[self] = 0
        BY <1>1, StacksEnd
      <4> QED
        BY <4>1
    <3>3. \A q \in Slot \ {self} : s.pc[q] = svout.pc[q]
      BY <1>1, <1>2, EndThreadEffect
    <3> HIDE DEF s
    <3> QED
      BY <1>1, <3>1, <3>2, <3>3, FramedSame
  <2> QED
    BY <2>1, <2>2
<1>4. PICK s : /\ resultsIn(s) /\ Framed(s) /\ s.pc[self] \in fronts \cup {0}
               /\ \A q \in Slot \ {self} : s.pc[q] = svout.pc[q]
  BY <1>3
<1>5. Continues /\ svout' = s
  BY <1>4 DEF resultsIn, Continues
<1>6. self' = self /\ fronts' = fronts
  BY <1>5 DEF Continues, self
<1>7. Framed(svout)' /\ pc' \in fronts \cup {0}
  BY <1>4, <1>5, <1>6 DEF Framed, pc
<1> QED
  BY <1>4, <1>5, <1>6, <1>7, PlacesContinue

(* pthread_create without a free slot: no thread was created by this call  *)
(* of model_step, so there was none in src either.                         *)
LEMMA PlacesCreateFull ==
  ASSUME PlacesInv, StepInv', InGroup, PthreadCreateFull
  PROVE  PlacesInv'
<1>1. /\ self \in Slot /\ svout \in StateVectorType /\ Placed /\ Framed(svout)
      /\ StepInv /\ stepping # NoSlot /\ ip \in Nat /\ last \in Nat /\ ip <= last
  BY PlacesInGroup DEF Placed
<1>2. I.op = "create" /\ freeSlots(svout) = {}
  BY DEF PthreadCreateFull, executing
<1>3. CreateAhead
  BY <1>1, <1>2 DEF CreateAhead, I
<1>4. NoneFilled
  BY <1>1, <1>3 DEF Placed
<1>5. \A q \in Slot : src.pc[q] # 0
  BY <1>1, <1>2, <1>4 DEF NoneFilled, freeSlots, StepInv
<1>6. freeSlots(src) = {}
  BY <1>5 DEF freeSlots
<1>7. ip = last
  BY <1>1, <1>2, EndersAreLast DEF GroupEnders, Terminators, Calls
<1> DEFINE s == setPC(svout, self, ip)
<1>8. s.stk = svout.stk /\ s.pc[self] = ip /\ SameButPC(svout, s, self)
  <2>1. \A l : setPC(svout, self, l).stk = svout.stk /\ setPC(svout, self, l).pc[self] = l
    BY <1>1, StacksSetPC
  <2>2. \A l : SameButPC(svout, setPC(svout, self, l), self)
    BY <1>1, ControlOperations
  <2> QED
    BY <2>1, <2>2
<1>9. Continues /\ svout' = s
  BY DEF PthreadCreateFull, resultsIn, Continues
<1> HIDE DEF s
<1>10. /\ self' = self /\ fronts' = fronts /\ code' = code /\ src' = src
       /\ ip' = ip + 1 /\ last' = last
  BY <1>9 DEF Continues, self, code
<1>11. Framed(svout)' /\ pc' = ip /\ \A q \in Slot \ {self} : svout'.pc[q] = svout.pc[q]
  BY <1>1, <1>8, <1>9, <1>10 DEF Framed, pc, SameButPC
<1>12. TriedAgain'
  BY <1>1, <1>2, <1>6, <1>7, <1>10, <1>11 DEF TriedAgain, I
<1> QED
  BY <1>9, <1>11, <1>12, PlacesContinue

(* pthread_create starts the thread at the start of a block, in a slot     *)
(* that is not the creator's, and ends the group, which is an emitter.     *)
LEMMA PlacesCreate ==
  ASSUME PlacesInv, StepInv', InGroup, PthreadCreate
  PROVE  PlacesInv'
<1>1. /\ self \in Slot /\ svout \in StateVectorType /\ Placed /\ Framed(svout)
      /\ StepInv /\ stepping # NoSlot /\ ip \in Nat /\ last \in Nat /\ ip <= last
      /\ module \in Modules /\ ip \in DOMAIN module.code
      /\ pc \in fronts \cup {0} /\ blockStarts(code) \subseteq fronts
  BY PlacesInGroup DEF Placed, code
<1>2. I.op = "create" /\ I = module.code[ip]
  BY DEF PthreadCreate, executing, I, code
<1>3. I.fn \in fronts
  BY <1>1, <1>2, ModulesAssumption DEF wellFormed, code
<1>4. CreateAhead
  BY <1>1, <1>2 DEF CreateAhead, I
<1>5. ip = last
  BY <1>1, <1>2, EndersAreLast DEF GroupEnders, Terminators, Calls
<1>6. PICK q \in Slot : /\ isFirstFree(svout, q)
                        /\ resultsIn(createThread(svout, q, I.fn, value(I.b), value(I.a)))
  BY DEF PthreadCreate
<1>7. q # self
  BY <1>1, <1>2, <1>6, CreatorIsNotFree DEF isFirstFree
<1> DEFINE s == createThread(svout, q, I.fn, value(I.b), value(I.a))
<1>8. s.pc[q] = I.fn /\ \A q2 \in Slot \ {q} : s.pc[q2] = svout.pc[q2]
  BY <1>1, CreateThreadEffect
<1>9. s.stk = [svout.stk EXCEPT ![q] = <<>>]
  <2>1. \A e, a, ptr : createThread(svout, q, e, a, ptr).stk = [svout.stk EXCEPT ![q] = <<>>]
    BY <1>1, StacksCreate
  <2> QED
    BY <2>1
<1>10. Continues /\ svout' = s
  BY <1>6 DEF resultsIn, Continues
<1> HIDE DEF s
<1>11. Framed(s)
  BY <1>1, <1>9, FramedStart
<1>12. /\ self' = self /\ fronts' = fronts /\ code' = code /\ src' = src
       /\ ip' = ip + 1 /\ last' = last /\ emitted' = emitted /\ stepping' = stepping
  BY <1>10 DEF Continues, self, code
<1>13. Framed(svout)' /\ pc' = pc
  BY <1>1, <1>7, <1>8, <1>10, <1>11, <1>12 DEF Framed, pc
<1>14. \A q2 \in Slot \ {self} : svout'.pc[q2] \in fronts \cup {0}
  BY <1>1, <1>3, <1>8, <1>10 DEF Placed
<1>15. ~CreateAhead' /\ emitted'
  BY <1>1, <1>4, <1>5, <1>12 DEF CreateAhead, InGroup, Placed
<1>16. Placed'
  BY <1>1, <1>12, <1>13, <1>14, <1>15 DEF Placed
<1> QED
  BY <1>12, <1>16 DEF PlacesInv, Framed

(* dmc_nextstates: main and the constructors start at the start of a block. *)
LEMMA PlacesNextstates ==
  ASSUME PlacesInv, StepInv', ConstructorStart \/ MainStart \/ IncrementStatus \/ Upload
  PROVE  PlacesInv'
<1>1. /\ src \in StateVectorType /\ module \in Modules
      /\ Framed(src) /\ \A q \in Slot : src.pc[q] \in fronts \cup {0}
      /\ fronts = groupFronts(code)
  BY DEF PlacesInv, StepInv, TidsInv, TypeInv, TypeOK
<1>2. {module.main, module.ctor} \subseteq fronts \cup {0}
  BY <1>1, ModuleFronts DEF code
<1>3. ASSUME NEW entry \in fronts \cup {0}, NEW n
      PROVE  LET s == [(IF entry = 0 THEN src ELSE startFunction(src, 0, entry)) EXCEPT !.status = n]
             IN  Framed(s) /\ \A q \in Slot : s.pc[q] \in fronts \cup {0}
  <2> DEFINE s == [(IF entry = 0 THEN src ELSE startFunction(src, 0, entry)) EXCEPT !.status = n]
  <2>1. CASE entry = 0
    <3>1. s.stk = src.stk /\ s.pc = src.pc
      BY <1>1, <2>1 DEF StateVectorType
    <3> HIDE DEF s
    <3>2. Framed(s)
      BY <1>1, <3>1, FramedSame
    <3> QED
      BY <1>1, <3>1, <3>2 DEF s
  <2>2. CASE entry # 0
    <3>1. s.stk = [src.stk EXCEPT ![0] = <<>>] /\ s.pc = [src.pc EXCEPT ![0] = entry]
      BY <1>1, <2>2 DEF StateVectorType, startFunction
    <3> HIDE DEF s
    <3>2. Framed(s)
      BY <1>1, <3>1, SlotZero, FramedStart
    <3>3. \A q \in Slot : s.pc[q] \in fronts \cup {0}
      BY <1>1, <3>1 DEF StateVectorType
    <3> QED
      BY <3>2, <3>3 DEF s
  <2> QED
    BY <2>1, <2>2
<1>4. CASE ConstructorStart \/ MainStart \/ IncrementStatus
  <2>1. \E entry \in fronts \cup {0} : \E n :
          transition([(IF entry = 0 THEN src ELSE startFunction(src, 0, entry)) EXCEPT !.status = n])
    <3>1. CASE ConstructorStart
      BY <1>2, <3>1 DEF ConstructorStart
    <3>2. CASE MainStart
      BY <1>2, <3>2 DEF MainStart
    <3>3. CASE IncrementStatus
      <4>1. transition([(IF 0 = 0 THEN src ELSE startFunction(src, 0, 0)) EXCEPT !.status = src.status + 1])
        BY <3>3 DEF IncrementStatus
      <4> QED
        BY <4>1
    <3> QED
      BY <1>4, <3>1, <3>2, <3>3
  <2>2. PICK entry \in fronts \cup {0} : \E n :
          transition([(IF entry = 0 THEN src ELSE startFunction(src, 0, entry)) EXCEPT !.status = n])
    BY <2>1
  <2>3. PICK n :
          transition([(IF entry = 0 THEN src ELSE startFunction(src, 0, entry)) EXCEPT !.status = n])
    BY <2>2
  <2> QED
    BY <1>1, <1>3, <2>3, PlacesTransition
<1>5. CASE Upload
  <2>1. /\ Placed /\ transition(svout) /\ self \in Slot /\ pc \in fronts \cup {0}
    BY <1>5 DEF PlacesInv, Upload, betweenGroups, isFront, StepInv, TidsInv, TypeInv, TypeOK, self
  <2>2. Framed(svout) /\ \A q \in Slot : svout.pc[q] \in fronts \cup {0}
    BY <2>1 DEF Placed, pc
  <2> QED
    BY <1>1, <2>1, <2>2, PlacesTransition
<1> QED
  BY <1>4, <1>5

LEMMA PlacesStep == PlacesInv /\ [Next]_vars => PlacesInv'
<1> SUFFICES ASSUME PlacesInv, [Next]_vars PROVE PlacesInv'
  OBVIOUS
<1>1. StepInv'
  BY StepInvStep DEF PlacesInv
<1>2. CASE ConstructorStart \/ MainStart \/ IncrementStatus \/ Upload
  BY <1>1, <1>2, PlacesNextstates
<1>3. CASE EnterGroup
  BY <1>1, <1>3, PlacesEnterGroup
<1>4. CASE NoSuchPC
  BY <1>1, <1>4, PlacesEndNoReport DEF NoSuchPC
<1>5. CASE Execute
  <2>1. InGroup
    BY <1>5, ExecuteEffects DEF InGroup, PlacesInv, StepInv, TidsInv
  <2>2. CASE Branch \/ Call
    BY <1>1, <2>1, <2>2, PlacesJump
  <2>3. CASE Return
    BY <1>1, <2>1, <2>3, PlacesReturn
  <2>4. CASE PthreadCreate
    BY <1>1, <2>1, <2>4, PlacesCreate
  <2>5. CASE PthreadCreateFull
    BY <1>1, <2>1, <2>5, PlacesCreateFull
  <2>6. CASE PthreadJoinBlocked
    BY <1>1, <2>6, PlacesEndNoReport DEF PthreadJoinBlocked
  <2> QED
    BY <1>1, <1>5, <2>1, <2>2, <2>3, <2>4, <2>5, <2>6, PlacesData DEF Execute
<1>6. CASE UNCHANGED vars \/ EndState
  BY <1>1, <1>6 DEF EndState, vars, PlacesInv, Placed, Framed, NoneFilled, TriedAgain, CreateAhead,
     InGroup, code, pc, self
<1>7. ASSUME NEW q \in Slot, BeginStep(q)
      PROVE  PlacesInv'
  <2>1. /\ stepping' = q /\ src' = src /\ svout' = src /\ ip' = ip /\ last' = last
        /\ fronts' = fronts /\ code' = code /\ self' = q
        /\ ip > last /\ ip \in Nat /\ last \in Nat
    BY <1>7 DEF BeginStep, code, self, PlacesInv, StepInv, TidsInv, TypeInv, TypeOK
  <2>2. ~CreateAhead'
    BY <2>1 DEF CreateAhead, InGroup
  <2>3. NoneFilled'
    BY <2>1 DEF NoneFilled
  <2>4. pc' = src.pc[q]
    BY <2>1 DEF pc
  <2>5. Placed'
    BY <2>1, <2>2, <2>3, <2>4 DEF Placed, PlacesInv, Framed
  <2> QED
    BY <1>1, <2>1, <2>5 DEF PlacesInv, Framed
<1> QED
  BY <1>2, <1>3, <1>4, <1>5, <1>6, <1>7 DEF Next, StepBody

(* A process goes on, and returns, where a transition group of the module  *)
(* starts; "No such program counter" (line 819) is met only by a call of   *)
(* pthread_create that puts its own location back because the thread table *)
(* is full (line 3682), and then it was full in the state the step began   *)
(* with: for any module and any number of slots.                           *)
THEOREM ProcessesResumeAtGroups == Spec => []PCHasGroup
<1>1. PlacesInv => PCHasGroup
  <2> SUFFICES ASSUME PlacesInv PROVE PCHasGroup
    OBVIOUS
  <2>1. \A q \in Slot : /\ src.pc[q] # 0 => isFront(src.pc[q])
                        /\ \A k \in DOMAIN src.stk[q] : isFront(src.stk[q][k].pc)
    BY DEF PlacesInv, Framed, isFront
  <2>2. betweenGroups /\ pc # 0 /\ ~isFront(pc) => TriedAgain
    BY DEF PlacesInv, Placed, betweenGroups, isFront
  <2> QED
    BY <2>1, <2>2 DEF PCHasGroup, TriedAgain
<1> QED
  BY <1>1, PlacesInit, PlacesStep, PTL DEF Spec

-----------------------------------------------------------------------------
(***************************************************************************)
(* Memory is never handed out twice.  Every value of a state vector, in a  *)
(* register, in memory, in a frame or in the list of thread results, is no *)
(* pointer or one below the msize of the process it names: allocation is   *)
(* the only instruction that makes a pointer, and msize only grows.  A     *)
(* module may make pointers from numbers, however, and the null pointer of *)
(* generateAllocateMemory for a size of 0 is that of the next object; what *)
(* excludes both is stated of the instruction that is executed.            *)
(***************************************************************************)
Within(s, v) == isPointer(v) => offsetOf(v) < s.msize[creatorOf(v)]

HeldWithin(s) ==
  /\ \A q \in Slot : \A k \in Reg : Within(s, s.r[q][k])
  /\ \A q \in Slot : \A o \in Offset : Within(s, s.m[q][o])
  /\ \A q \in Slot : \A j \in DOMAIN s.stk[q] : \A k \in Reg : Within(s, s.stk[q][j].regs[k])
  /\ \A t \in Tid : Within(s, s.tres[t].value)

NoPointersMade ==
  /\ executing("const") => Within(svout, I.b)
  /\ executing("add") => Within(svout, value(I.a) + value(I.b))
  /\ executing("atomicrmw") /\ I.fn \in {1, 2} /\ isPointer(value(I.a)) =>
       Within(svout, newVal(I.fn, loadFrom(svout, value(I.a)), value(I.b)))
  /\ executing("alloca") \/ executing("malloc") => I.b > 0

BoundsInv == TypeInv /\ HeldWithin(src) /\ HeldWithin(svout)

(* A pointer that makePointer makes names the process and the offset.      *)
LEMMA MadePointer ==
  ASSUME NEW p \in Slot, NEW o \in Offset
  PROVE  creatorOf(makePointer(p, o)) = p /\ offsetOf(makePointer(p, o)) = o
<1>1. \A b, n, x \in Nat : x < b => ((n * b + x) \div b) = n /\ ((n * b + x) % b) = x
  OBVIOUS
<1>2. PtrBase \in Nat /\ p + 1 \in Nat /\ o \in Nat /\ o < PtrBase /\ (p + 1) - 1 = p
  BY ConstantsAssumption DEF Slot, Offset
<1>3. (((p + 1) * PtrBase + o) \div PtrBase) = p + 1 /\ (((p + 1) * PtrBase + o) % PtrBase) = o
  BY ONLY <1>1, <1>2
<1> QED
  BY <1>2, <1>3 DEF creatorOf, offsetOf, makePointer

(* Thread identifiers, and 0 and 1, are no pointers.                       *)
LEMMA SmallIsNoPointer ==
  ASSUME NEW v \in 0..(PtrBase - 1)
  PROVE  ~isPointer(v)
<1>1. \A b, x \in Nat : x < b => (x \div b) = 0
  OBVIOUS
<1>2. PtrBase \in Nat /\ v \in Nat /\ v < PtrBase
  BY ConstantsAssumption
<1>3. (v \div PtrBase) = 0
  BY ONLY <1>1, <1>2
<1> QED
  BY <1>3 DEF isPointer, creatorOf, Slot

(* What the model itself writes is no pointer. *)
LEMMA TidsAreNoPointers ==
  ASSUME NEW s
  PROVE  /\ \A t \in Tid : Within(s, t)
         /\ Within(s, 0) /\ Within(s, 1)
<1>1. Tid \subseteq 0..(PtrBase - 1) /\ 0 \in Tid /\ 1 \in Tid
  BY ConstantsAssumption DEF Tid
<1> QED
  BY <1>1, SmallIsNoPointer DEF Within

(* The memory of no process shrinks.                                       *)
Grows(s, s2) == \A q \in Slot : s.msize[q] \in Int /\ s2.msize[q] \in Int /\ s.msize[q] <= s2.msize[q]

LEMMA WithinGrows ==
  ASSUME NEW s, NEW s2, Grows(s, s2), NEW v, v \in Int, Within(s, v)
  PROVE  Within(s2, v)
<1> SUFFICES ASSUME isPointer(v) PROVE offsetOf(v) < s2.msize[creatorOf(v)]
  BY DEF Within
<1>1. offsetOf(v) < s.msize[creatorOf(v)] /\ creatorOf(v) \in Slot /\ offsetOf(v) \in Int
  BY DEF Within, isPointer, Offset
<1>2. \A a, b, c \in Int : a < b /\ b <= c => a < c
  OBVIOUS
<1> QED
  BY <1>1, <1>2 DEF Grows

(* A value that an operand holds. *)
LEMMA OperandWithin ==
  ASSUME NEW s, HeldWithin(s), NEW p \in Slot, NEW k \in Operand
  PROVE  Within(s, operand(s, p, k))
BY TidsAreNoPointers DEF operand, HeldWithin, Operand

(* A value loaded through a pointer. *)
LEMMA LoadWithin ==
  ASSUME NEW s, HeldWithin(s), NEW ptr, isPointer(ptr)
  PROVE  Within(s, loadFrom(s, ptr))
BY DEF loadFrom, isPointer, HeldWithin

(* A register assigned. *)
LEMMA SetRegWithin ==
  ASSUME NEW s \in StateVectorType, HeldWithin(s), NEW p \in Slot, NEW d \in Operand, NEW v,
         Within(s, v)
  PROVE  /\ HeldWithin(setReg(s, p, d, v))
         /\ \A w : Within(s, w) <=> Within(setReg(s, p, d, v), w)
<1> DEFINE s2 == setReg(s, p, d, v)
<1>1. /\ s2.msize = s.msize /\ s2.m = s.m /\ s2.stk = s.stk /\ s2.tres = s.tres
      /\ \A q \in Slot : \A k \in Reg : s2.r[q][k] = s.r[q][k] \/ s2.r[q][k] = v
  BY DEF setReg, StateVectorType, RegisterFile
<1> HIDE DEF s2
<1>2. \A w : Within(s, w) <=> Within(s2, w)
  BY <1>1 DEF Within
<1> QED
  BY <1>1, <1>2 DEF HeldWithin, s2

(* A cell assigned. *)
LEMMA StoreWithin ==
  ASSUME NEW s \in StateVectorType, HeldWithin(s), NEW ptr, NEW v, Within(s, v)
  PROVE  /\ HeldWithin(storeTo(s, ptr, v))
         /\ \A w : Within(s, w) <=> Within(storeTo(s, ptr, v), w)
<1> DEFINE s2 == storeTo(s, ptr, v)
<1>1. /\ s2.msize = s.msize /\ s2.r = s.r /\ s2.stk = s.stk /\ s2.tres = s.tres
      /\ \A q \in Slot : \A o \in Offset : s2.m[q][o] = s.m[q][o] \/ s2.m[q][o] = v
  BY DEF storeTo, StateVectorType
<1> HIDE DEF s2
<1>2. \A w : Within(s, w) <=> Within(s2, w)
  BY <1>1 DEF Within
<1> QED
  BY <1>1, <1>2 DEF HeldWithin, s2

(* Memory allocated: msize grows and nothing else changes.                 *)
LEMMA AllocateWithin ==
  ASSUME NEW s \in StateVectorType, HeldWithin(s), NEW p \in Slot, NEW n \in Nat
  PROVE  HeldWithin(allocate(s, p, n)) /\ Grows(s, allocate(s, p, n))
<1> DEFINE s2 == allocate(s, p, n)
<1>1. /\ s2.r = s.r /\ s2.m = s.m /\ s2.stk = s.stk /\ s2.tres = s.tres
      /\ s2.msize = [s.msize EXCEPT ![p] = @ + n] /\ s.msize \in [Slot -> Nat]
  BY DEF allocate, StateVectorType
<1> HIDE DEF s2
<1>2. Grows(s, s2)
  BY <1>1 DEF Grows
<1>3. \A v \in Int : Within(s, v) => Within(s2, v)
  BY <1>2, WithinGrows
<1>4. /\ \A q \in Slot : \A k \in Reg : s.r[q][k] \in Int
      /\ \A q \in Slot : \A o \in Offset : s.m[q][o] \in Int
      /\ \A t \in Tid : s.tres[t].value \in Int
  BY DEF StateVectorType, RegisterFile
<1>5. \A q \in Slot : \A j \in DOMAIN s.stk[q] : \A k \in Reg : s.stk[q][j].regs[k] \in Int
  <2> SUFFICES ASSUME NEW q \in Slot, NEW j \in DOMAIN s.stk[q]
               PROVE  \A k \in Reg : s.stk[q][j].regs[k] \in Int
    OBVIOUS
  <2>1. s.stk[q] \in Seq(Frame)
    BY DEF StateVectorType
  <2>2. s.stk[q][j] \in Frame
    BY <2>1
  <2> QED
    BY <2>2 DEF Frame, RegisterFile
<1> QED
  BY <1>1, <1>2, <1>3, <1>4, <1>5 DEF HeldWithin, s2

(* The register file, stack and pc of one process replaced.                *)
LEMMA ControlWithin ==
  ASSUME NEW s \in StateVectorType, HeldWithin(s), NEW p \in Slot, NEW stk, NEW regs, NEW l,
         \A k \in Reg : Within(s, regs[k]),
         \A j \in DOMAIN stk : \A k \in Reg : Within(s, stk[j].regs[k])
  PROVE  HeldWithin(withControl(s, p, stk, regs, l))
<1> DEFINE s2 == withControl(s, p, stk, regs, l)
<1>1. /\ s2.msize = s.msize /\ s2.m = s.m /\ s2.tres = s.tres
      /\ \A q \in Slot : s2.r[q] = (IF q = p THEN regs ELSE s.r[q])
      /\ \A q \in Slot : s2.stk[q] = (IF q = p THEN stk ELSE s.stk[q])
  BY DEF withControl, StateVectorType
<1> HIDE DEF s2
<1>2. \A w : Within(s, w) <=> Within(s2, w)
  BY <1>1 DEF Within
<1>3. \A q \in Slot : \A k \in Reg : Within(s2, s2.r[q][k])
  BY <1>1, <1>2 DEF HeldWithin
<1>4. \A q \in Slot : \A j \in DOMAIN s2.stk[q] : \A k \in Reg : Within(s2, s2.stk[q][j].regs[k])
  <2> SUFFICES ASSUME NEW q \in Slot
               PROVE  \A j \in DOMAIN s2.stk[q] : \A k \in Reg : Within(s2, s2.stk[q][j].regs[k])
    OBVIOUS
  <2>1. s2.stk[q] = IF q = p THEN stk ELSE s.stk[q]
    BY <1>1
  <2>2. CASE q = p
    BY <1>2, <2>1, <2>2
  <2>3. CASE q # p
    BY <1>2, <2>1, <2>3 DEF HeldWithin
  <2> QED
    BY <2>2, <2>3
<1> QED
  BY <1>1, <1>2, <1>3, <1>4 DEF HeldWithin, s2

(* The moves of PHI nodes copy registers of the process.                   *)
LEMMA StorePHIsWithin ==
  ASSUME NEW s \in StateVectorType, HeldWithin(s), NEW p \in Slot, NEW phis,
         \A e \in phis : e.a \in Operand
  PROVE  HeldWithin(storePHIs(s, p, phis))
<1> DEFINE s2 == storePHIs(s, p, phis)
           moved == [k \in Reg |-> IF \E e \in phis : e.d = k
                                   THEN operand(s, p, (CHOOSE e \in phis : e.d = k).a)
                                   ELSE s.r[p][k]]
<1>1. \A k \in Reg : Within(s, moved[k])
  <2> SUFFICES ASSUME NEW k \in Reg PROVE Within(s, moved[k])
    OBVIOUS
  <2>1. CASE \E e \in phis : e.d = k
    <3>1. (CHOOSE e \in phis : e.d = k).a \in Operand
      BY <2>1
    <3>2. Within(s, operand(s, p, (CHOOSE e \in phis : e.d = k).a))
      BY <3>1, OperandWithin
    <3> QED
      BY <2>1, <3>2
  <2>2. CASE ~ \E e \in phis : e.d = k
    BY <2>2 DEF HeldWithin
  <2> QED
    BY <2>1, <2>2
<1>2. s2 = [s EXCEPT !.r[p] = moved]
  BY DEF storePHIs
<1> HIDE DEF moved, s2
<1>3. /\ s2.msize = s.msize /\ s2.m = s.m /\ s2.stk = s.stk /\ s2.tres = s.tres
      /\ \A q \in Slot : s2.r[q] = IF q = p THEN moved ELSE s.r[q]
  BY <1>2 DEF StateVectorType
<1>4. \A w : Within(s, w) <=> Within(s2, w)
  BY <1>3 DEF Within
<1>5. \A q \in Slot : \A k \in Reg : Within(s2, s2.r[q][k])
  BY <1>1, <1>3, <1>4 DEF HeldWithin
<1> QED
  BY <1>3, <1>4, <1>5 DEF HeldWithin, s2

(* A program counter stored. *)
LEMMA SetPCWithin ==
  ASSUME NEW s \in StateVectorType, HeldWithin(s), NEW p \in Slot, NEW l
  PROVE  HeldWithin(setPC(s, p, l))
<1> DEFINE s2 == setPC(s, p, l)
<1>1. s2.msize = s.msize /\ s2.m = s.m /\ s2.stk = s.stk /\ s2.tres = s.tres /\ s2.r = s.r
  BY DEF setPC, StateVectorType
<1> HIDE DEF s2
<1> QED
  BY <1>1 DEF HeldWithin, Within, s2

(* A call copies registers to registers and saves a register file.         *)
LEMMA PushWithin ==
  ASSUME NEW s \in StateVectorType, HeldWithin(s), NEW p \in Slot, NEW entry,
         NEW a \in Operand, NEW b \in Operand, NEW d
  PROVE  HeldWithin(pushStackFrame(s, p, entry, a, b, d))
<1> DEFINE frame == [pc |-> s.pc[p], regs |-> s.r[p], res |-> IF d = NoReg THEN 0 ELSE d]
           stk   == <<frame>> \o s.stk[p]
           first == IF a = NoReg THEN s.r[p] ELSE [s.r[p] EXCEPT ![0] = s.r[p][a]]
           regs  == assignArguments(s.r[p], a, b)
<1>1. s.r[p] \in RegisterFile /\ s.stk[p] \in Seq(Frame)
  BY DEF StateVectorType
<1>2. \A k \in Reg : Within(s, s.r[p][k])
  BY DEF HeldWithin
<1>3. \A k \in Reg : Within(s, first[k]) 
  BY <1>1, <1>2 DEF RegisterFile, Operand
<1>4. first \in RegisterFile
  BY <1>1 DEF RegisterFile, Operand
<1>5. regs = IF b = NoReg THEN first ELSE [first EXCEPT ![1] = first[b]]
  BY DEF assignArguments
<1> HIDE DEF first, regs
<1>6. \A k \in Reg : Within(s, regs[k])
  BY <1>3, <1>4, <1>5 DEF RegisterFile, Operand
<1>7. \A j \in DOMAIN stk : \A k \in Reg : Within(s, stk[j].regs[k])
  <2> SUFFICES ASSUME NEW j \in DOMAIN stk PROVE \A k \in Reg : Within(s, stk[j].regs[k])
    OBVIOUS
  <2>1. Len(<<frame>>) = 1 /\ Len(stk) = 1 + Len(s.stk[p]) /\ j \in 1..Len(stk)
    BY <1>1
  <2>2. CASE j = 1
    <3>1. stk[j].regs = s.r[p]
      BY <1>1, <2>2
    <3> QED
      BY <1>2, <3>1
  <2>3. CASE j # 1
    <3>1. j - 1 \in DOMAIN s.stk[p] /\ stk[j] = s.stk[p][j - 1]
      BY <1>1, <2>1, <2>3
    <3> QED
      BY <3>1 DEF HeldWithin
  <2> QED
    BY <2>2, <2>3
<1>8. pushStackFrame(s, p, entry, a, b, d) = withControl(s, p, stk, regs, entry)
  BY DEF pushStackFrame, withControl, regs
<1> HIDE DEF stk, frame
<1> QED
  BY <1>6, <1>7, <1>8, ControlWithin

(* A return takes back a saved register file, with the value returned.     *)
LEMMA PopWithin ==
  ASSUME NEW s \in StateVectorType, HeldWithin(s), NEW p \in Slot, NEW val \in Operand,
         s.stk[p] # <<>>
  PROVE  HeldWithin(popStackFrame(s, p, val))
<1> DEFINE frame == Head(s.stk[p])
           stk   == Tail(s.stk[p])
           regs  == IF val = NoReg THEN frame.regs
                    ELSE [frame.regs EXCEPT ![frame.res] = s.r[p][val]]
<1>1. s.stk[p] \in Seq(Frame)
  BY DEF StateVectorType
<1>2. 1 \in DOMAIN s.stk[p] /\ frame = s.stk[p][1] /\ frame \in Frame
  BY <1>1
<1>3. \A j \in DOMAIN stk : j + 1 \in DOMAIN s.stk[p] /\ stk[j] = s.stk[p][j + 1]
  BY <1>1
<1>4. popStackFrame(s, p, val) = withControl(s, p, stk, regs, frame.pc)
  BY DEF popStackFrame, withControl
<1> HIDE DEF frame, stk
<1>5. \A k \in Reg : Within(s, frame.regs[k])
  BY <1>2 DEF HeldWithin
<1>6. frame.regs \in RegisterFile
  BY <1>2 DEF Frame
<1>7. val # NoReg => Within(s, s.r[p][val])
  BY DEF HeldWithin, Operand
<1>8. \A k \in Reg : Within(s, regs[k])
  BY <1>5, <1>6, <1>7 DEF RegisterFile
<1>9. \A j \in DOMAIN stk : \A k \in Reg : Within(s, stk[j].regs[k])
  BY <1>3 DEF HeldWithin
<1> HIDE DEF regs
<1> QED
  BY <1>4, <1>8, <1>9, ControlWithin

(* The end of a thread files a value of one of its registers.              *)
LEMMA EndWithin ==
  ASSUME NEW s \in StateVectorType, HeldWithin(s), NEW p \in Slot, NEW t \in Tid,
         NEW val \in Operand
  PROVE  HeldWithin(endThread(s, p, t, val))
<1> DEFINE s2 == endThread(s, p, t, val)
<1>1. /\ s2.msize = s.msize /\ s2.m = s.m /\ s2.stk = s.stk
      /\ s2.r = [s.r EXCEPT ![p] = ZeroRegs]
      /\ s2.tres = [s.tres EXCEPT ![t] = IF val = NoReg THEN s.tres[t]
                                         ELSE [status |-> t, value |-> s.r[p][val]]]
  BY DEF endThread, StateVectorType
<1> HIDE DEF s2
<1>2. \A w : Within(s, w) <=> Within(s2, w)
  BY <1>1 DEF Within
<1>3. \A q \in Slot : \A k \in Reg : s2.r[q][k] = s.r[q][k] \/ s2.r[q][k] = 0
  BY <1>1 DEF StateVectorType, ZeroRegs
<1>4. \A q \in Slot : \A k \in Reg : Within(s2, s2.r[q][k])
  BY <1>2, <1>3, TidsAreNoPointers DEF HeldWithin
<1>5. val # NoReg => Within(s, s.r[p][val])
  BY DEF HeldWithin, Operand
<1>6. \A t2 \in Tid : \/ s2.tres[t2].value = s.tres[t2].value
                      \/ val # NoReg /\ s2.tres[t2].value = s.r[p][val]
  BY <1>1 DEF StateVectorType
<1>7. \A t2 \in Tid : Within(s2, s2.tres[t2].value)
  BY <1>2, <1>5, <1>6 DEF HeldWithin
<1> QED
  BY <1>1, <1>2, <1>4, <1>7 DEF HeldWithin, s2

(* The start of main, of the constructors or of a thread in a slot.        *)
LEMMA StartWithin ==
  ASSUME NEW s \in StateVectorType, HeldWithin(s), NEW q \in Slot, NEW entry
  PROVE  /\ HeldWithin(startFunction(s, q, entry))
         /\ startFunction(s, q, entry).msize = s.msize
<1> DEFINE s2 == startFunction(s, q, entry)
<1>1. /\ s2.msize = s.msize /\ s2.m = s.m /\ s2.r = s.r /\ s2.tres = s.tres
      /\ \A q2 \in Slot : s2.stk[q2] = s.stk[q2] \/ s2.stk[q2] = <<>>
  BY DEF startFunction, StateVectorType
<1> HIDE DEF s2
<1>2. \A q2 \in Slot : \A j \in DOMAIN s2.stk[q2] : \A k \in Reg : Within(s, s2.stk[q2][j].regs[k])
  <2> SUFFICES ASSUME NEW q2 \in Slot, NEW j \in DOMAIN s2.stk[q2]
               PROVE  \A k \in Reg : Within(s, s2.stk[q2][j].regs[k])
    OBVIOUS
  <2>1. s2.stk[q2] = s.stk[q2]
    BY <1>1
  <2> QED
    BY <2>1 DEF HeldWithin
<1>3. \A w : Within(s, w) <=> Within(s2, w)
  BY <1>1 DEF Within
<1>4. HeldWithin(s2)
  BY <1>1, <1>2, <1>3 DEF HeldWithin
<1> QED
  BY <1>1, <1>4 DEF s2

(* A new thread gets the argument in its first register; its identifier,   *)
(* which is no pointer, goes to memory.                                    *)
LEMMA CreateWithin ==
  ASSUME NEW s \in StateVectorType, HeldWithin(s), NEW q \in Slot, NEW entry \in Nat,
         NEW arg \in Int, Within(s, arg), NEW ptr, s.threadsStarted < MaxTid
  PROVE  HeldWithin(createThread(s, q, entry, arg, ptr))
<1> DEFINE new == s.threadsStarted + 1
           run == startFunction(s, q, entry)
           reg == setReg(run, q, 0, arg)
           thr == [reg EXCEPT !.tid[q] = new, !.threadsStarted = new]
<1>1. run \in StateVectorType /\ HeldWithin(run) /\ Within(run, arg)
  BY StartFunctionType, StartWithin DEF Within
<1>2. new \in Tid
  <2>1. s.threadsStarted \in 0..MaxTid
    BY DEF StateVectorType, Tid
  <2> QED
    BY <2>1, ConstantsAssumption DEF Tid
<1>3. createThread(s, q, entry, arg, ptr) = storeTo(thr, ptr, new)
  BY SlotZero DEF createThread, setReg, NoReg, Reg
<1> HIDE DEF run, new
<1>4. reg \in StateVectorType /\ HeldWithin(reg)
  BY <1>1, SetRegType, SetRegWithin, SlotZero DEF Operand
<1> HIDE DEF reg
<1>5. thr \in StateVectorType
  BY <1>2, <1>4 DEF StateVectorType
<1>6. HeldWithin(thr)
  <2>1. /\ thr.msize = reg.msize /\ thr.m = reg.m /\ thr.r = reg.r /\ thr.tres = reg.tres
        /\ thr.stk = reg.stk
    BY <1>4 DEF StateVectorType
  <2> HIDE DEF thr
  <2> QED
    BY <1>4, <2>1 DEF HeldWithin, Within
<1> HIDE DEF thr
<1>7. Within(thr, new)
  BY <1>2, TidsAreNoPointers
<1> QED
  BY <1>3, <1>5, <1>6, <1>7, StoreWithin


-----------------------------------------------------------------------------
(* A step to a state vector all of whose pointers are within bounds.       *)
LEMMA ResultsInBounds ==
  ASSUME BoundsInv, NEW s, HeldWithin(s), resultsIn(s)
  PROVE  HeldWithin(src') /\ HeldWithin(svout')
BY DEF resultsIn, BoundsInv

LEMMA TransitionBounds ==
  ASSUME NEW s, HeldWithin(s), transition(s)
  PROVE  HeldWithin(src') /\ HeldWithin(svout')
BY DEF transition

LEMMA EndNoReportBounds ==
  ASSUME BoundsInv, endNoReport
  PROVE  HeldWithin(src') /\ HeldWithin(svout')
BY DEF endNoReport, BoundsInv

(* Initially memory and registers are zero.                                *)
LEMMA BoundsInit == Init => BoundsInv
<1> SUFFICES ASSUME Init PROVE BoundsInv
  OBVIOUS
<1>1. TypeInv
  BY TypeInit
<1> DEFINE s == initialState(module.globals)
<1>2. /\ \A q \in Slot : \A k \in Reg : s.r[q][k] = 0
      /\ \A q \in Slot : \A o \in Offset : s.m[q][o] = 0
      /\ \A q \in Slot : s.stk[q] = <<>>
      /\ \A t \in Tid : s.tres[t].value = 0
  BY DEF initialState, ZeroRegs
<1>3. src = s /\ svout = s
  BY DEF Init
<1> HIDE DEF s
<1>4. HeldWithin(s)
  BY <1>2, TidsAreNoPointers DEF HeldWithin
<1> QED
  BY <1>1, <1>3, <1>4 DEF BoundsInv

(* dmc_nextstates: the steps outside model_step.                           *)
LEMMA BoundsNextstates ==
  ASSUME BoundsInv, ConstructorStart \/ MainStart \/ IncrementStatus
  PROVE  HeldWithin(src') /\ HeldWithin(svout')
<1>1. src \in StateVectorType /\ HeldWithin(src)
  BY DEF BoundsInv, TypeInv, TypeOK
<1>2. \A entry : HeldWithin(startFunction(src, 0, entry))
  BY <1>1, StartWithin, SlotZero
<1>3. \A entry : startFunction(src, 0, entry).status = src.status /\ DOMAIN startFunction(src, 0, entry) = DOMAIN src
  BY <1>1 DEF startFunction
<1>4. ASSUME NEW s, HeldWithin(s), NEW n
      PROVE  HeldWithin([s EXCEPT !.status = n])
  <2> DEFINE s2 == [s EXCEPT !.status = n]
  <2>1. s2.msize = s.msize /\ s2.m = s.m /\ s2.r = s.r /\ s2.tres = s.tres /\ s2.stk = s.stk
    OBVIOUS
  <2> HIDE DEF s2
  <2> QED
    BY <1>4, <2>1 DEF HeldWithin, Within, s2
<1>5. CASE ConstructorStart
  BY <1>1, <1>2, <1>4, <1>5, TransitionBounds DEF ConstructorStart
<1>6. CASE MainStart
  BY <1>1, <1>2, <1>4, <1>6, TransitionBounds DEF MainStart
<1>7. CASE IncrementStatus
  BY <1>1, <1>4, <1>7, TransitionBounds DEF IncrementStatus
<1> QED
  BY <1>5, <1>6, <1>7

(* The loop of model_step over transition groups.                          *)
LEMMA BoundsGroups ==
  ASSUME BoundsInv, EnterGroup \/ Upload \/ NoSuchPC
  PROVE  HeldWithin(src') /\ HeldWithin(svout')
<1>1. svout \in StateVectorType /\ HeldWithin(svout) /\ HeldWithin(src) /\ self \in Slot
  BY DEF BoundsInv, TypeInv, TypeOK, EnterGroup, Upload, NoSuchPC, betweenGroups, self
<1>2. \A l : HeldWithin(setPC(svout, self, l))
  BY <1>1, SetPCWithin
<1>3. CASE EnterGroup
  BY <1>1, <1>2, <1>3 DEF EnterGroup
<1>4. CASE Upload
  BY <1>1, <1>4, TransitionBounds DEF Upload
<1>5. CASE NoSuchPC
  BY <1>5, EndNoReportBounds DEF NoSuchPC
<1> QED
  BY <1>3, <1>4, <1>5

(* The atomic instructions and functions, and memcpy, move values.         *)
LEMMA BoundsAtomic ==
  ASSUME BoundsInv, NoPointersMade, Atomic
  PROVE  HeldWithin(src') /\ HeldWithin(svout')
<1>1. stepping # NoSlot /\ ip <= last /\ TypeInv
  BY DEF Atomic, executing, AtomicLoad, AtomicStore, Memcpy, AtomicRMW, CmpXchg,
         AtomicCompareExchange, BoundsInv
<1>2. /\ self \in Slot /\ module \in Modules /\ ip \in DOMAIN module.code
      /\ svout \in StateVectorType /\ HeldWithin(svout)
      /\ \A k \in Operand : value(k) \in Int
      /\ \A k \in Operand : Within(svout, value(k))
      /\ Reg \subseteq Operand /\ 0 \in Int /\ 1 \in Int
  BY <1>1, Executing, OperandWithin DEF BoundsInv, TypeInv, TypeOK, code, Operand, value
<1>3. /\ I.d \in Operand /\ I.a \in Operand /\ I.b \in Operand
      /\ I.op \in {"cmpxchg", "atomic_compare_exchange"} => I.fn \in Operand
      /\ I.op = "cmpxchg" => I.d + 1 \in Operand
  BY <1>2, InstructionFacts DEF I, code, Atomic, executing, AtomicLoad, AtomicStore, Memcpy,
     AtomicRMW, CmpXchg, AtomicCompareExchange
<1> DEFINE A == value(I.a)  B == value(I.b)  F == value(I.fn)
<1>4. /\ A \in Int /\ B \in Int /\ Within(svout, A) /\ Within(svout, B)
      /\ I.op \in {"cmpxchg", "atomic_compare_exchange"} => F \in Int /\ Within(svout, F)
  BY <1>2, <1>3
<1>5. \A ptr \in Int : isPointer(ptr) =>
        loadFrom(svout, ptr) \in Int /\ Within(svout, loadFrom(svout, ptr))
  BY <1>2, LoadType, LoadWithin
<1>6. ASSUME NEW ptr \in Int, isPointer(ptr), NEW v \in Int, Within(svout, v)
      PROVE  /\ storeTo(svout, ptr, v) \in StateVectorType
             /\ HeldWithin(storeTo(svout, ptr, v))
             /\ \A w : Within(svout, w) => Within(storeTo(svout, ptr, v), w)
  BY <1>2, <1>6, StoreType, StoreWithin
<1>7. ASSUME NEW s \in StateVectorType, HeldWithin(s), NEW d \in Operand, NEW v \in Int, Within(s, v)
      PROVE  /\ setReg(s, self, d, v) \in StateVectorType
             /\ HeldWithin(setReg(s, self, d, v))
  BY <1>2, <1>7, SetRegType, SetRegWithin
<1>8. ASSUME NEW s \in StateVectorType, HeldWithin(s), I.d + 1 \in Operand,
             NEW v \in Int, Within(s, v), NEW w \in {0, 1}
      PROVE  HeldWithin(setReg(setReg(s, self, I.d, v), self, I.d + 1, w))
  <2> DEFINE s2 == setReg(s, self, I.d, v)
  <2>1. s2 \in StateVectorType /\ HeldWithin(s2)
    BY <1>3, <1>7, <1>8
  <2>2. w \in Int /\ Within(s2, w)
    BY TidsAreNoPointers
  <2> HIDE DEF s2
  <2>3. HeldWithin(setReg(s2, self, I.d + 1, w))
    BY <1>7, <1>8, <2>1, <2>2
  <2> QED
    BY <2>3 DEF s2
<1> HIDE DEF A, B, F
<1>9. CASE AtomicLoad \/ AtomicStore \/ Memcpy
  <2>1. PICK ptr \in Int, from \in Int : copyCell(ptr, from)
    BY <1>4, <1>9 DEF AtomicLoad, AtomicStore, Memcpy, A, B
  <2>2. HeldWithin(storeTo(svout, ptr, loadFrom(svout, from)))
    BY <1>5, <1>6, <2>1 DEF copyCell
  <2> QED
    BY <2>1, <2>2, ResultsInBounds DEF copyCell
<1>10. CASE AtomicRMW
  <2> DEFINE old == loadFrom(svout, A)
             new == newVal(I.fn, old, B)
  <2>1. isPointer(A) /\ executing("atomicrmw") /\ resultsIn(storeTo(svout, A, new))
    BY <1>10 DEF AtomicRMW, A, B
  <2>2. old \in Int
    BY <1>4, <1>5, <2>1
  <2>3. new \in Int
    BY <1>4, <2>2 DEF newVal
  <2>4. Within(svout, new)
    <3>1. CASE I.fn \in {1, 2}
      BY <2>1, <3>1 DEF NoPointersMade, A, B
    <3>2. CASE I.fn \notin {1, 2}
      <4>1. new = B
        BY <3>2 DEF newVal
      <4> QED
        BY <1>4, <4>1
    <3> QED
      BY <3>1, <3>2
  <2> HIDE DEF new, old
  <2>5. HeldWithin(storeTo(svout, A, new))
    BY <1>4, <1>6, <2>1, <2>3, <2>4
  <2> QED
    BY <2>1, <2>5, ResultsInBounds
<1>11. CASE CmpXchg
  <2> DEFINE old == loadFrom(svout, A)
             stored == storeTo(svout, A, F)
             success == setReg(setReg(stored, self, I.d, old), self, I.d + 1, 1)
             failure == setReg(setReg(svout, self, I.d, old), self, I.d + 1, 0)
  <2>1. isPointer(A) /\ (resultsIn(success) \/ resultsIn(failure))
    BY <1>11 DEF CmpXchg, A, B, F
  <2>2. F \in Int /\ Within(svout, F) /\ I.d + 1 \in Operand
    BY <1>3, <1>4, <1>11 DEF CmpXchg, executing
  <2>3. old \in Int /\ Within(svout, old)
    BY <1>4, <1>5, <2>1
  <2> HIDE DEF old
  <2>4. stored \in StateVectorType /\ HeldWithin(stored) /\ Within(stored, old)
    BY <1>4, <1>6, <2>1, <2>2, <2>3
  <2> HIDE DEF stored
  <2>5. HeldWithin(success)
    BY <1>8, <2>2, <2>3, <2>4
  <2>6. HeldWithin(failure)
    BY <1>2, <1>8, <2>2, <2>3
  <2> HIDE DEF success, failure
  <2> QED
    BY <2>1, <2>5, <2>6, ResultsInBounds
<1>12. CASE AtomicCompareExchange
  <2> DEFINE onSuccess == storeTo(svout, A, loadFrom(svout, F))
             onFailure == storeTo(svout, B, loadFrom(svout, A))
             success == setReg(onSuccess, self, I.d, 1)
             failure == setReg(onFailure, self, I.d, 0)
  <2>1. /\ isPointer(A) /\ isPointer(B) /\ isPointer(F)
        /\ resultsIn(success) \/ resultsIn(failure)
    BY <1>12 DEF AtomicCompareExchange, A, B, F
  <2>2. F \in Int
    BY <1>4, <1>12 DEF AtomicCompareExchange, executing
  <2>3. /\ onSuccess \in StateVectorType /\ HeldWithin(onSuccess)
        /\ onFailure \in StateVectorType /\ HeldWithin(onFailure)
    BY <1>4, <1>5, <1>6, <2>1, <2>2
  <2> HIDE DEF onSuccess, onFailure
  <2>4. HeldWithin(success) /\ HeldWithin(failure)
    BY <1>2, <1>3, <1>7, <2>3, TidsAreNoPointers
  <2> HIDE DEF success, failure
  <2> QED
    BY <2>1, <2>4, ResultsInBounds
<1> QED
  BY <1>9, <1>10, <1>11, <1>12 DEF Atomic

(* generateNextStateForInstruction: one instruction.                       *)
LEMMA BoundsExecute ==
  ASSUME BoundsInv, NoPointersMade, Execute
  PROVE  HeldWithin(src') /\ HeldWithin(svout')
<1>1. stepping # NoSlot /\ ip <= last /\ TypeInv
  BY DEF Execute, executing, ValueMapped, AllocateMemory, Load, Store, Branch, Unreachable,
         Call, Return, External, AssertFail, PthreadCreate, PthreadCreateFull,
         PthreadJoin, PthreadJoinBlocked, ExtractValue, Atomic, AtomicLoad, AtomicStore, Memcpy,
         AtomicRMW, CmpXchg, AtomicCompareExchange, BoundsInv
<1>2. /\ self \in Slot /\ module \in Modules /\ ip \in DOMAIN module.code
      /\ ip \in Nat
      /\ src \in StateVectorType /\ svout \in StateVectorType /\ HeldWithin(svout)
      /\ \A k \in Operand : value(k) \in Int
  BY <1>1, Executing DEF BoundsInv, TypeInv, TypeOK, code
<1>3. /\ I.d \in Operand /\ I.a \in Operand /\ I.b \in Int /\ I.fn \in Nat
      /\ I.op \in {"add", "store", "call", "create", "join"} => I.b \in Operand
      /\ I.op \in {"alloca", "malloc", "br"} => I.b \in Nat
      /\ I.op = "extractvalue" => I.a + I.b \in Operand
  BY <1>2, InstructionFacts DEF I, code, Operand
<1>4. \A k \in Operand : Within(svout, value(k))
  BY <1>2, OperandWithin DEF value
<1>5. \A d \in Operand : \A v : Within(svout, v) => HeldWithin(setReg(svout, self, d, v))
  BY <1>2, SetRegWithin
<1>6. CASE ValueMapped
  <2>1. CASE executing("const") /\ resultsIn(setReg(svout, self, I.d, I.b))
    BY <1>3, <1>5, <2>1, ResultsInBounds DEF NoPointersMade
  <2>2. CASE executing("add") /\ resultsIn(setReg(svout, self, I.d, value(I.a) + value(I.b)))
    BY <1>3, <1>5, <2>2, ResultsInBounds DEF NoPointersMade
  <2> QED
    BY <1>6, <2>1, <2>2 DEF ValueMapped
<1>7. CASE AllocateMemory
  <2> DEFINE size == svout.msize[self]
             ptr  == makePointer(self, size)
             s    == allocate(svout, self, I.b)
  <2>1. /\ I.b \in Nat /\ I.b > 0 /\ size + I.b <= MemWords
        /\ resultsIn(setReg(s, self, I.d, ptr))
    BY <1>3, <1>7 DEF AllocateMemory, executing, NoPointersMade
  <2>2. size \in Nat /\ s.msize[self] = size + I.b
    BY <1>2 DEF StateVectorType, allocate
  <2>3. size \in Offset
    BY <2>1, <2>2, ConstantsAssumption DEF Offset
  <2>4. creatorOf(ptr) = self /\ offsetOf(ptr) = size
    BY <1>2, <2>3, MadePointer
  <2>5. s \in StateVectorType /\ HeldWithin(s)
    BY <1>2, <2>1, AllocateType, AllocateWithin
  <2> HIDE DEF ptr, s, size
  <2>6. Within(s, ptr)
    BY <2>1, <2>2, <2>4 DEF Within
  <2>7. HeldWithin(setReg(s, self, I.d, ptr))
    BY <1>2, <1>3, <2>5, <2>6, SetRegWithin
  <2> QED
    BY <2>1, <2>7, ResultsInBounds
<1>8. CASE Load
  BY <1>2, <1>3, <1>5, <1>8, LoadWithin, ResultsInBounds DEF Load
<1>9. CASE Store
  <2>1. I.b \in Operand
    BY <1>3, <1>9 DEF Store, executing
  <2>2. HeldWithin(storeTo(svout, value(I.a), value(I.b)))
    BY <1>2, <1>4, <2>1, StoreWithin
  <2> QED
    BY <1>9, <2>2, ResultsInBounds DEF Store
<1>10. CASE Branch
  <2> DEFINE target == IF I.a = NoReg \/ value(I.a) # 0 THEN I.fn ELSE I.b
             phis   == phisOn(module, ip, target)
  <2>1. I.op = "br"
    BY <1>10 DEF Branch, executing
  <2>2. target \in Nat
    BY <1>3, <2>1
  <2>3. \A e \in phis : e.a \in Operand
    BY <1>2, ModuleFacts DEF phisOn
  <2>4. resultsIn(storePHIs(setPC(svout, self, target), self, phis))
    BY <1>10 DEF Branch
  <2> HIDE DEF target, phis
  <2>5. setPC(svout, self, target) \in StateVectorType /\ HeldWithin(setPC(svout, self, target))
    BY <1>2, <2>2, SetPCType, SetPCWithin
  <2>6. HeldWithin(storePHIs(setPC(svout, self, target), self, phis))
    BY <1>2, <2>3, <2>5, StorePHIsWithin
  <2> QED
    BY <2>4, <2>6, ResultsInBounds
<1>11. CASE Unreachable \/ External
  BY <1>2, <1>11, ResultsInBounds DEF Unreachable, External
<1>12. CASE Call
  <2>1. I.b \in Operand
    BY <1>3, <1>12 DEF Call, executing
  <2>2. HeldWithin(pushStackFrame(svout, self, I.fn, I.a, I.b, I.d))
    BY <1>2, <1>3, <2>1, PushWithin
  <2> QED
    BY <1>12, <2>2, ResultsInBounds DEF Call
<1>13. CASE Return
  <2>1. CASE svout.stk[self] # <<>>
    <3>1. HeldWithin(popStackFrame(svout, self, I.a))
      BY <1>2, <1>3, <2>1, PopWithin
    <3> QED
      BY <1>13, <2>1, <3>1, ResultsInBounds DEF Return
  <2>2. CASE svout.stk[self] = <<>>
    <3>1. src.tid[self] \in Tid
      BY <1>2 DEF StateVectorType
    <3>2. HeldWithin(endThread(svout, self, src.tid[self], I.a))
      BY <1>2, <1>3, <3>1, EndWithin
    <3> QED
      BY <1>13, <2>2, <3>2, ResultsInBounds DEF Return
  <2> QED
    BY <2>1, <2>2
<1>14. CASE AssertFail
  <2> DEFINE s == [svout EXCEPT !.asserted = TRUE]
  <2>1. /\ s.msize = svout.msize /\ s.m = svout.m /\ s.r = svout.r /\ s.tres = svout.tres
        /\ s.stk = svout.stk
    OBVIOUS
  <2>2. resultsIn(s)
    BY <1>14 DEF AssertFail
  <2> HIDE DEF s
  <2>3. HeldWithin(s)
    BY <1>2, <2>1 DEF HeldWithin, Within
  <2> QED
    BY <2>2, <2>3, ResultsInBounds
<1>15. CASE PthreadCreate
  <2>1. I.b \in Operand
    BY <1>3, <1>15 DEF PthreadCreate, executing
  <2>2. value(I.b) \in Int /\ Within(svout, value(I.b))
    BY <1>2, <1>4, <2>1
  <2>3. PICK q \in Slot : resultsIn(createThread(svout, q, I.fn, value(I.b), value(I.a)))
    BY <1>15 DEF PthreadCreate
  <2>4. HeldWithin(createThread(svout, q, I.fn, value(I.b), value(I.a)))
    BY <1>2, <1>3, <1>15, <2>2, CreateWithin DEF PthreadCreate
  <2> QED
    BY <2>3, <2>4, ResultsInBounds
<1>16. CASE PthreadCreateFull
  BY <1>2, <1>16, SetPCWithin, ResultsInBounds DEF PthreadCreateFull
<1>17. CASE PthreadJoin
  <2> DEFINE returned == setReg(svout, self, I.d, 0)
             ptr      == operand(returned, self, I.b)
             res      == svout.tres[value(I.a)].value
             stored   == IF ptr = 0 THEN returned ELSE storeTo(returned, ptr, res)
  <2>1. returned \in StateVectorType /\ HeldWithin(returned)
    BY <1>2, <1>3, <1>5, SetRegType, TidsAreNoPointers
  <2>2. value(I.a) \in Tid
    BY <1>17 DEF PthreadJoin, hasResult
  <2>3. Within(svout, res)
    BY <1>2, <2>2 DEF HeldWithin
  <2>4. Within(returned, res)
    BY <1>2, <1>3, <2>3, SetRegWithin, TidsAreNoPointers
  <2>5. resultsIn(stored)
    BY <1>17 DEF PthreadJoin
  <2> HIDE DEF returned, ptr, res
  <2>6. HeldWithin(stored)
    BY <2>1, <2>4, StoreWithin
  <2> QED
    BY <2>5, <2>6, ResultsInBounds
<1>18. CASE PthreadJoinBlocked
  BY <1>18, EndNoReportBounds DEF PthreadJoinBlocked
<1>19. CASE Atomic
  BY <1>19, BoundsAtomic
<1>20. CASE ExtractValue
  <2>1. I.a + I.b \in Operand
    BY <1>3, <1>20 DEF ExtractValue, executing
  <2> QED
    BY <1>3, <1>4, <1>5, <1>20, <2>1, ResultsInBounds DEF ExtractValue
<1> QED
  BY <1>6, <1>7, <1>8, <1>9, <1>10, <1>11, <1>12, <1>13, <1>14, <1>15, <1>16, <1>17, <1>18,
     <1>19, <1>20 DEF Execute

(* Every step keeps the bounds.                                            *)
LEMMA BoundsStep == BoundsInv /\ NoPointersMade /\ [Next]_vars => BoundsInv'
<1> SUFFICES ASSUME BoundsInv, NoPointersMade, [Next]_vars PROVE BoundsInv'
  OBVIOUS
<1>1. TypeInv'
  BY TypeStep DEF BoundsInv
<1>2. HeldWithin(src) /\ HeldWithin(svout)
  BY DEF BoundsInv
<1>3. HeldWithin(src') /\ HeldWithin(svout')
  <2>1. CASE ConstructorStart \/ MainStart \/ IncrementStatus
    BY <2>1, BoundsNextstates
  <2>2. CASE EnterGroup \/ Upload \/ NoSuchPC
    BY <2>2, BoundsGroups
  <2>3. CASE Execute
    BY <2>3, BoundsExecute
  <2>4. ASSUME NEW q \in Slot, BeginStep(q)
        PROVE  HeldWithin(src') /\ HeldWithin(svout')
    BY <1>2, <2>4 DEF BeginStep
  <2>5. CASE EndState \/ UNCHANGED vars
    BY <1>2, <2>5 DEF EndState, vars
  <2> QED
    BY <2>1, <2>2, <2>3, <2>4, <2>5 DEF Next, StepBody
<1> QED
  BY <1>1, <1>3 DEF BoundsInv

(* Memory is never handed out twice: whatever a thread holds as a pointer, *)
(* in a register or in memory, lies below the msize of the process it      *)
(* names, where the next allocation starts, also when slots have been      *)
(* freed and used again; for every module that makes pointers only by      *)
(* allocating objects that are not empty, and from pointers to objects     *)
(* (generateAllocateMemory).                                               *)
THEOREM MemoryHandedOutOnce == Spec /\ []NoPointersMade => []PointersBelowMsize
<1>1. BoundsInv => PointersBelowMsize
  BY DEF BoundsInv, HeldWithin, Within, PointersBelowMsize
<1> QED
  BY <1>1, BoundsInit, BoundsStep, PTL DEF Spec
=============================================================================
