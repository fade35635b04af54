--------------------------- MODULE SVLayout_proofs ---------------------------
(***************************************************************************)
(* The fields of the state vector do not overlap and the driver finds the  *)
(* pc in word 6, for any functions, any registers and any number of slots. *)
(***************************************************************************)
EXTENDS SVLayout, WellFoundedInduction, TLAPS

-----------------------------------------------------------------------------
(* Natural numbers. *)
Less == {ss \in Nat \X Nat : ss[1] < ss[2]}

(* A nonempty set of natural numbers has a least element. *)
LEMMA LeastNumber ==
  ASSUME NEW S \in SUBSET Nat, S # {}
  PROVE  \E n \in S : \A m \in S : n <= m
<1>1. IsWellFoundedOn(Less, Nat)
  BY NatLessThanWellFounded, Zenon DEF OpToRel, Less
<1>2. PICK n \in S : \A m \in S : ~ (<<m, n>> \in Less)
  BY <1>1, WFMin
<1>3. \A a, b \in Nat : a < b => <<a, b>> \in Less
  BY DEF Less
<1>4. ASSUME NEW m \in S PROVE n <= m
  <2>1. ~ (m < n)
    BY <1>2, <1>3
  <2> QED
    BY <2>1
<1> QED
  BY <1>4

(* Induction, about a set of numbers. *)
LEMMA AllNumbers ==
  ASSUME NEW S, 0 \in S, \A n \in Nat : n \in S => n + 1 \in S
  PROVE  Nat \subseteq S
<1> DEFINE T == Nat \ S
<1> SUFFICES ASSUME T # {} PROVE FALSE
  OBVIOUS
<1>1. PICK n \in T : \A m \in T : n <= m
  BY LeastNumber
<1>2. n # 0 /\ n - 1 \in Nat /\ (n - 1) + 1 = n /\ ~ (n <= n - 1)
  BY <1>1
<1>3. n - 1 \in S
  BY <1>1, <1>2
<1> QED
  BY <1>1, <1>2, <1>3

(* The largest of a set of numbers that has a bound. *)
LEMMA MaxInSet ==
  ASSUME NEW S \in SUBSET Nat, S # {}, NEW bound \in Nat, \A n \in S : n <= bound
  PROVE  Max(S) \in S /\ \A n \in S : n <= Max(S)
<1> DEFINE T == {b \in Nat : \A n \in S : n <= b}
<1>1. PICK b \in T : \A c \in T : b <= c
  <2>1. T \in SUBSET Nat /\ T # {}
    OBVIOUS
  <2> HIDE DEF T
  <2> QED
    BY <2>1, LeastNumber
<1>2. b \in S
  <2> SUFFICES ASSUME b \notin S PROVE FALSE
    OBVIOUS
  <2>1. PICK n \in S : TRUE
    OBVIOUS
  <2>2. b \in Nat /\ b # 0 /\ b - 1 \in Nat /\ ~ (b <= b - 1)
    BY <2>1
  <2>3. \A m \in S : m <= b - 1
    BY <2>2
  <2>4. b - 1 \in T
    BY <2>2, <2>3
  <2> QED
    BY <1>1, <2>2, <2>4
<1>3. \E x \in S : \A y \in S : x >= y
  BY <1>2
<1> QED
  BY <1>3 DEF Max

Alignments == {1, 2, 4, 8}
Type == [size : Nat, align : Alignments]

LEMMA RoundUp ==
  ASSUME NEW n \in Nat, NEW a \in Alignments
  PROVE  /\ roundUp(n, a) \in Nat
         /\ n <= roundUp(n, a) /\ roundUp(n, a) <= n + 7
         /\ roundUp(n, a) % a = 0
         /\ n % a = 0 => roundUp(n, a) = n
<1>1. CASE a = 1
  BY <1>1 DEF roundUp
<1>2. CASE a = 2
  BY <1>2 DEF roundUp
<1>3. CASE a = 4
  BY <1>3 DEF roundUp
<1>4. CASE a = 8
  BY <1>4 DEF roundUp
<1> QED
  BY <1>1, <1>2, <1>3, <1>4 DEF Alignments

-----------------------------------------------------------------------------
(* The offsets of a struct are defined by recursion. *)
offsetAfter(f, types, k) ==
  LET free == IF k = 1 THEN 0 ELSE f[k - 1] + types[k - 1].size
  IN  IF k > Len(types) THEN free ELSE roundUp(free, types[k].align)

isOffsets(f, types) == f = [k \in 1..Len(types) + 1 |-> offsetAfter(f, types, k)]

LEMMA OffsetIsNat ==
  ASSUME NEW types \in Seq(Type), NEW f, NEW k \in 1..Len(types) + 1, k # 1 => f[k - 1] \in Nat
  PROVE  offsetAfter(f, types, k) \in Nat
<1>1. k # 1 => k - 1 \in 1..Len(types)
  OBVIOUS
<1>2. \A j \in 1..Len(types) : types[j].size \in Nat /\ types[j].align \in Alignments
  <2>1. \A j \in 1..Len(types) : types[j] \in Type
    OBVIOUS
  <2> QED
    BY <2>1 DEF Type
<1>3. k # 1 => f[k - 1] \in Nat /\ types[k - 1].size \in Nat
  BY <1>1, <1>2
<1>4. (IF k = 1 THEN 0 ELSE f[k - 1] + types[k - 1].size) \in Nat
  BY <1>3
<1>5. ~ (k > Len(types)) => types[k].align \in Alignments
  BY <1>2
<1> QED
  BY <1>4, <1>5, RoundUp DEF offsetAfter

LEMMA OffsetsExist ==
  ASSUME NEW types \in Seq(Type)
  PROVE  \E f \in [1..Len(types) + 1 -> Nat] : isOffsets(f, types)
<1> DEFINE N == Len(types)
           upTo(n) == \E f \in [1..N + 1 -> Nat] :
                        \A k \in 1..N + 1 : k <= n => f[k] = offsetAfter(f, types, k)
           S == {n \in Nat : upTo(n)}
<1>1. N \in Nat
  OBVIOUS
<1>2. upTo(0)
  <2>1. [k \in 1..N + 1 |-> 0] \in [1..N + 1 -> Nat]
    OBVIOUS
  <2>2. \A k \in 1..N + 1 : ~ (k <= 0)
    BY <1>1
  <2> QED
    BY <2>1, <2>2
<1>3. ASSUME NEW n \in Nat, upTo(n) PROVE upTo(n + 1)
  <2>1. PICK f \in [1..N + 1 -> Nat] : \A k \in 1..N + 1 : k <= n => f[k] = offsetAfter(f, types, k)
    BY <1>3
  <2> DEFINE g == [k \in 1..N + 1 |-> IF k = n + 1 THEN offsetAfter(f, types, k) ELSE f[k]]
  <2>2. g \in [1..N + 1 -> Nat]
    <3>1. \A k \in 1..N + 1 : k # 1 => k - 1 \in 1..N + 1
      BY <1>1
    <3>2. \A k \in 1..N + 1 : k # 1 => f[k - 1] \in Nat
      BY <3>1
    <3> QED
      BY <3>2, OffsetIsNat
  <2>3. ASSUME NEW k \in 1..N + 1, k <= n + 1
        PROVE  g[k] = offsetAfter(g, types, k)
    <3>1. k # 1 => k - 1 \in 1..N + 1 /\ k - 1 # n + 1
      BY <1>1, <2>3
    <3>2. k # 1 => g[k - 1] = f[k - 1]
      BY <3>1
    <3>3. offsetAfter(g, types, k) = offsetAfter(f, types, k)
      BY <3>2 DEF offsetAfter
    <3>4. CASE k = n + 1
      BY <3>3, <3>4
    <3>5. CASE k # n + 1
      <4>1. k <= n
        BY <1>1, <2>3, <3>5
      <4> QED
        BY <2>1, <3>3, <3>5, <4>1
    <3> QED
      BY <3>4, <3>5
  <2> QED
    BY <2>2, <2>3
<1>4. upTo(N + 1)
  <2> HIDE DEF upTo
  <2>1. 0 \in S /\ \A n \in Nat : n \in S => n + 1 \in S
    BY <1>2, <1>3
  <2> HIDE DEF S
  <2>2. Nat \subseteq S
    BY <2>1, AllNumbers
  <2>3. N + 1 \in S
    BY <1>1, <2>2
  <2> QED
    BY <2>3 DEF S
<1>5. PICK f \in [1..N + 1 -> Nat] : \A k \in 1..N + 1 : k <= N + 1 => f[k] = offsetAfter(f, types, k)
  BY <1>4
<1>6. \A k \in 1..N + 1 : f[k] = offsetAfter(f, types, k)
  BY <1>1, <1>5
<1>7. f = [k \in 1..N + 1 |-> f[k]]
  BY <1>5
<1> QED
  BY <1>6, <1>7 DEF isOffsets

LEMMA OffsetsAre ==
  ASSUME NEW types \in Seq(Type)
  PROVE  /\ offsets(types) \in [1..Len(types) + 1 -> Nat]
         /\ \A k \in 1..Len(types) + 1 :
              offsets(types)[k] = offsetAfter(offsets(types), types, k)
<1>1. offsets(types) = CHOOSE f : isOffsets(f, types)
  BY DEF offsets, isOffsets, offsetAfter
<1>2. PICK f \in [1..Len(types) + 1 -> Nat] : isOffsets(f, types)
  BY OffsetsExist
<1>3. isOffsets(offsets(types), types)
  BY <1>1, <1>2
<1> DEFINE o == offsets(types)
           S == {n \in Nat : n \in 1..Len(types) + 1 => o[n] \in Nat}
<1>4. o = [k \in 1..Len(types) + 1 |-> o[k]]
  BY <1>3 DEF isOffsets
<1>5. \A k \in 1..Len(types) + 1 : o[k] = offsetAfter(o, types, k)
  BY <1>3 DEF isOffsets
<1> HIDE DEF o
<1>6. ASSUME NEW n \in Nat, n \in S PROVE n + 1 \in S
  <2>1. (n + 1) - 1 = n /\ (n + 1 \in 1..Len(types) + 1 /\ n + 1 # 1 => n \in 1..Len(types) + 1)
    OBVIOUS
  <2> QED
    BY <1>5, <1>6, <2>1, OffsetIsNat
<1>7. 0 \in S
  OBVIOUS
<1>8. \A k \in 1..Len(types) + 1 : o[k] \in Nat
  <2> HIDE DEF S
  <2>1. Nat \subseteq S
    BY <1>6, <1>7, AllNumbers
  <2> QED
    BY <2>1 DEF S
<1> QED
  BY <1>4, <1>5, <1>8 DEF o

(* What ends before a place ends before every place behind that one.       *)
LEMMA OneAfterTheOther ==
  ASSUME NEW a \in Nat, NEW size \in Nat, NEW b \in Nat, NEW size2 \in Nat, NEW c \in Nat,
         a + size <= b, b + size2 <= c
  PROVE  a + size <= c
OBVIOUS

(* A field starts where those before it end, or behind. *)
LEMMA FieldsInOrder ==
  ASSUME NEW types \in Seq(Type)
  PROVE  /\ offsets(types) \in [1..Len(types) + 1 -> Nat]
         /\ \A j, k \in 1..Len(types) + 1 :
              j < k => offsets(types)[j] + types[j].size <= offsets(types)[k]
<1> DEFINE N == Len(types)
           o == offsets(types)
           S == {d \in Nat : \A j \in 1..N + 1 :
                   j + d + 1 <= N + 1 => o[j] + types[j].size <= o[j + d + 1]}
<1>1. o \in [1..N + 1 -> Nat] /\ \A k \in 1..N + 1 : o[k] = offsetAfter(o, types, k)
  BY OffsetsAre
<1>2. \A j \in 1..N : types[j].size \in Nat /\ types[j].align \in Alignments
  <2>1. \A j \in 1..N : types[j] \in Type
    OBVIOUS
  <2> QED
    BY <2>1 DEF Type
<1> HIDE DEF o
<1>3. ASSUME NEW k \in 1..N + 1, k # 1
      PROVE  o[k - 1] + types[k - 1].size <= o[k]
  <2>1. k - 1 \in 1..N /\ k - 1 \in 1..N + 1 /\ (~ (k > N) => k \in 1..N)
    BY <1>3
  <2> DEFINE free == o[k - 1] + types[k - 1].size
  <2>2. free \in Nat
    <3>1. o[k - 1] \in Nat /\ types[k - 1].size \in Nat
      BY <1>1, <1>2, <2>1
    <3>2. \A a, b \in Nat : a + b \in Nat
      OBVIOUS
    <3> QED
      BY ONLY <3>1, <3>2
  <2>3. o[k] = IF k > N THEN free ELSE roundUp(free, types[k].align)
    BY <1>1, <1>3 DEF offsetAfter
  <2> HIDE DEF free
  <2>4. ~ (k > N) => free <= roundUp(free, types[k].align)
    BY <1>2, <2>1, <2>2, RoundUp
  <2>5. free <= o[k]
    BY <2>2, <2>3, <2>4
  <2> QED
    BY <2>5 DEF free
<1>4. 0 \in S
  <2> SUFFICES ASSUME NEW j \in 1..N + 1, j + 0 + 1 <= N + 1
               PROVE  o[j] + types[j].size <= o[j + 0 + 1]
    OBVIOUS
  <2>1. j + 0 + 1 = j + 1 /\ (j + 1) - 1 = j /\ j + 1 \in 1..N + 1 /\ j + 1 # 1
    OBVIOUS
  <2> QED
    BY <1>3, <2>1
<1>5. ASSUME NEW d \in Nat, d \in S PROVE d + 1 \in S
  <2>1. ASSUME NEW j \in 1..N + 1, j + (d + 1) + 1 <= N + 1
        PROVE  o[j] + types[j].size <= o[j + (d + 1) + 1]
    <3> DEFINE k == j + d + 1
    <3>1. k \in 1..N /\ k \in 1..N + 1 /\ k <= N + 1 /\ j + (d + 1) + 1 = k + 1 /\ j \in 1..N
          /\ k + 1 \in 1..N + 1 /\ k + 1 # 1 /\ (k + 1) - 1 = k
      BY <2>1
    <3>2. o[j] + types[j].size <= o[k]
      BY <1>5, <3>1
    <3>3. o[k] + types[k].size <= o[k + 1]
      BY <1>3, <3>1
    <3>4. o[j] \in Nat /\ o[k] \in Nat /\ o[k + 1] \in Nat /\ types[j].size \in Nat /\ types[k].size \in Nat
      BY <1>1, <1>2, <3>1
    <3> HIDE DEF k
    <3>5. o[j] + types[j].size <= o[k + 1]
      BY ONLY <3>2, <3>3, <3>4, OneAfterTheOther
    <3> QED
      BY <3>1, <3>5
  <2>2. d + 1 \in Nat
    OBVIOUS
  <2> QED
    BY <2>1, <2>2
<1>6. Nat \subseteq S
  <2> HIDE DEF S
  <2> QED
    BY <1>4, <1>5, AllNumbers
<1>7. ASSUME NEW j \in 1..N + 1, NEW k \in 1..N + 1, j < k
      PROVE  o[j] + types[j].size <= o[k]
  <2>1. k - j - 1 \in Nat /\ j + (k - j - 1) + 1 = k /\ k <= N + 1
    BY <1>7
  <2>2. k - j - 1 \in S
    BY <1>6, <2>1
  <2>3. j + (k - j - 1) + 1 <= N + 1 => o[j] + types[j].size <= o[j + (k - j - 1) + 1]
    BY <2>2
  <2> QED
    BY <2>1, <2>3
<1> QED
  BY <1>1, <1>7 DEF o

(* Offsets of small fields are small. *)
LEMMA OffsetsBounded ==
  ASSUME NEW types \in Seq(Type), \A k \in 1..Len(types) : types[k].size <= 8
  PROVE  \A k \in 1..Len(types) + 1 : offsets(types)[k] <= 15 * k
<1> DEFINE N == Len(types)
           o == offsets(types)
           S == {n \in Nat : n \in 1..N + 1 => o[n] <= 15 * n}
<1>1. o \in [1..N + 1 -> Nat] /\ \A k \in 1..N + 1 : o[k] = offsetAfter(o, types, k)
  BY OffsetsAre
<1>2. \A j \in 1..N : types[j].size \in Nat /\ types[j].size <= 8 /\ types[j].align \in Alignments
  <2>1. \A j \in 1..N : types[j] \in Type
    OBVIOUS
  <2> QED
    BY <2>1 DEF Type
<1> HIDE DEF o
<1>3. ASSUME NEW n \in Nat, n \in S, n + 1 \in 1..N + 1 PROVE o[n + 1] <= 15 * (n + 1)
  <2> DEFINE free == IF n + 1 = 1 THEN 0 ELSE o[n] + types[n].size
  <2>1. n # 0 => n \in 1..N /\ n \in 1..N + 1 /\ n + 1 # 1
    BY <1>3
  <2>2. free \in Nat /\ free <= 15 * n + 8
    <3>1. CASE n = 0
      BY <3>1
    <3>2. CASE n # 0
      <4>1. o[n] \in Nat /\ o[n] <= 15 * n /\ types[n].size \in Nat /\ types[n].size <= 8
        BY <1>1, <1>2, <1>3, <2>1, <3>2
      <4>2. free = o[n] + types[n].size
        BY <2>1, <3>2
      <4> QED
        BY <4>1, <4>2
    <3> QED
      BY <3>1, <3>2
  <2>3. o[n + 1] = IF n + 1 > N THEN free ELSE roundUp(free, types[n + 1].align)
    <3>1. (n + 1) - 1 = n
      OBVIOUS
    <3> QED
      BY <1>1, <1>3, <3>1 DEF offsetAfter
  <2> HIDE DEF free
  <2>4. ~ (n + 1 > N) => roundUp(free, types[n + 1].align) <= free + 7
                         /\ roundUp(free, types[n + 1].align) \in Nat
    <3>1. ~ (n + 1 > N) => n + 1 \in 1..N
      BY <1>3
    <3> QED
      BY <1>2, <2>2, <3>1, RoundUp
  <2>5. o[n + 1] <= free + 7 /\ o[n + 1] \in Nat
    BY <2>2, <2>3, <2>4
  <2> QED
    BY <2>2, <2>5
<1>4. Nat \subseteq S
  <2>1. 0 \in S /\ \A n \in Nat : n \in S => n + 1 \in S
    BY <1>3
  <2> HIDE DEF S
  <2> QED
    BY <2>1, AllNumbers
<1>5. \A k \in 1..N + 1 : k \in S
  BY <1>4
<1> QED
  BY <1>5 DEF o

LEMMA IntTypes ==
  ASSUME NEW n \in {1, 2, 4, 8}
  PROVE  IntType(n) = IF n = 8 THEN [size |-> 8, align |-> 8] ELSE [size |-> 4, align |-> 4]
<1>1. Max({4, n}) \in {4, n} /\ \A m \in {4, n} : m <= Max({4, n})
  <2>1. {4, n} \in SUBSET Nat /\ {4, n} # {} /\ \A m \in {4, n} : m <= 8
    OBVIOUS
  <2> QED
    BY <2>1, MaxInSet
<1>2. Max({4, n}) = IF n = 8 THEN 8 ELSE 4
  BY <1>1
<1> QED
  BY <1>2 DEF IntType

(* A struct holds its fields; one of fields like the registers' is as long *)
(* as a number of ints.                                                    *)
LEMMA StructIsType ==
  ASSUME NEW types \in Seq(Type)
  PROVE  /\ Struct(types) \in Type
         /\ offsets(types)[Len(types) + 1] <= Struct(types).size
         /\ Struct(types).size <= offsets(types)[Len(types) + 1] + 7
         /\ (\A k \in DOMAIN types : types[k].align \in {4, 8}) => Struct(types).size % 4 = 0
<1> DEFINE aligns == {1} \cup {types[k].align : k \in DOMAIN types}
           end == offsets(types)[Len(types) + 1]
<1>1. aligns \subseteq Alignments
  <2>1. \A k \in DOMAIN types : types[k] \in Type
    OBVIOUS
  <2> QED
    BY <2>1 DEF Type, Alignments
<1>2. Max(aligns) \in Alignments
  <2>0. aligns # {} /\ \A n \in Alignments : n \in Nat /\ n <= 8
    BY DEF Alignments
  <2> HIDE DEF aligns
  <2>1. aligns \in SUBSET Nat /\ aligns # {} /\ \A n \in aligns : n <= 8
    BY <1>1, <2>0
  <2>2. Max(aligns) \in aligns
    BY <2>1, MaxInSet
  <2> QED
    BY <1>1, <2>2
<1>3. end \in Nat
  BY OffsetsAre
<1>6. (\A k \in DOMAIN types : types[k].align \in {4, 8}) => Max(aligns) \in {4, 8} \/ end = 0
  <2> SUFFICES ASSUME \A k \in DOMAIN types : types[k].align \in {4, 8}
               PROVE  Max(aligns) \in {4, 8} \/ end = 0
    OBVIOUS
  <2>1. CASE Len(types) = 0
    <3>1. 1 \in 1..Len(types) + 1 /\ Len(types) + 1 = 1 /\ 1 > Len(types)
      BY <2>1
    <3>2. offsets(types)[1] = offsetAfter(offsets(types), types, 1)
      BY <3>1, OffsetsAre
    <3> QED
      BY <3>1, <3>2 DEF offsetAfter
  <2>2. CASE Len(types) # 0
    <3>1. 1 \in DOMAIN types
      BY <2>2
    <3>2. types[1].align \in aligns /\ types[1].align \in {4, 8} /\ aligns # {}
      BY <3>1
    <3>3. aligns \in SUBSET Nat /\ \A n \in aligns : n <= 8
      BY <1>1 DEF Alignments
    <3> HIDE DEF aligns
    <3>4. Max(aligns) \in aligns /\ types[1].align <= Max(aligns)
      BY <3>2, <3>3, MaxInSet
    <3> QED
      BY <1>2, <3>2, <3>4 DEF Alignments
  <2> QED
    BY <2>1, <2>2
<1>4. Struct(types) = [size |-> roundUp(end, Max(aligns)), align |-> Max(aligns)]
  BY DEF Struct
<1> HIDE DEF aligns, end
<1>5. roundUp(end, Max(aligns)) \in Nat /\ end <= roundUp(end, Max(aligns)) /\ roundUp(end, Max(aligns)) <= end + 7
  BY <1>2, <1>3, RoundUp
<1>7. Max(aligns) \in {4, 8} \/ end = 0 => roundUp(end, Max(aligns)) % 4 = 0
  <2>1. \A n \in Nat : n % 8 = 0 => n % 4 = 0
    OBVIOUS
  <2>2. CASE Max(aligns) \in {4, 8}
    BY <1>2, <1>3, <1>5, <2>1, <2>2, RoundUp
  <2>3. CASE end = 0
    <3>1. \A a \in Alignments : 0 % a = 0
      BY DEF Alignments
    <3>2. roundUp(end, Max(aligns)) = 0
      BY <1>2, <2>3, <3>1, RoundUp
    <3> QED
      BY <3>2
  <2> QED
    BY <2>2, <2>3
<1> QED
  BY <1>2, <1>4, <1>5, <1>6, <1>7 DEF Type, end

-----------------------------------------------------------------------------
(* The registers of a function fit the array, which is made for the        *)
(* largest struct and does not change after that.                          *)
LayoutInv ==
  /\ registerLayout \in [Function -> Seq(RegisterSize)]
  /\ \A F \in Function : Len(registerLayout[F]) <= MaxRegisters
  /\ \/ t_registers_max = NoType
     \/ /\ registersSize > 0
        /\ t_registers_max = Array(IntType(4), registersSize \div 4)

LEMMA LayoutInit == Init => LayoutInv
BY SVLayoutAssumption DEF Init, LayoutInv

LEMMA LayoutStep == LayoutInv /\ [Next]_vars => LayoutInv'
<1> SUFFICES ASSUME LayoutInv, [Next]_vars PROVE LayoutInv'
  OBVIOUS
<1> USE DEF LayoutInv
<1>1. ASSUME UNCHANGED registerLayout
      PROVE  registersSize' = registersSize
  BY <1>1 DEF registersSize, registerTypes
<1>2. CASE UNCHANGED vars
  BY <1>1, <1>2 DEF vars
<1>3. CASE generateTypes
  BY <1>1, <1>3 DEF generateTypes
<1>4. ASSUME NEW F \in Function, NEW n \in RegisterSize, newmap(F, n)
      PROVE  LayoutInv'
  <2>1. /\ t_registers_max = NoType /\ Len(registerLayout[F]) < MaxRegisters
        /\ registerLayout' = [registerLayout EXCEPT ![F] = Append(@, n)]
        /\ UNCHANGED t_registers_max
    BY <1>4 DEF newmap
  <2>2. registerLayout[F] \in Seq(RegisterSize)
    OBVIOUS
  <2>3. Append(registerLayout[F], n) \in Seq(RegisterSize)
        /\ Len(Append(registerLayout[F], n)) = Len(registerLayout[F]) + 1
    BY <2>2
  <2>4. Len(registerLayout[F]) + 1 <= MaxRegisters
    BY <2>1, <2>2, SVLayoutAssumption
  <2> QED
    BY <2>1, <2>3, <2>4
<1> QED
  BY <1>2, <1>3, <1>4 DEF Next

LEMMA LayoutInvariant == Spec => []LayoutInv
BY LayoutInit, LayoutStep, PTL DEF Spec

(* The structs of registers have sizes, and registersSize is the largest.  *)
LEMMA RegisterStructs ==
  ASSUME LayoutInv
  PROVE  /\ \A F \in Function : registerTypes(F) \in Seq(Type)
         /\ registersSize \in Nat /\ registersSize % 4 = 0
         /\ \A F \in Function : Struct(registerTypes(F)).size <= registersSize
<1> DEFINE bound == 15 * (MaxRegisters + 1) + 7
           sizes == {Struct(registerTypes(F)).size : F \in Function}
<1>1. ASSUME NEW F \in Function
      PROVE  /\ registerTypes(F) \in Seq(Type)
             /\ Struct(registerTypes(F)).size \in Nat
             /\ Struct(registerTypes(F)).size <= bound
             /\ Struct(registerTypes(F)).size % 4 = 0
  <2> DEFINE types == registerTypes(F)
             L == registerLayout[F]
  <2>1. L \in Seq(RegisterSize) /\ Len(L) <= MaxRegisters
    BY DEF LayoutInv
  <2>2. types = [k \in 1..Len(L) |-> IntType(L[k])]
    BY <2>1 DEF registerTypes
  <2> HIDE DEF types, L
  <2>3. \A k \in 1..Len(L) : L[k] \in {1, 2, 4, 8}
    <3>1. \A k \in 1..Len(L) : L[k] \in RegisterSize
      BY <2>1
    <3> QED
      BY <3>1, SVLayoutAssumption
  <2>4. \A n \in {1, 2, 4, 8} : /\ IntType(n) \in Type /\ IntType(n).size <= 8
                                /\ IntType(n).align \in {4, 8}
    BY IntTypes DEF Type, Alignments
  <2>5. types \in Seq(Type) /\ Len(types) = Len(L)
    BY <2>1, <2>2, <2>3, <2>4
  <2>6. \A k \in 1..Len(types) : types[k].size <= 8
    BY <2>2, <2>3, <2>4, <2>5
  <2>7. offsets(types)[Len(types) + 1] <= 15 * (Len(types) + 1)
        /\ offsets(types)[Len(types) + 1] \in Nat
    BY <2>5, <2>6, OffsetsBounded, OffsetsAre
  <2>8. Struct(types).size \in Nat /\ Struct(types).size <= offsets(types)[Len(types) + 1] + 7
    BY <2>5, StructIsType DEF Type
  <2>9. Len(types) \in Nat /\ Len(types) <= MaxRegisters /\ MaxRegisters \in Nat
    BY <2>1, <2>5, SVLayoutAssumption
  <2>10. Struct(types).size <= bound
    BY <2>7, <2>8, <2>9
  <2>11. Struct(types).size % 4 = 0
    <3>1. \A k \in DOMAIN types : types[k].align \in {4, 8}
      BY <2>2, <2>3, <2>4
    <3> QED
      BY <2>5, <3>1, StructIsType
  <2> QED
    BY <2>5, <2>8, <2>10, <2>11 DEF types
<1>2. bound \in Nat
  BY SVLayoutAssumption
<1> HIDE DEF bound
<1>3. sizes \in SUBSET Nat /\ sizes # {} /\ \A n \in sizes : n <= bound /\ n % 4 = 0
  BY <1>1, SVLayoutAssumption
<1> HIDE DEF sizes
<1>4. Max(sizes) \in sizes /\ \A n \in sizes : n <= Max(sizes)
  BY <1>2, <1>3, MaxInSet
<1> QED
  BY <1>1, <1>3, <1>4 DEF sizes, registersSize

-----------------------------------------------------------------------------
(* The structs of the state vector. *)
FieldName == {"status", "tid", "pc", "msize", "stk", "r", "m",
              "threadsStarted", "tres", "processes"}

LEMMA TypesOfFields ==
  ASSUME NEW fields \in Seq(FieldName \X Type)
  PROVE  /\ typesOf(fields) \in Seq(Type) /\ Len(typesOf(fields)) = Len(fields)
         /\ \A k \in 1..Len(fields) : typesOf(fields)[k] = fields[k][2]
<1>1. \A k \in 1..Len(fields) : fields[k] \in FieldName \X Type
  OBVIOUS
<1>2. typesOf(fields) = [k \in 1..Len(fields) |-> fields[k][2]]
  BY DEF typesOf
<1> QED
  BY <1>1, <1>2

LEMMA IndexOfName ==
  ASSUME NEW fields \in Seq(FieldName \X Type), NEW name \in names(fields)
  PROVE  index(fields, name) \in 1..Len(fields) /\ fields[index(fields, name)][1] = name
<1>1. \E k \in DOMAIN fields : fields[k][1] = name
  BY DEF names
<1>2. DOMAIN fields = 1..Len(fields)
  OBVIOUS
<1> QED
  BY <1>1, <1>2 DEF index

LEMMA RegisterArray ==
  ASSUME LayoutInv, generated
  PROVE  /\ t_registers_max \in Type
         /\ t_registers_max.size = registersSize
<1>1. t_registers_max = Array(IntType(4), registersSize \div 4)
  BY DEF LayoutInv, generated
<1>2. registersSize \in Nat /\ registersSize % 4 = 0
  BY RegisterStructs
<1>3. t_registers_max = [size |-> 4 * (registersSize \div 4), align |-> 4]
  BY <1>1, IntTypes DEF Array
<1>4. \A n \in Nat : 4 * (n \div 4) \in Nat /\ (n % 4 = 0 => 4 * (n \div 4) = n)
  OBVIOUS
<1> QED
  BY <1>2, <1>3, <1>4 DEF Type, Alignments

LEMMA Tuples ==
  ASSUME NEW T, NEW a \in T, NEW b \in T, NEW c \in T, NEW d \in T
  PROVE  /\ <<a, b, c, d>> \in Seq(T) /\ Len(<<a, b, c, d>>) = 4
         /\ \A x, y, z \in T : /\ <<a, b, c, d, x, y, z>> \in Seq(T)
                              /\ Len(<<a, b, c, d, x, y, z>>) = 7
OBVIOUS

LEMMA ProcessFields ==
  ASSUME t_registers_max \in Type
  PROVE  /\ processFields \in Seq(FieldName \X Type) /\ Len(processFields) = 7
         /\ process \in Type
<1>1. IntType(4) \in Type /\ IntType(8) \in Type
  BY IntTypes DEF Type, Alignments
<1>2. processFields \in Seq(FieldName \X Type) /\ Len(processFields) = 7
  <2>1. \A n \in FieldName, t \in {IntType(4), IntType(8), t_registers_max} : <<n, t>> \in FieldName \X Type
    BY <1>1
  <2>2. /\ <<"status", IntType(4)>> \in FieldName \X Type /\ <<"tid", IntType(4)>> \in FieldName \X Type
        /\ <<"pc", IntType(4)>> \in FieldName \X Type /\ <<"msize", IntType(4)>> \in FieldName \X Type
        /\ <<"stk", IntType(8)>> \in FieldName \X Type /\ <<"r", t_registers_max>> \in FieldName \X Type
        /\ <<"m", IntType(8)>> \in FieldName \X Type
    BY <2>1 DEF FieldName
  <2> QED
    BY ONLY <2>2, Tuples DEF processFields
<1>3. typesOf(processFields) \in Seq(Type)
  BY <1>2, TypesOfFields
<1> QED
  BY <1>2, <1>3, StructIsType DEF process

LEMMA VectorFields ==
  ASSUME t_registers_max \in Type
  PROVE  /\ vectorFields \in Seq(FieldName \X Type) /\ Len(vectorFields) = 4
         /\ type_sv \in Type
<1>1. IntType(4) \in Type /\ IntType(8) \in Type
  BY IntTypes DEF Type, Alignments
<1>2. Array(process, MAX_THREADS) \in Type
  <2>1. \A m, n \in Nat : m * n \in Nat
    OBVIOUS
  <2> QED
    BY <2>1, ProcessFields, SVLayoutAssumption DEF Array, Type
<1>3. vectorFields \in Seq(FieldName \X Type) /\ Len(vectorFields) = 4
  <2>1. \A n \in FieldName, t \in {IntType(4), IntType(8), Array(process, MAX_THREADS)} :
          <<n, t>> \in FieldName \X Type
    BY <1>1, <1>2
  <2>2. /\ <<"status", IntType(4)>> \in FieldName \X Type /\ <<"threadsStarted", IntType(4)>> \in FieldName \X Type
        /\ <<"tres", IntType(8)>> \in FieldName \X Type
        /\ <<"processes", Array(process, MAX_THREADS)>> \in FieldName \X Type
    BY <2>1 DEF FieldName
  <2> QED
    BY ONLY <2>2, Tuples DEF vectorFields
<1>4. typesOf(vectorFields) \in Seq(Type)
  BY <1>3, TypesOfFields
<1> QED
  BY <1>3, <1>4, StructIsType DEF type_sv

-----------------------------------------------------------------------------
(* The fields of a struct lie in it, side by side. *)
LEMMA FieldsOfStruct ==
  ASSUME NEW fields \in Seq(FieldName \X Type), NEW a \in names(fields)
  PROVE  /\ offsets(typesOf(fields))[index(fields, a)] \in Nat
         /\ fields[index(fields, a)][2].size \in Nat
         /\ offsets(typesOf(fields))[index(fields, a)] + fields[index(fields, a)][2].size
              <= Struct(typesOf(fields)).size
         /\ \A b \in names(fields) \ {a} :
              \/ offsets(typesOf(fields))[index(fields, a)] + fields[index(fields, a)][2].size
                   <= offsets(typesOf(fields))[index(fields, b)]
              \/ offsets(typesOf(fields))[index(fields, b)] + fields[index(fields, b)][2].size
                   <= offsets(typesOf(fields))[index(fields, a)]
<1> DEFINE types == typesOf(fields)
           o == offsets(types)
           N == Len(fields)
           i == index(fields, a)
<1>1. types \in Seq(Type) /\ Len(types) = N /\ \A k \in 1..N : types[k] = fields[k][2]
  BY TypesOfFields
<1>2. o \in [1..N + 1 -> Nat]
      /\ \A j, k \in 1..N + 1 : j < k => o[j] + types[j].size <= o[k]
  BY <1>1, FieldsInOrder
<1>3. i \in 1..N /\ fields[i][1] = a
  BY IndexOfName
<1>4. o[N + 1] <= Struct(types).size /\ Struct(types).size \in Nat
  BY <1>1, StructIsType DEF Type
<1>5. types[i].size \in Nat
  <2>1. \A k \in 1..N : types[k] \in Type
    BY <1>1
  <2> QED
    BY <1>3, <2>1 DEF Type
<1>6. ASSUME NEW b \in names(fields) \ {a}
      PROVE  \/ o[i] + types[i].size <= o[index(fields, b)]
             \/ o[index(fields, b)] + types[index(fields, b)].size <= o[i]
  <2>1. index(fields, b) \in 1..N /\ fields[index(fields, b)][1] = b
    BY IndexOfName
  <2> DEFINE j == index(fields, b)
  <2>2. i # j
    BY <1>3, <2>1
  <2> HIDE DEF i, j, o, types
  <2>3. i \in 1..N + 1 /\ j \in 1..N + 1 /\ (i < j \/ j < i)
    BY <1>3, <2>1, <2>2 DEF i, j
  <2> QED
    BY <1>2, <2>3 DEF j
<1>7. \A b \in names(fields) : fields[index(fields, b)][2] = types[index(fields, b)]
  BY <1>1, IndexOfName
<1> HIDE DEF i, o, types
<1>8. o[i] \in Nat /\ o[i] + types[i].size <= Struct(types).size
  <2>1. i \in 1..N + 1 /\ N + 1 \in 1..N + 1 /\ i < N + 1
    BY <1>3
  <2>2. o[i] + types[i].size <= o[N + 1] /\ o[i] \in Nat /\ o[N + 1] \in Nat
    BY <1>2, <2>1
  <2> QED
    BY <1>4, <1>5, <2>2
<1> QED
  BY <1>5, <1>6, <1>7, <1>8 DEF i, o, types

LEMMA FieldPlaces ==
  ASSUME LayoutInv, generated
  PROVE  \A a \in names(vectorFields) :
           /\ field(a).at \in Nat /\ field(a).size \in Nat
           /\ field(a).at + field(a).size <= type_sv.size
           /\ \A b \in names(vectorFields) \ {a} : disjoint(field(a), field(b))
<1>1. vectorFields \in Seq(FieldName \X Type)
  BY RegisterArray, VectorFields
<1>2. \A a : /\ field(a).at = offsets(typesOf(vectorFields))[index(vectorFields, a)]
             /\ field(a).size = vectorFields[index(vectorFields, a)][2].size
  BY DEF field
<1> QED
  BY <1>1, <1>2, FieldsOfStruct DEF type_sv, disjoint

(* Where a field lies in its process. *)
inProcess(name) ==
  LET k == index(processFields, name)
  IN  [at |-> offsets(typesOf(processFields))[k], size |-> processFields[k][2].size]

LEMMA ProcessPlaces ==
  ASSUME LayoutInv, generated
  PROVE  /\ process.size \in Nat
         /\ \A slot, a :
              /\ processField(slot, a).at
                   = field("processes").at + slot * process.size + inProcess(a).at
              /\ processField(slot, a).size = inProcess(a).size
         /\ \A a \in names(processFields) :
              /\ inProcess(a).at \in Nat /\ inProcess(a).size \in Nat
              /\ inProcess(a).at + inProcess(a).size <= process.size
              /\ \A b \in names(processFields) \ {a} : disjoint(inProcess(a), inProcess(b))
<1>1. processFields \in Seq(FieldName \X Type) /\ process \in Type
  BY RegisterArray, ProcessFields
<1>2. \A a : /\ inProcess(a).at = offsets(typesOf(processFields))[index(processFields, a)]
             /\ inProcess(a).size = processFields[index(processFields, a)][2].size
  BY DEF inProcess
<1>3. \A slot, a :
        /\ processField(slot, a).at
             = field("processes").at + slot * process.size + inProcess(a).at
        /\ processField(slot, a).size = inProcess(a).size
  BY DEF processField, inProcess
<1>4. process.size \in Nat
  BY <1>1 DEF Type
<1>5. \A a \in names(processFields) :
        /\ inProcess(a).at \in Nat /\ inProcess(a).size \in Nat
        /\ inProcess(a).at + inProcess(a).size <= process.size
        /\ \A b \in names(processFields) \ {a} : disjoint(inProcess(a), inProcess(b))
  BY <1>1, <1>2, FieldsOfStruct DEF process, disjoint
<1> QED
  BY <1>3, <1>4, <1>5

(* The slots lie one after the other in "processes". *)
LEMMA SlotsInOrder ==
  ASSUME NEW P \in Nat, NEW M \in Nat, NEW s \in 0..M - 1
  PROVE  /\ s * P \in Nat /\ s * P + P <= P * M
         /\ \A t \in 0..M - 1 : s < t => s * P + P <= t * P
<1>1. \A i, j \in Nat : i <= j => i * P <= j * P
  OBVIOUS
<1>2. s * P \in Nat /\ (s + 1) * P = s * P + P /\ s + 1 \in Nat /\ P * M = M * P
  OBVIOUS
<1>3. s + 1 <= M /\ \A t \in 0..M - 1 : t \in Nat /\ (s < t => s + 1 <= t)
  OBVIOUS
<1> QED
  BY <1>1, <1>2, <1>3

LEMMA NamesAre ==
  /\ names(vectorFields) = {"status", "threadsStarted", "tres", "processes"}
  /\ names(processFields) = {"status", "tid", "pc", "msize", "stk", "r", "m"}
<1>1. DOMAIN vectorFields = 1..4 /\ DOMAIN processFields = 1..7
  BY DEF vectorFields, processFields
<1>2. 1..4 = {1, 2, 3, 4} /\ 1..7 = {1, 2, 3, 4, 5, 6, 7}
  OBVIOUS
<1>3. /\ vectorFields[1][1] = "status" /\ vectorFields[2][1] = "threadsStarted"
      /\ vectorFields[3][1] = "tres" /\ vectorFields[4][1] = "processes"
  BY DEF vectorFields
<1>4. /\ processFields[1][1] = "status" /\ processFields[2][1] = "tid" /\ processFields[3][1] = "pc"
      /\ processFields[4][1] = "msize" /\ processFields[5][1] = "stk" /\ processFields[6][1] = "r"
      /\ processFields[7][1] = "m"
  BY DEF processFields
<1> QED
  BY <1>1, <1>2, <1>3, <1>4 DEF names

(* All of the processes lie in "processes". *)
LEMMA ProcessesHoldThem ==
  ASSUME LayoutInv, generated
  PROVE  /\ field("processes").size = process.size * MAX_THREADS
         /\ field("processes").at \in Nat
         /\ \A slot \in Slots, a \in names(processFields) :
              within(processField(slot, a), field("processes"))
<1>1. field("processes").size = process.size * MAX_THREADS
  <2>1. "processes" \in names(vectorFields)
    BY NamesAre
  <2>2. vectorFields \in Seq(FieldName \X Type) /\ Len(vectorFields) = 4
    BY RegisterArray, VectorFields
  <2>3. index(vectorFields, "processes") \in 1..4
        /\ vectorFields[index(vectorFields, "processes")][1] = "processes"
    BY <2>1, <2>2, IndexOfName
  <2>4. index(vectorFields, "processes") = 4
    BY <2>3 DEF vectorFields
  <2>5. vectorFields[4][2] = Array(process, MAX_THREADS)
    BY DEF vectorFields
  <2> QED
    BY <2>4, <2>5 DEF field, Array
<1>2. field("processes").at \in Nat
  BY FieldPlaces, NamesAre
<1>3. ASSUME NEW slot \in Slots, NEW a \in names(processFields)
      PROVE  within(processField(slot, a), field("processes"))
  <2>1. process.size \in Nat /\ MAX_THREADS \in Nat /\ slot \in 0..MAX_THREADS - 1
    BY ProcessPlaces, SVLayoutAssumption DEF Slots
  <2>2. slot * process.size \in Nat /\ slot * process.size + process.size <= process.size * MAX_THREADS
        /\ process.size * MAX_THREADS \in Nat
    BY <2>1, SlotsInOrder
  <2>3. /\ inProcess(a).at \in Nat /\ inProcess(a).size \in Nat
        /\ inProcess(a).at + inProcess(a).size <= process.size
        /\ processField(slot, a).at = field("processes").at + slot * process.size + inProcess(a).at
        /\ processField(slot, a).size = inProcess(a).size
    BY ProcessPlaces
  <2> DEFINE before == slot * process.size
             room == process.size * MAX_THREADS
  <2> HIDE DEF before, room
  <2>4. before \in Nat /\ room \in Nat /\ before + process.size <= room
    BY <2>2 DEF before, room
  <2>5. processField(slot, a).at = field("processes").at + before + inProcess(a).at
    BY <2>3 DEF before
  <2>6. field("processes").size = room
    BY <1>1 DEF room
  <2> QED
    BY <1>2, <2>1, <2>3, <2>4, <2>5, <2>6 DEF within
<1> QED
  BY <1>1, <1>2, <1>3

LEMMA ProcessLeavesDisjoint ==
  ASSUME LayoutInv, generated,
         NEW s \in Slots, NEW t \in Slots,
         NEW a \in names(processFields), NEW b \in names(processFields), s # t \/ a # b
  PROVE  disjoint(processField(s, a), processField(t, b))
<1> DEFINE base == field("processes").at
           P == process.size
           S == s * P
           T == t * P
<1>1. base \in Nat /\ P \in Nat
  BY ProcessesHoldThem, ProcessPlaces
<1>2. /\ S \in Nat /\ T \in Nat /\ (s < t => S + P <= T) /\ (t < s => T + P <= S)
      /\ (s < t \/ t < s \/ s = t)
  <2>1. s \in 0..MAX_THREADS - 1 /\ t \in 0..MAX_THREADS - 1 /\ MAX_THREADS \in Nat
    BY SVLayoutAssumption DEF Slots
  <2> QED
    BY <1>1, <2>1, SlotsInOrder
<1>3. /\ processField(s, a).at = base + S + inProcess(a).at
      /\ processField(s, a).size = inProcess(a).size
      /\ processField(t, b).at = base + T + inProcess(b).at
      /\ processField(t, b).size = inProcess(b).size
  BY ProcessPlaces
<1>4. /\ inProcess(a).at \in Nat /\ inProcess(a).size \in Nat /\ inProcess(a).at + inProcess(a).size <= P
      /\ inProcess(b).at \in Nat /\ inProcess(b).size \in Nat /\ inProcess(b).at + inProcess(b).size <= P
      /\ a # b => disjoint(inProcess(a), inProcess(b))
  BY ProcessPlaces
<1>5. s = t => S = T
  OBVIOUS
<1> HIDE DEF base, P, S, T
<1>6. CASE s < t
  BY <1>1, <1>2, <1>3, <1>4, <1>6 DEF disjoint
<1>7. CASE t < s
  BY <1>1, <1>2, <1>3, <1>4, <1>7 DEF disjoint
<1>8. CASE s = t
  BY <1>1, <1>2, <1>3, <1>4, <1>5, <1>8 DEF disjoint
<1> QED
  BY <1>2, <1>6, <1>7, <1>8

-----------------------------------------------------------------------------
(* A leaf is a field of the vector or of one process. *)
LEMMA LeafPlaces ==
  /\ \A a \in leaves :
       \/ \E name \in names(vectorFields) \ {"processes"} :
            a = <<name>> /\ place(a) = field(name)
       \/ \E slot \in Slots, name \in names(processFields) :
            a = <<slot, name>> /\ place(a) = processField(slot, name)
  /\ \A slot, name : place(<<slot, name>>) = processField(slot, name)
<1>1. \A name : Len(<<name>>) = 1 /\ <<name>>[1] = name
  OBVIOUS
<1>2. \A slot, name : Len(<<slot, name>>) = 2 /\ <<slot, name>>[1] = slot /\ <<slot, name>>[2] = name
  OBVIOUS
<1>3. \A name : place(<<name>>) = field(name)
  BY <1>1 DEF place
<1>4. \A slot, name : place(<<slot, name>>) = processField(slot, name)
  BY <1>2 DEF place
<1> QED
  BY <1>3, <1>4 DEF leaves

LEMMA AreDisjoint ==
  ASSUME LayoutInv, generated, NEW a \in leaves, NEW b \in leaves, a # b
  PROVE  disjoint(place(a), place(b))
<1>0. "processes" \in names(vectorFields)
  BY NamesAre
<1>1. ASSUME NEW name \in names(vectorFields) \ {"processes"},
             NEW slot \in Slots, NEW f \in names(processFields)
      PROVE  /\ disjoint(field(name), processField(slot, f))
             /\ disjoint(processField(slot, f), field(name))
  <2>1. disjoint(field(name), field("processes"))
    BY <1>0, FieldPlaces
  <2>2. within(processField(slot, f), field("processes"))
    BY ProcessesHoldThem
  <2>3. /\ field(name).at \in Nat /\ field(name).size \in Nat
        /\ field("processes").at \in Nat /\ field("processes").size \in Nat
    BY <1>0, FieldPlaces
  <2>4. processField(slot, f).at \in Nat /\ processField(slot, f).size \in Nat
    <3>1. slot * process.size \in Nat /\ process.size \in Nat
      BY ProcessPlaces, SVLayoutAssumption, SlotsInOrder DEF Slots
    <3>2. inProcess(f).at \in Nat /\ inProcess(f).size \in Nat
      BY ProcessPlaces
    <3> DEFINE before == slot * process.size
    <3>3. processField(slot, f).at = field("processes").at + before + inProcess(f).at
          /\ processField(slot, f).size = inProcess(f).size
      BY ProcessPlaces
    <3> HIDE DEF before
    <3> QED
      BY <2>3, <3>1, <3>2, <3>3 DEF before
  <2> QED
    BY <2>1, <2>2, <2>3, <2>4 DEF disjoint, within
<1>2. CASE \E name \in names(vectorFields) \ {"processes"} : a = <<name>> /\ place(a) = field(name)
  <2>1. PICK n \in names(vectorFields) \ {"processes"} : a = <<n>> /\ place(a) = field(n)
    BY <1>2
  <2>2. CASE \E name \in names(vectorFields) \ {"processes"} : b = <<name>> /\ place(b) = field(name)
    <3>1. PICK m \in names(vectorFields) \ {"processes"} : b = <<m>> /\ place(b) = field(m)
      BY <2>2
    <3>2. n # m
      BY <2>1, <3>1
    <3> QED
      BY <2>1, <3>1, <3>2, FieldPlaces
  <2>3. CASE \E slot \in Slots, name \in names(processFields) :
               b = <<slot, name>> /\ place(b) = processField(slot, name)
    BY <1>1, <2>1, <2>3
  <2> QED
    BY <2>2, <2>3, LeafPlaces
<1>3. CASE \E slot \in Slots, name \in names(processFields) :
             a = <<slot, name>> /\ place(a) = processField(slot, name)
  <2>1. PICK s \in Slots, n \in names(processFields) : a = <<s, n>> /\ place(a) = processField(s, n)
    BY <1>3
  <2>2. CASE \E name \in names(vectorFields) \ {"processes"} : b = <<name>> /\ place(b) = field(name)
    BY <1>1, <2>1, <2>2
  <2>3. CASE \E slot \in Slots, name \in names(processFields) :
               b = <<slot, name>> /\ place(b) = processField(slot, name)
    <3>1. PICK t \in Slots, m \in names(processFields) : b = <<t, m>> /\ place(b) = processField(t, m)
      BY <2>3
    <3>2. s # t \/ n # m
      BY <2>1, <3>1
    <3> QED
      BY <2>1, <3>1, <3>2, ProcessLeavesDisjoint
  <2> QED
    BY <2>2, <2>3, LeafPlaces
<1> QED
  BY <1>2, <1>3, LeafPlaces

LEMMA LeavesInVector ==
  ASSUME LayoutInv, generated, NEW a \in leaves
  PROVE  within(place(a), [at |-> 0, size |-> type_sv.size])
<1>0. /\ field("processes").at \in Nat /\ field("processes").size \in Nat /\ type_sv.size \in Nat
      /\ field("processes").at + field("processes").size <= type_sv.size
  BY FieldPlaces, NamesAre, RegisterArray, VectorFields DEF Type
<1>1. CASE \E name \in names(vectorFields) \ {"processes"} : a = <<name>> /\ place(a) = field(name)
  <2>1. PICK n \in names(vectorFields) \ {"processes"} : place(a) = field(n)
    BY <1>1
  <2>2. /\ field(n).at \in Nat /\ field(n).size \in Nat
        /\ field(n).at + field(n).size <= type_sv.size
    BY FieldPlaces
  <2> QED
    BY <1>0, <2>1, <2>2 DEF within
<1>2. CASE \E slot \in Slots, name \in names(processFields) :
             a = <<slot, name>> /\ place(a) = processField(slot, name)
  <2>1. PICK slot \in Slots, n \in names(processFields) : place(a) = processField(slot, n)
    BY <1>2
  <2>2. within(place(a), field("processes"))
    BY <2>1, ProcessesHoldThem
  <2>3. place(a).at \in Int /\ place(a).size \in Nat
    <3>1. /\ place(a).at = field("processes").at + slot * process.size + inProcess(n).at
          /\ place(a).size = inProcess(n).size
      BY <2>1, ProcessPlaces
    <3>2. slot * process.size \in Nat /\ inProcess(n).at \in Nat /\ inProcess(n).size \in Nat
      BY ProcessPlaces, SVLayoutAssumption, SlotsInOrder DEF Slots
    <3> DEFINE before == slot * process.size
    <3>3. before \in Nat /\ place(a).at = field("processes").at + before + inProcess(n).at
      BY <3>1, <3>2
    <3> HIDE DEF before
    <3> QED
      BY <1>0, <3>1, <3>2, <3>3
  <2> QED
    BY <1>0, <2>2, <2>3 DEF within
<1> QED
  BY <1>1, <1>2, LeafPlaces

(* A place behind the start of an array that ends before it does. *)
LEMMA InsideArray ==
  ASSUME NEW start \in Nat, NEW behind \in Nat, NEW size \in Nat, NEW room \in Nat,
         behind + size <= room
  PROVE  start <= start + behind /\ (start + behind) + size <= start + room
OBVIOUS

LEMMA RegistersInArray ==
  ASSUME LayoutInv, generated, NEW slot \in Slots, NEW r \in registers
  PROVE  within(vReg(slot, r[1], r[2]), processField(slot, "r"))
<1>1. PICK F \in Function : r \in {F} \X DOMAIN registerLayout[F]
  BY DEF registers
<1>0. PICK k \in DOMAIN registerLayout[F] : r[1] = F /\ r[2] = k
  BY <1>1
<1> DEFINE types == registerTypes(F)
           o == offsets(types)
<1>2. /\ types \in Seq(Type) /\ Struct(types).size <= registersSize /\ registersSize \in Nat
      /\ Struct(types).size \in Nat /\ o[Len(types) + 1] <= Struct(types).size
  BY RegisterStructs, StructIsType DEF Type
<1>3. /\ registerLayout[F] \in Seq(RegisterSize)
      /\ types = [j \in DOMAIN registerLayout[F] |-> IntType(registerLayout[F][j])]
  BY DEF LayoutInv, registerTypes
<1>4. k \in 1..Len(types) /\ registerLayout[F][k] \in Nat /\ registerLayout[F][k] <= types[k].size
  <2>1. registerLayout[F][k] \in {1, 2, 4, 8}
    <3>1. registerLayout[F][k] \in RegisterSize
      BY <1>3
    <3> QED
      BY <3>1, SVLayoutAssumption
  <2>2. types[k] = IntType(registerLayout[F][k]) /\ k \in 1..Len(types)
    BY <1>2, <1>3
  <2> QED
    BY <2>1, <2>2, IntTypes
<1>5. o[k] + types[k].size <= o[Len(types) + 1] /\ o[k] \in Nat /\ o[Len(types) + 1] \in Nat
  <2>1. k \in 1..Len(types) + 1 /\ Len(types) + 1 \in 1..Len(types) + 1 /\ k < Len(types) + 1
    BY <1>2, <1>4
  <2> QED
    BY <1>2, <2>1, FieldsInOrder
<1>6. types[k].size \in Nat
  <2>1. types[k] \in Type
    BY <1>2, <1>4
  <2> QED
    BY <2>1 DEF Type
<1>7. processField(slot, "r").size = registersSize
  <2>1. "r" \in names(processFields)
    BY NamesAre
  <2>2. processFields \in Seq(FieldName \X Type) /\ Len(processFields) = 7
    BY RegisterArray, ProcessFields
  <2>3. index(processFields, "r") \in 1..7 /\ processFields[index(processFields, "r")][1] = "r"
    BY <2>1, <2>2, IndexOfName
  <2>4. index(processFields, "r") = 6
    BY <2>3 DEF processFields
  <2>5. processFields[6][2] = t_registers_max
    BY DEF processFields
  <2>6. processField(slot, "r").size = processFields[index(processFields, "r")][2].size
    BY DEF processField
  <2> QED
    BY <2>4, <2>5, <2>6, RegisterArray
<1>8. processField(slot, "r").at \in Nat
  <2>1. slot * process.size \in Nat /\ inProcess("r").at \in Nat /\ field("processes").at \in Nat
    BY ProcessPlaces, ProcessesHoldThem, NamesAre, SVLayoutAssumption, SlotsInOrder DEF Slots
  <2> DEFINE before == slot * process.size
  <2>2. processField(slot, "r").at = field("processes").at + before + inProcess("r").at
    BY ProcessPlaces
  <2> HIDE DEF before
  <2> QED
    BY <2>1, <2>2 DEF before
<1>9. /\ vReg(slot, r[1], r[2]).at = processField(slot, "r").at + o[k]
      /\ vReg(slot, r[1], r[2]).size = registerLayout[F][k]
  BY <1>0 DEF vReg
<1> HIDE DEF types, o
<1>10. o[k] + types[k].size <= registersSize
  <2>1. /\ o[k] \in Nat /\ types[k].size \in Nat /\ o[Len(types) + 1] \in Nat
        /\ Struct(types).size \in Nat /\ registersSize \in Nat
    BY <1>2, <1>5, <1>6
  <2>2. /\ o[k] + types[k].size <= o[Len(types) + 1]
        /\ o[Len(types) + 1] <= Struct(types).size /\ Struct(types).size <= registersSize
    BY <1>2, <1>5
  <2>3. \A a, b, x, y, z \in Nat : a + b <= x /\ x <= y /\ y <= z => a + b <= z
    OBVIOUS
  <2> QED
    BY ONLY <2>1, <2>2, <2>3
<1> DEFINE inside == vReg(slot, r[1], r[2])
           array == processField(slot, "r")
<1> HIDE DEF inside, array
<1>11. /\ inside.at = array.at + o[k] /\ inside.size \in Nat /\ inside.size <= types[k].size
       /\ array.size = registersSize /\ array.at \in Nat
  BY <1>4, <1>7, <1>8, <1>9 DEF inside, array
<1>12. array.at <= inside.at /\ inside.at + inside.size <= array.at + array.size
  <2>1. o[k] \in Nat /\ types[k].size \in Nat /\ registersSize \in Nat /\ array.at \in Nat
    BY <1>2, <1>5, <1>6, <1>11
  <2>2. /\ array.at <= array.at + o[k]
        /\ (array.at + o[k]) + types[k].size <= array.at + registersSize
    BY ONLY <1>10, <2>1, InsideArray
  <2>3. \A a, b, x, y, z \in Nat : b <= x /\ (a + y) + x <= z => (a + y) + b <= z
    OBVIOUS
  <2>4. array.at + registersSize \in Nat
    BY ONLY <2>1
  <2>5. (array.at + o[k]) + inside.size <= array.at + registersSize
    BY ONLY <1>11, <2>1, <2>2, <2>3, <2>4
  <2> QED
    BY ONLY <1>11, <2>2, <2>5
<1> QED
  BY <1>12 DEF within, inside, array

(* Whatever the functions, their registers and the number of slots: no     *)
(* field of the vector overlaps another, all lie in the vector, and the    *)
(* registers of a process lie in its array, so that a write of one process *)
(* leaves the others alone.                                                *)
THEOREM FieldsDoNotOverlap == Spec => []LeavesDisjoint
<1>1. LayoutInv => LeavesDisjoint
  <2> SUFFICES ASSUME LayoutInv, generated PROVE LeavesDisjoint
    BY DEF LeavesDisjoint
  <2>1. \A a, b \in leaves : a # b => disjoint(place(a), place(b))
    BY AreDisjoint
  <2>2. \A a \in leaves : within(place(a), [at |-> 0, size |-> type_sv.size])
    BY LeavesInVector
  <2>3. \A slot \in Slots, r \in registers :
          within(vReg(slot, r[1], r[2]), processField(slot, "r"))
    BY RegistersInArray
  <2>4. \A slot \in Slots : <<slot, "r">> \in leaves /\ place(<<slot, "r">>) = processField(slot, "r")
    BY LeafPlaces, NamesAre DEF leaves
  <2> QED
    BY <2>1, <2>2, <2>3, <2>4 DEF LeavesDisjoint
<1> QED
  BY <1>1, LayoutInvariant, PTL

-----------------------------------------------------------------------------
(* The fields in front of the pc: none of them depends on the registers,   *)
(* and "processes" begins with the alignment of a process.                 *)
LEMMA OffsetSteps ==
  ASSUME NEW types \in Seq(Type), types # <<>>
  PROVE  /\ offsets(types)[1] = 0
         /\ \A k \in 2..Len(types) :
              offsets(types)[k] = roundUp(offsets(types)[k - 1] + types[k - 1].size, types[k].align)
<1> DEFINE o == offsets(types)
<1>1. \A k \in 1..Len(types) + 1 : o[k] = offsetAfter(o, types, k)
  BY OffsetsAre
<1>2. types[1] \in Type /\ 1 \in 1..Len(types) + 1 /\ ~ (1 > Len(types)) /\ 0 % types[1].align = 0
  <2>1. types[1] \in Type /\ 1 \in 1..Len(types) + 1 /\ ~ (1 > Len(types))
    OBVIOUS
  <2>2. \A a \in Alignments : 0 % a = 0
    BY DEF Alignments
  <2> QED
    BY <2>1, <2>2 DEF Type
<1> HIDE DEF o
<1>3. o[1] = roundUp(0, types[1].align)
  BY <1>1, <1>2 DEF offsetAfter
<1>4. o[1] = 0
  BY <1>2, <1>3, RoundUp DEF Type
<1>5. ASSUME NEW k \in 2..Len(types)
      PROVE  o[k] = roundUp(o[k - 1] + types[k - 1].size, types[k].align)
  <2>1. k \in 1..Len(types) + 1 /\ k # 1 /\ ~ (k > Len(types))
    OBVIOUS
  <2> QED
    BY <1>1, <2>1 DEF offsetAfter
<1> QED
  BY <1>4, <1>5 DEF o

(* The word the driver reads is the pc of the first process, for any       *)
(* functions and registers.                                                *)
THEOREM DriverReadsThePC == Spec => []VerdictWordIsPC
<1>1. ASSUME LayoutInv, generated
      PROVE  processField(0, "pc") = [at |-> 6 * 4, size |-> 4]
  <2> DEFINE P == typesOf(processFields)
             V == typesOf(vectorFields)
  <2>1. /\ processFields \in Seq(FieldName \X Type) /\ Len(processFields) = 7
        /\ vectorFields \in Seq(FieldName \X Type) /\ Len(vectorFields) = 4
    BY <1>1, RegisterArray, ProcessFields, VectorFields
  <2>2. /\ P \in Seq(Type) /\ Len(P) = 7 /\ \A k \in 1..7 : P[k] = processFields[k][2]
        /\ V \in Seq(Type) /\ Len(V) = 4 /\ \A k \in 1..4 : V[k] = vectorFields[k][2]
    BY <2>1, TypesOfFields
  <2>3. P # <<>> /\ V # <<>>
    <3>1. Len(<<>>) # 7 /\ Len(<<>>) # 4
      OBVIOUS
    <3> HIDE DEF P, V
    <3> QED
      BY <2>2, <3>1
  <2>4. /\ P[1] = IntType(4) /\ P[2] = IntType(4) /\ P[3] = IntType(4)
        /\ V[1] = IntType(4) /\ V[2] = IntType(4) /\ V[3] = IntType(8)
        /\ V[4] = Array(process, MAX_THREADS)
    BY <2>2 DEF processFields, vectorFields
  <2>5. V[4].align \in Alignments
    BY <1>1, <2>4, RegisterArray, ProcessFields DEF Array, Type
  <2>6. index(processFields, "pc") = 3 /\ index(vectorFields, "processes") = 4
    <3>1. "pc" \in names(processFields) /\ "processes" \in names(vectorFields)
      BY NamesAre
    <3>2. /\ index(processFields, "pc") \in 1..7
          /\ processFields[index(processFields, "pc")][1] = "pc"
          /\ index(vectorFields, "processes") \in 1..4
          /\ vectorFields[index(vectorFields, "processes")][1] = "processes"
      BY <2>1, <3>1, IndexOfName
    <3> QED
      BY <3>2 DEF processFields, vectorFields
  <2> HIDE DEF P, V
  <2>7. offsets(P)[1] = 0 /\ offsets(P)[2] = roundUp(0 + 4, 4) /\ offsets(P)[3] = roundUp(offsets(P)[2] + 4, 4)
    <3>1. \A k \in 2..7 : offsets(P)[k] = roundUp(offsets(P)[k - 1] + P[k - 1].size, P[k].align)
      BY <2>2, <2>3, OffsetSteps
    <3>2. P[1].size = 4 /\ P[2].size = 4 /\ P[2].align = 4 /\ P[3].align = 4
      BY <2>4, IntTypes
    <3>3. offsets(P)[1] = 0
      BY <2>2, <2>3, OffsetSteps
    <3>4. 2 \in 2..7 /\ 3 \in 2..7 /\ 2 - 1 = 1 /\ 3 - 1 = 2
      OBVIOUS
    <3>5. offsets(P)[2] = roundUp(offsets(P)[2 - 1] + P[2 - 1].size, P[2].align)
          /\ offsets(P)[3] = roundUp(offsets(P)[3 - 1] + P[3 - 1].size, P[3].align)
      BY <3>1, <3>4
    <3> QED
      BY <3>2, <3>3, <3>4, <3>5
  <2>8. offsets(P)[3] = 8
    <3>1. roundUp(4, 4) = 4 /\ roundUp(8, 4) = 8
      BY DEF roundUp
    <3> QED
      BY <2>7, <3>1
  <2>9. /\ offsets(V)[1] = 0 /\ offsets(V)[2] = roundUp(0 + 4, 4)
        /\ offsets(V)[3] = roundUp(offsets(V)[2] + 4, 8)
        /\ offsets(V)[4] = roundUp(offsets(V)[3] + 8, V[4].align)
    <3>1. \A k \in 2..4 : offsets(V)[k] = roundUp(offsets(V)[k - 1] + V[k - 1].size, V[k].align)
      BY <2>2, <2>3, OffsetSteps
    <3>2. V[1].size = 4 /\ V[2].size = 4 /\ V[3].size = 8 /\ V[2].align = 4 /\ V[3].align = 8
      BY <2>4, IntTypes
    <3>3. offsets(V)[1] = 0
      BY <2>2, <2>3, OffsetSteps
    <3>4. 2 \in 2..4 /\ 3 \in 2..4 /\ 4 \in 2..4 /\ 2 - 1 = 1 /\ 3 - 1 = 2 /\ 4 - 1 = 3
      OBVIOUS
    <3>5. offsets(V)[2] = roundUp(offsets(V)[2 - 1] + V[2 - 1].size, V[2].align)
          /\ offsets(V)[3] = roundUp(offsets(V)[3 - 1] + V[3 - 1].size, V[3].align)
          /\ offsets(V)[4] = roundUp(offsets(V)[4 - 1] + V[4 - 1].size, V[4].align)
      BY <3>1, <3>4
    <3> QED
      BY <3>2, <3>3, <3>4, <3>5
  <2>10. offsets(V)[4] = 16
    <3>1. roundUp(4, 4) = 4 /\ roundUp(8, 8) = 8
      BY DEF roundUp
    <3>2. \A a \in Alignments : roundUp(16, a) = 16
      BY DEF roundUp, Alignments
    <3> QED
      BY <2>5, <2>9, <3>1, <3>2
  <2>11. process.size \in Nat
    BY <1>1, ProcessPlaces
  <2>12. processField(0, "pc") = [at |-> 16 + 0 * process.size + 8, size |-> P[3].size]
    BY <2>2, <2>6, <2>8, <2>10 DEF processField, field, P, V
  <2> QED
    BY <2>4, <2>11, <2>12, IntTypes
<1>2. LayoutInv => VerdictWordIsPC
  BY <1>1 DEF VerdictWordIsPC
<1> QED
  BY <1>2, LayoutInvariant, PTL
=============================================================================
