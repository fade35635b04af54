---------------------------- MODULE Stores_proofs ----------------------------
(***************************************************************************)
(* What the generated stores leave in place: stores to the memory of a     *)
(* process, for every memory, alignment and set of sizes, and the stores   *)
(* for PHI nodes, for every set of registers and combination of nodes.     *)
(***************************************************************************)
EXTENDS ByteMemory, PhiStores, WellFoundedInduction, TLAPS

-----------------------------------------------------------------------------
(* Rounding up to the alignment. *)
LEMMA AlignedSize ==
  ASSUME NEW n \in Nat
  PROVE  /\ alignedSize(n) \in Nat /\ n <= alignedSize(n)
         /\ alignedSize(n) < n + Alignment
         /\ n > 0 => Alignment <= alignedSize(n)
<1>1. \A x \in Nat, a \in Nat \ {0} :
        /\ x \div a \in Nat /\ (x \div a) * a \in Nat
        /\ (x \div a) * a <= x /\ x < (x \div a) * a + a
  OBVIOUS
<1> DEFINE x == n + Alignment - 1
           down == (x \div Alignment) * Alignment
<1>2. Alignment \in Nat \ {0} /\ x \in Nat
  BY ByteMemoryAssumption
<1>3. down \in Nat /\ down <= x /\ x < down + Alignment /\ alignedSize(n) = down
  BY <1>1, <1>2 DEF alignedSize
<1>4. n > 0 => x \div Alignment >= 1 /\ x \div Alignment \in Nat
  BY <1>2
<1>5. \A q, a \in Nat : q >= 1 => q * a >= a
  OBVIOUS
<1>6. n > 0 => down >= Alignment
  BY <1>2, <1>4, <1>5
<1> HIDE DEF down
<1> QED
  BY <1>2, <1>3, <1>6

(* What an object held when it was stored in or allocated. *)
Content == UNION {Value(n) : n \in Size}

MemoryTypeOK ==
  /\ mem \in [Address -> Byte]
  /\ msize \in Nat
  /\ objects \in Seq([at : Nat, size : Size])
  /\ stored \in Seq(Content)
  /\ Len(stored) = Len(objects)

(* Objects lie in memory with the bytes that their aligned size takes, one *)
(* behind the other, and what is given out next lies behind all of them.   *)
Laid ==
  \A o \in DOMAIN objects :
    /\ room(objects[o].at, objects[o].size)
    /\ objects[o].at + objects[o].size <= msize
    /\ \A p \in DOMAIN objects :
         p < o => objects[p].at + objects[p].size <= objects[o].at

(* The inductive invariant of the memory. *)
MemoryInv == MemoryTypeOK /\ Laid /\ ObjectsIntact

(* What the invariant says about an object, in numbers. *)
LEMMA ObjectInMemory ==
  ASSUME MemoryTypeOK, Laid, NEW o \in DOMAIN objects
  PROVE  /\ objects[o].at \in Nat /\ objects[o].size \in Size /\ objects[o].size \in Nat \ {0}
         /\ alignedSize(objects[o].size) \in Nat
         /\ objects[o].size <= alignedSize(objects[o].size)
         /\ objects[o].at + alignedSize(objects[o].size) <= MemBytes
<1>1. objects[o] \in [at : Nat, size : Size]
  <2> DEFINE Object == [at : Nat, size : Size]
  <2>1. objects \in Seq(Object)
    BY DEF MemoryTypeOK
  <2> HIDE DEF Object
  <2>2. objects[o] \in Object
    BY <2>1
  <2> QED
    BY <2>2 DEF Object
<1>2. /\ objects[o].at \in Nat /\ objects[o].size \in Size /\ objects[o].size \in Nat \ {0}
      /\ room(objects[o].at, objects[o].size)
  BY <1>1, ByteMemoryAssumption DEF Laid
<1> QED
  BY <1>2, AlignedSize DEF room

(* A load yields a value of the object's size. *)
LEMMA LoadType ==
  ASSUME MemoryTypeOK, Laid, NEW o \in DOMAIN objects
  PROVE  load(o) \in Value(objects[o].size)
<1> DEFINE n == objects[o].size  at == objects[o].at
<1>1. n \in Nat /\ at \in Nat /\ at + n <= MemBytes /\ MemBytes \in Nat
  BY ObjectInMemory, ByteMemoryAssumption
<1>2. \A k \in 0..n - 1 : at + k \in Address
  BY <1>1 DEF Address
<1> HIDE DEF n, at
<1>3. \A k \in 0..n - 1 : mem[at + k] \in Byte
  BY <1>2 DEF MemoryTypeOK
<1>4. load(o) = [k \in 0..n - 1 |-> mem[at + k]]
  BY DEF load, bytesAt, n, at
<1>5. load(o) \in Value(n)
  BY <1>3, <1>4 DEF Value
<1> QED
  BY <1>5 DEF n

(* A write that sets the bytes of one object to a value and reaches no     *)
(* further than its aligned size.                                          *)
writes(o, v) ==
  LET at == objects[o].at  n == objects[o].size IN
  /\ mem' \in [Address -> Byte]
  /\ \A k \in 0..n - 1 : mem'[at + k] = v[k]
  /\ \A a \in Address : (a < at \/ a >= at + alignedSize(n)) => mem'[a] = mem[a]
  /\ stored' = [stored EXCEPT ![o] = v]
  /\ UNCHANGED <<msize, objects>>

(* Such a write keeps what is stored in the other objects: one in front    *)
(* ends before it, and one behind is reached only when it is overlapped.   *)
LEMMA WriteKeepsInv ==
  ASSUME MemoryInv, NEW o \in DOMAIN objects, NEW v \in Value(objects[o].size), writes(o, v)
  PROVE  MemoryInv'
<1> DEFINE n == objects[o].size  at == objects[o].at
<1>0. objects' = objects /\ msize' = msize /\ stored' = [stored EXCEPT ![o] = v]
  BY DEF writes
<1>1. MemoryTypeOK /\ Laid
  BY DEF MemoryInv
<1>2. o \in DOMAIN stored /\ v \in Content /\ DOMAIN stored = DOMAIN objects
  BY <1>1, ObjectInMemory DEF MemoryTypeOK, Content
<1>3. MemoryTypeOK'
  BY <1>0, <1>1, <1>2 DEF MemoryTypeOK, writes
<1>4. Laid'
  BY <1>0, <1>1 DEF Laid, room
<1>5. ASSUME NEW x \in DOMAIN objects, x # o, ~ \E p \in DOMAIN objects : overlaps(p, x)
      PROVE  load(x)' = stored'[x]
  <2> DEFINE m == objects[x].size  xat == objects[x].at
  <2>1. /\ m \in Nat /\ xat \in Nat /\ xat + m <= MemBytes /\ MemBytes \in Nat
        /\ n \in Nat /\ at \in Nat /\ alignedSize(n) \in Nat
    BY <1>1, ObjectInMemory, ByteMemoryAssumption
  <2>2. xat + m <= at \/ at + n <= xat
    <3>1. x \in Nat /\ o \in Nat
      BY <1>1 DEF MemoryTypeOK
    <3>2. x < o \/ o < x
      BY <1>5, <3>1
    <3> QED
      BY <1>1, <3>2 DEF Laid
  <2>3. xat + m <= at \/ at + alignedSize(n) <= xat
    BY <1>5, <2>1, <2>2 DEF overlaps
  <2> HIDE DEF m, xat, n, at
  <2>4. \A k \in 0..m - 1 : xat + k \in Address /\ (xat + k < at \/ xat + k >= at + alignedSize(n))
    BY <2>1, <2>3 DEF Address
  <2>5. \A k \in 0..m - 1 : mem'[xat + k] = mem[xat + k]
    BY <2>4 DEF writes, n, at
  <2>6. load(x) = [k \in 0..m - 1 |-> mem[xat + k]]
    BY DEF load, bytesAt, m, xat
  <2>7. load(x)' = [k \in 0..m - 1 |-> mem'[xat + k]]
    BY <1>0 DEF load, bytesAt, m, xat
  <2>8. load(x) = stored[x]
    BY <1>5 DEF MemoryInv, ObjectsIntact
  <2>9. stored'[x] = stored[x]
    BY <1>0, <1>2, <1>5
  <2> QED
    BY <2>5, <2>6, <2>7, <2>8, <2>9
<1>6. load(o)' = stored'[o]
  <2>1. load(o)' = [k \in 0..n - 1 |-> mem'[at + k]]
    BY <1>0 DEF load, bytesAt
  <2>2. \A k \in 0..n - 1 : mem'[at + k] = v[k]
    BY DEF writes
  <2>3. v = [k \in 0..n - 1 |-> v[k]]
    BY DEF Value
  <2>4. stored'[o] = v
    BY <1>0, <1>2
  <2> HIDE DEF n, at
  <2> QED
    BY <2>1, <2>2, <2>3, <2>4
<1>7. ObjectsIntact'
  <2> SUFFICES ASSUME NEW x \in DOMAIN objects, ~ \E p \in DOMAIN objects : overlaps(p, x)
               PROVE  load(x)' = stored'[x]
    BY <1>0 DEF ObjectsIntact, overlaps
  <2> QED
    BY <1>5, <1>6
<1> QED
  BY <1>3, <1>4, <1>7 DEF MemoryInv

(* generateStore writes a value, and bytes nobody set up to the alignment. *)
LEMMA StoreWrites ==
  ASSUME MemoryInv, NEW o \in DOMAIN objects, NEW v \in Value(objects[o].size),
         generateStore(o, v)
  PROVE  writes(o, v)
<1> DEFINE n == objects[o].size  at == objects[o].at
<1>1. PICK junk \in [0..spill(n) - 1 -> Byte] :
        mem' = [a \in Address |-> IF a \in at..at + n - 1 THEN v[a - at]
                                  ELSE IF a \in at + n..at + n + spill(n) - 1 THEN junk[a - at - n]
                                  ELSE mem[a]]
  BY DEF generateStore
<1>2. stored' = [stored EXCEPT ![o] = v] /\ UNCHANGED <<msize, objects>>
  BY DEF generateStore
<1>3. /\ n \in Nat /\ at \in Nat /\ alignedSize(n) \in Nat /\ n <= alignedSize(n)
      /\ at + alignedSize(n) <= MemBytes /\ MemBytes \in Nat
      /\ spill(n) = alignedSize(n) - n
      /\ mem \in [Address -> Byte] /\ v \in [0..n - 1 -> Byte]
  BY ObjectInMemory, ByteMemoryAssumption DEF MemoryInv, MemoryTypeOK, spill, Value
<1> HIDE DEF n, at
<1>4. ASSUME NEW a \in Address
      PROVE  /\ a \in at..at + n - 1 => a - at \in 0..n - 1
             /\ a \in at + n..at + n + spill(n) - 1 => a - at - n \in 0..spill(n) - 1
             /\ (a < at \/ a >= at + alignedSize(n)) =>
                  a \notin at..at + n - 1 /\ a \notin at + n..at + n + spill(n) - 1
  BY <1>3 DEF Address
<1>5. mem' \in [Address -> Byte]
  <2>1. \A a \in Address : /\ a \in at..at + n - 1 => v[a - at] \in Byte
                           /\ a \in at + n..at + n + spill(n) - 1 => junk[a - at - n] \in Byte
                           /\ mem[a] \in Byte
    BY <1>3, <1>4
  <2> QED
    BY <1>1, <2>1
<1>6. \A k \in 0..n - 1 : mem'[at + k] = v[k]
  <2>1. \A k \in 0..n - 1 : at + k \in Address /\ at + k \in at..at + n - 1 /\ (at + k) - at = k
    BY <1>3 DEF Address
  <2> QED
    BY <1>1, <2>1
<1>7. \A a \in Address : (a < at \/ a >= at + alignedSize(n)) => mem'[a] = mem[a]
  BY <1>1, <1>4
<1> QED
  BY <1>2, <1>5, <1>6, <1>7 DEF writes, n, at

(* A copy between objects of one type, of the type's or the aligned size.  *)
LEMMA CopyWrites ==
  ASSUME MemoryInv, NEW to \in DOMAIN objects, NEW from \in DOMAIN objects,
         objects[to].size = objects[from].size, NEW n \in Nat,
         objects[to].size <= n, n <= alignedSize(objects[to].size),
         copyBytes(to, from, n)
  PROVE  writes(to, load(from)) /\ load(from) \in Value(objects[to].size)
<1> DEFINE size == objects[to].size  at == objects[to].at  source == objects[from].at
<1>1. MemoryTypeOK /\ Laid
  BY DEF MemoryInv
<1>2. mem' = [a \in Address |-> IF a \in at..at + n - 1 THEN mem[source + a - at] ELSE mem[a]]
  BY DEF copyBytes
<1>3. stored' = [stored EXCEPT ![to] = load(from)] /\ UNCHANGED <<msize, objects>>
  BY DEF copyBytes
<1>4. /\ size \in Nat /\ at \in Nat /\ source \in Nat /\ alignedSize(size) \in Nat
      /\ at + alignedSize(size) <= MemBytes /\ source + alignedSize(size) <= MemBytes
      /\ MemBytes \in Nat /\ mem \in [Address -> Byte]
      /\ size <= n /\ n <= alignedSize(size)
  BY <1>1, ObjectInMemory, ByteMemoryAssumption DEF MemoryTypeOK
<1>5. load(from) \in Value(size)
  BY <1>1, LoadType
<1>6. load(from) = [k \in 0..size - 1 |-> mem[source + k]]
  BY DEF load, bytesAt
<1> HIDE DEF size, at, source
<1>7. mem' \in [Address -> Byte]
  <2>1. \A a \in Address : a \in at..at + n - 1 => source + a - at \in Address
    BY <1>4 DEF Address
  <2> QED
    BY <1>2, <1>4, <2>1
<1>8. \A k \in 0..size - 1 : mem'[at + k] = load(from)[k]
  <2>1. \A k \in 0..size - 1 : /\ at + k \in Address /\ at + k \in at..at + n - 1
                               /\ source + (at + k) - at = source + k
    BY <1>4 DEF Address
  <2> QED
    BY <1>2, <1>6, <2>1
<1>9. \A a \in Address : (a < at \/ a >= at + alignedSize(size)) => mem'[a] = mem[a]
  <2>1. \A a \in Address : (a < at \/ a >= at + alignedSize(size)) => a \notin at..at + n - 1
    BY <1>4 DEF Address
  <2> QED
    BY <1>2, <2>1
<1> QED
  BY <1>3, <1>5, <1>7, <1>8, <1>9 DEF writes, size, at

(* Globals, packed one behind the other. *)
LEMMA MemoryInit == Init => MemoryInv
<1> SUFFICES ASSUME Init PROVE MemoryInv
  OBVIOUS
<1>1. PICK n1, n2 \in Size :
        /\ room(n1, n2)
        /\ objects = <<[at |-> 0, size |-> n1], [at |-> n1, size |-> n2]>>
        /\ msize = alignedSize(n1 + n2)
        /\ stored = <<[k \in 0..n1 - 1 |-> 0], [k \in 0..n2 - 1 |-> 0]>>
  BY DEF Init
<1>2. mem = [a \in Address |-> 0] /\ 0 \in Byte
  BY ByteMemoryAssumption DEF Init, Byte
<1>3. /\ n1 \in Nat \ {0} /\ n2 \in Nat \ {0} /\ n1 + n2 \in Nat /\ MemBytes \in Nat
      /\ Alignment \in Nat
  BY ByteMemoryAssumption
<1>4. /\ alignedSize(n1) \in Nat /\ alignedSize(n2) \in Nat /\ alignedSize(n1 + n2) \in Nat
      /\ n1 <= alignedSize(n1) /\ n2 <= alignedSize(n2) /\ n1 + n2 <= alignedSize(n1 + n2)
      /\ alignedSize(n1) < n1 + Alignment /\ Alignment <= alignedSize(n2)
      /\ n1 + alignedSize(n2) <= MemBytes
  BY <1>1, <1>3, AlignedSize DEF room
<1>5. MemoryTypeOK
  <2>1. \A n \in Size : [k \in 0..n - 1 |-> 0] \in Content
    BY <1>2 DEF Content, Value
  <2> QED
    BY <1>1, <1>2, <1>3, <1>4, <2>1 DEF MemoryTypeOK
<1>6. DOMAIN objects = {1, 2}
  BY <1>1
<1>7. Laid
  <2>1. /\ objects[1].at = 0 /\ objects[1].size = n1
        /\ objects[2].at = n1 /\ objects[2].size = n2
    BY <1>1
  <2>2. room(0, n1) /\ room(n1, n2) /\ n1 + n2 <= msize /\ n1 <= msize
    BY <1>1, <1>3, <1>4 DEF room
  <2> QED
    BY <1>3, <1>6, <2>1, <2>2 DEF Laid
<1>8. ObjectsIntact
  <2> SUFFICES ASSUME NEW o \in DOMAIN objects PROVE load(o) = stored[o]
    BY DEF ObjectsIntact
  <2> DEFINE n == objects[o].size  at == objects[o].at
  <2>1. n \in Nat /\ at \in Nat /\ at + n <= MemBytes
    BY <1>3, <1>5, <1>7, ObjectInMemory
  <2>2. stored[o] = [k \in 0..n - 1 |-> 0]
    <3>1. CASE o = 1
      <4>1. n = n1 /\ stored[o] = [k \in 0..n1 - 1 |-> 0]
        BY <1>1, <3>1
      <4> QED
        BY <4>1
    <3>2. CASE o = 2
      <4>1. n = n2 /\ stored[o] = [k \in 0..n2 - 1 |-> 0]
        BY <1>1, <3>2
      <4> QED
        BY <4>1
    <3> QED
      BY <1>6, <3>1, <3>2
  <2>3. load(o) = [k \in 0..n - 1 |-> mem[at + k]]
    BY DEF load, bytesAt
  <2> HIDE DEF n, at
  <2>4. \A k \in 0..n - 1 : at + k \in Address
    BY <1>3, <2>1 DEF Address
  <2> QED
    BY <1>2, <2>2, <2>3, <2>4
<1> QED
  BY <1>5, <1>7, <1>8 DEF MemoryInv

(* A new object lies behind the others and holds what is in memory there.  *)
LEMMA AllocateKeepsInv ==
  ASSUME MemoryInv, NEW n \in Size, NEW taken \in Nat, n <= taken, allocate(n, taken)
  PROVE  MemoryInv'
<1> DEFINE new == [at |-> msize, size |-> n]  held == bytesAt(msize, n)
<1>1. /\ objects' = Append(objects, new) /\ stored' = Append(stored, held)
      /\ msize' = msize + taken /\ mem' = mem /\ room(msize, n)
  BY DEF allocate
<1>2. MemoryTypeOK /\ Laid /\ ObjectsIntact
  BY DEF MemoryInv
<1>3. /\ n \in Nat \ {0} /\ msize \in Nat /\ MemBytes \in Nat
      /\ new \in [at : Nat, size : Size] /\ Len(objects) \in Nat
  BY <1>2, ByteMemoryAssumption DEF MemoryTypeOK
<1>4. held = [k \in 0..n - 1 |-> mem[msize + k]]
  BY DEF bytesAt
<1>5. held \in Value(n)
  <2>1. alignedSize(n) \in Nat /\ n <= alignedSize(n) /\ msize + alignedSize(n) <= MemBytes
    BY <1>1, <1>3, AlignedSize DEF room
  <2>2. \A k \in 0..n - 1 : msize + k \in Address
    BY <1>3, <2>1 DEF Address
  <2> QED
    BY <1>2, <1>4, <2>2 DEF MemoryTypeOK, Value
<1>6. held \in Content
  BY <1>5 DEF Content
<1> HIDE DEF held
<1>7. MemoryTypeOK'
  BY <1>1, <1>2, <1>3, <1>6 DEF MemoryTypeOK
<1> DEFINE last == Len(objects) + 1
<1>8. /\ DOMAIN objects' = DOMAIN objects \cup {last} /\ last \notin DOMAIN objects
      /\ objects'[last] = new /\ stored'[last] = held
      /\ \A o \in DOMAIN objects : /\ o \in Nat /\ o < last
                                   /\ objects'[o] = objects[o] /\ stored'[o] = stored[o]
  BY <1>1, <1>2, <1>3, <1>6 DEF MemoryTypeOK
<1>9. Laid'
  <2>1. ASSUME NEW o \in DOMAIN objects
        PROVE  /\ room(objects'[o].at, objects'[o].size)
               /\ objects'[o].at + objects'[o].size <= msize'
               /\ \A p \in DOMAIN objects' :
                    p < o => objects'[p].at + objects'[p].size <= objects'[o].at
    <3>1. objects[o].at \in Nat /\ objects[o].size \in Nat
      BY <1>2, ObjectInMemory
    <3>2. objects[o].at + objects[o].size <= msize /\ room(objects[o].at, objects[o].size)
      BY <1>2 DEF Laid
    <3>3. objects'[o].at + objects'[o].size <= msize' /\ room(objects'[o].at, objects'[o].size)
      BY <1>1, <1>3, <1>8, <3>1, <3>2
    <3>4. ASSUME NEW p \in DOMAIN objects', p < o
          PROVE  objects'[p].at + objects'[p].size <= objects'[o].at
      <4>1. p \in DOMAIN objects
        BY <1>3, <1>8, <3>4
      <4> QED
        BY <1>2, <1>8, <3>4, <4>1 DEF Laid
    <3> QED
      BY <3>3, <3>4
  <2>2. /\ room(objects'[last].at, objects'[last].size)
        /\ objects'[last].at + objects'[last].size <= msize'
        /\ \A p \in DOMAIN objects' :
             p < last => objects'[p].at + objects'[p].size <= objects'[last].at
    <3>1. objects'[last].at = msize /\ objects'[last].size = n
      BY <1>8
    <3>2. \A p \in DOMAIN objects : objects[p].at + objects[p].size <= msize
      BY <1>2 DEF Laid
    <3> QED
      BY <1>1, <1>3, <1>8, <3>1, <3>2
  <2> HIDE DEF last
  <2>3. \A o \in DOMAIN objects' : o \in DOMAIN objects \/ o = last
    BY <1>8
  <2> QED
    BY <2>1, <2>2, <2>3 DEF Laid, room
<1>10. ObjectsIntact'
  <2> SUFFICES ASSUME NEW o \in DOMAIN objects',
                      ~ \E p \in DOMAIN objects' : overlaps(p, o)'
               PROVE  load(o)' = stored'[o]
    BY DEF ObjectsIntact
  <2>1. CASE o \in DOMAIN objects
    <3>1. \A p \in DOMAIN objects : overlaps(p, o)' = overlaps(p, o)
      BY <1>8, <2>1 DEF overlaps
    <3>2. load(o) = stored[o]
      BY <1>2, <1>8, <2>1, <3>1 DEF ObjectsIntact
    <3>3. load(o)' = load(o)
      BY <1>1, <1>8, <2>1 DEF load, bytesAt
    <3> QED
      BY <1>8, <2>1, <3>2, <3>3
  <2>2. CASE o = last
    <3>1. objects'[o].at = msize /\ objects'[o].size = n
      BY <1>8, <2>2
    <3>2. load(o)' = [k \in 0..n - 1 |-> mem[msize + k]]
      BY <1>1, <3>1 DEF load, bytesAt
    <3> QED
      BY <1>4, <1>8, <2>2, <3>2
  <2> QED
    BY <1>8, <2>1, <2>2
<1> QED
  BY <1>7, <1>9, <1>10 DEF MemoryInv

(* Every operation on the memory. *)
LEMMA MemoryStep == MemoryInv /\ [Next]_vars => MemoryInv'
<1> SUFFICES ASSUME MemoryInv, [Next]_vars PROVE MemoryInv'
  OBVIOUS
<1>0. MemoryTypeOK /\ Laid
  BY DEF MemoryInv
<1>1. CASE UNCHANGED vars
  BY <1>1 DEF vars, MemoryInv, MemoryTypeOK, Laid, ObjectsIntact, overlaps, load, bytesAt, room
<1>2. ASSUME NEW n \in Size, alloca(n)
      PROVE  MemoryInv'
  <2>1. n \in Nat
    BY ByteMemoryAssumption
  <2>2. alignedSize(n) \in Nat /\ n <= alignedSize(n)
    BY <2>1, AlignedSize
  <2> QED
    BY <1>2, <2>2, AllocateKeepsInv DEF alloca
<1>3. ASSUME NEW n \in Size, malloc(n)
      PROVE  MemoryInv'
  <2>1. n \in Nat
    BY ByteMemoryAssumption
  <2> QED
    BY <1>3, <2>1, AllocateKeepsInv DEF malloc
<1>4. ASSUME NEW o \in DOMAIN objects, store(o)
      PROVE  MemoryInv'
  BY <1>4, StoreWrites, WriteKeepsInv DEF store
<1>5. ASSUME NEW o \in DOMAIN objects, NEW kind \in Kinds, NEW v \in Value(objects[o].size),
             atomicRMW(o, kind, v)
      PROVE  MemoryInv'
  <2> DEFINE new == NewVal(kind, load(o), v, objects[o].size)
  <2>1. load(o) \in Value(objects[o].size) /\ objects[o].size \in Size
    BY <1>0, LoadType, ObjectInMemory
  <2>2. new \in Value(objects[o].size)
    BY <2>1, ByteMemoryAssumption
  <2>3. generateStore(o, new)
    BY <1>5 DEF atomicRMW
  <2> QED
    BY <2>2, <2>3, StoreWrites, WriteKeepsInv
<1>6. ASSUME NEW to \in DOMAIN objects, NEW from \in DOMAIN objects,
             objects[to].size = objects[from].size,
             \/ copyBytes(to, from, objects[to].size)
             \/ copyBytes(to, from, alignedSize(objects[to].size))
      PROVE  MemoryInv'
  <2>1. /\ objects[to].size \in Nat /\ alignedSize(objects[to].size) \in Nat
        /\ objects[to].size <= alignedSize(objects[to].size)
    BY <1>0, ObjectInMemory
  <2>2. writes(to, load(from)) /\ load(from) \in Value(objects[to].size)
    BY <1>6, <2>1, CopyWrites
  <2> QED
    BY <2>2, WriteKeepsInv
<1>7. ASSUME NEW o \in DOMAIN objects, NEW p \in DOMAIN objects, atomicStore(o, p)
      PROVE  MemoryInv'
  BY <1>6, <1>7 DEF atomicStore
<1>8. ASSUME NEW o \in DOMAIN objects, NEW p \in DOMAIN objects, memcpy(o, p)
      PROVE  MemoryInv'
  BY <1>6, <1>8 DEF memcpy
<1>9. ASSUME NEW o \in DOMAIN objects, NEW p \in DOMAIN objects, NEW q \in DOMAIN objects,
             atomicCompareExchange(o, p, q)
      PROVE  MemoryInv'
  <2>1. objects[o].size = objects[p].size /\ objects[o].size = objects[q].size
    BY <1>9 DEF atomicCompareExchange
  <2>2. \/ copyBytes(o, q, alignedSize(objects[o].size))
        \/ copyBytes(p, o, alignedSize(objects[p].size))
    BY <1>9, <2>1 DEF atomicCompareExchange
  <2> QED
    BY <1>6, <2>1, <2>2
<1> QED
  BY <1>1, <1>2, <1>3, <1>4, <1>5, <1>7, <1>8, <1>9 DEF Next, operate

(* What is stored in an object stays there whatever is stored in, copied   *)
(* to or exchanged with the others, of any size and at any place, unless   *)
(* the object begins in the last alignment unit of another: the generated  *)
(* accesses touch no more than the aligned size of the object accessed.    *)
THEOREM StoredStays == Spec => []ObjectsIntact
<1>1. MemoryInv => ObjectsIntact
  BY DEF MemoryInv
<1> QED
  BY <1>1, MemoryInit, MemoryStep, PTL DEF Spec

-----------------------------------------------------------------------------
done == DOMAIN moves \ pending

(* The inductive invariant: a register holds its new value when its PHI    *)
(* node is stored, else the old one, and no PHI node still to be stored    *)
(* reads a register that has been overwritten.                             *)
StoresInv ==
  /\ TypeOK
  /\ regs = [k \in Reg |-> IF k \in done THEN moves[k] ELSE k]
  /\ \A phi \in pending : phi \in DOMAIN moves /\ moves[phi] \notin done

(* The initial states. *)
LEMMA StoresInit == PhiInit => StoresInv
<1> SUFFICES ASSUME PhiInit PROVE StoresInv
  OBVIOUS
<1>1. PICK phis \in SUBSET Reg : moves \in [phis -> Source] /\ pending = phis
  BY DEF PhiInit
<1>2. done = {} /\ pending = DOMAIN moves
  BY <1>1 DEF done
<1>3. regs = [k \in Reg |-> k]
  BY DEF PhiInit
<1> QED
  BY <1>1, <1>2, <1>3 DEF StoresInv, TypeOK, Source

(* One store: what it reads has not been overwritten, what it overwrites   *)
(* is not to be read any more.                                             *)
LEMMA StoresStep == StoresInv /\ [PhiNext]_phiVars => StoresInv'
<1> SUFFICES ASSUME StoresInv, [PhiNext]_phiVars PROVE StoresInv'
  OBVIOUS
<1>1. CASE UNCHANGED phiVars
  BY <1>1 DEF phiVars, StoresInv, TypeOK, done
<1>2. ASSUME NEW phi \in Reg, Store(phi)
      PROVE  StoresInv'
  <2>1. /\ phi \in pending /\ phi \in DOMAIN moves /\ moves' = moves
        /\ pending' = pending \ {phi} /\ done' = done \cup {phi}
    BY <1>2 DEF Store, StoresInv, TypeOK, done
  <2>2. valueOf(moves[phi]) = moves[phi] /\ moves[phi] \in Source
    <3>1. moves[phi] \in Source /\ moves[phi] \notin done
      BY <2>1 DEF StoresInv, TypeOK
    <3> QED
      BY <3>1 DEF valueOf, StoresInv, Source
  <2>3. regs' = [regs EXCEPT ![phi] = moves[phi]]
    BY <1>2, <2>2 DEF Store
  <2>4. regs' = [k \in Reg |-> IF k \in done' THEN moves'[k] ELSE k]
    BY <2>1, <2>3 DEF StoresInv
  <2>5. \A other \in pending' : other \in DOMAIN moves' /\ moves'[other] \notin done'
    BY <1>2, <2>1 DEF Store, hasDepender, StoresInv
  <2>6. TypeOK'
    BY <2>1, <2>2, <2>3 DEF StoresInv, TypeOK
  <2> QED
    BY <2>4, <2>5, <2>6 DEF StoresInv
<1> QED
  BY <1>1, <1>2 DEF PhiNext, Finished

(* Whenever all stores could be ordered, doing them one after the other    *)
(* gives every PHI node the value its source had at the branch: a block's  *)
(* PHI nodes are assigned at once, as LLVM defines them.                   *)
THEOREM StoresAsIfAtOnce == PhiSpec => []AsIfAtOnce
<1>1. StoresInv => AsIfAtOnce
  BY DEF StoresInv, AsIfAtOnce, done
<1> QED
  BY <1>1, StoresInit, StoresStep, PTL DEF PhiSpec

(* A nonempty set of natural numbers has a least element. *)
LEMMA LeastNumber ==
  ASSUME NEW S \in SUBSET Nat, S # {}
  PROVE  \E n \in S : \A m \in S : n <= m
<1> DEFINE Less == {ss \in Nat \X Nat : ss[1] < ss[2]}
<1>1. IsWellFoundedOn(Less, Nat)
  BY NatLessThanWellFounded, Zenon DEF OpToRel
<1>2. PICK n \in S : \A m \in S : ~ (<<m, n>> \in Less)
  BY <1>1, WFMin
<1>3. \A a, b \in Nat : a < b => <<a, b>> \in Less
  OBVIOUS
<1> HIDE DEF Less
<1>4. ASSUME NEW m \in S PROVE n <= m
  <2>1. ~ (m < n)
    BY <1>2, <1>3
  <2> QED
    BY <2>1
<1> QED
  BY <1>4

(* The assertion behind the loop, dependencies.size() == 0, holds whenever *)
(* the stores can be ordered at all, in whatever order the unordered_map   *)
(* is walked: of the PHI nodes left over, the first in that order would    *)
(* be put off for one that comes before it.                                *)
THEOREM OrderedStoresFinish == PhiSpec => []AllStoredIfOrdered
<1>1. StoresInv => AllStoredIfOrdered
  <2> SUFFICES ASSUME StoresInv, finished, orderExists, pending # {} PROVE FALSE
    BY DEF AllStoredIfOrdered
  <2>1. PICK place \in [DOMAIN moves -> 1..Cardinality(DOMAIN moves)] :
             \A p, q \in DOMAIN moves : moves[q] = p => place[q] < place[p]
    BY DEF orderExists
  <2>2. \A p \in pending : p \in DOMAIN moves /\ place[p] \in Nat
    BY <2>1 DEF StoresInv
  <2>3. PICK first \in pending : \A p \in pending : place[first] <= place[p]
    <3> DEFINE S == {place[p] : p \in pending}
    <3>1. S \in SUBSET Nat /\ S # {}
      BY <2>2
    <3> HIDE DEF S
    <3>2. PICK n \in S : \A m \in S : n <= m
      BY <3>1, LeastNumber
    <3> QED
      BY <3>2 DEF S
  <2>4. PICK other \in pending : moves[other] = first
    BY DEF finished, hasDepender
  <2>5. place[other] < place[first]
    BY <2>1, <2>2, <2>4
  <2> QED
    BY <2>2, <2>3, <2>5
<1> QED
  BY <1>1, StoresInit, StoresStep, PTL DEF PhiSpec

=============================================================================
