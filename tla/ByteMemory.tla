----------------------------- MODULE ByteMemory -----------------------------
(***************************************************************************)
(* The memory of one process byte by byte: where objects lie and which     *)
(* bytes the generated loads, stores, atomics and copies touch.  Globals   *)
(* are packed and malloc takes the size it is given, but most accesses use *)
(* the size of the type rounded up to Alignment (generateAlignedSizeOf).   *)
(***************************************************************************)
EXTENDS Integers, Sequences

CONSTANTS Alignment,    \* c_bytewidth_statevar (4 in the code)
          Radix,        \* values of a byte (256)
          MemBytes,     \* bound: bytes of memory
          Size,         \* sizes of the types, in bytes
          MaxObjects,   \* bound: objects
          NewVal(_, _, _, _)   \* what atomicrmw stores: of a kind, for an old
                               \* value and an operand of a number of bytes

Byte     == 0..Radix - 1
Value(n) == [0..n - 1 -> Byte]    \* least significant byte first

Kinds == {"xchg", "add", "sub", "and", "nand", "or", "xor", "max", "min", "umax", "umin"}

ASSUME ByteMemoryAssumption ==
  /\ Alignment \in Nat \ {0} /\ Radix \in Nat \ {0, 1} /\ MemBytes \in Nat
  /\ Size \subseteq Nat \ {0} /\ MaxObjects \in Nat
  /\ \A n \in Size : \A kind \in Kinds, old, v \in Value(n) : NewVal(kind, old, v, n) \in Value(n)

VARIABLES mem,       \* "m": address -> byte
          msize,     \* first address that is not in use
          objects,   \* globals and allocated objects: address and size
          stored     \* history: the value last stored in each object

vars == <<mem, msize, objects, stored>>

Address == 0..MemBytes - 1

(* generateAlignedSizeOf *)
alignedSize(n) == ((n + Alignment - 1) \div Alignment) * Alignment

room(at, n) == at + alignedSize(n) <= MemBytes

Init ==
  /\ mem = [a \in Address |-> 0]
  /\ \E n1, n2 \in Size :    \* a packed struct of two globals
       /\ room(n1, n2)
       /\ objects = <<[at |-> 0, size |-> n1], [at |-> n1, size |-> n2]>>
       /\ msize = alignedSize(n1 + n2)
       /\ stored = <<[k \in 0..n1 - 1 |-> 0], [k \in 0..n2 - 1 |-> 0]>>

-----------------------------------------------------------------------------
(* generateLoad fetches the aligned size and uses the bytes of the type.   *)
bytesAt(at, n) == [k \in 0..n - 1 |-> mem[at + k]]

load(o) == bytesAt(objects[o].at, objects[o].size)

(* Mutated form: one byte too many. *)
spillMutated(n) == alignedSize(n) - n + 1

(* The bytes that follow the type in generateStore's buffer are not set.   *)
spill(n) == alignedSize(n) - n

generateStore(o, v) ==
  LET at == objects[o].at  n == objects[o].size IN
  /\ \E junk \in [0..spill(n) - 1 -> Byte] :
       mem' = [a \in Address |-> IF a \in at..at + n - 1 THEN v[a - at]
                                 ELSE IF a \in at + n..at + n + spill(n) - 1 THEN junk[a - at - n]
                                 ELSE mem[a]]
  /\ stored' = [stored EXCEPT ![o] = v]
  /\ UNCHANGED <<msize, objects>>

(* generateAccessToMemory and generateStore with a number of bytes. *)
copyBytes(to, from, n) ==
  /\ mem' = [a \in Address |-> IF a \in objects[to].at..objects[to].at + n - 1
                               THEN mem[objects[from].at + a - objects[to].at] ELSE mem[a]]
  /\ stored' = [stored EXCEPT ![to] = load(from)]
  /\ UNCHANGED <<msize, objects>>

-----------------------------------------------------------------------------
allocate(n, taken) ==
  /\ Len(objects) < MaxObjects /\ room(msize, n)
  /\ objects' = Append(objects, [at |-> msize, size |-> n])
  /\ stored' = Append(stored, bytesAt(msize, n))
  /\ msize' = msize + taken
  /\ UNCHANGED mem

alloca(n) == allocate(n, alignedSize(n))
malloc(n) == allocate(n, n)

store(o) == \E v \in Value(objects[o].size) : generateStore(o, v)

(* __atomic_store and __atomic_load of pointers to a type: *to = *from.    *)
atomicStore(to, from) ==
  /\ objects[to].size = objects[from].size
  /\ copyBytes(to, from, alignedSize(objects[to].size))

memcpy(to, from) ==
  /\ objects[to].size = objects[from].size
  /\ copyBytes(to, from, objects[to].size)

(* __atomic_compare_exchange of pointers to a type compares aligned sizes. *)
sameBytes(o, e) ==
  \A k \in 0..alignedSize(objects[o].size) - 1 : mem[objects[o].at + k] = mem[objects[e].at + k]

atomicCompareExchange(o, expected, desired) ==
  /\ objects[o].size = objects[expected].size /\ objects[o].size = objects[desired].size
  /\ IF sameBytes(o, expected)
     THEN copyBytes(o, desired, alignedSize(objects[o].size))
     ELSE copyBytes(expected, o, alignedSize(objects[o].size))

atomicRMW(o, kind, v) == generateStore(o, NewVal(kind, load(o), v, objects[o].size))

operate(o) ==
  \/ store(o)
  \/ \E kind \in Kinds, v \in Value(objects[o].size) : atomicRMW(o, kind, v)
  \/ \E p \in DOMAIN objects : atomicStore(o, p)
  \/ \E p \in DOMAIN objects : memcpy(o, p)
  \/ \E p, q \in DOMAIN objects : atomicCompareExchange(o, p, q)

Next ==
  \/ \E n \in Size : alloca(n)
  \/ \E n \in Size : malloc(n)
  \/ \E o \in DOMAIN objects : operate(o)

Spec == Init /\ [][Next]_vars

-----------------------------------------------------------------------------
(* p ends within an alignment unit, so that accesses to it reach o.        *)
overlaps(p, o) ==
  /\ objects[p].at + objects[p].size <= objects[o].at
  /\ objects[o].at < objects[p].at + alignedSize(objects[p].size)

(* What is stored in an object stays there, whatever is stored in, copied   *)
(* to or exchanged with other objects, unless the object begins in the     *)
(* last alignment unit of another (generateStore writes the aligned size). *)
ObjectsIntact ==
  \A o \in DOMAIN objects :
    \/ load(o) = stored[o]
    \/ \E p \in DOMAIN objects : overlaps(p, o)

=============================================================================
