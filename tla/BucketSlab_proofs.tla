-------------------------- MODULE BucketSlab_proofs --------------------------
(***************************************************************************)
(* A bucket of TreeStore_2, for every set of instances, every size of the  *)
(* slabs and whatever new slabs hold.                                      *)
(***************************************************************************)
EXTENDS BucketSlab, WellFoundedInduction, TLAPS

Slab == [data : [0..SlabWords - 1 -> Nat], insertAt : 0..SlabWords, fresh : Nat]

TypeOK ==
  /\ slabs \in Seq(Slab) /\ mySlab \in DOMAIN slabs /\ list \in Seq(DOMAIN slabs)
  /\ elements \in Seq([slab : DOMAIN slabs, word : Nat])
  /\ inserted \in Seq(Instance) /\ Len(inserted) = Len(elements)
  /\ last \in [new : BOOLEAN, instance : Instance \cup {<<>>}, known : BOOLEAN]

slab(i) == elements[i].slab
start(i) == elements[i].word
size(i) == Len(inserted[i])

(* Where entries lie: in the order they were made, each behind the room    *)
(* of the entry before it in its slab but not behind all of its words, the *)
(* last one at _insertAt of the slab in use.                               *)
Layout ==
  /\ \A i \in DOMAIN elements : i + 1 \in DOMAIN elements /\ slab(i + 1) = slab(i)
        => start(i + 1) = start(i) + size(i + 1) + 2
  /\ \A i \in DOMAIN elements : slab(i) = mySlab /\ i + 1 \in DOMAIN elements => slab(i + 1) = mySlab
  /\ \A i \in DOMAIN elements : slab(i) = mySlab => start(i) <= slabs[mySlab].insertAt
  /\ elements # <<>> => /\ slab(Len(elements)) = mySlab
                        /\ start(Len(elements)) = slabs[mySlab].insertAt

(* A word of a slab is what it was at first, or the identifier, the length *)
(* or a data word of an element.                                           *)
wordOf(n, w, i) ==
  /\ slab(i) = n
  /\ \/ w = start(i) /\ slabs[n].data[w] = i - 1
     \/ w = start(i) + 1 /\ slabs[n].data[w] = bytes(inserted[i])
     \/ \E k \in 1..size(i) : w = start(i) + 1 + k /\ slabs[n].data[w] = inserted[i][k]

WordsKnown ==
  \A n \in DOMAIN slabs : \A w \in 0..SlabWords - 1 :
    slabs[n].data[w] = slabs[n].fresh \/ \E i \in DOMAIN elements : wordOf(n, w, i)

SlabInv ==
  /\ TypeOK /\ Layout /\ WordsKnown
  /\ HeadersIntact /\ EntriesInSlab /\ DataIntactUnlessShorter

LEMMA ElementType ==
  ASSUME NEW S, NEW q \in Seq(S), NEW i \in DOMAIN q
  PROVE  q[i] \in S
OBVIOUS

(* The initial states. *)
LEMMA SlabInit == Init => SlabInv /\ FoundIsKnown
<1> SUFFICES ASSUME Init PROVE SlabInv /\ FoundIsKnown
  OBVIOUS
<1>1. PICK junk \in Fresh : slabs = [n \in 1..4 |-> hashtable_bucket_slab(junk)]
  BY DEF Init
<1>2. hashtable_bucket_slab(junk) \in Slab
  BY BucketSlabAssumption DEF hashtable_bucket_slab, Slab
<1>3. elements = <<>> /\ inserted = <<>> /\ mySlab = 1 /\ list = <<1, 2, 3, 4>>
      /\ last = [new |-> FALSE, instance |-> <<>>, known |-> FALSE]
  BY DEF Init
<1>4. slabs \in Seq(Slab) /\ DOMAIN slabs = 1..4
  BY <1>1, <1>2
<1>5. TypeOK
  <2>1. elements \in Seq([slab : DOMAIN slabs, word : Nat]) /\ inserted \in Seq(Instance)
        /\ Len(inserted) = Len(elements)
    BY <1>3
  <2>2. list \in Seq(DOMAIN slabs)
    BY <1>3, <1>4
  <2> QED
    BY <1>3, <1>4, <2>1, <2>2 DEF TypeOK
<1>6. WordsKnown
  BY <1>1, <1>4 DEF WordsKnown, hashtable_bucket_slab
<1> QED
  BY <1>3, <1>5, <1>6 DEF SlabInv, Layout, HeadersIntact, EntriesInSlab,
     DataIntactUnlessShorter, FoundIsKnown

(* The slab an entry goes to: the one in use, or a new one.                *)
receives(all, n, v) ==
  /\ all \in Seq(Slab) /\ n \in DOMAIN all
  /\ \A m \in DOMAIN slabs : m \in DOMAIN all /\ all[m] = slabs[m]
  /\ \A m \in DOMAIN all : m \notin DOMAIN slabs
       => \A w \in 0..SlabWords - 1 : all[m].data[w] = all[m].fresh
  /\ n \notin DOMAIN slabs \/ n = mySlab
  /\ all[n].insertAt + 2 * (Len(v) + 2) <= SlabWords

(* The entry of v is written to slab n from word at on.                    *)
enters(all, n, v, at) ==
  receives(all, n, v) /\ insertInto(all, n, v) /\ at = all[n].insertAt + Len(v) + 2

newWords(all, n, v, at) ==
  /\ DOMAIN slabs' = DOMAIN all
  /\ slabs'[n].data[at] = Len(elements) /\ slabs'[n].data[at + 1] = bytes(v)
  /\ \A k \in 1..Len(v) : slabs'[n].data[at + 1 + k] = v[k]
  /\ \A m \in DOMAIN all : slabs'[m].fresh = all[m].fresh
  /\ \A m \in DOMAIN all, w \in 0..SlabWords - 1 :
       \/ slabs'[m].data[w] = all[m].data[w]
       \/ m = n /\ w \in at..at + 1 + Len(v)

(* What the insertion of an entry changes: the words of the entry, which   *)
(* lie behind the header of every other one of the slab.                   *)
LEMMA Inserted ==
  ASSUME SlabInv, NEW v \in Instance, NEW all, NEW n, NEW at, enters(all, n, v, at)
  PROVE  /\ slabs' \in Seq(Slab) /\ DOMAIN slabs' = DOMAIN all /\ n \in DOMAIN slabs'
         /\ \A m \in DOMAIN slabs : m \in DOMAIN slabs'
         /\ DOMAIN elements' = DOMAIN elements \cup {Len(elements) + 1}
         /\ DOMAIN inserted' = DOMAIN elements' /\ Len(elements') = Len(elements) + 1
         /\ \A i \in DOMAIN elements : /\ elements'[i] = elements[i] /\ inserted'[i] = inserted[i]
                                       /\ slab(i) = n => n = mySlab /\ start(i) <= all[n].insertAt
         /\ inserted'[Len(elements) + 1] = v
         /\ elements'[Len(elements) + 1] = [slab |-> n, word |-> at]
         /\ slabs'[n].insertAt = at
         /\ newWords(all, n, v, at)
         /\ all[n].insertAt \in Nat /\ Len(v) \in Nat /\ at \in Nat /\ mySlab' = n
<1>1. /\ all \in Seq(Slab) /\ n \in DOMAIN all /\ v \in Seq(Nat) /\ Len(v) \in Nat
      /\ SlabWords \in Nat
  BY BucketSlabAssumption DEF enters, receives
<1>2. /\ all[n] \in Slab /\ all[n].insertAt \in Nat /\ all[n].fresh \in Nat
      /\ all[n].data \in [0..SlabWords - 1 -> Nat]
  <2>1. all[n] \in Slab
    BY <1>1
  <2> QED
    BY <2>1 DEF Slab
<1>3. /\ at \in Nat /\ reserve(all[n], v) = at /\ bytes(v) \in Nat
      /\ newID = Len(elements) /\ Len(elements) \in Nat /\ at + Len(v) + 2 <= SlabWords
  <2>1. reserve(all[n], v) = at /\ at \in Nat /\ bytes(v) \in Nat
    BY <1>1, <1>2 DEF enters, reserve, bytes
  <2>2. newID = Len(elements) /\ Len(elements) \in Nat
    BY DEF newID, SlabInv, TypeOK
  <2>3. all[n].insertAt + 2 * (Len(v) + 2) <= SlabWords
    BY DEF receives, enters
  <2>4. \A a, l \in Nat : a + 2 * (l + 2) <= SlabWords => (a + l + 2) + l + 2 <= SlabWords
    BY <1>1
  <2> QED
    BY <1>1, <1>2, <2>1, <2>2, <2>3, <2>4 DEF enters
<1> DEFINE data == [w \in DOMAIN all[n].data |->
                      IF w = at THEN newID
                      ELSE IF w = at + 1 THEN bytes(v)
                      ELSE IF w \in at + 2..at + 1 + Len(v) THEN v[w - at - 1]
                      ELSE all[n].data[w]]
<1>4. data \in [0..SlabWords - 1 -> Nat]
  <2> SUFFICES ASSUME NEW w \in 0..SlabWords - 1,
                      w \in at + 2..at + 1 + Len(v)
               PROVE  v[w - at - 1] \in Nat
    BY <1>2, <1>3
  <2>1. w - at - 1 \in 1..Len(v)
    BY <1>1, <1>3
  <2> QED
    BY <1>1, <2>1
<1> DEFINE new == [data |-> data, insertAt |-> at, fresh |-> all[n].fresh]
<1>5. slabs' = [all EXCEPT ![n] = new] /\ mySlab' = n
  BY <1>3 DEF enters, insertInto, written
<1>6. new \in Slab
  <2>1. at \in 0..SlabWords
    BY <1>1, <1>3
  <2> HIDE DEF data
  <2> QED
    BY <1>2, <1>4, <2>1 DEF Slab
<1>7. slabs' \in Seq(Slab) /\ DOMAIN slabs' = DOMAIN all /\ slabs'[n] = new
      /\ \A m \in DOMAIN all : m # n => slabs'[m] = all[m]
  BY <1>1, <1>5, <1>6
<1>8. /\ elements \in Seq([slab : DOMAIN slabs, word : Nat]) /\ inserted \in Seq(Instance)
      /\ Len(inserted) = Len(elements) /\ DOMAIN elements = 1..Len(elements)
      /\ elements' = Append(elements, [slab |-> n, word |-> at])
      /\ inserted' = Append(inserted, v)
  BY <1>3 DEF enters, insertInto, SlabInv, TypeOK
<1>9. /\ DOMAIN elements' = DOMAIN elements \cup {Len(elements) + 1}
      /\ DOMAIN inserted' = DOMAIN elements' /\ Len(elements') = Len(elements) + 1
      /\ inserted'[Len(elements) + 1] = v
      /\ elements'[Len(elements) + 1] = [slab |-> n, word |-> at]
      /\ \A i \in DOMAIN elements : elements'[i] = elements[i] /\ inserted'[i] = inserted[i]
  BY <1>3, <1>8
<1>10. ASSUME NEW i \in DOMAIN elements, slab(i) = n
       PROVE  n = mySlab /\ start(i) <= all[n].insertAt
  <2>1. slab(i) \in DOMAIN slabs
    <3>1. elements[i] \in [slab : DOMAIN slabs, word : Nat]
      BY ElementType DEF SlabInv, TypeOK
    <3> QED
      BY <3>1 DEF slab
  <2>2. n = mySlab /\ all[n] = slabs[n]
    BY <1>10, <2>1 DEF receives, enters
  <2> QED
    BY <1>10, <2>2 DEF SlabInv, Layout
<1>11. \A w \in 0..SlabWords - 1 : w \in DOMAIN all[n].data
  BY <1>2
<1>12. /\ data[at] = Len(elements) /\ data[at + 1] = bytes(v)
       /\ \A k \in 1..Len(v) : data[at + 1 + k] = v[k]
       /\ \A w \in 0..SlabWords - 1 : \/ data[w] = all[n].data[w]
                                      \/ w \in at..at + 1 + Len(v)
  <2>1. /\ at \in 0..SlabWords - 1 /\ at + 1 \in 0..SlabWords - 1 /\ at + 1 # at
        /\ \A k \in 1..Len(v) : /\ at + 1 + k \in 0..SlabWords - 1
                                /\ at + 1 + k \in at + 2..at + 1 + Len(v)
                                /\ at + 1 + k # at /\ at + 1 + k # at + 1
                                /\ (at + 1 + k) - at - 1 = k
        /\ \A w \in at + 2..at + 1 + Len(v) : w \in at..at + 1 + Len(v)
        /\ at + 1 \in at..at + 1 + Len(v) /\ at \in at..at + 1 + Len(v)
    BY <1>1, <1>3
  <2>2. data[at] = Len(elements) /\ data[at + 1] = bytes(v)
    BY <1>3, <1>11, <2>1
  <2>3. \A k \in 1..Len(v) : data[at + 1 + k] = v[k]
    BY <1>11, <2>1
  <2>4. \A w \in 0..SlabWords - 1 : data[w] = all[n].data[w] \/ w \in at..at + 1 + Len(v)
    BY <1>11, <2>1
  <2> QED
    BY <2>2, <2>3, <2>4
<1>13. /\ slabs'[n].insertAt = at /\ slabs'[n].data = data
       /\ \A m \in DOMAIN all : slabs'[m].fresh = all[m].fresh
  BY <1>7
<1> HIDE DEF data, new
<1>15. \A m \in DOMAIN all, w \in 0..SlabWords - 1 :
         slabs'[m].data[w] = all[m].data[w] \/ (m = n /\ w \in at..at + 1 + Len(v))
  <2> SUFFICES ASSUME NEW m \in DOMAIN all, NEW w \in 0..SlabWords - 1
               PROVE  slabs'[m].data[w] = all[m].data[w] \/ (m = n /\ w \in at..at + 1 + Len(v))
    OBVIOUS
  <2>1. CASE m = n
    BY <1>12, <1>13, <2>1
  <2>2. CASE m # n
    BY <1>7, <2>2
  <2> QED
    BY <2>1, <2>2
<1>16. \A m \in DOMAIN slabs : m \in DOMAIN slabs'
  BY <1>7 DEF receives, enters
<1>17. \A k \in 1..Len(v) : slabs'[n].data[at + 1 + k] = v[k]
  BY <1>12, <1>13
<1>18. slabs'[n].data[at] = Len(elements) /\ slabs'[n].data[at + 1] = bytes(v)
  BY <1>12, <1>13
<1>19. \A i \in DOMAIN elements : slab(i) = n => n = mySlab /\ start(i) <= all[n].insertAt
  BY <1>10
<1> QED
  BY <1>1, <1>2, <1>5, <1>7, <1>9, <1>13, <1>15, <1>16, <1>17, <1>18, <1>19, <1>3 DEF newWords

(* Elements lie in slabs there are, and their entries inside them.         *)
LEMMA Positions ==
  ASSUME SlabInv, NEW i \in DOMAIN elements
  PROVE  /\ slab(i) \in DOMAIN slabs /\ start(i) \in Nat /\ size(i) \in Nat
         /\ i \in 1..Len(elements) /\ Len(elements) \in Nat /\ DOMAIN inserted = DOMAIN elements
         /\ inserted[i] \in Instance /\ inserted[i] \in Seq(Nat)
         /\ start(i) + 2 + size(i) <= SlabWords /\ SlabWords \in Nat
<1>1. elements[i] \in [slab : DOMAIN slabs, word : Nat]
  BY ElementType DEF SlabInv, TypeOK
<1>2. /\ inserted \in Seq(Instance) /\ Len(inserted) = Len(elements)
      /\ Len(elements) \in Nat /\ DOMAIN elements = 1..Len(elements)
      /\ DOMAIN inserted = DOMAIN elements
  BY DEF SlabInv, TypeOK
<1>3. inserted[i] \in Instance
  BY <1>2, ElementType
<1>4. inserted[i] \in Seq(Nat) /\ SlabWords \in Nat
  BY <1>3, BucketSlabAssumption
<1>5. start(i) + 2 + size(i) <= SlabWords
  BY DEF SlabInv, EntriesInSlab, start, size
<1> QED
  BY <1>1, <1>2, <1>3, <1>4, <1>5 DEF slab, start, size

(* Entries stay where they are; only words behind the new entry's start    *)
(* change.                                                                 *)
LEMMA Kept ==
  ASSUME SlabInv, NEW v \in Instance, NEW all, NEW n, NEW at, enters(all, n, v, at),
         NEW i \in DOMAIN elements
  PROVE  /\ i \in DOMAIN elements' /\ i # Len(elements) + 1
         /\ slab(i)' = slab(i) /\ start(i)' = start(i) /\ size(i)' = size(i)
         /\ inserted'[i] = inserted[i]
         /\ slab(i) = n => start(i) + 2 + Len(v) <= at
         /\ \A w \in 0..SlabWords - 1 :
              slab(i) # n \/ w < at
                => slabs'[slab(i)].data[w] = slabs[slab(i)].data[w]
<1>1. /\ slab(i) \in DOMAIN slabs /\ start(i) \in Nat
      /\ i \in 1..Len(elements) /\ Len(elements) \in Nat
  BY Positions
<1>2. /\ DOMAIN elements' = DOMAIN elements \cup {Len(elements) + 1}
      /\ elements'[i] = elements[i] /\ inserted'[i] = inserted[i]
      /\ slab(i) = n => start(i) <= all[n].insertAt
      /\ all[n].insertAt \in Nat /\ Len(v) \in Nat /\ at \in Nat
  BY Inserted
<1>3. slab(i) \in DOMAIN all /\ all[slab(i)] = slabs[slab(i)]
  BY <1>1 DEF receives, enters
<1>4. \A w \in 0..SlabWords - 1 :
        \/ slabs'[slab(i)].data[w] = all[slab(i)].data[w]
        \/ slab(i) = n /\ w \in at..at + 1 + Len(v)
  <2>1. \A m \in DOMAIN all, w \in 0..SlabWords - 1 :
          \/ slabs'[m].data[w] = all[m].data[w]
          \/ m = n /\ w \in at..at + 1 + Len(v)
    <3>1. newWords(all, n, v, at)
      BY Inserted
    <3> QED
      BY <3>1 DEF newWords
  <2> HIDE DEF slab
  <2> QED
    BY <1>3, <2>1
<1>5. i \in DOMAIN elements' /\ i # Len(elements) + 1
  BY <1>1, <1>2
<1>6. slab(i)' = slab(i) /\ start(i)' = start(i) /\ size(i)' = size(i)
  BY <1>2 DEF slab, start, size
<1>7. slab(i) = n => start(i) + 2 + Len(v) <= at
  BY <1>1, <1>2 DEF enters
<1>8. ASSUME NEW w \in 0..SlabWords - 1, slab(i) # n \/ w < at
      PROVE  slabs'[slab(i)].data[w] = slabs[slab(i)].data[w]
  <2>1. w \notin at..at + 1 + Len(v) \/ slab(i) # n
    BY <1>2, <1>8
  <2> QED
    BY <1>3, <1>4, <2>1
<1> QED
  BY <1>2, <1>5, <1>6, <1>7, <1>8

(* Where the new entry lies.                                               *)
LEMMA Added ==
  ASSUME SlabInv, NEW v \in Instance, NEW all, NEW n, NEW at, enters(all, n, v, at),
         NEW new, new = Len(elements) + 1
  PROVE  /\ slab(new)' = n /\ start(new)' = at /\ size(new)' = Len(v)
         /\ slabs'[n].insertAt = at /\ mySlab' = n /\ at \in Nat /\ new \in Nat
         /\ all[n].insertAt \in Nat /\ Len(v) \in Nat /\ at + 2 + Len(v) <= SlabWords
         /\ SlabWords \in Nat
<1>1. /\ elements'[new] = [slab |-> n, word |-> at] /\ inserted'[new] = v
      /\ slabs'[n].insertAt = at /\ mySlab' = n
      /\ all[n].insertAt \in Nat /\ Len(v) \in Nat
  BY Inserted
<1>2. slab(new)' = n /\ start(new)' = at /\ size(new)' = Len(v)
  BY <1>1 DEF slab, start, size
<1>3. Len(elements) \in Nat /\ SlabWords \in Nat
  BY BucketSlabAssumption DEF SlabInv, TypeOK
<1>4. all[n].insertAt + 2 * (Len(v) + 2) <= SlabWords
  BY DEF receives, enters
<1>5. at \in Nat /\ at + 2 + Len(v) <= SlabWords
  BY <1>1, <1>3, <1>4 DEF enters
<1>6. new \in Nat
  BY <1>3
<1> QED
  BY <1>1, <1>2, <1>3, <1>5, <1>6

(* An insertion keeps the invariant.                                       *)
LEMMA InsertLayout ==
  ASSUME SlabInv, NEW v \in Instance, NEW all, NEW n, NEW at, enters(all, n, v, at)
  PROVE  Layout' /\ EntriesInSlab'
<1>1. PICK new : new = Len(elements) + 1
  OBVIOUS
<1>2. at = all[n].insertAt + Len(v) + 2
  BY DEF enters
<1>3. /\ DOMAIN elements' = DOMAIN elements \cup {new} /\ DOMAIN elements = 1..Len(elements)
      /\ Len(elements') = new /\ Len(elements) \in Nat
  <2>1. Len(elements) \in Nat /\ DOMAIN elements = 1..Len(elements)
    BY DEF SlabInv, TypeOK
  <2>2. DOMAIN elements' = DOMAIN elements \cup {Len(elements) + 1} /\ Len(elements') = Len(elements) + 1
    BY Inserted
  <2> QED
    BY <1>1, <2>1, <2>2
<1>4. /\ slab(new)' = n /\ start(new)' = at /\ size(new)' = Len(v)
      /\ slabs'[n].insertAt = at /\ mySlab' = n /\ at \in Nat /\ new \in Nat
      /\ all[n].insertAt \in Nat /\ Len(v) \in Nat /\ at + 2 + Len(v) <= SlabWords
      /\ SlabWords \in Nat
  BY <1>1, <1>2, Added
<1>5. ASSUME NEW i \in DOMAIN elements
      PROVE  /\ slab(i)' = slab(i) /\ start(i)' = start(i) /\ size(i)' = size(i) /\ i # new
             /\ start(i) \in Nat /\ size(i) \in Nat /\ start(i) + 2 + size(i) <= SlabWords
             /\ slab(i) = n => n = mySlab /\ start(i) <= all[n].insertAt
             /\ slab(i) = n => all[n] = slabs[n]
  <2>1. slab(i) \in DOMAIN slabs
    BY Positions
  <2>2. slab(i) = n => all[n] = slabs[n]
    BY <2>1 DEF receives, enters
  <2> QED
    BY <1>1, <2>2, Kept, Positions, Inserted
<1>6. ASSUME NEW i \in DOMAIN elements', i + 1 \in DOMAIN elements'
      PROVE  /\ i \in DOMAIN elements
             /\ i + 1 \in DOMAIN elements \/ (i = Len(elements) /\ i + 1 = new /\ elements # <<>>)
  BY <1>1, <1>3, <1>6
<1>7. ASSUME NEW i \in DOMAIN elements', i + 1 \in DOMAIN elements', slab(i + 1)' = slab(i)'
      PROVE  start(i + 1)' = start(i)' + size(i + 1)' + 2
  <2>1. CASE i + 1 \in DOMAIN elements
    BY <1>5, <1>6, <1>7, <2>1 DEF SlabInv, Layout
  <2>2. CASE i = Len(elements) /\ i + 1 = new /\ elements # <<>>
    <3>1. slab(i) = n /\ n = mySlab /\ all[n] = slabs[n]
      BY <1>4, <1>5, <1>6, <1>7, <2>2
    <3>2. start(i) = all[n].insertAt
      BY <2>2, <3>1 DEF SlabInv, Layout
    <3>3. start(i)' = start(i) /\ start(i) \in Nat
      BY <1>5, <1>6, <1>7
    <3> QED
      BY <1>2, <1>4, <2>2, <3>2, <3>3
  <2> QED
    BY <1>6, <1>7, <2>1, <2>2
<1>8. ASSUME NEW i \in DOMAIN elements', slab(i)' = mySlab', i + 1 \in DOMAIN elements'
      PROVE  slab(i + 1)' = mySlab'
  <2>1. i \in DOMAIN elements /\ slab(i) = mySlab /\ n = mySlab
    BY <1>4, <1>5, <1>6, <1>8
  <2>2. CASE i + 1 \in DOMAIN elements
    BY <1>4, <1>5, <2>1, <2>2 DEF SlabInv, Layout
  <2> QED
    BY <1>4, <1>6, <1>8, <2>2
<1>9. ASSUME NEW i \in DOMAIN elements', slab(i)' = mySlab'
      PROVE  start(i)' <= slabs'[mySlab'].insertAt
  <2>1. CASE i = new
    BY <1>4, <2>1
  <2>2. CASE i \in DOMAIN elements
    <3>1. slab(i) = n /\ start(i)' = start(i) /\ start(i) \in Nat /\ start(i) <= all[n].insertAt
      BY <1>4, <1>5, <1>9, <2>2
    <3>2. slabs'[mySlab'].insertAt = at
      BY <1>4
    <3>3. all[n].insertAt <= at
      BY <1>2, <1>4
    <3> QED
      BY <1>4, <3>1, <3>2, <3>3
  <2> QED
    BY <1>3, <2>1, <2>2
<1>10. slab(Len(elements))' = mySlab' /\ start(Len(elements))' = slabs'[mySlab'].insertAt
  BY <1>3, <1>4 DEF slab, start
<1>11. Layout'
  BY <1>7, <1>8, <1>9, <1>10 DEF Layout
<1>12. ASSUME NEW i \in DOMAIN elements'
       PROVE  start(i)' + 2 + size(i)' <= SlabWords
  BY <1>3, <1>4, <1>5
<1> QED
  BY <1>11, <1>12 DEF EntriesInSlab, start, size

LEMMA InsertContents ==
  ASSUME SlabInv, NEW v \in Instance, NEW all, NEW n, NEW at, enters(all, n, v, at)
  PROVE  HeadersIntact' /\ WordsKnown'
<1>1. PICK new : new = Len(elements) + 1
  OBVIOUS
<1>2. at = all[n].insertAt + Len(v) + 2
  BY DEF enters
<1>3. /\ DOMAIN elements' = DOMAIN elements \cup {new} /\ Len(elements) \in Nat
      /\ inserted'[new] = v
      /\ slabs'[n].data[at] = new - 1 /\ slabs'[n].data[at + 1] = bytes(v)
      /\ \A k \in 1..Len(v) : slabs'[n].data[at + 1 + k] = v[k]
      /\ \A m \in DOMAIN all : slabs'[m].fresh = all[m].fresh
      /\ DOMAIN slabs' = DOMAIN all
      /\ \A m \in DOMAIN all, w \in 0..SlabWords - 1 :
              \/ slabs'[m].data[w] = all[m].data[w]
              \/ m = n /\ w \in at..at + 1 + Len(v)
  <2>1. all[n].insertAt \in Nat /\ Len(v) \in Nat /\ Len(elements) \in Nat
    <3>1. Len(elements) \in Nat
      BY DEF SlabInv, TypeOK
    <3> QED
      BY <3>1, Inserted
  <2>2. new - 1 = Len(elements)
    BY <1>1, <2>1
  <2> QED
    <3>1. /\ DOMAIN elements' = DOMAIN elements \cup {Len(elements) + 1}
          /\ inserted'[Len(elements) + 1] = v
          /\ newWords(all, n, v, at)
      BY Inserted
    <3> QED
      BY <1>1, <2>1, <2>2, <3>1 DEF newWords
<1>4. /\ slab(new)' = n /\ start(new)' = at /\ size(new)' = Len(v)
      /\ at \in Nat /\ new \in Nat /\ Len(v) \in Nat
  BY <1>1, <1>2, Added
<1>5. \A i \in DOMAIN elements :
        /\ slab(i)' = slab(i) /\ start(i)' = start(i) /\ size(i)' = size(i)
        /\ inserted'[i] = inserted[i]
        /\ slab(i) = n => start(i) + 2 + Len(v) <= at
        /\ \A w \in 0..SlabWords - 1 : slab(i) # n \/ w < at
                => slabs'[slab(i)].data[w] = slabs[slab(i)].data[w]
        /\ slab(i) \in DOMAIN slabs /\ start(i) \in Nat /\ size(i) \in Nat
        /\ start(i) + 2 + size(i) <= SlabWords /\ SlabWords \in Nat
  BY <1>1, <1>2, Kept, Positions
<1>6. HeadersIntact'
  <2> SUFFICES ASSUME NEW i \in DOMAIN elements'
               PROVE  /\ slabs'[slab(i)'].data[start(i)'] = i - 1
                      /\ slabs'[slab(i)'].data[start(i)' + 1] = bytes(inserted'[i])
    <3>1. \A i \in DOMAIN elements' : start(i)' \in Nat
      BY <1>3, <1>4, <1>5
    <3>2. \A i \in DOMAIN elements' : elements'[i].word + 0 = elements'[i].word
      BY <3>1 DEF start
    <3> QED
      BY <3>2 DEF HeadersIntact, word, slab, start
  <2>1. CASE i = new
    BY <1>3, <1>4, <2>1
  <2>2. CASE i \in DOMAIN elements
    <3>1. /\ start(i) \in 0..SlabWords - 1 /\ start(i) + 1 \in 0..SlabWords - 1
          /\ slab(i) # n \/ (start(i) < at /\ start(i) + 1 < at)
      BY <1>4, <1>5, <2>2
    <3>2. /\ slabs[slab(i)].data[start(i)] = i - 1
          /\ slabs[slab(i)].data[start(i) + 1] = bytes(inserted[i])
      <4>1. start(i) + 0 = start(i)
        BY <1>5, <2>2
      <4> QED
        BY <2>2, <4>1 DEF SlabInv, HeadersIntact, word, slab, start
    <3> QED
      BY <1>5, <2>2, <3>1, <3>2
  <2> QED
    BY <1>3, <2>1, <2>2
<1>7. WordsKnown'
  <2> SUFFICES ASSUME NEW m \in DOMAIN all, NEW w \in 0..SlabWords - 1
               PROVE  slabs'[m].data[w] = slabs'[m].fresh \/ \E i \in DOMAIN elements' : wordOf(m, w, i)'
    BY <1>3 DEF WordsKnown
  <2>1. CASE m = n /\ w \in at..at + 1 + Len(v)
    <3>1. \/ w = at \/ w = at + 1
          \/ w = at + 1 + (w - at - 1) /\ w - at - 1 \in 1..Len(v)
      BY <1>4, <2>1
    <3>2. wordOf(m, w, new)'
      <4>1. CASE w = at
        BY <1>3, <1>4, <2>1, <4>1 DEF wordOf
      <4>2. CASE w = at + 1
        BY <1>3, <1>4, <2>1, <4>2 DEF wordOf
      <4>3. ASSUME w = at + 1 + (w - at - 1), w - at - 1 \in 1..Len(v) PROVE wordOf(m, w, new)'
        BY <1>3, <1>4, <2>1, <4>3 DEF wordOf
      <4> QED
        BY <3>1, <4>1, <4>2, <4>3
    <3> QED
      BY <1>3, <3>2
  <2>2. CASE slabs'[m].data[w] = all[m].data[w]
    <3>1. CASE m \notin DOMAIN slabs
      <4>1. all[m].data[w] = all[m].fresh
        BY <3>1 DEF receives, enters
      <4> QED
        BY <1>3, <2>2, <4>1
    <3>2. CASE m \in DOMAIN slabs
      <4>1. all[m] = slabs[m]
        BY <3>2 DEF receives, enters
      <4>2. CASE slabs[m].data[w] = slabs[m].fresh
        BY <1>3, <2>2, <4>1, <4>2
      <4>3. ASSUME NEW i \in DOMAIN elements, wordOf(m, w, i)
            PROVE  wordOf(m, w, i)'
        BY <1>5, <2>2, <4>1, <4>3 DEF wordOf
      <4>4. slabs[m].data[w] = slabs[m].fresh \/ \E i \in DOMAIN elements : wordOf(m, w, i)
        BY <3>2 DEF SlabInv, WordsKnown
      <4> QED
        BY <1>3, <4>2, <4>3, <4>4
    <3> QED
      BY <3>1, <3>2
  <2> QED
    BY <1>3, <2>1, <2>2
<1> QED
  BY <1>6, <1>7

LEMMA InsertData ==
  ASSUME SlabInv, NEW v \in Instance, NEW all, NEW n, NEW at, enters(all, n, v, at)
  PROVE  DataIntactUnlessShorter'
<1>1. PICK new : new = Len(elements) + 1
  OBVIOUS
<1>2. /\ DOMAIN elements' = DOMAIN elements \cup {new} /\ inserted'[new] = v
      /\ newWords(all, n, v, at)
  BY <1>1, Inserted
<1>3. /\ slab(new)' = n /\ start(new)' = at /\ size(new)' = Len(v)
      /\ all[n].insertAt \in Nat /\ at \in Nat /\ new \in Nat /\ Len(v) \in Nat
  BY <1>1, Added
<1>4. at = all[n].insertAt + Len(v) + 2
  BY DEF enters
<1>5. \A i \in DOMAIN elements :
        /\ slab(i)' = slab(i) /\ start(i)' = start(i) /\ size(i)' = size(i)
        /\ inserted'[i] = inserted[i]
        /\ slab(i) = n => start(i) + 2 + Len(v) <= at
        /\ \A w \in 0..SlabWords - 1 : slab(i) # n \/ w < at
                => slabs'[slab(i)].data[w] = slabs[slab(i)].data[w]
  BY Kept
<1>6. \A i \in DOMAIN elements :
        /\ slab(i) \in DOMAIN slabs /\ start(i) \in Nat /\ size(i) \in Nat
        /\ start(i) + 2 + size(i) <= SlabWords /\ SlabWords \in Nat
        /\ i \in 1..Len(elements) /\ Len(elements) \in Nat
  BY Positions
<1>7. DOMAIN elements = 1..Len(elements)
  BY DEF SlabInv, TypeOK
<1> DEFINE intact(i) == \A k \in 1..size(i) : slabs[slab(i)].data[start(i) + 1 + k] = inserted[i][k]
           shorter(i) == i + 1 \in DOMAIN elements /\ slab(i + 1) = slab(i) /\ size(i + 1) < size(i)
<1>8. \A i \in DOMAIN elements : intact(i) \/ shorter(i)
  <2>1. \A i \in DOMAIN elements : \A k \in 1..size(i) : start(i) + (k + 1) = start(i) + 1 + k
    BY <1>6
  <2> QED
    BY <2>1 DEF SlabInv, DataIntactUnlessShorter, word, slab, start, size
<1>9. ASSUME NEW i \in DOMAIN elements, shorter(i)
      PROVE  shorter(i)'
  BY <1>2, <1>5, <1>9
<1>10. ASSUME NEW i \in DOMAIN elements, intact(i), slab(i) # n \/ start(i) + 1 + size(i) < at
       PROVE  intact(i)'
  <2> SUFFICES ASSUME NEW k \in 1..size(i)
               PROVE  slabs'[slab(i)].data[start(i) + 1 + k] = inserted[i][k]
    BY <1>5
  <2>1. start(i) + 1 + k \in 0..SlabWords - 1 /\ (slab(i) # n \/ start(i) + 1 + k < at)
    <3>1. /\ start(i) \in Nat /\ size(i) \in Nat /\ SlabWords \in Nat /\ at \in Nat
          /\ start(i) + 2 + size(i) <= SlabWords
          /\ slab(i) # n \/ start(i) + 1 + size(i) < at
      BY <1>3, <1>6, <1>10
    <3>2. \A x, y, z \in Nat : k \in 1..y =>
            /\ x + 2 + y <= z => x + 1 + k \in 0..z - 1
            /\ \A b \in Nat : x + 1 + y < b => x + 1 + k < b
      OBVIOUS
    <3> QED
      BY ONLY <3>1, <3>2, k \in 1..size(i)
  <2> QED
    BY <1>5, <1>10, <2>1
<1>11. ASSUME NEW i \in DOMAIN elements, slab(i) = n, ~ shorter(i)
       PROVE  start(i) + 1 + size(i) < at \/ shorter(i)'
  <2>1. CASE i = Len(elements)
    <3>1. i + 1 = new
      BY <1>1, <2>1
    <3>2. size(i) <= Len(v) \/ shorter(i)'
      <4>1. size(i)' = size(i) /\ slab(i)' = slab(i) /\ i + 1 \in DOMAIN elements'
        BY <1>2, <1>5, <3>1
      <4>2. size(i + 1)' = Len(v) /\ slab(i + 1)' = n
        BY <1>3, <3>1
      <4> QED
        BY <1>3, <1>6, <1>11, <4>1, <4>2
    <3>3. start(i) + 2 + Len(v) <= at
      BY <1>5, <1>11
    <3> QED
      BY <1>3, <1>6, <3>2, <3>3
  <2>2. CASE i # Len(elements)
    <3>1. i + 1 \in DOMAIN elements
      BY <1>6, <1>7, <2>2
    <3>2. n = mySlab
      <4>1. slab(i) \in DOMAIN slabs
        BY <1>6
      <4> QED
        BY <1>11, <4>1 DEF enters, receives
    <3>3. slab(i + 1) = n /\ start(i + 1) = start(i) + size(i + 1) + 2
      BY <1>11, <3>1, <3>2 DEF SlabInv, Layout
    <3>4. size(i + 1) >= size(i) /\ size(i + 1) \in Nat
      BY <1>6, <1>11, <3>1, <3>3
    <3>5. start(i + 1) + 2 + Len(v) <= at
      BY <1>5, <3>1, <3>3
    <3> QED
      <4>1. start(i) \in Nat /\ size(i) \in Nat /\ Len(v) \in Nat /\ at \in Nat
        BY <1>3, <1>6
      <4>2. \A a, b, c, d, e \in Nat : a + c + 2 + 2 + d <= e /\ c >= b => a + 1 + b < e
        OBVIOUS
      <4> QED
        BY <3>3, <3>4, <3>5, <4>1, <4>2
  <2> QED
    BY <2>1, <2>2
<1>12. intact(new)'
  <2> SUFFICES ASSUME NEW k \in 1..Len(v)
               PROVE  slabs'[n].data[at + 1 + k] = v[k]
    BY <1>2, <1>3
  <2> QED
    BY <1>2 DEF newWords
<1>13. \A i \in DOMAIN elements' : intact(i)' \/ shorter(i)'
  BY <1>2, <1>8, <1>9, <1>10, <1>11, <1>12
<1>14. \A i \in DOMAIN elements' : \A k \in 1..size(i)' : start(i)' + (k + 1) = start(i)' + 1 + k
  <2>1. \A i \in DOMAIN elements' : start(i)' \in Nat
    BY <1>2, <1>3, <1>5, <1>6
  <2> QED
    BY <2>1
<1> QED
  BY <1>13, <1>14 DEF DataIntactUnlessShorter, word, slab, start, size

LEMMA InsertTypes ==
  ASSUME SlabInv, NEW v \in Instance, NEW all, NEW n, NEW at, enters(all, n, v, at),
         list' \in Seq(DOMAIN all),
         last' \in [new : BOOLEAN, instance : Instance \cup {<<>>}, known : BOOLEAN]
  PROVE  TypeOK'
<1>1. /\ slabs' \in Seq(Slab) /\ DOMAIN slabs' = DOMAIN all /\ n \in DOMAIN slabs'
      /\ \A m \in DOMAIN slabs : m \in DOMAIN slabs'
      /\ mySlab' = n /\ at \in Nat
  BY Inserted
<1>2. /\ elements \in Seq([slab : DOMAIN slabs, word : Nat])
      /\ inserted \in Seq(Instance) /\ Len(inserted) = Len(elements)
  BY DEF SlabInv, TypeOK
<1>3. /\ elements' = Append(elements, [slab |-> n, word |-> at])
      /\ inserted' = Append(inserted, v)
  <2>1. reserve(all[n], v) = at
    BY DEF enters, reserve
  <2> QED
    BY <2>1 DEF enters, insertInto
<1>4. elements \in Seq([slab : DOMAIN slabs', word : Nat])
  <2>1. [slab : DOMAIN slabs, word : Nat] \subseteq [slab : DOMAIN slabs', word : Nat]
    BY <1>1
  <2>2. \A S, T : S \subseteq T => Seq(S) \subseteq Seq(T)
    OBVIOUS
  <2> QED
    BY <1>2, <2>1, <2>2
<1>5. [slab |-> n, word |-> at] \in [slab : DOMAIN slabs', word : Nat]
  BY <1>1
<1>6. elements' \in Seq([slab : DOMAIN slabs', word : Nat]) /\ Len(elements') = Len(elements) + 1
  <2>1. \A S, q, e : q \in Seq(S) /\ e \in S => Append(q, e) \in Seq(S) /\ Len(Append(q, e)) = Len(q) + 1
    OBVIOUS
  <2> QED
    BY <1>3, <1>4, <1>5, <2>1
<1>7. inserted' \in Seq(Instance) /\ Len(inserted') = Len(inserted) + 1
  BY <1>2, <1>3
<1> QED
  BY <1>1, <1>2, <1>6, <1>7 DEF TypeOK

LEMMA InsertStep ==
  ASSUME SlabInv, NEW v \in Instance, NEW all, NEW n, receives(all, n, v), insertInto(all, n, v),
         list' \in Seq(DOMAIN all),
         last' \in [new : BOOLEAN, instance : Instance \cup {<<>>}, known : BOOLEAN]
  PROVE  SlabInv'
<1>1. PICK at : enters(all, n, v, at)
  BY DEF enters
<1> QED
  BY <1>1, InsertTypes, InsertLayout, InsertContents, InsertData DEF SlabInv

-----------------------------------------------------------------------------
isWalk(f, N, up, hit) ==
  f = [e \in Nat |-> IF e >= N THEN 0 ELSE IF e \in hit THEN e ELSE f[up[e]]]

(* A recursion on numbers that ends at N and goes up before it defines a   *)
(* function.                                                               *)
LEMMA WalkExists ==
  ASSUME NEW N \in Nat, NEW up, \A e \in Nat : e < N => up[e] \in Nat /\ up[e] > e,
         NEW hit
  PROVE  \E f : isWalk(f, N, up, hit)
<1> DEFINE body(f, e) == IF e >= N THEN 0 ELSE IF e \in hit THEN e ELSE f[up[e]]
           good(n) == \E f \in [Nat -> Nat] : \A e \in Nat : e + n >= N => f[e] = body(f, e)
           Less == {ss \in Nat \X Nat : ss[1] < ss[2]}
<1>1. good(0)
  <2> DEFINE f == [e \in Nat |-> 0]
  <2>1. \A e \in Nat : e + 0 >= N => f[e] = body(f, e)
    OBVIOUS
  <2> QED
    BY <2>1
<1>2. ASSUME NEW n \in Nat, good(n)
      PROVE  good(n + 1)
  <2>1. PICK f \in [Nat -> Nat] : \A e \in Nat : e + n >= N => f[e] = body(f, e)
    BY <1>2
  <2> DEFINE g == [e \in Nat |-> IF e + n >= N THEN f[e] ELSE body(f, e)]
  <2>2. ASSUME NEW e \in Nat, e + (n + 1) >= N
        PROVE  g[e] = body(g, e)
    <3>1. CASE e >= N
      BY <2>1, <3>1
    <3>2. CASE e < N /\ e \in hit
      BY <2>1, <3>2
    <3>3. CASE e < N /\ e \notin hit
      <4>1. up[e] \in Nat /\ up[e] > e /\ up[e] + n >= N
        BY <2>2, <3>3
      <4>2. g[up[e]] = f[up[e]]
        BY <4>1
      <4>3. g[e] = f[up[e]]
        BY <2>1, <3>3
      <4> QED
        BY <3>3, <4>2, <4>3
    <3> QED
      BY <3>1, <3>2, <3>3
  <2>3. g \in [Nat -> Nat]
    <3> SUFFICES ASSUME NEW e \in Nat PROVE g[e] \in Nat
      OBVIOUS
    <3>1. e < N => up[e] \in Nat
      OBVIOUS
    <3> QED
      BY <3>1
  <2> HIDE DEF g, body
  <2> QED
    BY <2>2, <2>3
<1>3. good(N)
  <2> SUFFICES ASSUME ~good(N) PROVE FALSE
    OBVIOUS
  <2> DEFINE S == {n \in Nat : ~good(n)}
  <2> HIDE DEF good, body
  <2>1. S # {} /\ S \in SUBSET Nat
    OBVIOUS
  <2>2. IsWellFoundedOn(Less, Nat)
    BY NatLessThanWellFounded, Zenon DEF OpToRel
  <2>3. PICK n \in S : \A m \in S : ~ (<<m, n>> \in Less)
    BY <2>1, <2>2, WFMin
  <2>4. n # 0
    BY <1>1
  <2>5. n - 1 \in Nat /\ n - 1 \notin S
    <3>1. n \in Nat /\ n - 1 \in Nat /\ <<n - 1, n>> \in Less
      BY <2>4
    <3> QED
      BY <2>3, <3>1
  <2>6. good(n - 1)
    BY <2>5
  <2>7. good((n - 1) + 1)
    BY <1>2, <2>5, <2>6
  <2> QED
    BY <2>3, <2>7
<1>4. PICK f \in [Nat -> Nat] : \A e \in Nat : e + N >= N => f[e] = body(f, e)
  BY <1>3
<1>5. \A e \in Nat : f[e] = body(f, e)
  BY <1>4
<1>6. f = [e \in Nat |-> f[e]]
  BY <1>4
<1> QED
  BY <1>5, <1>6 DEF isWalk

(* hashtable_bucket_slab::find returns 0 or a word that is the length of   *)
(* the instance and is followed by its data.                               *)
LEMMA FindHits ==
  ASSUME NEW s \in Slab, NEW v \in Seq(Nat), slabFind(s, v) # 0
  PROVE  \E e \in 0..SlabWords - 1 : s.data[e] = bytes(v) /\ sameData(s, e + 1, v)
<1> DEFINE up == [e \in Nat |-> e + s.data[e] + 2]
           hit == {e \in 0..SlabWords - 1 : s.data[e] = bytes(v) /\ sameData(s, e + 1, v)}
           N == s.insertAt
           Walk(walk) == [e \in Nat |-> IF e >= N THEN 0
                                        ELSE IF s.data[e] = bytes(v) /\ sameData(s, e + 1, v) THEN e
                                        ELSE walk[e + s.data[e] + 2]]
           walk == CHOOSE f : f = Walk(f)
           Less == {ss \in Nat \X Nat : ss[1] < ss[2]}
<1>1. /\ N \in Nat /\ SlabWords \in Nat /\ N <= SlabWords
      /\ \A e \in Nat : e < N => s.data[e] \in Nat /\ e \in 0..SlabWords - 1
  BY BucketSlabAssumption DEF Slab
<1>2. \A e \in Nat : e < N => up[e] \in Nat /\ up[e] > e
  BY <1>1
<1>3. \E f : isWalk(f, N, up, hit)
  <2> HIDE DEF up, hit, N
  <2> QED
    BY <1>1, <1>2, WalkExists
<1>4. walk = Walk(walk)
  <2>1. PICK f : f = [e \in Nat |-> IF e >= N THEN 0 ELSE IF e \in hit THEN e ELSE f[up[e]]]
    BY <1>3 DEF isWalk
  <2>2. \A e \in Nat : e < N => (e \in hit <=> s.data[e] = bytes(v) /\ sameData(s, e + 1, v))
    BY <1>1
  <2> HIDE DEF hit, N
  <2>3. f = Walk(f)
    <3>1. \A e \in Nat : /\ e >= N <=> ~ (e < N)
                         /\ f[up[e]] = f[e + s.data[e] + 2]
      BY <1>1
    <3>2. \A e \in Nat :
            (IF e >= N THEN 0 ELSE IF e \in hit THEN e ELSE f[up[e]])
              = (IF e >= N THEN 0
                 ELSE IF s.data[e] = bytes(v) /\ sameData(s, e + 1, v) THEN e
                 ELSE f[e + s.data[e] + 2])
      BY ONLY <2>2, <3>1
    <3> QED
      BY ONLY <2>1, <3>2, Zenon
  <2> HIDE DEF Walk
  <2> QED
    BY <2>3
<1>5. slabFind(s, v) = walk[1]
  BY DEF slabFind
<1>6. \A e \in Nat : walk[e] = IF e >= N THEN 0
                               ELSE IF s.data[e] = bytes(v) /\ sameData(s, e + 1, v) THEN e
                               ELSE walk[e + s.data[e] + 2]
  <2> HIDE DEF walk
  <2> QED
    BY <1>4
<1>7. \A e \in Nat : walk[e] = IF e >= N THEN 0 ELSE IF e \in hit THEN e ELSE walk[up[e]]
  <2> HIDE DEF walk
  <2> QED
    BY <1>1, <1>6
<1> HIDE DEF walk, hit, up, N
<1>8. \A e \in Nat : walk[e] = 0 \/ walk[e] \in hit
  <2> SUFFICES ASSUME \E e \in Nat : ~ (walk[e] = 0 \/ walk[e] \in hit) PROVE FALSE
    OBVIOUS
  <2> DEFINE bad == {e \in Nat : ~ (walk[e] = 0 \/ walk[e] \in hit)}
             S == {N - e : e \in bad}
  <2>1. \A e \in bad : e \in Nat /\ e < N /\ up[e] \in bad /\ up[e] > e
    BY <1>1, <1>2, <1>7
  <2>2. S \in SUBSET Nat /\ S # {}
    BY <1>1, <2>1
  <2>3. IsWellFoundedOn(Less, Nat)
    BY NatLessThanWellFounded, Zenon DEF OpToRel
  <2>4. PICK n \in S : \A m \in S : ~ (<<m, n>> \in Less)
    <3> HIDE DEF S
    <3> QED
      BY <2>2, <2>3, WFMin
  <2>5. PICK e \in bad : n = N - e
    BY <2>4
  <2>6. N - up[e] \in S /\ N - up[e] < n /\ N - up[e] \in Nat /\ n \in Nat
    <3>1. up[e] \in bad /\ up[e] \in Nat /\ up[e] < N /\ up[e] > e /\ e \in Nat /\ e < N
      BY <2>1
    <3>2. N - up[e] \in S
      BY <3>1
    <3> QED
      BY <1>1, <2>5, <3>1, <3>2
  <2> QED
    BY <2>4, <2>6
<1>9. walk[1] \in hit
  BY <1>5, <1>8
<1> QED
  BY <1>9 DEF hit

(* What find takes for v is an entry of v: the word it compares with the   *)
(* length is the length of an entry, and no later entry starts in the data *)
(* behind it.                                                              *)
LEMMA FoundWasInserted ==
  ASSUME SlabInv, NEW v \in Instance, v # <<>>, found(v), unambiguous(v)
  PROVE  v \in Range(inserted)
<1>1. PICK n \in DOMAIN slabs : slabFind(slabs[n], v) # 0
  <2>1. list \in Seq(DOMAIN slabs)
    BY DEF SlabInv, TypeOK
  <2> QED
    BY <2>1 DEF found, Range
<1>2. v \in Seq(Nat) /\ Len(v) \in Nat \ {0} /\ SlabWords \in Nat
  BY BucketSlabAssumption
<1>3. slabs[n] \in Slab
  BY ElementType DEF SlabInv, TypeOK
<1>4. PICK e \in 0..SlabWords - 1 : slabs[n].data[e] = bytes(v) /\ sameData(slabs[n], e + 1, v)
  BY <1>1, <1>2, <1>3, FindHits
<1>5. DOMAIN inserted = DOMAIN elements
  BY DEF SlabInv, TypeOK
<1>6. PICK i \in DOMAIN elements : wordOf(n, e, i)
  BY <1>4 DEF SlabInv, WordsKnown, unambiguous
<1>7. /\ start(i) \in Nat /\ size(i) \in Nat /\ i \in Nat
      /\ inserted[i] \in Seq(Nat)
  BY Positions
<1>8. slab(i) = n /\ e = start(i) + 1 /\ bytes(v) = bytes(inserted[i])
  <2>1. bytes(v) # i - 1 /\ bytes(v) \notin Range(inserted[i])
    BY <1>5 DEF unambiguous
  <2>2. \A k \in 1..size(i) : inserted[i][k] \in Range(inserted[i])
    BY <1>7 DEF size, Range
  <2> QED
    BY <1>4, <1>6, <2>1, <2>2 DEF wordOf
<1>9. size(i) = Len(v)
  BY <1>2, <1>7, <1>8 DEF bytes, size
<1>10. ASSUME NEW k \in 1..Len(v)
       PROVE  slabs[n].data[start(i) + 1 + k] = v[k]
  <2>1. slabs[n].data[e + 1 + k - 1] = v[k]
    BY <1>4 DEF sameData
  <2>2. e + 1 + k - 1 = start(i) + 1 + k
    BY <1>2, <1>7, <1>8
  <2> QED
    BY <2>1, <2>2
<1>11. \A k \in 1..size(i) : word(i, k + 1) = slabs[n].data[start(i) + 1 + k]
  <2>1. \A k \in 1..size(i) : start(i) + (k + 1) = start(i) + 1 + k
    BY <1>7
  <2> QED
    BY <1>8, <2>1 DEF word, slab, start
<1>12. CASE \A k \in 1..size(i) : word(i, k + 1) = inserted[i][k]
  <2>1. \A k \in 1..Len(v) : inserted[i][k] = v[k]
    BY <1>9, <1>10, <1>11, <1>12
  <2>2. inserted[i] = v
    <3>1. \A p, q \in Seq(Nat) : Len(p) = Len(q) /\ (\A k \in 1..Len(q) : p[k] = q[k]) => p = q
      OBVIOUS
    <3>2. Len(inserted[i]) = Len(v)
      BY <1>9 DEF size
    <3> QED
      BY <1>2, <1>7, <2>1, <3>1, <3>2
  <2> QED
    BY <1>5, <2>2 DEF Range
<1>13. CASE i + 1 \in DOMAIN elements /\ slab(i + 1) = slab(i) /\ size(i + 1) < size(i)
  <2>1. start(i + 1) \in Nat /\ size(i + 1) \in Nat
    BY <1>13, Positions
  <2>2. start(i + 1) = start(i) + size(i + 1) + 2
    BY <1>13 DEF SlabInv, Layout
  <2>3. word(i + 1, 0) = i + 1 - 1 /\ word(i + 1, 1) = bytes(inserted[i + 1])
    BY <1>13 DEF SlabInv, HeadersIntact
  <2>4. slabs[n].data[start(i + 1)] = i /\ slabs[n].data[start(i + 1) + 1] = bytes(inserted[i + 1])
    <3>1. start(i + 1) + 0 = start(i + 1) /\ i + 1 - 1 = i
      BY <1>7, <2>1
    <3>2. slabs[n].data[start(i + 1) + 0] = i + 1 - 1 /\ slabs[n].data[start(i + 1) + 1] = bytes(inserted[i + 1])
      BY <1>8, <1>13, <2>3 DEF word, slab, start
    <3> QED
      BY <3>1, <3>2
  <2>5. PICK k : k = size(i + 1) + 1
    OBVIOUS
  <2>6. k \in 1..Len(v) /\ start(i) + 1 + k = start(i + 1)
        /\ (k # Len(v) => k + 1 \in 1..Len(v) /\ start(i) + 1 + (k + 1) = start(i + 1) + 1)
    <3>1. \A a, b, c, d, l \in Nat : d = a + c + 2 /\ c < b /\ b = l =>
            /\ c + 1 \in 1..l /\ a + 1 + (c + 1) = d
            /\ (c + 1 # l => (c + 1) + 1 \in 1..l /\ a + 1 + ((c + 1) + 1) = d + 1)
      OBVIOUS
    <3>2. PICK a, b, c, d, l : /\ a = start(i) /\ b = size(i) /\ c = size(i + 1)
                               /\ d = start(i + 1) /\ l = Len(v)
      OBVIOUS
    <3>3. /\ a \in Nat /\ b \in Nat /\ c \in Nat /\ d \in Nat /\ l \in Nat
          /\ d = a + c + 2 /\ c < b /\ b = l
      BY <1>2, <1>7, <1>9, <1>13, <2>1, <2>2, <3>2
    <3>4. /\ c + 1 \in 1..l /\ a + 1 + (c + 1) = d
          /\ (c + 1 # l => (c + 1) + 1 \in 1..l /\ a + 1 + ((c + 1) + 1) = d + 1)
      BY <3>1, <3>3
    <3> QED
      BY <2>5, <3>2, <3>4
  <2>7. v[k] = i /\ (k # Len(v) => v[k + 1] = bytes(inserted[i + 1]))
    BY <1>10, <2>4, <2>6
  <2>8. bytes(inserted[i + 1]) \notin Range(v) /\ Last(v) # i
    <3>1. i + 1 \in DOMAIN inserted /\ i + 1 > 1 /\ i + 1 - 1 = i
      <4>1. i \in 1..Len(elements)
        BY Positions
      <4> QED
        BY <1>5, <1>7, <1>13, <4>1
    <3> QED
      <4>1. PICK j : j = i + 1
        OBVIOUS
      <4>2. j \in DOMAIN inserted /\ j > 1 /\ j - 1 = i
        <5>1. i \in Nat /\ i > 0
          <6>1. i \in 1..Len(elements)
            BY Positions
          <6> QED
            BY <6>1
        <5>2. j > 1 /\ j - 1 = i
          BY <4>1, <5>1
        <5> QED
          BY <3>1, <4>1, <5>2
      <4>3. bytes(inserted[j]) \notin Range(v) /\ Last(v) # j - 1
        BY <4>2 DEF unambiguous
      <4> QED
        BY <4>1, <4>2, <4>3
  <2>9. \A j \in 1..Len(v) : v[j] \in Range(v)
    BY <1>2 DEF Range
  <2> QED
    BY <2>6, <2>7, <2>8, <2>9 DEF Last
<1> QED
  BY <1>12, <1>13 DEF SlabInv, DataIntactUnlessShorter, slab, size

(* Every step of insert. *)
LEMMA SlabStep == SlabInv /\ FoundIsKnown /\ [Next]_vars => SlabInv' /\ FoundIsKnown'
<1> SUFFICES ASSUME SlabInv, FoundIsKnown, [Next]_vars PROVE SlabInv' /\ FoundIsKnown'
  OBVIOUS
<1>1. CASE UNCHANGED vars
  <2>1. TypeOK' /\ Layout' /\ WordsKnown'
    BY <1>1 DEF vars, SlabInv, TypeOK, Layout, WordsKnown, wordOf, slab, start, size
  <2>2. HeadersIntact' /\ EntriesInSlab' /\ DataIntactUnlessShorter'
    BY <1>1 DEF vars, SlabInv, HeadersIntact, EntriesInSlab, DataIntactUnlessShorter, word
  <2>3. FoundIsKnown'
    BY <1>1 DEF vars, FoundIsKnown, unambiguous
  <2> QED
    BY <2>1, <2>2, <2>3 DEF SlabInv
<1>2. ASSUME NEW v \in Instance, insertFound(v)
      PROVE  SlabInv' /\ FoundIsKnown'
  <2>1. /\ UNCHANGED <<slabs, list, mySlab, elements, inserted>> /\ found(v)
        /\ last' = [new |-> FALSE, instance |-> v, known |-> v \in Range(inserted)]
    BY <1>2 DEF insertFound
  <2>2. Layout' /\ WordsKnown'
    BY <2>1 DEF SlabInv, Layout, WordsKnown, wordOf, slab, start, size
  <2>5. TypeOK'
    <3>1. last' \in [new : BOOLEAN, instance : Instance \cup {<<>>}, known : BOOLEAN]
      BY <2>1
    <3> QED
      BY <2>1, <3>1 DEF SlabInv, TypeOK
  <2>3. HeadersIntact' /\ EntriesInSlab' /\ DataIntactUnlessShorter'
    BY <2>1 DEF SlabInv, HeadersIntact, EntriesInSlab, DataIntactUnlessShorter, word
  <2>4. FoundIsKnown'
    <3> SUFFICES ASSUME v # <<>>, unambiguous(v) PROVE v \in Range(inserted)
      BY <2>1 DEF FoundIsKnown, unambiguous
    <3> QED
      BY <2>1, FoundWasInserted
  <2> QED
    BY <2>2, <2>3, <2>4, <2>5 DEF SlabInv
<1>3. ASSUME NEW v \in Instance, insertNew(v)
      PROVE  SlabInv' /\ FoundIsKnown'
  <2>1. /\ ~full(slabs[mySlab], v) /\ insertInto(slabs, mySlab, v) /\ list' = list
        /\ last' = [new |-> TRUE, instance |-> v, known |-> v \in Range(inserted)]
    BY <1>3 DEF insertNew
  <2>2. slabs \in Seq(Slab) /\ mySlab \in DOMAIN slabs /\ list \in Seq(DOMAIN slabs)
    BY DEF SlabInv, TypeOK
  <2>3. slabs[mySlab].insertAt \in Nat /\ Len(v) \in Nat /\ SlabWords \in Nat
    <3>1. slabs[mySlab] \in Slab /\ v \in Seq(Nat) /\ SlabWords \in Nat
      BY <2>2, ElementType, BucketSlabAssumption
    <3> QED
      BY <3>1 DEF Slab
  <2>4. slabs[mySlab].insertAt + 2 * (Len(v) + 2) <= SlabWords
    BY <2>1, <2>3 DEF full
  <2>5. receives(slabs, mySlab, v)
    BY <2>2, <2>4 DEF receives
  <2>6. last' \in [new : BOOLEAN, instance : Instance \cup {<<>>}, known : BOOLEAN]
    BY <2>1
  <2>7. SlabInv'
    <3>1. PICK all, n : all = slabs /\ n = mySlab
      OBVIOUS
    <3> QED
      BY <2>1, <2>2, <2>5, <2>6, <3>1, InsertStep
  <2> QED
    BY <2>1, <2>7 DEF FoundIsKnown
<1>4. ASSUME NEW v \in Instance, insertNewSlab(v)
      PROVE  SlabInv' /\ FoundIsKnown'
  <2>1. PICK junk \in Fresh :
             insertInto(Append(slabs, hashtable_bucket_slab(junk)), Len(slabs) + 1, v)
    BY <1>4 DEF insertNewSlab
  <2>2. PICK all, n : all = Append(slabs, hashtable_bucket_slab(junk)) /\ n = Len(slabs) + 1
    OBVIOUS
  <2>3. /\ insertInto(all, n, v) /\ list' = <<n>>
        /\ last' = [new |-> TRUE, instance |-> v, known |-> v \in Range(inserted)]
    BY <1>4, <2>1, <2>2 DEF insertNewSlab
  <2>4. slabs \in Seq(Slab)
    BY DEF SlabInv, TypeOK
  <2>5. /\ hashtable_bucket_slab(junk) \in Slab /\ SlabWords \in Nat /\ Len(v) \in Nat
        /\ \A w \in 0..SlabWords - 1 : hashtable_bucket_slab(junk).data[w] = hashtable_bucket_slab(junk).fresh
    BY BucketSlabAssumption DEF hashtable_bucket_slab, Slab
  <2> HIDE DEF Slab
  <2>6. /\ all \in Seq(Slab) /\ n \in DOMAIN all /\ all[n] = hashtable_bucket_slab(junk)
        /\ DOMAIN all = DOMAIN slabs \cup {n} /\ n \notin DOMAIN slabs
        /\ \A m \in DOMAIN slabs : all[m] = slabs[m]
    BY <2>2, <2>4, <2>5
  <2>7. all[n].insertAt + 2 * (Len(v) + 2) <= SlabWords
    <3>1. all[n].insertAt = 0
      BY <2>6 DEF hashtable_bucket_slab
    <3> QED
      BY <2>5, <3>1, BucketSlabAssumption
  <2>8. receives(all, n, v)
    BY <2>5, <2>6, <2>7 DEF receives
  <2>9. list' \in Seq(DOMAIN all)
    BY <2>3, <2>6
  <2>10. last' \in [new : BOOLEAN, instance : Instance \cup {<<>>}, known : BOOLEAN]
    BY <2>3
  <2>11. SlabInv'
    BY <2>3, <2>8, <2>9, <2>10, InsertStep
  <2> QED
    BY <2>3, <2>11 DEF FoundIsKnown
<1> QED
  BY <1>1, <1>2, <1>3, <1>4 DEF Next

LEMMA SlabInvariant == Spec => [](SlabInv /\ FoundIsKnown)
<1> QED
  BY SlabInit, SlabStep, PTL DEF Spec

(* The assertion of hashtable_bucket::find (line 372): every identifier    *)
(* leads to an entry that starts with it and has the length of its         *)
(* instance, however the entries of the slab overlap.                      *)
THEOREM HeadersStayIntact == Spec => []HeadersIntact
<1>1. SlabInv => HeadersIntact
  BY DEF SlabInv
<1> QED
  BY <1>1, SlabInvariant, PTL

(* hashtable_bucket_slab::insert writes no entry behind the end of its     *)
(* slab (lines 288-300).                                                   *)
THEOREM EntriesStayInSlab == Spec => []EntriesInSlab
<1>1. SlabInv => EntriesInSlab
  BY DEF SlabInv
<1> QED
  BY <1>1, SlabInvariant, PTL

(* The data of an entry is lost only to the next entry of its slab, and    *)
(* only when that one is shorter (lines 288-300).                          *)
THEOREM OnlyShorterOverwrites == Spec => []DataIntactUnlessShorter
<1>1. SlabInv => DataIntactUnlessShorter
  BY DEF SlabInv
<1> QED
  BY <1>1, SlabInvariant, PTL

(* insert takes no instance for another one (lines 302-313 and 333-343)    *)
(* whose words and those of the slab cannot be taken for lengths.          *)
THEOREM FoundWasKnown == Spec => []FoundIsKnown
  BY SlabInvariant, PTL
=============================================================================
