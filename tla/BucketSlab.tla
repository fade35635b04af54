----------------------------- MODULE BucketSlab -----------------------------
(***************************************************************************)
(* One hashtable_bucket of TreeStore_2, word by word.  Instances are kept  *)
(* in slabs as (identifier, length, data); insert looks for the instance   *)
(* in the linked slabs and otherwise reserves room in the slab of its      *)
(* thread.  The callers pass threadID 0.  A word is a number: an           *)
(* identifier, a length in bytes or 8 bytes of data.                       *)
(***************************************************************************)
EXTENDS Naturals, Sequences, SequencesExt, FiniteSetsExt

CONSTANTS Instance,      \* sequences of words
          SlabWords,     \* max_size
          Fresh,         \* what the words of a new slab may hold
          MaxElements    \* bound: elements of the bucket

(* An entry needs its room twice to pass the check of insert. *)
ASSUME BucketSlabAssumption ==
  /\ Instance \subseteq Seq(Nat) /\ Fresh \subseteq Nat /\ SlabWords \in Nat /\ MaxElements \in Nat
  /\ \A v \in Instance : 2 * (Len(v) + 2) <= SlabWords

VARIABLES slabs,       \* every slab made: its words, _insertAt, and what the
                       \* words held before (history)
          list,        \* the slabs reachable from _slabs, in order
          mySlab,      \* _threadSlabs[0]
          elements,    \* _elements: slab and word where the entry starts
          inserted,    \* history: the instance each element was made for
          last         \* the last call: what it asked and answered

vars == <<slabs, list, mySlab, elements, inserted, last>>

NoEntry == [slab |-> 0, word |-> 0]

hashtable_bucket_slab(junk) ==
  [data |-> [w \in 0..SlabWords - 1 |-> junk], insertAt |-> 0, fresh |-> junk]

(* The constructor makes one slab per thread and links them. *)
Init ==
  /\ \E junk \in Fresh : slabs = [n \in 1..4 |-> hashtable_bucket_slab(junk)]
  /\ list = <<1, 2, 3, 4>> /\ mySlab = 1
  /\ elements = <<>> /\ inserted = <<>>
  /\ last = [new |-> FALSE, instance |-> <<>>, known |-> FALSE]

-----------------------------------------------------------------------------
bytes(v) == 8 * Len(v)

(* memcmp with the words from w on; what lies behind the slab differs. *)
sameData(s, w, v) ==
  \A k \in 1..Len(v) : w + k - 1 < SlabWords /\ s.data[w + k - 1] = v[k]

(* Mutated form: the lengths are not compared. *)
slabFindMutated(s, v) ==
  LET walk[e \in Nat] ==
        IF e >= s.insertAt THEN 0
        ELSE IF sameData(s, e + 1, v) THEN e
        ELSE walk[e + s.data[e] + 2]
  IN  walk[1]

(* hashtable_bucket_slab::find walks from word 1, taking each word it is at *)
(* for a length, and steps by that many words.                             *)
slabFind(s, v) ==
  LET walk[e \in Nat] ==
        IF e >= s.insertAt THEN 0
        ELSE IF s.data[e] = bytes(v) /\ sameData(s, e + 1, v) THEN e
        ELSE walk[e + s.data[e] + 2]
  IN  walk[1]

(* Mutated form: the room is checked once. *)
fullMutated(s, v) == s.insertAt + Len(v) + 2 > SlabWords

(* hashtable_bucket_slab::insert.  The first compare-exchange fails, since  *)
(* it expects _insertAt one entry further, but _end is checked for it.     *)
full(s, v) == s.insertAt + 2 * (Len(v) + 2) > SlabWords

(* Mutated forms: the identifier, or identifier and length, get no room.   *)
reserveMutated(s, v) == s.insertAt + Len(v) + 1
reserveNoHeader(s, v) == s.insertAt + Len(v)

reserve(s, v) == s.insertAt + Len(v) + 2

(* The entry is written behind the words it reserved. *)
written(s, id, v) ==
  LET next == reserve(s, v) IN
  [data |-> [w \in DOMAIN s.data |->
               IF w = next THEN id
               ELSE IF w = next + 1 THEN bytes(v)
               ELSE IF w \in next + 2..next + 1 + Len(v) THEN v[w - next - 1]
               ELSE s.data[w]],
   insertAt |-> next, fresh |-> s.fresh]

found(v) == \E n \in Range(list) : slabFind(slabs[n], v) # 0

(* The identifier: the number of the bucket (0 here) and of the element.   *)
newID == Len(elements)

insertInto(all, n, v) ==
  /\ slabs' = [all EXCEPT ![n] = written(all[n], newID, v)]
  /\ mySlab' = n
  /\ elements' = Append(elements, [slab |-> n, word |-> reserve(all[n], v)])
  /\ inserted' = Append(inserted, v)

insertFound(v) ==
  /\ found(v)
  /\ last' = [new |-> FALSE, instance |-> v, known |-> v \in Range(inserted)]
  /\ UNCHANGED <<slabs, list, mySlab, elements, inserted>>

insertNew(v) ==
  /\ ~found(v) /\ ~full(slabs[mySlab], v) /\ Len(elements) < MaxElements
  /\ insertInto(slabs, mySlab, v)
  /\ last' = [new |-> TRUE, instance |-> v, known |-> v \in Range(inserted)]
  /\ UNCHANGED list

(* linkNewSlab makes the new slab the whole list. *)
insertNewSlab(v) ==
  /\ ~found(v) /\ full(slabs[mySlab], v) /\ Len(elements) < MaxElements
  /\ \E junk \in Fresh :
       insertInto(Append(slabs, hashtable_bucket_slab(junk)), Len(slabs) + 1, v)
  /\ list' = <<Len(slabs) + 1>>
  /\ last' = [new |-> TRUE, instance |-> v, known |-> v \in Range(inserted)]

Next == \E v \in Instance : insertFound(v) \/ insertNew(v) \/ insertNewSlab(v)

Spec == Init /\ [][Next]_vars

-----------------------------------------------------------------------------
word(i, k) == slabs[elements[i].slab].data[elements[i].word + k]

(* hashtable_bucket::find asserts "*e == index" (line 372): whatever was    *)
(* inserted later, every identifier still leads to an entry that starts    *)
(* with it and has the length of its instance, although entries overlap.   *)
HeadersIntact ==
  \A i \in DOMAIN elements : word(i, 0) = i - 1 /\ word(i, 1) = bytes(inserted[i])

(* No entry is written behind the end of its slab, although each is written *)
(* behind the room reserved for it: insert checks for twice the room.      *)
EntriesInSlab ==
  \A i \in DOMAIN elements : elements[i].word + 2 + Len(inserted[i]) <= SlabWords

(* What find returns for an identifier is what was inserted, unless the    *)
(* next entry of that slab is a shorter one: it starts inside the data.    *)
DataIntactUnlessShorter ==
  \A i \in DOMAIN elements :
    \/ \A k \in 1..Len(inserted[i]) : word(i, k + 1) = inserted[i][k]
    \/ /\ i + 1 \in DOMAIN elements
       /\ elements[i + 1].slab = elements[i].slab
       /\ Len(inserted[i + 1]) < Len(inserted[i])

(* Nothing of what the slabs hold can be taken for the length of v, and v   *)
(* has no words that can be taken for the header of an entry: neither a    *)
(* length, nor at its end the identifier of an element with one before it. *)
unambiguous(v) ==
  /\ \A n \in DOMAIN slabs : slabs[n].fresh # bytes(v)
  /\ \A i \in DOMAIN inserted :
       /\ i - 1 # bytes(v) /\ bytes(v) \notin Range(inserted[i])
       /\ bytes(inserted[i]) \notin Range(v)
       /\ i > 1 => Last(v) # i - 1

(* What insert says is not new was inserted: find walks from the wrong word *)
(* and over entries that overlap, yet no instance is mistaken for another, *)
(* which ssgen_st_2 would then not explore, as long as its words and those *)
(* of the slab cannot be taken for lengths.  (Otherwise it can be: find    *)
(* compares whatever word it is at with the length it looks for.)          *)
FoundIsKnown ==
  ~last.new /\ last.instance # <<>> /\ unambiguous(last.instance) => last.known
=============================================================================
