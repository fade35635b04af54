------------------------------ MODULE TreeStore ------------------------------
(***************************************************************************)
(* TreeStore: a growing vector of TypeStores, used by several workers.     *)
(* TypeStore.insert and find run under the mutex of that TypeStore and are *)
(* one step each.  The vector itself has no lock: insert checks its size,  *)
(* resizes it (allocates a larger array, moves the stores one by one, each *)
(* under its mutex, and frees the old array), and then uses a reference    *)
(* into the array it saw.                                                  *)
(***************************************************************************)
EXTENDS Naturals, Sequences, FiniteSets, SequencesExt

CONSTANTS Client,      \* workers
          Types,       \* number of types in use: 0..Types-1
          Byte,
          MaxLen,      \* bound: bytes of an instance
          Null,        \* the entry 0 of every identifier table
          Loads        \* what the workers do: see Load

(* Bounds of a behaviour: the workers there are, the types they use, the   *)
(* bytes of an instance, the identifiers of a type, and the length of the  *)
(* vector when they start.                                                 *)
Load == [workers : SUBSET Client, types : 1..Types, bytes : 1..MaxLen, ids : Nat,
         present : 1..Types]

ASSUME TreeStoreAssumption ==
  Types \in Nat \ {0} /\ MaxLen \in Nat \ {0} /\ Null \notin Seq(Byte) /\ Loads \subseteq Load

VARIABLES load,      \* the bounds of this behaviour
          arrays,    \* the arrays of the vector ever allocated; an element is
                     \* _typeInstancesRef of that TypeStore
          current,   \* index of the array the vector uses
          pc, call,
          array,     \* the array the client's reference or move is about
          target,    \* the array it is filling
          moved      \* number of stores it moved

vars == <<load, arrays, current, pc, call, array, target, moved>>

Type == 0..Types - 1
Value == UNION {[1..n -> Byte] : n \in 1..MaxLen}    \* data and length
TypeStore == <<Null>>       \* the constructor
MovedFrom == <<>>           \* what std::move leaves of one

Init ==
  /\ load \in Loads
  /\ arrays = << [k \in 1..load.present |-> TypeStore] >>
  /\ current = 1
  /\ pc = [c \in Client |-> "ready"]
  /\ call = [c \in Client |-> [op |-> "idle"]]
  /\ array = [c \in Client |-> 1] /\ target = [c \in Client |-> 1]
  /\ moved = [c \in Client |-> 0]

goto(c, label) == pc' = [pc EXCEPT ![c] = label]

(* Identifiers come from the states the workers share: whoever got one from *)
(* insert may hand it to any other worker.                                 *)
contents(t) ==
  LET holders == {a \in DOMAIN arrays : t < Len(arrays[a]) /\ Len(arrays[a][t + 1]) > 1}
  IN  IF holders = {} THEN <<>> ELSE Tail(arrays[CHOOSE a \in holders : TRUE][t + 1])

room(t) == Len(contents(t)) + Cardinality({c \in Client : call[c].op \in {"insert", "cam"}}) < load.ids

used == 0..load.types - 1

ask(c, req, label) ==
  /\ c \in load.workers
  /\ call' = [call EXCEPT ![c] = req]
  /\ goto(c, label)
  /\ array' = IF label = "find" THEN [array EXCEPT ![c] = current] ELSE array
  /\ UNCHANGED <<load, arrays, current, target, moved>>

(* reportTransition and pins_chunk_put insert. *)
pins_chunk_put(c) ==
  /\ pc[c] = "ready"
  /\ \E t \in used, v \in Value :
       Len(v) <= load.bytes /\ room(t) /\ ask(c, [op |-> "insert", type |-> t, value |-> v], "size")

pins_chunk_get(c) ==
  /\ pc[c] = "ready"
  /\ \E t \in used : \E i \in DOMAIN contents(t) :
       ask(c, [op |-> "find", type |-> t, id |-> i], "find")

(* Copy and modify starts with a find ... *)
pins_chunk_cam(c) ==
  /\ pc[c] = "ready"
  /\ \E t \in used, o \in 0..MaxLen, v \in Value : \E i \in DOMAIN contents(t) :
       room(t) /\ o + Len(v) <= load.bytes
       /\ ask(c, [op |-> "cam", type |-> t, id |-> i, offset |-> o, data |-> v], "find")

(* if(type >= _typeDB.size()) *)
fits(c) ==
  /\ pc[c] = "size" /\ call[c].type < Len(arrays[current])
  /\ array' = [array EXCEPT ![c] = current]
  /\ goto(c, "insert")
  /\ UNCHANGED <<load, arrays, current, call, target, moved>>

(* resize(type + 1): a new array, its new elements constructed. *)
grow(c) ==
  /\ pc[c] = "size" /\ call[c].type >= Len(arrays[current])
  /\ arrays' = Append(arrays, [k \in 1..call[c].type + 1 |->
                 IF k <= Len(arrays[current]) THEN MovedFrom ELSE TypeStore])
  /\ array' = [array EXCEPT ![c] = current]
  /\ target' = [target EXCEPT ![c] = Len(arrays) + 1]
  /\ moved' = [moved EXCEPT ![c] = 0]
  /\ goto(c, "move")
  /\ UNCHANGED <<load, current, call>>

(* TypeStore(TypeStore&&), under the lock of the store that is moved. *)
move(c) ==
  /\ pc[c] = "move"
  /\ LET k == moved[c] + 1 IN
       /\ arrays' = [arrays EXCEPT ![target[c]][k] = arrays[array[c]][k],
                                   ![array[c]][k] = MovedFrom]
       /\ moved' = [moved EXCEPT ![c] = k]
       /\ goto(c, IF k = Len(arrays[array[c]]) THEN "publish" ELSE "move")
  /\ UNCHANGED <<load, current, call, array, target>>

(* Mutated form: the vector keeps pointing to the old array. *)
publishMutated(c) ==
  /\ pc[c] = "publish"
  /\ array' = [array EXCEPT ![c] = target[c]]
  /\ goto(c, "insert")
  /\ UNCHANGED <<load, arrays, current, call, target, moved>>

(* The old array is freed and the vector points to the new one. *)
publish(c) ==
  /\ pc[c] = "publish"
  /\ current' = target[c]
  /\ array' = [array EXCEPT ![c] = target[c]]
  /\ goto(c, "insert")
  /\ UNCHANGED <<load, arrays, call, target, moved>>

store(c) == arrays[array[c]][call[c].type + 1]

answer(c, i, v) ==
  call' = [call EXCEPT ![c] = [op |-> "answer", type |-> call[c].type, id |-> i, value |-> v]]

(* Mutated form: the answer is always the fresh identifier. *)
insertMutated(c) ==
  /\ pc[c] = "insert" /\ call[c].type < Len(arrays[array[c]])
  /\ LET v == call[c].value IN
       /\ answer(c, Len(store(c)), v)
       /\ arrays' = IF v \in Range(store(c)) THEN arrays
                    ELSE [arrays EXCEPT ![array[c]][call[c].type + 1] = Append(@, v)]
  /\ goto(c, "ready")
  /\ UNCHANGED <<load, current, array, target, moved>>

(* TypeStore::insert.  In an array that was freed since, this works on what *)
(* the move left behind.                                                   *)
insert(c) ==
  /\ pc[c] = "insert" /\ call[c].type < Len(arrays[array[c]])
  /\ LET v == call[c].value IN
       IF v \in Range(store(c))
       THEN /\ answer(c, (CHOOSE i \in DOMAIN store(c) : store(c)[i] = v) - 1, v)
            /\ UNCHANGED arrays
       ELSE /\ answer(c, Len(store(c)), v)
            /\ arrays' = [arrays EXCEPT ![array[c]][call[c].type + 1] = Append(@, v)]
  /\ goto(c, "ready")
  /\ UNCHANGED <<load, current, array, target, moved>>

(* TypeStore::find asserts that the identifier is in the table and is not  *)
(* the empty entry.                                                        *)
known(c) ==
  /\ call[c].type < Len(arrays[array[c]])
  /\ call[c].id < Len(store(c))
  /\ store(c)[call[c].id + 1] # Null

(* The copy that pins_chunk_cam makes of a chunk on the stack: the data go   *)
(* over it, and bytes between its end and a larger offset are not set.     *)
copies(chunk, offset, data) ==
  LET newLength == IF offset + Len(data) > Len(chunk) THEN offset + Len(data) ELSE Len(chunk)
  IN  {[k \in 1..newLength |-> IF k \in offset + 1..offset + Len(data) THEN data[k - offset]
                              ELSE IF k <= Len(chunk) THEN chunk[k] ELSE stack[k]] :
         stack \in [1..newLength -> Byte]}

(* TypeStore::find, for pins_chunk_get or as the first half of a cam.       *)
find(c) ==
  /\ pc[c] = "find"
  /\ IF ~known(c)
     THEN goto(c, "aborted") /\ UNCHANGED call
     ELSE LET found == store(c)[call[c].id + 1] IN
          IF call[c].op = "find"
          THEN goto(c, "ready") /\ answer(c, call[c].id, found)
          ELSE /\ goto(c, "size")
               /\ \E copy \in copies(found, call[c].offset, call[c].data) :
                    call' = [call EXCEPT ![c] = [op |-> "insert", type |-> call[c].type, value |-> copy]]
  /\ UNCHANGED <<load, arrays, current, array, target, moved>>

step(c) ==
  \/ pins_chunk_put(c) \/ pins_chunk_get(c) \/ pins_chunk_cam(c)
  \/ fits(c) \/ grow(c) \/ move(c) \/ publish(c)
  \/ insert(c) \/ find(c)

Next == \E c \in Client : step(c)

Spec == Init /\ [][Next]_vars

-----------------------------------------------------------------------------
Abstract == INSTANCE Interning
            WITH Offset <- 0..MaxLen, table <- [t \in Type |-> contents(t)]

(* The identifiers and values that clients get are those of the abstract    *)
(* store: one identifier per value for ever, whatever the interleaving of  *)
(* inserts, and a resize loses none.                                       *)
ImplementsInterning == Abstract!Spec

(* "assert(index < _typeInstancesRef.size())" (line 215): an identifier that *)
(* insert returned is found.                                               *)
FindSucceeds == \A c \in Client : pc[c] # "aborted"

(* The condition for both: a vector that has to grow has one worker, all   *)
(* others find every store they use in the vector from the start.          *)
GrowsAlone ==
  \A l \in Loads : l.types <= l.present \/ \E w \in Client : l.workers \subseteq {w}
=============================================================================
