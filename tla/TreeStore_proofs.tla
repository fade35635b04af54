--------------------------- MODULE TreeStore_proofs ---------------------------
(***************************************************************************)
(* TreeStore, for every set of workers, types, bytes and bounds, as long   *)
(* as the vector of stores grows under one worker only: identifiers are    *)
(* found, and the stores implement Interning.                              *)
(***************************************************************************)
EXTENDS TreeStore, TLAPS

(* The table of a TypeStore: entry 0, then values, each once; or what      *)
(* std::move leaves.                                                       *)
Entry == Value \cup {Null}
isTable(s) ==
  s # <<>> => s[1] = Null /\ \A i, j \in 1..Len(s) : s[i] = s[j] => i = j
Tables == {s \in Seq(Entry) : isTable(s)}

LEMMA SeqFacts ==
  ASSUME NEW S, NEW q \in Seq(S)
  PROVE  /\ Len(q) \in Nat /\ DOMAIN q = 1..Len(q)
         /\ \A k \in DOMAIN q : q[k] \in S
OBVIOUS

LEMMA AppendFacts ==
  ASSUME NEW S, NEW q \in Seq(S), NEW x \in S
  PROVE  /\ Append(q, x) \in Seq(S) /\ DOMAIN Append(q, x) = 1..Len(q) + 1
         /\ Append(q, x)[Len(q) + 1] = x
         /\ \A k \in DOMAIN q : Append(q, x)[k] = q[k]
OBVIOUS

LEMMA Lengths == Len(<<>>) = 0 /\ \A x : Len(x) > 1 => x # <<>>
<1>1. Len(<<>>) = 0 /\ ~(0 > 1)
  OBVIOUS
<1> QED
  BY <1>1, Zenon

LEMMA NullIsNoValue == Null \notin Value
<1>1. Value \subseteq Seq(Byte)
  BY TreeStoreAssumption DEF Value
<1> QED
  BY <1>1, TreeStoreAssumption

LEMMA TableFacts ==
  ASSUME NEW s \in Tables
  PROVE  /\ s \in Seq(Entry) /\ Len(s) \in Nat
         /\ DOMAIN s = 1..Len(s)
         /\ \A i \in 2..Len(s) : s[i] \in Value
         /\ s # <<>> => s[1] = Null /\ Len(s) >= 1
         /\ \A i, j \in 1..Len(s) : s[i] = s[j] => i = j
<1>1. s \in Seq(Entry) /\ Len(s) \in Nat /\ DOMAIN s = 1..Len(s)
  BY DEF Tables
<1>2. s # <<>> => Len(s) >= 1
  BY <1>1
<1>3. \A i, j \in 1..Len(s) : s[i] = s[j] => i = j
  BY <1>1 DEF Tables, isTable
<1>4. s # <<>> => s[1] = Null
  BY DEF Tables, isTable
<1>5. ASSUME NEW i \in 2..Len(s) PROVE s[i] \in Value
  <2>1. i \in 1..Len(s) /\ 1 \in 1..Len(s) /\ i # 1 /\ s # <<>>
    BY <1>1
  <2>2. s[i] \in Entry
    BY <1>1, <2>1
  <2>3. s[i] # Null
    BY <1>3, <1>4, <2>1
  <2> QED
    BY <2>2, <2>3 DEF Entry
<1> QED
  BY <1>1, <1>2, <1>3, <1>4, <1>5

LEMMA SmallTables == <<>> \in Tables /\ <<Null>> \in Tables
<1>1. <<>> \in Seq(Entry) /\ <<Null>> \in Seq(Entry)
  BY DEF Entry
<1>2. isTable(<<>>) /\ isTable(<<Null>>)
  BY DEF isTable
<1> QED
  BY <1>1, <1>2 DEF Tables

(* TypeStore::insert of a value that is not in the table.                  *)
LEMMA TableGrows ==
  ASSUME NEW s \in Tables, s # <<>>, NEW v \in Value, v \notin Range(s)
  PROVE  /\ Append(s, v) \in Tables /\ Append(s, v) # <<>>
         /\ Tail(Append(s, v)) = Append(Tail(s), v)
<1>1. /\ s \in Seq(Entry) /\ Len(s) \in Nat /\ Len(s) >= 1 /\ s[1] = Null
      /\ \A i, j \in 1..Len(s) : s[i] = s[j] => i = j
      /\ DOMAIN s = 1..Len(s)
  BY TableFacts
<1>2. v \in Entry
  BY DEF Entry
<1>3. /\ Append(s, v) \in Seq(Entry) /\ Len(Append(s, v)) = Len(s) + 1
      /\ \A i \in 1..Len(s) : Append(s, v)[i] = s[i]
      /\ Append(s, v)[Len(s) + 1] = v
  BY <1>1, <1>2
<1>4. \A i \in 1..Len(s) : s[i] # v
  BY <1>1 DEF Range
<1>5. \A i \in 1..Len(s) + 1 : i \in 1..Len(s) \/ i = Len(s) + 1
  BY <1>1
<1>6. \A i, j \in 1..Len(s) + 1 : Append(s, v)[i] = Append(s, v)[j] => i = j
  BY <1>1, <1>3, <1>4, <1>5
<1>7. 1 \in 1..Len(s) /\ Append(s, v)[1] = Null
  BY <1>1, <1>3
<1>8. Append(s, v) # <<>>
  BY <1>1, <1>3
<1>9. Tail(Append(s, v)) = Append(Tail(s), v)
  BY <1>1, <1>2
<1> QED
  BY <1>3, <1>6, <1>7, <1>8, <1>9 DEF Tables, isTable

(* What the entries of a table are among the values alone.                 *)
LEMMA TableTail ==
  ASSUME NEW s \in Tables, s # <<>>
  PROVE  /\ Tail(s) \in Seq(Value) /\ Len(Tail(s)) = Len(s) - 1
         /\ DOMAIN Tail(s) = 1..Len(s) - 1
         /\ \A i \in 1..Len(s) - 1 : i + 1 \in 1..Len(s) /\ Tail(s)[i] = s[i + 1]
         /\ \A v \in Value : v \in Range(s) <=> v \in Range(Tail(s))
<1>1. /\ s \in Seq(Entry) /\ Len(s) \in Nat /\ Len(s) >= 1 /\ s[1] = Null
      /\ \A i \in 2..Len(s) : s[i] \in Value
      /\ DOMAIN s = 1..Len(s)
  BY TableFacts
<1>2. /\ Tail(s) \in Seq(Entry) /\ Len(Tail(s)) = Len(s) - 1 /\ DOMAIN Tail(s) = 1..Len(s) - 1
      /\ \A i \in 1..Len(s) - 1 : i + 1 \in 2..Len(s) /\ Tail(s)[i] = s[i + 1]
  BY <1>1
<1>3. \A i \in 1..Len(s) - 1 : Tail(s)[i] \in Value
  BY <1>1, <1>2
<1>4. Tail(s) \in Seq(Value)
  <2>1. \A q \in Seq(Entry) : (\A i \in 1..Len(q) : q[i] \in Value) => q \in Seq(Value)
    OBVIOUS
  <2> QED
    BY <1>2, <1>3, <2>1
<1>5. ASSUME NEW v \in Value PROVE v \in Range(s) <=> v \in Range(Tail(s))
  <2>1. \A i \in 1..Len(s) : i # 1 => i - 1 \in 1..Len(s) - 1 /\ (i - 1) + 1 = i
    BY <1>1
  <2>2. \A i \in 1..Len(s) : s[i] = v => i # 1
    BY <1>1, NullIsNoValue
  <2>3. \A i \in 1..Len(s) - 1 : i + 1 \in 1..Len(s)
    BY <1>1
  <2>4. v \in Range(s) => v \in Range(Tail(s))
    <3> SUFFICES ASSUME v \in Range(s) PROVE v \in Range(Tail(s))
      OBVIOUS
    <3>1. PICK i \in 1..Len(s) : s[i] = v
      BY <1>1 DEF Range
    <3>2. i - 1 \in DOMAIN Tail(s) /\ Tail(s)[i - 1] = v
      BY <1>1, <1>2, <2>1, <2>2, <3>1
    <3> QED
      BY <3>2 DEF Range
  <2>5. v \in Range(Tail(s)) => v \in Range(s)
    <3> SUFFICES ASSUME v \in Range(Tail(s)) PROVE v \in Range(s)
      OBVIOUS
    <3>1. PICK i \in 1..Len(s) - 1 : Tail(s)[i] = v
      BY <1>2 DEF Range
    <3>2. i + 1 \in DOMAIN s /\ s[i + 1] = v
      BY <1>1, <1>2, <2>3, <3>1
    <3> QED
      BY <3>2 DEF Range
  <2> QED
    BY <2>4, <2>5
<1>6. \A i \in 1..Len(s) - 1 : i + 1 \in 1..Len(s)
  BY <1>1
<1> QED
  BY <1>2, <1>4, <1>5, <1>6

-----------------------------------------------------------------------------
(***************************************************************************)
(* The arrays of the vector.  A store that was moved away is empty; every  *)
(* store is whole in one array only, that of the vector, or while one      *)
(* grows, the new array as far as stores were moved.                       *)
(***************************************************************************)
isVector(vec) == vec \in Seq(Seq(Tables))

Settled(vec, cur) ==
  \A a \in DOMAIN vec : \A k \in DOMAIN vec[a] : vec[a][k] # <<>> <=> a = cur

Moving(vec, cur, tgt, m) ==
  /\ cur \in DOMAIN vec /\ tgt \in DOMAIN vec /\ cur # tgt
  /\ m \in 0..Len(vec[cur]) /\ Len(vec[cur]) < Len(vec[tgt])
  /\ \A a \in DOMAIN vec : \A k \in DOMAIN vec[a] :
       vec[a][k] # <<>> <=> (a = tgt /\ (k <= m \/ k > Len(vec[cur]))) \/ (a = cur /\ k > m)

OneHome(vec) ==
  \A a1, a2 \in DOMAIN vec : \A k \in DOMAIN vec[a1] \cap DOMAIN vec[a2] :
    vec[a1][k] # <<>> /\ vec[a2][k] # <<>> => a1 = a2

holdersIn(vec, t) == {a \in DOMAIN vec : t < Len(vec[a]) /\ Len(vec[a][t + 1]) > 1}

contentsOf(vec, t) ==
  IF holdersIn(vec, t) = {} THEN <<>>
  ELSE Tail(vec[CHOOSE a \in holdersIn(vec, t) : TRUE][t + 1])

LEMMA VectorFacts ==
  ASSUME NEW vec, isVector(vec)
  PROVE  /\ Len(vec) \in Nat /\ DOMAIN vec = 1..Len(vec)
         /\ \A a \in DOMAIN vec : /\ vec[a] \in Seq(Tables) /\ Len(vec[a]) \in Nat
                                 /\ DOMAIN vec[a] = 1..Len(vec[a])
                                 /\ \A k \in DOMAIN vec[a] : vec[a][k] \in Tables
<1>1. Len(vec) \in Nat /\ DOMAIN vec = 1..Len(vec) /\ \A a \in DOMAIN vec : vec[a] \in Seq(Tables)
  BY SeqFacts DEF isVector
<1>2. \A q \in Seq(Tables) : /\ Len(q) \in Nat /\ DOMAIN q = 1..Len(q)
                             /\ \A k \in DOMAIN q : q[k] \in Tables
  BY SeqFacts
<1> QED
  BY <1>1, <1>2

LEMMA SettledOneHome ==
  ASSUME NEW vec, NEW cur, Settled(vec, cur) PROVE OneHome(vec)
BY DEF Settled, OneHome

LEMMA MovingOneHome ==
  ASSUME NEW vec, isVector(vec), NEW cur, NEW tgt, NEW m, Moving(vec, cur, tgt, m)
  PROVE  OneHome(vec)
<1> SUFFICES ASSUME NEW a1 \in DOMAIN vec, NEW a2 \in DOMAIN vec,
                    NEW k \in DOMAIN vec[a1] \cap DOMAIN vec[a2],
                    vec[a1][k] # <<>>, vec[a2][k] # <<>>
             PROVE  a1 = a2
  BY DEF OneHome
<1> DEFINE n == Len(vec[cur])
<1>1. n \in Nat /\ m \in Nat /\ m <= n /\ DOMAIN vec[cur] = 1..n /\ k \in Nat
  <2>1. cur \in DOMAIN vec /\ m \in 0..n
    BY DEF Moving
  <2>2. n \in Nat /\ DOMAIN vec[cur] = 1..n /\ DOMAIN vec[a1] = 1..Len(vec[a1]) /\ Len(vec[a1]) \in Nat
    BY <2>1, VectorFacts
  <2>3. k \in 1..Len(vec[a1])
    BY <2>2
  <2> HIDE DEF n
  <2> QED
    BY <2>1, <2>2, <2>3
<1>2. \/ a1 = tgt /\ (k <= m \/ k > n)
      \/ a1 = cur /\ k > m
  BY DEF Moving
<1>3. \/ a2 = tgt /\ (k <= m \/ k > n)
      \/ a2 = cur /\ k > m
  BY DEF Moving
<1>4. a1 = cur \/ a2 = cur => k <= n
  <2>1. a1 = cur \/ a2 = cur => k \in 1..n
    BY <1>1
  <2> HIDE DEF n
  <2> QED
    BY <1>1, <2>1
<1> HIDE DEF n
<1> QED
  BY <1>1, <1>2, <1>3, <1>4

LEMMA ContentsAre ==
  ASSUME NEW vec, isVector(vec), OneHome(vec), NEW t \in Nat, NEW a \in DOMAIN vec,
         t + 1 \in DOMAIN vec[a], vec[a][t + 1] # <<>>
  PROVE  contentsOf(vec, t) = Tail(vec[a][t + 1])
<1>1. \A b \in DOMAIN vec : t < Len(vec[b]) <=> t + 1 \in DOMAIN vec[b]
  <2>1. \A n \in Nat : t < n <=> t + 1 \in 1..n
    OBVIOUS
  <2> QED
    BY <2>1, VectorFacts
<1>2. vec[a][t + 1] \in Tables
  BY VectorFacts
<1>3. \A b \in holdersIn(vec, t) : b = a
  <2> SUFFICES ASSUME NEW b \in holdersIn(vec, t) PROVE b = a
    OBVIOUS
  <2>1. b \in DOMAIN vec /\ t + 1 \in DOMAIN vec[b] /\ Len(vec[b][t + 1]) > 1
    BY <1>1 DEF holdersIn
  <2>2. vec[b][t + 1] # <<>>
    BY <2>1, Lengths, Zenon
  <2> QED
    BY <2>1, <2>2 DEF OneHome
<1>4. CASE Len(vec[a][t + 1]) > 1
  <2>1. a \in holdersIn(vec, t)
    BY <1>1, <1>4 DEF holdersIn
  <2> QED
    BY <1>3, <2>1 DEF contentsOf
<1>5. CASE ~(Len(vec[a][t + 1]) > 1)
  <2>1. holdersIn(vec, t) = {}
    BY <1>3, <1>5 DEF holdersIn
  <2>2. PICK s \in Tables : s = vec[a][t + 1]
    BY <1>2
  <2>3. s \in Seq(Entry) /\ Len(s) >= 1 /\ ~(Len(s) > 1) /\ Len(s) \in Nat
    BY <1>5, <2>2, TableFacts
  <2>4. Tail(s) = <<>>
    BY <2>3
  <2> QED
    BY <2>1, <2>2, <2>4 DEF contentsOf
<1> QED
  BY <1>4, <1>5

LEMMA ContentsNone ==
  ASSUME NEW vec, isVector(vec), NEW t \in Nat,
         \A a \in DOMAIN vec : t + 1 \in DOMAIN vec[a] => vec[a][t + 1] \in {<<>>, <<Null>>}
  PROVE  contentsOf(vec, t) = <<>>
<1>1. \A b \in DOMAIN vec : t < Len(vec[b]) <=> t + 1 \in DOMAIN vec[b]
  <2>1. \A n \in Nat : t < n <=> t + 1 \in 1..n
    OBVIOUS
  <2> QED
    BY <2>1, VectorFacts
<1>2. ~(Len(<<>>) > 1) /\ ~(Len(<<Null>>) > 1)
  OBVIOUS
<1>3. holdersIn(vec, t) = {}
  BY <1>1, <1>2, Zenon DEF holdersIn
<1> QED
  BY <1>3 DEF contentsOf

-----------------------------------------------------------------------------
(* resize: the new array, in which only the new stores are whole.          *)
grown(vec, cur, n) ==
  Append(vec, [k \in 1..n |-> IF k <= Len(vec[cur]) THEN MovedFrom ELSE TypeStore])

LEMMA VectorGrows ==
  ASSUME NEW vec, isVector(vec), NEW cur \in DOMAIN vec, Settled(vec, cur),
         NEW n \in Nat, n > Len(vec[cur])
  PROVE  LET vec2 == grown(vec, cur, n)  tgt == Len(vec) + 1
         IN  /\ isVector(vec2) /\ vec2[cur] = vec[cur] /\ Len(vec2[tgt]) = n
             /\ Moving(vec2, cur, tgt, 0)
             /\ \A t \in Nat : contentsOf(vec2, t) = contentsOf(vec, t)
<1> DEFINE len == Len(vec[cur])
           new == [k \in 1..n |-> IF k <= len THEN <<>> ELSE <<Null>>]
           vec2 == grown(vec, cur, n)
           tgt == Len(vec) + 1
<1>1. /\ Len(vec) \in Nat /\ DOMAIN vec = 1..Len(vec) /\ len \in Nat /\ DOMAIN vec[cur] = 1..len
      /\ \A a \in DOMAIN vec : vec[a] \in Seq(Tables)
  BY VectorFacts
<1>2. new \in Seq(Tables) /\ Len(new) = n /\ DOMAIN new = 1..n
  <2>1. \A k \in 1..n : new[k] \in Tables
    BY SmallTables
  <2> HIDE DEF len
  <2>2. new \in [1..n -> Tables]
    BY <2>1
  <2> HIDE DEF new
  <2> QED
    BY <2>2
<1>3. vec2 = Append(vec, new)
  BY DEF grown, MovedFrom, TypeStore
<1> DEFINE Row == Seq(Tables)
<1>4. vec \in Seq(Row) /\ new \in Row
  BY <1>2 DEF isVector
<1> HIDE DEF vec2, new, len, Row
<1>5. /\ vec2 \in Seq(Row) /\ DOMAIN vec2 = 1..tgt /\ vec2[tgt] = new
      /\ \A a \in DOMAIN vec : vec2[a] = vec[a]
  <2>1. /\ Append(vec, new) \in Seq(Row) /\ DOMAIN Append(vec, new) = 1..Len(vec) + 1
        /\ Append(vec, new)[Len(vec) + 1] = new
        /\ \A k \in DOMAIN vec : Append(vec, new)[k] = vec[k]
    BY <1>4, AppendFacts
  <2> QED
    BY <1>3, <2>1, Zenon
<1>6. isVector(vec2)
  BY <1>5 DEF isVector, Row
<1>7. /\ cur # tgt /\ cur \in 1..tgt /\ tgt \in 1..tgt
      /\ \A a \in 1..tgt : a # tgt => a \in DOMAIN vec
  <2>1. cur \in 1..Len(vec)
    BY <1>1
  <2>2. \A m \in Nat : /\ \A a \in 1..m : a # m + 1 /\ a \in 1..m + 1
                       /\ m + 1 \in 1..m + 1
                       /\ \A a \in 1..m + 1 : a # m + 1 => a \in 1..m
    OBVIOUS
  <2> QED
    BY <1>1, <2>1, <2>2, Zenon
<1>8. \A k \in 1..n : new[k] # <<>> <=> k > len
  BY <1>1 DEF new
<1>9. ASSUME NEW a \in DOMAIN vec2, NEW k \in DOMAIN vec2[a]
      PROVE  vec2[a][k] # <<>> <=> (a = tgt /\ (k <= 0 \/ k > len)) \/ (a = cur /\ k > 0)
  <2>1. CASE a = tgt
    <3>1. k \in 1..n
      BY <1>2, <1>5, <2>1
    <3>2. ~(k <= 0)
      BY <3>1
    <3> QED
      BY <1>5, <1>7, <1>8, <2>1, <3>1, <3>2
  <2>2. CASE a # tgt
    <3>1. a \in DOMAIN vec /\ vec2[a] = vec[a]
      BY <1>5, <1>7, <2>2
    <3>2. a = cur => k > 0
      BY <1>1, <3>1
    <3> QED
      BY <2>2, <3>1, <3>2 DEF Settled
  <2> QED
    BY <2>1, <2>2
<1>10. Moving(vec2, cur, tgt, 0)
  <2>1. vec2[cur] = vec[cur] /\ Len(vec2[cur]) = len /\ Len(vec2[tgt]) = n
    BY <1>2, <1>5 DEF len
  <2>2. len < n
    BY <1>1 DEF len
  <2>3. 0 \in 0..len
    BY <1>1
  <2> QED
    BY <1>5, <1>7, <1>9, <2>1, <2>2, <2>3 DEF Moving
<1>11. ASSUME NEW t \in Nat PROVE contentsOf(vec2, t) = contentsOf(vec, t)
  <2>1. CASE t + 1 \in DOMAIN vec[cur]
    <3>1. vec[cur][t + 1] # <<>> /\ vec2[cur] = vec[cur] /\ cur \in DOMAIN vec2
      BY <1>5, <1>7, <2>1 DEF Settled
    <3>2. OneHome(vec) /\ OneHome(vec2)
      BY <1>6, <1>10, SettledOneHome, MovingOneHome
    <3> QED
      BY <1>6, <2>1, <3>1, <3>2, ContentsAre
  <2>2. CASE t + 1 \notin DOMAIN vec[cur]
    <3>1. \A a \in DOMAIN vec : t + 1 \in DOMAIN vec[a] => vec[a][t + 1] = <<>>
      BY <2>2 DEF Settled
    <3>2. \A k \in 1..n : new[k] \in {<<>>, <<Null>>}
      BY DEF new
    <3>3. \A a \in DOMAIN vec2 : t + 1 \in DOMAIN vec2[a] => vec2[a][t + 1] \in {<<>>, <<Null>>}
      BY <1>2, <1>5, <1>7, <3>1, <3>2
    <3> QED
      BY <1>6, <3>1, <3>3, ContentsNone
  <2> QED
    BY <2>1, <2>2
<1> QED
  BY <1>2, <1>5, <1>6, <1>7, <1>10, <1>11 DEF vec2

(* One assignment to a store.                                              *)
setStore(vec, a, k, s) == [vec EXCEPT ![a][k] = s]

onlySet(vec, vec2, a, k, s) ==
  /\ isVector(vec2) /\ DOMAIN vec2 = DOMAIN vec /\ Len(vec2) = Len(vec)
  /\ \A b \in DOMAIN vec : DOMAIN vec2[b] = DOMAIN vec[b] /\ Len(vec2[b]) = Len(vec[b])
  /\ vec2[a][k] = s
  /\ \A b \in DOMAIN vec : \A j \in DOMAIN vec[b] : b # a \/ j # k => vec2[b][j] = vec[b][j]

LEMMA StoreSet ==
  ASSUME NEW vec, isVector(vec), NEW a \in DOMAIN vec, NEW k \in DOMAIN vec[a], NEW s \in Tables
  PROVE  onlySet(vec, setStore(vec, a, k, s), a, k, s)
<1> DEFINE row  == vec[a]
           row2 == [row EXCEPT ![k] = s]
           vec2 == [vec EXCEPT ![a] = row2]
           Row  == Seq(Tables)
<1>1. row \in Seq(Tables) /\ k \in DOMAIN row
  BY VectorFacts
<1> HIDE DEF row
<1>2. /\ row2 \in Seq(Tables) /\ Len(row2) = Len(row) /\ DOMAIN row2 = DOMAIN row
      /\ row2[k] = s /\ \A j \in DOMAIN row : j # k => row2[j] = row[j]
  BY <1>1
<1> HIDE DEF row2
<1>3. vec \in Seq(Row) /\ row2 \in Row
  BY <1>2 DEF isVector
<1> HIDE DEF Row
<1>4. /\ vec2 \in Seq(Row) /\ Len(vec2) = Len(vec) /\ DOMAIN vec2 = DOMAIN vec
      /\ vec2[a] = row2 /\ \A b \in DOMAIN vec : b # a => vec2[b] = vec[b]
  BY <1>3
<1>5. setStore(vec, a, k, s) = vec2
  BY DEF setStore, row2, row
<1> HIDE DEF vec2
<1>6. isVector(vec2)
  BY <1>4 DEF isVector, Row
<1>7. \A b \in DOMAIN vec : DOMAIN vec2[b] = DOMAIN vec[b] /\ Len(vec2[b]) = Len(vec[b])
  BY <1>2, <1>4 DEF row
<1>8. ASSUME NEW b \in DOMAIN vec, NEW j \in DOMAIN vec[b], b # a \/ j # k
      PROVE  vec2[b][j] = vec[b][j]
  BY <1>2, <1>4, <1>8 DEF row
<1> QED
  BY <1>2, <1>4, <1>5, <1>6, <1>7, <1>8 DEF onlySet

(* TypeStore(TypeStore&&) of the next store.                               *)
movedStore(vec, cur, tgt, k) == [vec EXCEPT ![tgt][k] = vec[cur][k], ![cur][k] = MovedFrom]

LEMMA StoreMoves ==
  ASSUME NEW vec, isVector(vec), NEW cur, NEW tgt, NEW m \in Nat,
         Moving(vec, cur, tgt, m), m < Len(vec[cur])
  PROVE  LET k    == m + 1
             vec2 == movedStore(vec, cur, tgt, k)
         IN  /\ isVector(vec2) /\ Len(vec2) = Len(vec)
             /\ \A b \in DOMAIN vec : Len(vec2[b]) = Len(vec[b])
             /\ Moving(vec2, cur, tgt, k)
             /\ \A t \in Nat : contentsOf(vec2, t) = contentsOf(vec, t)
<1> DEFINE k    == m + 1
           len  == Len(vec[cur])
           vec1 == setStore(vec, tgt, k, vec[cur][k])
           vec2 == setStore(vec1, cur, k, <<>>)
<1>1. /\ cur \in DOMAIN vec /\ tgt \in DOMAIN vec /\ cur # tgt
      /\ len \in Nat /\ Len(vec[tgt]) \in Nat /\ len < Len(vec[tgt])
      /\ DOMAIN vec[cur] = 1..len /\ DOMAIN vec[tgt] = 1..Len(vec[tgt])
  BY VectorFacts DEF Moving
<1>2. k \in DOMAIN vec[cur] /\ k \in DOMAIN vec[tgt] /\ k \in 0..len
  <2>1. \A n1, n2 \in Nat : m < n1 /\ n1 < n2 => k \in 1..n1 /\ k \in 1..n2 /\ k \in 0..n1
    OBVIOUS
  <2> QED
    BY <1>1, <2>1
<1>3. vec[cur][k] \in Tables /\ <<>> \in Tables
  BY <1>1, <1>2, VectorFacts, SmallTables
<1>4. onlySet(vec, vec1, tgt, k, vec[cur][k])
  BY <1>1, <1>2, <1>3, StoreSet
<1>5. onlySet(vec1, vec2, cur, k, <<>>)
  <2>1. isVector(vec1) /\ cur \in DOMAIN vec1 /\ k \in DOMAIN vec1[cur]
    BY <1>1, <1>2, <1>4 DEF onlySet
  <2> HIDE DEF vec1
  <2> QED
    BY <1>3, <2>1, StoreSet
<1> HIDE DEF vec1
<1>6. movedStore(vec, cur, tgt, k) = vec2
  BY DEF movedStore, MovedFrom, vec1, setStore
<1>same. /\ isVector(vec2) /\ DOMAIN vec2 = DOMAIN vec /\ Len(vec2) = Len(vec)
      /\ \A b \in DOMAIN vec : DOMAIN vec2[b] = DOMAIN vec[b] /\ Len(vec2[b]) = Len(vec[b])
  BY <1>4, <1>5 DEF onlySet
<1> HIDE DEF vec2
<1>7. vec2[tgt][k] = vec[cur][k] /\ vec2[cur][k] = <<>>
      /\ \A b \in DOMAIN vec : \A j \in DOMAIN vec[b] : j # k \/ b \notin {cur, tgt} => vec2[b][j] = vec[b][j]
  BY <1>1, <1>2, <1>4, <1>5 DEF onlySet
<1>8. vec[cur][k] # <<>>
  <2>1. k > m
    OBVIOUS
  <2> QED
    BY <1>1, <1>2, <2>1 DEF Moving
<1>9. ASSUME NEW b \in DOMAIN vec2, NEW j \in DOMAIN vec2[b]
      PROVE  vec2[b][j] # <<>> <=> (b = tgt /\ (j <= k \/ j > len)) \/ (b = cur /\ j > k)
  <2>1. b \in DOMAIN vec /\ j \in DOMAIN vec[b] /\ j \in Nat
    <3>1. b \in DOMAIN vec /\ j \in DOMAIN vec[b]
      BY <1>same
    <3>2. DOMAIN vec[b] = 1..Len(vec[b]) /\ Len(vec[b]) \in Nat
      BY <3>1, VectorFacts
    <3> QED
      BY <3>1, <3>2
  <2>2. vec[b][j] # <<>> <=> (b = tgt /\ (j <= m \/ j > len)) \/ (b = cur /\ j > m)
    BY <2>1 DEF Moving
  <2>3. CASE j = k
    <3>1. j <= k /\ ~(j > k) /\ j > m /\ ~(j <= m) /\ ~(j > len)
      BY <1>2, <2>3
    <3>2. CASE b \in {cur, tgt}
      BY <1>1, <1>7, <1>8, <2>3, <3>1, <3>2
    <3>3. CASE b \notin {cur, tgt}
      BY <1>7, <2>1, <2>2, <3>3
    <3> QED
      BY <3>2, <3>3
  <2>4. CASE j # k
    <3>1. (j <= m <=> j <= k) /\ (j > m <=> j > k)
      BY <2>1, <2>4
    <3>2. vec2[b][j] = vec[b][j]
      BY <1>7, <2>1, <2>4
    <3> QED
      BY <2>2, <3>1, <3>2
  <2> QED
    BY <2>3, <2>4
<1>10. Moving(vec2, cur, tgt, k)
  BY <1>1, <1>2, <1>same, <1>9 DEF Moving
<1>11. OneHome(vec) /\ OneHome(vec2)
  BY <1>same, <1>10, MovingOneHome
<1>12. ASSUME NEW t \in Nat PROVE contentsOf(vec2, t) = contentsOf(vec, t)
  <2>1. CASE t + 1 = k
    <3>1. contentsOf(vec, t) = Tail(vec[cur][k])
      BY <1>1, <1>2, <1>8, <1>11, <2>1, ContentsAre
    <3>2. contentsOf(vec2, t) = Tail(vec2[tgt][k])
      <4>1. tgt \in DOMAIN vec2 /\ t + 1 \in DOMAIN vec2[tgt] /\ isVector(vec2)
        BY <1>1, <1>2, <1>same, <2>1
      <4>2. vec2[tgt][t + 1] # <<>>
        BY <1>7, <1>8, <2>1
      <4> HIDE DEF k
      <4> QED
        BY <1>11, <2>1, <4>1, <4>2, ContentsAre
    <3> QED
      BY <1>7, <3>1, <3>2
  <2>2. CASE t + 1 # k
    <3>1. \A b \in DOMAIN vec : t + 1 \in DOMAIN vec[b] => vec2[b][t + 1] = vec[b][t + 1]
      BY <1>7, <2>2
    <3>2. \A b \in DOMAIN vec : t < Len(vec2[b]) <=> t < Len(vec[b])
      BY <1>same
    <3>3. \A b \in DOMAIN vec : t < Len(vec[b]) => t + 1 \in DOMAIN vec[b]
      <4>1. \A n \in Nat : t < n => t + 1 \in 1..n
        OBVIOUS
      <4> QED
        BY <4>1, VectorFacts
    <3>4. holdersIn(vec2, t) = holdersIn(vec, t)
      BY <1>same, <3>1, <3>2, <3>3 DEF holdersIn
    <3>5. \A b \in holdersIn(vec, t) : vec2[b][t + 1] = vec[b][t + 1]
      BY <3>1, <3>3 DEF holdersIn
    <3>6. holdersIn(vec, t) # {} => (CHOOSE b \in holdersIn(vec, t) : TRUE) \in holdersIn(vec, t)
      OBVIOUS
    <3> QED
      BY <3>4, <3>5, <3>6 DEF contentsOf
  <2> QED
    BY <2>1, <2>2
<1> QED
  BY <1>same, <1>6, <1>10, <1>12

(* The insertion of a new value into a store of the vector.                *)
LEMMA StoreGains ==
  ASSUME NEW vec, isVector(vec), NEW cur \in DOMAIN vec, Settled(vec, cur),
         NEW t \in Nat, t + 1 \in DOMAIN vec[cur],
         NEW v \in Value, v \notin Range(vec[cur][t + 1])
  PROVE  LET vec2 == setStore(vec, cur, t + 1, Append(vec[cur][t + 1], v))
         IN  /\ isVector(vec2) /\ DOMAIN vec2 = DOMAIN vec /\ Len(vec2[cur]) = Len(vec[cur])
             /\ Settled(vec2, cur)
             /\ contentsOf(vec2, t) = Append(contentsOf(vec, t), v)
             /\ \A u \in Nat : u # t => contentsOf(vec2, u) = contentsOf(vec, u)
<1> DEFINE s    == vec[cur][t + 1]
           vec2 == setStore(vec, cur, t + 1, Append(s, v))
<1>1. s \in Tables /\ s # <<>>
  BY VectorFacts DEF Settled
<1>2. Append(s, v) \in Tables /\ Append(s, v) # <<>> /\ Tail(Append(s, v)) = Append(Tail(s), v)
  BY <1>1, TableGrows
<1>3. onlySet(vec, vec2, cur, t + 1, Append(s, v))
  BY <1>2, StoreSet
<1> HIDE DEF vec2, s
<1>4. /\ isVector(vec2) /\ DOMAIN vec2 = DOMAIN vec
      /\ \A b \in DOMAIN vec : DOMAIN vec2[b] = DOMAIN vec[b] /\ Len(vec2[b]) = Len(vec[b])
      /\ vec2[cur][t + 1] = Append(s, v)
      /\ \A b \in DOMAIN vec : \A j \in DOMAIN vec[b] : b # cur \/ j # t + 1 => vec2[b][j] = vec[b][j]
  BY <1>3 DEF onlySet
<1>5. Settled(vec2, cur)
  <2> SUFFICES ASSUME NEW b \in DOMAIN vec2, NEW j \in DOMAIN vec2[b]
               PROVE  vec2[b][j] # <<>> <=> b = cur
    BY DEF Settled
  <2>1. b \in DOMAIN vec /\ j \in DOMAIN vec[b]
    BY <1>4
  <2>2. vec[b][j] # <<>> <=> b = cur
    BY <2>1 DEF Settled
  <2>3. CASE b = cur /\ j = t + 1
    BY <1>2, <1>4, <2>3
  <2>4. CASE b # cur \/ j # t + 1
    BY <1>4, <2>1, <2>2, <2>4
  <2> QED
    BY <2>3, <2>4
<1>6. OneHome(vec) /\ OneHome(vec2)
  BY <1>5, SettledOneHome
<1>7. contentsOf(vec, t) = Tail(s)
  BY <1>1, <1>6, ContentsAre DEF s
<1>8. contentsOf(vec2, t) = Tail(vec2[cur][t + 1])
  BY <1>2, <1>4, <1>6, ContentsAre
<1>9. ASSUME NEW u \in Nat, u # t PROVE contentsOf(vec2, u) = contentsOf(vec, u)
  <2>1. u + 1 # t + 1
    BY <1>9
  <2>2. \A b \in DOMAIN vec : u < Len(vec[b]) => u + 1 \in DOMAIN vec[b]
    <3>1. \A n \in Nat : u < n => u + 1 \in 1..n
      OBVIOUS
    <3> QED
      BY <3>1, VectorFacts
  <2>3. \A b \in DOMAIN vec : u + 1 \in DOMAIN vec[b] => vec2[b][u + 1] = vec[b][u + 1]
    BY <1>4, <2>1
  <2>4. holdersIn(vec2, u) = holdersIn(vec, u)
    BY <1>4, <2>2, <2>3 DEF holdersIn
  <2>5. \A b \in holdersIn(vec, u) : vec2[b][u + 1] = vec[b][u + 1]
    BY <2>2, <2>3 DEF holdersIn
  <2>6. holdersIn(vec, u) # {} => (CHOOSE b \in holdersIn(vec, u) : TRUE) \in holdersIn(vec, u)
    OBVIOUS
  <2> QED
    BY <2>4, <2>5, <2>6 DEF contentsOf
<1> QED
  BY <1>2, <1>4, <1>5, <1>7, <1>8, <1>9 DEF vec2, s

-----------------------------------------------------------------------------
(***************************************************************************)
(* The inductive invariant.  A worker that moves stores is the only one    *)
(* there is; a worker that is about to insert or to find holds the array   *)
(* that the vector uses, in which its store is whole and, for a find, the  *)
(* identifier is in the table.                                             *)
(***************************************************************************)
moves(c) == pc[c] \in {"move", "publish"}

InsertCalled(c) ==
  call[c].op = "insert" /\ call[c].type \in used /\ call[c].value \in Value

FindCalled(c) ==
  /\ call[c].op \in {"find", "cam"} /\ call[c].type \in used
  /\ call[c].id \in DOMAIN contents(call[c].type)
  /\ call[c].op = "cam" =>
       /\ call[c].offset \in 0..MaxLen /\ call[c].data \in Value
       /\ call[c].offset + Len(call[c].data) <= MaxLen

Alone(c) ==
  /\ array[c] = current /\ load.workers \subseteq {c}
  /\ Moving(arrays, current, target[c], moved[c])
  /\ call[c].type < Len(arrays[target[c]])
  /\ IF pc[c] = "move" THEN moved[c] < Len(arrays[current]) ELSE moved[c] = Len(arrays[current])

ClientInv(c) ==
  /\ pc[c] \in {"ready", "size", "move", "publish", "insert", "find"}
  /\ pc[c] # "ready" => c \in load.workers
  /\ pc[c] = "ready" => call[c].op \in {"idle", "answer"}
  /\ pc[c] \in {"size", "move", "publish", "insert"} => InsertCalled(c)
  /\ pc[c] = "find" => FindCalled(c)
  /\ pc[c] \in {"insert", "find"} => array[c] = current /\ call[c].type < Len(arrays[current])
  /\ moves(c) => Alone(c)

TreeInv ==
  /\ load \in Loads
  /\ isVector(arrays) /\ current \in DOMAIN arrays /\ load.present <= Len(arrays[current])
  /\ DOMAIN pc = Client /\ DOMAIN call = Client /\ DOMAIN array = Client
  /\ DOMAIN target = Client /\ DOMAIN moved = Client
  /\ (\A c \in Client : ~moves(c)) => Settled(arrays, current)
  /\ \A c \in Client : ClientInv(c)

LEMMA LoadFacts ==
  ASSUME NEW l \in Loads
  PROVE  /\ l.workers \subseteq Client /\ l.types \in 1..Types /\ l.bytes \in 1..MaxLen
         /\ l.present \in 1..Types /\ 0..l.types - 1 \subseteq Type /\ Type \subseteq Nat
<1>1. l \in Load
  BY TreeStoreAssumption
<1>2. /\ l.workers \subseteq Client /\ l.types \in 1..Types /\ l.bytes \in 1..MaxLen
      /\ l.present \in 1..Types
  BY <1>1 DEF Load
<1>3. 0..l.types - 1 \subseteq Type /\ Type \subseteq Nat
  BY <1>2, TreeStoreAssumption DEF Type
<1> QED
  BY <1>2, <1>3

LEMMA ContentsByArrays == \A t : contents(t) = contentsOf(arrays, t)
BY DEF contents, contentsOf, holdersIn

(* An identifier in the table of a type: its store is in the vector.       *)
LEMMA HeldInVector ==
  ASSUME NEW vec, isVector(vec), NEW cur \in DOMAIN vec, Settled(vec, cur), NEW t \in Nat,
         contentsOf(vec, t) # <<>>
  PROVE  t + 1 \in DOMAIN vec[cur] /\ t < Len(vec[cur])
<1>1. t + 1 \in DOMAIN vec[cur]
  <2> SUFFICES ASSUME t + 1 \notin DOMAIN vec[cur] PROVE FALSE
    OBVIOUS
  <2>1. \A a \in DOMAIN vec : t + 1 \in DOMAIN vec[a] => vec[a][t + 1] = <<>>
    BY DEF Settled
  <2> QED
    BY <2>1, ContentsNone
<1>2. DOMAIN vec[cur] = 1..Len(vec[cur]) /\ Len(vec[cur]) \in Nat
  BY VectorFacts
<1> QED
  BY <1>1, <1>2

(* Nobody moves stores while another worker does something.                *)
LEMMA NobodyMoves ==
  ASSUME TreeInv, NEW c \in Client, c \in load.workers, ~moves(c)
  PROVE  Settled(arrays, current) /\ \A d \in Client : ~moves(d)
BY DEF TreeInv, ClientInv, Alone

Others(c) ==
  \A d \in Client \ {c} : /\ pc'[d] = pc[d] /\ call'[d] = call[d] /\ array'[d] = array[d]
                          /\ target'[d] = target[d] /\ moved'[d] = moved[d]

LEMMA OthersKeep ==
  ASSUME TreeInv, NEW c \in Client, Others(c), load' = load,
         \/ UNCHANGED <<arrays, current>>
         \/ load.workers \subseteq {c}
         \/ /\ current' = current /\ Len(arrays'[current]) = Len(arrays[current])
            /\ \A t \in Nat : DOMAIN contents(t) \subseteq DOMAIN contents(t)'
            /\ \A d \in Client : ~moves(d)
  PROVE  \A d \in Client \ {c} : ClientInv(d)'
<1> SUFFICES ASSUME NEW d \in Client \ {c} PROVE ClientInv(d)'
  OBVIOUS
<1>1. /\ pc'[d] = pc[d] /\ call'[d] = call[d] /\ array'[d] = array[d]
      /\ target'[d] = target[d] /\ moved'[d] = moved[d] /\ ClientInv(d)
  BY DEF Others, TreeInv
<1>2. used' = used /\ used \subseteq Nat
  BY LoadFacts DEF TreeInv, used
<1>3. InsertCalled(d) => InsertCalled(d)'
  BY <1>1, <1>2 DEF InsertCalled
<1>4. CASE UNCHANGED <<arrays, current>>
  <2>1. FindCalled(d)' <=> FindCalled(d)
    BY <1>1, <1>2, <1>4 DEF FindCalled, contents
  <2>2. Alone(d)' <=> Alone(d)
    BY <1>1, <1>4 DEF Alone
  <2> QED
    BY <1>1, <1>3, <1>4, <2>1, <2>2 DEF ClientInv, moves
<1>5. CASE load.workers \subseteq {c}
  <2>1. pc[d] = "ready"
    BY <1>1, <1>5 DEF ClientInv
  <2> QED
    BY <1>1, <2>1 DEF ClientInv, moves
<1>6. CASE /\ current' = current /\ Len(arrays'[current]) = Len(arrays[current])
           /\ \A t \in Nat : DOMAIN contents(t) \subseteq DOMAIN contents(t)'
           /\ \A e \in Client : ~moves(e)
  <2>1. FindCalled(d) => FindCalled(d)'
    BY <1>1, <1>2, <1>6 DEF FindCalled
  <2>2. ~moves(d)
    BY <1>6
  <2> QED
    BY <1>1, <1>3, <1>6, <2>1, <2>2 DEF ClientInv, moves
<1> QED
  BY <1>4, <1>5, <1>6

LEMMA TreeInit == Init => TreeInv
<1> SUFFICES ASSUME Init PROVE TreeInv
  OBVIOUS
<1> DEFINE row == [k \in 1..load.present |-> <<Null>>]
<1>1. load.present \in Nat /\ load.present >= 1
  BY LoadFacts DEF Init
<1>2. row \in Seq(Tables) /\ Len(row) = load.present /\ DOMAIN row = 1..load.present
  <2>1. row \in [1..load.present -> Tables]
    BY SmallTables
  <2> HIDE DEF row
  <2> QED
    BY <1>1, <2>1
<1>3. arrays = <<row>> /\ current = 1
  BY DEF Init, TypeStore
<1>4. \A k \in DOMAIN row : row[k] # <<>>
  <2>1. <<Null>> # <<>>
    OBVIOUS
  <2> QED
    BY <2>1
<1> HIDE DEF row
<1>5. isVector(arrays) /\ DOMAIN arrays = {1} /\ arrays[1] = row
  BY <1>2, <1>3 DEF isVector
<1>6. Settled(arrays, current)
  BY <1>3, <1>4, <1>5 DEF Settled
<1>7. \A c \in Client : ClientInv(c)
  BY DEF Init, ClientInv, moves
<1> QED
  BY <1>1, <1>2, <1>3, <1>5, <1>6, <1>7 DEF Init, TreeInv

-----------------------------------------------------------------------------
(* A step is one worker's.                                                 *)
LEMMA StepIsLocal ==
  ASSUME TreeInv, NEW c \in Client, step(c)
  PROVE  /\ load' = load /\ Others(c)
         /\ DOMAIN pc' = Client /\ DOMAIN call' = Client /\ DOMAIN array' = Client
         /\ DOMAIN target' = Client /\ DOMAIN moved' = Client
<1>1. /\ DOMAIN pc = Client /\ DOMAIN call = Client /\ DOMAIN array = Client
      /\ DOMAIN target = Client /\ DOMAIN moved = Client
  BY DEF TreeInv
<1> DEFINE Local == /\ load' = load /\ Others(c)
                    /\ DOMAIN pc' = Client /\ DOMAIN call' = Client /\ DOMAIN array' = Client
                    /\ DOMAIN target' = Client /\ DOMAIN moved' = Client
<1>2. ASSUME NEW req, NEW label, ask(c, req, label) PROVE Local
  <2>1. array' = array \/ array' = [array EXCEPT ![c] = current]
    BY <1>2 DEF ask
  <2> QED
    BY <1>1, <1>2, <2>1 DEF ask, goto, Others
<1>3. CASE pins_chunk_put(c)
  BY <1>2, <1>3 DEF pins_chunk_put
<1>4. CASE pins_chunk_get(c)
  BY <1>2, <1>4 DEF pins_chunk_get
<1>5. CASE pins_chunk_cam(c)
  BY <1>2, <1>5 DEF pins_chunk_cam
<1>6. CASE fits(c)
  BY <1>1, <1>6 DEF fits, goto, Others
<1>7. CASE grow(c)
  BY <1>1, <1>7 DEF grow, goto, Others
<1>8. CASE move(c)
  <2>1. moved' = [moved EXCEPT ![c] = moved[c] + 1]
    BY <1>8 DEF move
  <2>2. pc' = [pc EXCEPT ![c] = IF moved[c] + 1 = Len(arrays[array[c]]) THEN "publish" ELSE "move"]
    BY <1>8 DEF move, goto
  <2> QED
    BY <1>1, <1>8, <2>1, <2>2 DEF move, Others
<1>9. CASE publish(c)
  BY <1>1, <1>9 DEF publish, goto, Others
<1>10. CASE insert(c)
  BY <1>1, <1>10 DEF insert, answer, goto, Others
<1>11. CASE find(c)
  <2>1. PICK to : pc' = [pc EXCEPT ![c] = to]
    BY <1>11 DEF find, goto
  <2>2. call' = call \/ \E x : call' = [call EXCEPT ![c] = x]
    BY <1>11 DEF find, answer
  <2>3. UNCHANGED <<load, arrays, current, array, target, moved>>
    BY <1>11 DEF find
  <2> QED
    BY <1>1, <2>1, <2>2, <2>3 DEF Others
<1> QED
  BY <1>3, <1>4, <1>5, <1>6, <1>7, <1>8, <1>9, <1>10, <1>11 DEF step

(* What is left to show of a step: the vector, and the worker itself.      *)
LEMMA StepKeeps ==
  ASSUME TreeInv, NEW c \in Client, step(c),
         \/ UNCHANGED <<arrays, current>>
         \/ load.workers \subseteq {c}
         \/ /\ current' = current /\ Len(arrays'[current]) = Len(arrays[current])
            /\ \A t \in Nat : DOMAIN contents(t) \subseteq DOMAIN contents(t)'
            /\ \A d \in Client : ~moves(d),
         isVector(arrays'), current' \in DOMAIN arrays', load.present <= Len(arrays'[current']),
         moves(c)' \/ Settled(arrays', current'), ClientInv(c)'
  PROVE  TreeInv'
<1>1. /\ load' = load /\ Others(c)
      /\ DOMAIN pc' = Client /\ DOMAIN call' = Client /\ DOMAIN array' = Client
      /\ DOMAIN target' = Client /\ DOMAIN moved' = Client
  BY StepIsLocal
<1>2. \A d \in Client \ {c} : ClientInv(d)'
  BY <1>1, OthersKeep
<1>3. \A d \in Client : ClientInv(d)'
  BY <1>2
<1> QED
  BY <1>1, <1>3 DEF TreeInv

(* A request: the store of an identifier that is asked for is in the vector. *)
FindAsked(req) ==
  /\ req.op \in {"find", "cam"} /\ req.type \in used
  /\ req.id \in DOMAIN contents(req.type)
  /\ req.op = "cam" =>
       /\ req.offset \in 0..MaxLen /\ req.data \in Value
       /\ req.offset + Len(req.data) <= MaxLen

LEMMA AskKeeps ==
  ASSUME TreeInv, NEW c \in Client, step(c), pc[c] = "ready",
         NEW req, NEW label, ask(c, req, label),
         \/ label = "size" /\ req.op = "insert" /\ req.type \in used /\ req.value \in Value
         \/ label = "find" /\ FindAsked(req)
  PROVE  TreeInv'
<1>1. /\ c \in load.workers /\ UNCHANGED <<load, arrays, current>>
      /\ pc'[c] = label /\ call'[c] = req /\ (label = "find" => array'[c] = current)
  BY DEF ask, goto, TreeInv
<1>2. Settled(arrays, current) /\ isVector(arrays) /\ current \in DOMAIN arrays
      /\ load.present <= Len(arrays[current])
  BY <1>1, NobodyMoves DEF moves, TreeInv
<1>3. used' = used /\ used \subseteq Nat /\ \A t : contents(t)' = contents(t)
  BY <1>1, LoadFacts DEF TreeInv, used, contents
<1>4. CASE label = "size"
  <2>1. InsertCalled(c)'
    BY <1>1, <1>3, <1>4 DEF InsertCalled
  <2>2. ClientInv(c)'
    BY <1>1, <1>4, <2>1 DEF ClientInv, moves
  <2> QED
    BY <1>1, <1>2, <2>2, StepKeeps
<1>5. CASE label = "find"
  <2>1. FindCalled(c)'
    BY <1>1, <1>3, <1>5 DEF FindCalled, FindAsked
  <2>2. contentsOf(arrays, req.type) # <<>> /\ req.type \in Nat
    <3>1. req.id \in DOMAIN contentsOf(arrays, req.type)
      BY <1>5, ContentsByArrays DEF FindAsked
    <3>2. DOMAIN <<>> = {}
      OBVIOUS
    <3> QED
      BY <1>3, <1>5, <3>1, <3>2 DEF FindAsked
  <2>3. req.type < Len(arrays[current])
    BY <1>2, <2>2, HeldInVector
  <2>4. ClientInv(c)'
    BY <1>1, <1>5, <2>1, <2>3 DEF ClientInv, moves
  <2> QED
    BY <1>1, <1>2, <2>4, StepKeeps
<1> QED
  BY <1>4, <1>5

LEMMA ValueFacts ==
  ASSUME NEW v \in Value PROVE v \in Seq(Byte) /\ Len(v) \in 1..MaxLen /\ DOMAIN v = 1..Len(v)
<1>1. PICK n \in 1..MaxLen : v \in [1..n -> Byte]
  BY DEF Value
<1>2. n \in Nat
  BY <1>1, TreeStoreAssumption
<1> QED
  BY <1>1, <1>2

LEMMA RequestKeeps ==
  ASSUME TreeInv, NEW c \in Client,
         pins_chunk_put(c) \/ pins_chunk_get(c) \/ pins_chunk_cam(c)
  PROVE  TreeInv'
<1>1. step(c)
  BY DEF step
<1>2. CASE pins_chunk_put(c)
  <2>1. PICK t \in used, v \in Value : ask(c, [op |-> "insert", type |-> t, value |-> v], "size")
    BY <1>2 DEF pins_chunk_put
  <2> QED
    BY <1>1, <1>2, <2>1, AskKeeps DEF pins_chunk_put
<1>3. CASE pins_chunk_get(c)
  <2>1. PICK t \in used : \E i \in DOMAIN contents(t) :
          ask(c, [op |-> "find", type |-> t, id |-> i], "find")
    BY <1>3 DEF pins_chunk_get
  <2>2. PICK i \in DOMAIN contents(t) : ask(c, [op |-> "find", type |-> t, id |-> i], "find")
    BY <2>1
  <2>3. FindAsked([op |-> "find", type |-> t, id |-> i])
    BY DEF FindAsked
  <2> QED
    BY <1>1, <1>3, <2>2, <2>3, AskKeeps DEF pins_chunk_get
<1>4. CASE pins_chunk_cam(c)
  <2>1. PICK t \in used, o \in 0..MaxLen, v \in Value : \E i \in DOMAIN contents(t) :
          room(t) /\ o + Len(v) <= load.bytes
          /\ ask(c, [op |-> "cam", type |-> t, id |-> i, offset |-> o, data |-> v], "find")
    BY <1>4 DEF pins_chunk_cam
  <2>2. PICK i \in DOMAIN contents(t) :
          o + Len(v) <= load.bytes
          /\ ask(c, [op |-> "cam", type |-> t, id |-> i, offset |-> o, data |-> v], "find")
    BY <2>1
  <2>3. o + Len(v) <= MaxLen
    <3>1. load.bytes \in 1..MaxLen /\ Len(v) \in 1..MaxLen /\ MaxLen \in Nat
      BY LoadFacts, ValueFacts, TreeStoreAssumption DEF TreeInv
    <3> QED
      BY <2>2, <3>1
  <2> DEFINE req == [op |-> "cam", type |-> t, id |-> i, offset |-> o, data |-> v]
  <2>4. FindAsked(req)
    BY <2>3 DEF FindAsked
  <2>5. ask(c, req, "find")
    BY <2>2
  <2> HIDE DEF req
  <2> QED
    BY <1>1, <1>4, <2>4, <2>5, AskKeeps DEF pins_chunk_cam
<1> QED
  BY <1>2, <1>3, <1>4

LEMMA FitsKeeps ==
  ASSUME TreeInv, NEW c \in Client, fits(c) PROVE TreeInv'
<1>1. /\ pc[c] = "size" /\ call[c].type < Len(arrays[current])
      /\ UNCHANGED <<load, arrays, current, call>>
      /\ pc'[c] = "insert" /\ array'[c] = current
  BY DEF fits, goto, TreeInv
<1>2. c \in load.workers /\ InsertCalled(c) /\ ~moves(c)
  BY <1>1 DEF TreeInv, ClientInv, moves
<1>3. Settled(arrays, current)
  BY <1>2, NobodyMoves
<1>4. InsertCalled(c)'
  BY <1>1, <1>2 DEF InsertCalled, used
<1>5. ClientInv(c)'
  BY <1>1, <1>2, <1>4 DEF ClientInv, moves
<1>6. step(c)
  BY DEF step
<1> QED
  BY <1>1, <1>3, <1>5, <1>6, StepKeeps DEF TreeInv

(* The vector grows under its only worker.                                 *)
LEMMA GrowKeeps ==
  ASSUME GrowsAlone, TreeInv, NEW c \in Client, grow(c)
  PROVE  TreeInv' /\ \A t \in Nat : contents(t)' = contents(t)
<1> DEFINE n   == call[c].type + 1
           tgt == Len(arrays) + 1
<1>1. /\ pc[c] = "size" /\ call[c].type >= Len(arrays[current])
      /\ arrays' = grown(arrays, current, n)
      /\ UNCHANGED <<load, current, call>>
      /\ pc'[c] = "move" /\ array'[c] = current /\ target'[c] = tgt /\ moved'[c] = 0
  BY DEF grow, goto, grown, TreeInv
<1>2. c \in load.workers /\ InsertCalled(c) /\ ~moves(c)
  BY <1>1 DEF TreeInv, ClientInv, moves
<1>3. Settled(arrays, current) /\ isVector(arrays) /\ current \in DOMAIN arrays
  BY <1>2, NobodyMoves DEF TreeInv
<1>4. call[c].type \in Nat /\ call[c].type <= load.types - 1 /\ Len(arrays[current]) \in Nat
      /\ load.types \in Nat /\ load.present \in Nat
  <2>1. load.types \in Nat /\ load.present \in Nat
    BY LoadFacts DEF TreeInv
  <2>2. call[c].type \in 0..load.types - 1
    BY <1>2 DEF InsertCalled, used
  <2>3. Len(arrays[current]) \in Nat
    BY <1>3, VectorFacts
  <2> QED
    BY <2>1, <2>2, <2>3
<1>5. n \in Nat /\ n > Len(arrays[current])
  BY <1>1, <1>4
<1>6. load.workers \subseteq {c}
  <2>1. ~(load.types <= load.present)
    BY <1>1, <1>4 DEF TreeInv
  <2>2. PICK w \in Client : load.workers \subseteq {w}
    BY <2>1 DEF GrowsAlone, TreeInv
  <2> QED
    BY <1>2, <2>2
<1> HIDE DEF n, tgt
<1>7. /\ isVector(arrays') /\ arrays'[current] = arrays[current] /\ Len(arrays'[tgt]) = n
      /\ Moving(arrays', current, tgt, 0)
      /\ \A t \in Nat : contentsOf(arrays', t) = contentsOf(arrays, t)
  BY <1>1, <1>3, <1>5, VectorGrows DEF tgt
<1>8. InsertCalled(c)'
  BY <1>1, <1>2 DEF InsertCalled, used
<1>9. current \in DOMAIN arrays'
  BY <1>7 DEF Moving
<1>10. 0 < Len(arrays[current])
  BY <1>4, LoadFacts DEF TreeInv
<1>11. Alone(c)'
  <2>1. call[c].type < n
    BY <1>4 DEF n
  <2> QED
    BY <1>1, <1>6, <1>7, <1>10, <2>1 DEF Alone
<1>12. ClientInv(c)'
  BY <1>1, <1>2, <1>8, <1>11 DEF ClientInv, moves
<1>13. step(c) /\ moves(c)'
  BY <1>1 DEF step, moves
<1>14. load.present <= Len(arrays'[current'])
  BY <1>1, <1>7 DEF TreeInv
<1>15. TreeInv'
  BY <1>1, <1>6, <1>7, <1>9, <1>12, <1>13, <1>14, StepKeeps
<1>16. \A t \in Nat : contents(t)' = contents(t)
  BY <1>7 DEF contents, contentsOf, holdersIn
<1> QED
  BY <1>15, <1>16

LEMMA MoveKeeps ==
  ASSUME TreeInv, NEW c \in Client, move(c)
  PROVE  TreeInv' /\ \A t \in Nat : contents(t)' = contents(t)
<1> DEFINE m   == moved[c]
           k   == m + 1
           tgt == target[c]
           len == Len(arrays[current])
<1>1. pc[c] = "move" /\ moves(c)
  BY DEF move, moves
<1>2. /\ array[c] = current /\ load.workers \subseteq {c} /\ c \in load.workers
      /\ Moving(arrays, current, tgt, m) /\ call[c].type < Len(arrays[tgt])
      /\ m < len /\ InsertCalled(c)
  BY <1>1 DEF TreeInv, ClientInv, Alone
<1>3. isVector(arrays) /\ current \in DOMAIN arrays /\ len \in Nat /\ m \in Nat
  <2>1. isVector(arrays) /\ current \in DOMAIN arrays
    BY DEF TreeInv
  <2>2. len \in Nat
    BY <2>1, VectorFacts
  <2>3. m \in 0..len
    BY <1>2 DEF Moving
  <2> QED
    BY <2>1, <2>2, <2>3
<1>4. /\ arrays' = [arrays EXCEPT ![tgt][k] = arrays[current][k], ![current][k] = MovedFrom]
      /\ moved'[c] = k /\ pc'[c] = IF k = len THEN "publish" ELSE "move"
      /\ UNCHANGED <<load, current, call, array, target>>
  BY <1>2 DEF move, goto, TreeInv
<1>5. tgt \in DOMAIN arrays
  BY <1>2 DEF Moving
<1> HIDE DEF m
<1>6. /\ isVector(arrays') /\ Len(arrays') = Len(arrays)
      /\ \A b \in DOMAIN arrays : Len(arrays'[b]) = Len(arrays[b])
      /\ Moving(arrays', current, tgt, k)
      /\ \A t \in Nat : contentsOf(arrays', t) = contentsOf(arrays, t)
  <2> DEFINE vec2 == movedStore(arrays, current, tgt, m + 1)
  <2> HIDE DEF tgt
  <2>1. /\ isVector(vec2) /\ Len(vec2) = Len(arrays)
        /\ \A b \in DOMAIN arrays : Len(vec2[b]) = Len(arrays[b])
        /\ Moving(vec2, current, tgt, m + 1)
        /\ \A t \in Nat : contentsOf(vec2, t) = contentsOf(arrays, t)
    BY <1>2, <1>3, StoreMoves
  <2>2. arrays' = vec2
    BY <1>4 DEF movedStore
  <2> HIDE DEF vec2
  <2> QED
    BY <2>1, <2>2
<1>7. InsertCalled(c)'
  BY <1>2, <1>4 DEF InsertCalled, used
<1>8. Len(arrays'[current]) = len /\ Len(arrays'[tgt]) = Len(arrays[tgt])
  BY <1>3, <1>5, <1>6
<1>9. k # len => k < len
  BY <1>2, <1>3
<1>10. moves(c)'
  BY <1>4 DEF moves
<1> HIDE DEF tgt, k, len
<1>11. Alone(c)'
  <2>1. k = len => pc'[c] = "publish"
    BY <1>4
  <2>2. k # len => pc'[c] = "move"
    BY <1>4
  <2>3. target'[c] = tgt /\ array'[c] = current /\ current' = current /\ load' = load
    BY <1>2, <1>4 DEF tgt
  <2>4. call'[c].type < Len(arrays'[tgt])
    BY <1>2, <1>4, <1>8
  <2> QED
    BY <1>2, <1>4, <1>6, <1>8, <1>9, <2>1, <2>2, <2>3, <2>4 DEF Alone
<1>12. ClientInv(c)'
  <2>1. pc'[c] \in {"move", "publish"}
    BY <1>4
  <2> QED
    BY <1>2, <1>4, <1>7, <1>11, <2>1 DEF ClientInv
<1>13. step(c) /\ current' \in DOMAIN arrays'
  BY <1>4, <1>6 DEF step, Moving
<1>14. load.present <= Len(arrays'[current'])
  BY <1>4, <1>8 DEF TreeInv, len
<1>15. TreeInv'
  BY <1>2, <1>6, <1>10, <1>12, <1>13, <1>14, StepKeeps
<1>16. \A t \in Nat : contents(t)' = contents(t)
  BY <1>6 DEF contents, contentsOf, holdersIn
<1> QED
  BY <1>15, <1>16

LEMMA PublishKeeps ==
  ASSUME TreeInv, NEW c \in Client, publish(c) PROVE TreeInv'
<1> DEFINE tgt == target[c]
           len == Len(arrays[current])
<1>1. pc[c] = "publish" /\ moves(c)
  BY DEF publish, moves
<1>2. /\ load.workers \subseteq {c} /\ c \in load.workers
      /\ Moving(arrays, current, tgt, len) /\ call[c].type < Len(arrays[tgt])
      /\ InsertCalled(c)
  BY <1>1 DEF TreeInv, ClientInv, Alone
<1>3. /\ UNCHANGED <<load, arrays, call>> /\ current' = tgt /\ array'[c] = tgt /\ pc'[c] = "insert"
  BY DEF publish, goto, TreeInv
<1>4. isVector(arrays) /\ current \in DOMAIN arrays /\ tgt \in DOMAIN arrays
      /\ len < Len(arrays[tgt]) /\ current # tgt
  BY <1>2 DEF TreeInv, Moving
<1>5. len \in Nat /\ Len(arrays[tgt]) \in Nat
  BY <1>4, VectorFacts
<1>6. Settled(arrays, tgt)
  <2> SUFFICES ASSUME NEW a \in DOMAIN arrays, NEW k \in DOMAIN arrays[a]
               PROVE  arrays[a][k] # <<>> <=> a = tgt
    BY DEF Settled
  <2>1. arrays[a][k] # <<>> <=> (a = tgt /\ (k <= len \/ k > len)) \/ (a = current /\ k > len)
    BY <1>2 DEF Moving
  <2>2. DOMAIN arrays[a] = 1..Len(arrays[a]) /\ Len(arrays[a]) \in Nat
    BY <1>4, VectorFacts
  <2>3. k \in Nat /\ k <= Len(arrays[a])
    BY <2>2
  <2>4. k <= len \/ k > len
    BY <1>5, <2>3
  <2>5. a = current => ~(k > len)
    BY <1>5, <2>3
  <2> HIDE DEF len, tgt
  <2> QED
    BY <1>4, <2>1, <2>4, <2>5
<1>7. InsertCalled(c)'
  BY <1>2, <1>3 DEF InsertCalled, used
<1>8. ClientInv(c)'
  BY <1>2, <1>3, <1>7 DEF ClientInv, moves
<1>9. load.present <= Len(arrays[tgt])
  <2>1. load.present \in Nat /\ load.present <= len
    BY LoadFacts DEF TreeInv
  <2> HIDE DEF tgt, len
  <2> QED
    BY <1>4, <1>5, <2>1
<1>10. step(c)
  BY DEF step
<1> HIDE DEF tgt
<1> QED
  BY <1>2, <1>3, <1>4, <1>6, <1>8, <1>9, <1>10, StepKeeps

(* A value has one place in a table.                                       *)
LEMMA IdentifierOf ==
  ASSUME NEW s \in Tables, s # <<>>, NEW v \in Value, v \in Range(s)
  PROVE  /\ (CHOOSE i \in DOMAIN s : s[i] = v) - 1 = CHOOSE i \in DOMAIN Tail(s) : Tail(s)[i] = v
         /\ (CHOOSE i \in DOMAIN Tail(s) : Tail(s)[i] = v) \in DOMAIN Tail(s)
         /\ Tail(s)[CHOOSE i \in DOMAIN Tail(s) : Tail(s)[i] = v] = v
         /\ \A n \in DOMAIN Tail(s) :
              Tail(s)[n] = v => n = CHOOSE i \in DOMAIN Tail(s) : Tail(s)[i] = v
<1> DEFINE i == CHOOSE n \in DOMAIN s : s[n] = v
           j == CHOOSE n \in DOMAIN Tail(s) : Tail(s)[n] = v
<1>1. i \in DOMAIN s /\ s[i] = v
  BY DEF Range
<1>2. v \in Range(Tail(s))
  BY TableTail
<1>3. j \in DOMAIN Tail(s) /\ Tail(s)[j] = v
  BY <1>2 DEF Range
<1> HIDE DEF i, j
<1>4. /\ Len(s) \in Nat /\ DOMAIN s = 1..Len(s) /\ DOMAIN Tail(s) = 1..Len(s) - 1
      /\ \A n \in 1..Len(s) - 1 : n + 1 \in 1..Len(s) /\ Tail(s)[n] = s[n + 1]
      /\ \A n1, n2 \in 1..Len(s) : s[n1] = s[n2] => n1 = n2
  <2>1. /\ Len(s) \in Nat /\ DOMAIN s = 1..Len(s)
        /\ \A n1, n2 \in 1..Len(s) : s[n1] = s[n2] => n1 = n2
    BY TableFacts
  <2>2. /\ DOMAIN Tail(s) = 1..Len(s) - 1
        /\ \A n \in 1..Len(s) - 1 : n + 1 \in 1..Len(s) /\ Tail(s)[n] = s[n + 1]
    BY TableTail
  <2> QED
    BY <2>1, <2>2
<1>5. i = j + 1
  BY <1>1, <1>3, <1>4
<1>6. j \in Nat
  BY <1>3, <1>4
<1>7. i - 1 = j
  BY <1>5, <1>6
<1>8. \A n \in DOMAIN Tail(s) : Tail(s)[n] = v => n = j
  <2>1. \A n \in 1..Len(s) - 1 : n + 1 = j + 1 => n = j
    BY <1>6
  <2> QED
    BY <1>1, <1>4, <1>5, <2>1
<1> QED
  BY <1>3, <1>7, <1>8 DEF i, j

(* The data that are put over a chunk, and the bytes between.              *)
LEMMA CopiesAreModified ==
  ASSUME NEW chunk \in Value, NEW o \in 0..MaxLen, NEW d \in Value, o + Len(d) <= MaxLen,
         NEW copy \in copies(chunk, o, d)
  PROVE  copy \in Value /\ copy \in Abstract!Modified(chunk, o, d)
<1> DEFINE n == IF o + Len(d) > Len(chunk) THEN o + Len(d) ELSE Len(chunk)
<1>1. /\ Len(d) \in 1..MaxLen /\ Len(chunk) \in 1..MaxLen /\ MaxLen \in Nat
      /\ d \in Seq(Byte) /\ chunk \in Seq(Byte)
      /\ DOMAIN d = 1..Len(d) /\ DOMAIN chunk = 1..Len(chunk)
  BY ValueFacts, TreeStoreAssumption
<1>2. n \in 1..MaxLen /\ n >= o + Len(d) /\ n >= Len(chunk) /\ o \in Nat /\ n \in Nat
  BY <1>1
<1>3. PICK stack \in [1..n -> Byte] :
        copy = [k \in 1..n |-> IF k \in o + 1..o + Len(d) THEN d[k - o]
                               ELSE IF k <= Len(chunk) THEN chunk[k] ELSE stack[k]]
  BY DEF copies
<1>len. n = IF o + Len(d) > Len(chunk) THEN o + Len(d) ELSE Len(chunk)
  OBVIOUS
<1> HIDE DEF n
<1>4. \A k \in 1..Len(d) : d[k] \in Byte
  BY <1>1
<1>5. \A k \in 1..Len(chunk) : chunk[k] \in Byte
  BY <1>1
<1>6. \A k \in 1..n : /\ k \in o + 1..o + Len(d) => k - o \in 1..Len(d)
                      /\ k <= Len(chunk) => k \in 1..Len(chunk)
  BY <1>1, <1>2
<1>7. copy \in [1..n -> Byte]
  BY <1>3, <1>4, <1>5, <1>6
<1>8. copy \in Value
  BY <1>2, <1>7 DEF Value
<1>9. Len(copy) = n
  BY <1>2, <1>7
<1>10. ASSUME NEW k \in 1..Len(d) PROVE copy[o + k] = d[k]
  <2>1. o + k \in 1..n /\ o + k \in o + 1..o + Len(d) /\ (o + k) - o = k
    BY <1>1, <1>2
  <2> QED
    BY <1>3, <2>1
<1>11. ASSUME NEW k \in 1..Len(chunk), k \notin o + 1..o + Len(d) PROVE copy[k] = chunk[k]
  <2>1. k \in 1..n /\ k <= Len(chunk)
    BY <1>1, <1>2
  <2> QED
    BY <1>3, <1>11, <2>1
<1> QED
  BY <1>8, <1>9, <1>10, <1>11, <1>len DEF Abstract!Modified

(* The store that an insert or a find works on is whole.                   *)
LEMMA StoreAtHand ==
  ASSUME TreeInv, NEW c \in Client, pc[c] \in {"insert", "find"}
  PROVE  /\ c \in load.workers /\ call[c].type \in used /\ call[c].type \in Nat
         /\ array[c] = current /\ call[c].type < Len(arrays[current])
         /\ isVector(arrays) /\ current \in DOMAIN arrays /\ Settled(arrays, current)
         /\ call[c].type + 1 \in DOMAIN arrays[current]
         /\ store(c) = arrays[current][call[c].type + 1]
         /\ store(c) \in Tables /\ store(c) # <<>>
         /\ contents(call[c].type) = Tail(store(c))
         /\ \A d \in Client : ~moves(d)
<1> DEFINE t == call[c].type
<1>1. /\ c \in load.workers /\ t \in used /\ array[c] = current /\ t < Len(arrays[current])
  BY DEF TreeInv, ClientInv, InsertCalled, FindCalled
<1>2. t \in Nat
  BY <1>1, LoadFacts DEF TreeInv, used
<1>3. /\ isVector(arrays) /\ current \in DOMAIN arrays /\ Settled(arrays, current)
      /\ \A d \in Client : ~moves(d)
  BY <1>1, NobodyMoves DEF TreeInv, moves
<1>4. t + 1 \in DOMAIN arrays[current]
  <2>1. \A n \in Nat : t < n => t + 1 \in 1..n
    BY <1>2
  <2> QED
    BY <1>1, <1>3, <2>1, VectorFacts
<1>5. store(c) = arrays[current][t + 1]
  BY <1>1 DEF store
<1>6. store(c) \in Tables /\ store(c) # <<>>
  BY <1>3, <1>4, <1>5, VectorFacts DEF Settled
<1>7. contents(t) = Tail(store(c))
  <2>1. contentsOf(arrays, t) = Tail(arrays[current][t + 1])
    BY <1>2, <1>3, <1>4, <1>5, <1>6, SettledOneHome, ContentsAre
  <2> QED
    BY <1>5, <2>1, ContentsByArrays
<1> QED
  BY <1>1, <1>2, <1>3, <1>4, <1>5, <1>6, <1>7

(* TypeStore::insert: the identifier that is in the table, or the next.    *)
LEMMA InsertKeeps ==
  ASSUME TreeInv, NEW c \in Client, insert(c) PROVE TreeInv' /\ Abstract!Insert(c)
<1> DEFINE table == [u \in Type |-> contents(u)]
<1>1. PICK t, v, s : t = call[c].type /\ v = call[c].value /\ s = store(c)
  OBVIOUS
<1> DEFINE reply(i, x) == [call EXCEPT ![c] = [op |-> "answer", type |-> t, id |-> i, value |-> x]]
<1>2. /\ pc[c] = "insert" /\ pc'[c] = "ready" /\ UNCHANGED <<load, current>>
  BY DEF insert, goto, TreeInv
<1>3. /\ c \in load.workers /\ t \in used /\ t \in Nat
      /\ array[c] = current /\ isVector(arrays) /\ current \in DOMAIN arrays
      /\ Settled(arrays, current) /\ t + 1 \in DOMAIN arrays[current]
      /\ s = arrays[current][t + 1]
      /\ s \in Tables /\ s # <<>> /\ contents(t) = Tail(s)
      /\ \A d \in Client : ~moves(d)
  BY <1>1, <1>2, StoreAtHand
<1>4. call[c].op = "insert" /\ v \in Value /\ t \in Type /\ Type \subseteq Nat
  BY <1>1, <1>2, <1>3, LoadFacts DEF TreeInv, ClientInv, InsertCalled, used
<1>5. table[t] = contents(t) /\ (v \in Range(s) <=> v \in Range(table[t]))
  <2>1. table[t] = Tail(s)
    BY <1>3, <1>4
  <2> QED
    BY <1>3, <1>4, <2>1, TableTail
<1>6. step(c)
  BY DEF step
<1>7. \A u : contents(u) = contentsOf(arrays, u) /\ contents(u)' = contentsOf(arrays', u)
  BY ContentsByArrays DEF contents, contentsOf, holdersIn
<1> DEFINE place(j) == /\ j \in DOMAIN table[t] /\ table[t][j] = v
                       /\ \A n \in DOMAIN table[t] : table[t][n] = v => n = j
           AbstractInsert ==
      \/ /\ v \in Range(table[t])
         /\ \E j : place(j) /\ call' = reply(j, table'[t][j])
         /\ table' = table
      \/ /\ v \notin Range(table[t])
         /\ table' = [table EXCEPT ![t] = Append(table[t], v)]
         /\ call' = reply(Len(table[t]) + 1, table'[t][Len(table[t]) + 1])
<1>abs. AbstractInsert => Abstract!Insert(c)
  <2>1. /\ call[c].op = "insert" /\ call[c].type = t /\ call[c].value = v
    BY <1>1, <1>4
  <2>2. \A i : Abstract!answer(c, t, i) <=> call' = reply(i, table'[t][i])
    BY Zenon DEF Abstract!answer
  <2>3. Abstract!Range(table[t]) = Range(table[t])
    BY DEF Abstract!Range, Range
  <2>4. ASSUME v \in Range(table[t]), NEW j, place(j), call' = reply(j, table'[t][j]), table' = table
        PROVE  Abstract!Insert(c)
    <3> DEFINE chosen == CHOOSE i \in DOMAIN table[call[c].type] : table[call[c].type][i] = call[c].value
    <3>1. chosen = j
      <4> HIDE DEF table
      <4> QED
        BY <2>1, <2>4
    <3>2. Abstract!answer(c, t, chosen)
      BY <2>2, <2>4, <3>1, Zenon
    <3> QED
      BY <2>1, <2>3, <2>4, <3>2, Zenon DEF Abstract!Insert
  <2>5. ASSUME v \notin Range(table[t]), table' = [table EXCEPT ![t] = Append(table[t], v)],
               call' = reply(Len(table[t]) + 1, table'[t][Len(table[t]) + 1])
        PROVE  Abstract!Insert(c)
    <3>1. Abstract!answer(c, t, Len(table[t]) + 1)
      BY ONLY <2>2, <2>5, Zenon
    <3> QED
      BY ONLY <2>1, <2>3, <2>5, <3>1, Zenon DEF Abstract!Insert
  <2> QED
    BY <2>4, <2>5
<1>8. CASE v \in Range(s)
  <2> DEFINE j == CHOOSE n \in DOMAIN Tail(s) : Tail(s)[n] = v
  <2>1. arrays' = arrays /\ call' = reply((CHOOSE i \in DOMAIN s : s[i] = v) - 1, v)
    BY <1>1, <1>8 DEF insert, answer
  <2>2. (CHOOSE i \in DOMAIN s : s[i] = v) - 1 = j /\ j \in DOMAIN Tail(s) /\ Tail(s)[j] = v
        /\ \A n \in DOMAIN Tail(s) : Tail(s)[n] = v => n = j
    BY <1>3, <1>4, <1>8, IdentifierOf
  <2>3. call'[c].op = "answer"
    BY <2>1 DEF TreeInv
  <2>4. ClientInv(c)'
    BY <1>2, <1>3, <2>3 DEF ClientInv, moves
  <2>5. TreeInv'
    BY <1>2, <1>3, <1>6, <2>1, <2>4, StepKeeps DEF TreeInv
  <2>6. table' = table
    BY <1>7, <2>1
  <2>7. table[t] = Tail(s)
    BY <1>3, <1>5
  <2>8. call' = reply(j, table'[t][j]) /\ place(j)
    BY <2>1, <2>2, <2>6, <2>7
  <2> HIDE DEF j, table
  <2>9. Abstract!Insert(c)
    <3>1. v \in Range(table[t])
      BY <1>5, <1>8
    <3> HIDE DEF place, reply
    <3>2. \E i : place(i) /\ call' = reply(i, table'[t][i])
      BY <2>8
    <3>3. AbstractInsert
      BY <2>6, <3>1, <3>2, Zenon
    <3> HIDE DEF AbstractInsert
    <3> QED
      BY <1>abs, <3>3
  <2> QED
    BY <2>5, <2>9
<1>9. CASE v \notin Range(s)
  <2>1. arrays' = setStore(arrays, current, t + 1, Append(arrays[current][t + 1], v))
        /\ call' = reply(Len(s), v)
    BY <1>1, <1>3, <1>9 DEF insert, answer, setStore
  <2>2. /\ isVector(arrays') /\ DOMAIN arrays' = DOMAIN arrays
        /\ Len(arrays'[current]) = Len(arrays[current]) /\ Settled(arrays', current)
        /\ contentsOf(arrays', t) = Append(contentsOf(arrays, t), v)
        /\ \A u \in Nat : u # t => contentsOf(arrays', u) = contentsOf(arrays, u)
    <3>1. /\ isVector(arrays) /\ current \in DOMAIN arrays /\ Settled(arrays, current)
          /\ t \in Nat /\ t + 1 \in DOMAIN arrays[current]
          /\ v \in Value /\ v \notin Range(arrays[current][t + 1])
      BY <1>3, <1>4, <1>9
    <3> DEFINE vec2 == setStore(arrays, current, t + 1, Append(arrays[current][t + 1], v))
    <3>2. /\ isVector(vec2) /\ DOMAIN vec2 = DOMAIN arrays /\ Len(vec2[current]) = Len(arrays[current])
          /\ Settled(vec2, current)
          /\ contentsOf(vec2, t) = Append(contentsOf(arrays, t), v)
          /\ \A u \in Nat : u # t => contentsOf(vec2, u) = contentsOf(arrays, u)
      BY ONLY <3>1, StoreGains
    <3> HIDE DEF vec2
    <3>3. arrays' = vec2
      BY <2>1 DEF vec2
    <3> QED
      BY ONLY <3>2, <3>3
  <2>3. contents(t)' = Append(contents(t), v) /\ \A u \in Nat : u # t => contents(u)' = contents(u)
    BY <1>7, <2>2
  <2>4. /\ contents(t) \in Seq(Value) /\ Len(contents(t)) \in Nat
        /\ Len(contents(t)) + 1 = Len(s)
    <3>1. Tail(s) \in Seq(Value) /\ Len(Tail(s)) = Len(s) - 1
      BY <1>3, TableTail
    <3>2. Len(s) \in Nat
      BY <1>3, TableFacts
    <3> QED
      BY <1>3, <3>1, <3>2
  <2>5. DOMAIN contents(t) \subseteq DOMAIN contents(t)' /\ contents(t)'[Len(contents(t)) + 1] = v
    <3>1. \A q \in Seq(Value) : /\ DOMAIN q \subseteq DOMAIN Append(q, v)
                                /\ Append(q, v)[Len(q) + 1] = v
      BY <1>4
    <3> QED
      BY <2>3, <2>4, <3>1
  <2>6. \A u \in Nat : DOMAIN contents(u) \subseteq DOMAIN contents(u)'
    BY <2>3, <2>5
  <2>7. call'[c].op = "answer"
    BY <2>1 DEF TreeInv
  <2>8. ClientInv(c)'
    BY <1>2, <1>3, <2>7 DEF ClientInv, moves
  <2>9. /\ isVector(arrays') /\ current' \in DOMAIN arrays' /\ Settled(arrays', current')
        /\ current' = current /\ Len(arrays'[current]) = Len(arrays[current])
        /\ load.present <= Len(arrays'[current'])
    BY <1>2, <1>3, <2>2 DEF TreeInv
  <2>10. TreeInv'
    BY <1>3, <1>6, <2>6, <2>8, <2>9, StepKeeps
  <2>11. table' = [u \in Type |-> contents(u)']
    OBVIOUS
  <2>12. table' = [table EXCEPT ![t] = Append(@, v)] /\ table'[t] = contents(t)'
    BY <1>4, <2>3, <2>11
  <2>13. call' = reply(Len(table[t]) + 1, table'[t][Len(table[t]) + 1])
    BY <1>5, <2>1, <2>4, <2>5, <2>12
  <2> HIDE DEF table
  <2>14. Abstract!Insert(c)
    <3>1. v \notin Range(table[t])
      BY <1>5, <1>9
    <3> HIDE DEF place, reply
    <3>2. AbstractInsert
      BY <2>12, <2>13, <3>1
    <3> HIDE DEF AbstractInsert
    <3> QED
      BY <1>abs, <3>2
  <2> QED
    BY <2>10, <2>14
<1> QED
  BY <1>8, <1>9

(* TypeStore::find: the identifier is in the table.                        *)
LEMMA FindKeeps ==
  ASSUME TreeInv, NEW c \in Client, find(c)
  PROVE  TreeInv' /\ (Abstract!Find(c) \/ Abstract!Cam(c))
<1> DEFINE t     == call[c].type
           id    == call[c].id
           table == [u \in Type |-> contents(u)]
           found == store(c)[id + 1]
<1>1. pc[c] = "find" /\ UNCHANGED <<load, arrays, current, array, target, moved>>
  BY DEF find
<1>2. /\ c \in load.workers /\ t \in used /\ t \in Nat
      /\ array[c] = current /\ t < Len(arrays[current]) /\ Settled(arrays, current)
      /\ store(c) \in Tables /\ store(c) # <<>> /\ contents(t) = Tail(store(c))
  BY <1>1, StoreAtHand
<1>3. FindCalled(c)
  BY <1>1 DEF TreeInv, ClientInv
<1>4. /\ id \in DOMAIN contents(t) /\ id < Len(store(c))
      /\ found = contents(t)[id] /\ found \in Value
  <2>1. id \in DOMAIN contents(t)
    BY <1>3 DEF FindCalled
  <2>2. id \in 1..Len(store(c)) - 1 /\ Len(store(c)) \in Nat
    BY <1>2, <2>1, TableTail, TableFacts
  <2>3. id + 1 \in 2..Len(store(c)) /\ id < Len(store(c))
    BY <2>2
  <2>4. Tail(store(c))[id] = store(c)[id + 1]
    BY <1>2, <2>2, TableTail
  <2>5. store(c)[id + 1] \in Value
    BY <1>2, <2>3, TableFacts
  <2> QED
    BY <1>2, <2>1, <2>3, <2>4, <2>5
<1>5. known(c)
  BY <1>2, <1>4, NullIsNoValue DEF known
<1>6. table' = table /\ table[t] = contents(t) /\ t \in Type
  <2>1. t \in Type
    BY <1>2, LoadFacts DEF TreeInv, used
  <2>2. \A u : contents(u)' = contents(u)
    BY <1>1 DEF contents
  <2> QED
    BY <2>1, <2>2
<1>7. step(c)
  BY DEF step
<1> HIDE DEF found
<1>8. CASE call[c].op = "find"
  <2>1. call' = [call EXCEPT ![c] = [op |-> "answer", type |-> t, id |-> id, value |-> found]]
        /\ pc' = [pc EXCEPT ![c] = "ready"]
    BY <1>5, <1>8 DEF find, goto, answer, found
  <2>2. pc'[c] = "ready" /\ call'[c].op = "answer"
    BY <2>1 DEF TreeInv
  <2>3. ClientInv(c)'
    BY <1>1, <1>2, <2>2 DEF ClientInv, moves
  <2>4. TreeInv'
    BY <1>1, <1>2, <1>7, <2>3, StepKeeps DEF TreeInv
  <2>5. Abstract!Find(c)
    BY <1>4, <1>6, <1>8, <2>1 DEF Abstract!Find, Abstract!answer
  <2> QED
    BY <2>4, <2>5
<1>9. CASE call[c].op = "cam"
  <2>1. PICK copy \in copies(found, call[c].offset, call[c].data) :
          call' = [call EXCEPT ![c] = [op |-> "insert", type |-> t, value |-> copy]]
    BY <1>5, <1>9 DEF find, found
  <2>2. pc' = [pc EXCEPT ![c] = "size"]
    BY <1>5, <1>9 DEF find, goto
  <2>3. copy \in Value /\ copy \in Abstract!Modified(found, call[c].offset, call[c].data)
    BY <1>3, <1>4, <1>9, CopiesAreModified DEF FindCalled
  <2>4. pc'[c] = "size" /\ call'[c] = [op |-> "insert", type |-> t, value |-> copy]
    BY <2>1, <2>2 DEF TreeInv
  <2>5. InsertCalled(c)'
    BY <1>1, <1>2, <2>3, <2>4 DEF InsertCalled, used
  <2>6. ClientInv(c)'
    BY <1>1, <1>2, <2>4, <2>5 DEF ClientInv, moves
  <2>7. TreeInv'
    BY <1>1, <1>2, <1>7, <2>6, StepKeeps DEF TreeInv
  <2>8. Abstract!Cam(c)
    BY <1>4, <1>6, <1>9, <2>1, <2>3 DEF Abstract!Cam
  <2> QED
    BY <2>7, <2>8
<1> QED
  BY <1>3, <1>8, <1>9 DEF FindCalled

-----------------------------------------------------------------------------
(* Requests are requests of Interning ...                                  *)
LEMMA RequestIsAbstract ==
  ASSUME TreeInv, NEW c \in Client,
         pins_chunk_put(c) \/ pins_chunk_get(c) \/ pins_chunk_cam(c)
  PROVE  Abstract!Request(c)
<1> DEFINE table == [t \in Type |-> contents(t)]
           to(req) == call' = [call EXCEPT ![c] = req]
<1>1. used \subseteq Type
  BY LoadFacts DEF TreeInv, used
<1>2. call[c].op \in {"idle", "answer"} /\ UNCHANGED arrays
  BY DEF pins_chunk_put, pins_chunk_get, pins_chunk_cam, ask, TreeInv, ClientInv
<1>3. UNCHANGED table
  BY <1>2 DEF contents
<1>4. ASSUME NEW t \in Type,
             \/ \E v \in Value : to([op |-> "insert", type |-> t, value |-> v])
             \/ \E i \in DOMAIN contents(t) : to([op |-> "find", type |-> t, id |-> i])
             \/ \E i \in DOMAIN contents(t), o \in 0..MaxLen, v \in Value :
                  to([op |-> "cam", type |-> t, id |-> i, offset |-> o, data |-> v])
      PROVE  Abstract!Request(c)
  <2>1. table[t] = contents(t)
    OBVIOUS
  <2> QED
    BY <1>2, <1>3, <1>4, <2>1, Zenon DEF Abstract!Request
<1>5. CASE pins_chunk_put(c)
  <2>1. PICK t \in used, v \in Value : to([op |-> "insert", type |-> t, value |-> v])
    BY <1>5 DEF pins_chunk_put, ask
  <2> QED
    BY <1>1, <1>4, <2>1
<1>6. CASE pins_chunk_get(c)
  <2>1. PICK t \in used : \E i \in DOMAIN contents(t) : to([op |-> "find", type |-> t, id |-> i])
    BY <1>6 DEF pins_chunk_get, ask
  <2> QED
    BY <1>1, <1>4, <2>1
<1>7. CASE pins_chunk_cam(c)
  <2>1. PICK t \in used, o \in 0..MaxLen, v \in Value : \E i \in DOMAIN contents(t) :
          to([op |-> "cam", type |-> t, id |-> i, offset |-> o, data |-> v])
    BY <1>7 DEF pins_chunk_cam, ask
  <2> QED
    BY <1>1, <1>4, <2>1
<1> QED
  BY <1>5, <1>6, <1>7

(* ... and the steps of a resize cannot be seen.                           *)
LEMMA UnseenSteps ==
  ASSUME UNCHANGED call, \A t \in Nat : contents(t)' = contents(t)
  PROVE  UNCHANGED Abstract!vars
<1>1. Type \subseteq Nat
  BY TreeStoreAssumption DEF Type
<1>2. [t \in Type |-> contents(t)]' = [t \in Type |-> contents(t)]
  <2>1. \A t \in Type : contents(t)' = contents(t)
    BY <1>1
  <2> QED
    BY <2>1
<1> QED
  BY <1>2 DEF Abstract!vars

LEMMA TreeStep ==
  ASSUME GrowsAlone, TreeInv, NEW c \in Client, step(c)
  PROVE  TreeInv' /\ [Abstract!Next]_(Abstract!vars)
<1>1. CASE pins_chunk_put(c) \/ pins_chunk_get(c) \/ pins_chunk_cam(c)
  BY <1>1, RequestKeeps, RequestIsAbstract DEF Abstract!Next
<1>2. CASE fits(c)
  <2>1. UNCHANGED call /\ \A t : contents(t)' = contents(t)
    BY <1>2 DEF fits, contents
  <2> QED
    BY <1>2, <2>1, FitsKeeps, UnseenSteps
<1>3. CASE grow(c)
  <2>1. UNCHANGED call
    BY <1>3 DEF grow
  <2> QED
    BY <1>3, <2>1, GrowKeeps, UnseenSteps
<1>4. CASE move(c)
  <2>1. UNCHANGED call
    BY <1>4 DEF move
  <2> QED
    BY <1>4, <2>1, MoveKeeps, UnseenSteps
<1>5. CASE publish(c)
  <2>1. UNCHANGED call /\ \A t : contents(t)' = contents(t)
    BY <1>5 DEF publish, contents
  <2> QED
    BY <1>5, <2>1, PublishKeeps, UnseenSteps
<1>6. CASE insert(c)
  BY <1>6, InsertKeeps DEF Abstract!Next
<1>7. CASE find(c)
  BY <1>7, FindKeeps DEF Abstract!Next
<1> QED
  BY <1>1, <1>2, <1>3, <1>4, <1>5, <1>6, <1>7 DEF step

LEMMA TreeStutter == TreeInv /\ UNCHANGED vars => TreeInv' /\ UNCHANGED Abstract!vars
<1> SUFFICES ASSUME TreeInv, UNCHANGED vars PROVE TreeInv' /\ UNCHANGED Abstract!vars
  OBVIOUS
<1> USE DEF vars
<1>1. \A t : contents(t)' = contents(t)
  BY DEF contents
<1>2. UNCHANGED Abstract!vars
  BY <1>1, UnseenSteps
<1>3. \A c \in Client : ClientInv(c)'
  <2> SUFFICES ASSUME NEW c \in Client PROVE ClientInv(c)'
    OBVIOUS
  <2>1. ClientInv(c)
    BY DEF TreeInv
  <2>2. /\ moves(c)' <=> moves(c)
        /\ InsertCalled(c)' <=> InsertCalled(c)
        /\ FindCalled(c)' <=> FindCalled(c)
        /\ Alone(c)' <=> Alone(c)
    BY DEF moves, InsertCalled, FindCalled, Alone, used, contents
  <2> QED
    BY <2>1, <2>2 DEF ClientInv
<1>4. (\A c \in Client : ~moves(c))' <=> \A c \in Client : ~moves(c)
  BY DEF moves
<1> QED
  BY <1>2, <1>3, <1>4 DEF TreeInv

LEMMA TreeInvariant == ASSUME GrowsAlone PROVE Spec => []TreeInv
<1>1. TreeInv /\ [Next]_vars => TreeInv'
  BY TreeStep, TreeStutter DEF Next
<1> QED
  BY <1>1, TreeInit, PTL DEF Spec

(* As long as a vector that grows has one worker, TypeStore::find never    *)
(* meets an identifier that is not in its table, for any number of         *)
(* workers, types and values: the assertion of line 215 holds although the *)
(* vector has no lock.                                                     *)
THEOREM IdentifiersAreFound == ASSUME GrowsAlone PROVE Spec => []FindSucceeds
<1>1. TreeInv => FindSucceeds
  BY DEF TreeInv, ClientInv, FindSucceeds
<1> QED
  BY <1>1, TreeInvariant, PTL

(* Under the same condition the stores implement Interning: whatever the   *)
(* order of inserts, finds, copies and the moves of a resize, a value has  *)
(* one identifier for ever, an identifier names one value, and every call  *)
(* is answered as if the store were one table that answers in one step.    *)
THEOREM StoresIntern == ASSUME GrowsAlone PROVE Spec => ImplementsInterning
<1>1. Init => Abstract!Init
  <2> SUFFICES ASSUME Init PROVE Abstract!Init
    OBVIOUS
  <2>1. isVector(arrays)
    BY TreeInit DEF TreeInv
  <2>2. \A a \in DOMAIN arrays : \A k \in DOMAIN arrays[a] : arrays[a][k] = <<Null>>
    <3>1. PICK row : row = [k \in 1..load.present |-> <<Null>>] /\ arrays = <<row>>
      BY DEF Init, TypeStore
    <3>2. \A k \in DOMAIN row : row[k] = <<Null>>
      BY <3>1
    <3>3. DOMAIN arrays = {1} /\ arrays[1] = row
      BY <3>1
    <3> QED
      BY <3>2, <3>3
  <2>3. Type \subseteq Nat
    BY TreeStoreAssumption DEF Type
  <2>4. \A t \in Type : contents(t) = <<>>
    BY <2>1, <2>2, <2>3, ContentsNone, ContentsByArrays
  <2> QED
    BY <2>4 DEF Init, Abstract!Init
<1>2. TreeInv /\ [Next]_vars => [Abstract!Next]_(Abstract!vars)
  BY TreeStep, TreeStutter DEF Next
<1> QED
  BY <1>1, <1>2, TreeInvariant, PTL DEF Spec, ImplementsInterning, Abstract!Spec
=============================================================================
