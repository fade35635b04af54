------------------------------ MODULE Interning ------------------------------
(***************************************************************************)
(* What a store of chunks and states promises: per type, a value gets one  *)
(* identifier, an identifier names one value for ever, and a client that   *)
(* asks gets the right answer.  A call answers in one step.                *)
(***************************************************************************)
EXTENDS Naturals, Sequences, SequencesExt

CONSTANTS Client, Type, Offset,
          Value     \* sequences of bytes

VARIABLES table,    \* type -> its values; the identifier is the position
          call      \* client -> what it asks for, or the last answer

vars == <<table, call>>

Init == table = [t \in Type |-> <<>>] /\ call = [c \in Client |-> [op |-> "idle"]]

(* A copy of chunk with the bytes from offset on replaced by those of data. *)
Modified(chunk, offset, data) ==
  {copy \in Value :
     /\ Len(copy) = IF offset + Len(data) > Len(chunk) THEN offset + Len(data) ELSE Len(chunk)
     /\ \A k \in 1..Len(data) : copy[offset + k] = data[k]
     /\ \A k \in 1..Len(chunk) : k \notin offset + 1..offset + Len(data) => copy[k] = chunk[k]}

Request(c) ==
  /\ call[c].op \in {"idle", "answer"}
  /\ \E t \in Type :
       \/ \E v \in Value : call' = [call EXCEPT ![c] = [op |-> "insert", type |-> t, value |-> v]]
       \/ \E i \in DOMAIN table[t] : call' = [call EXCEPT ![c] = [op |-> "find", type |-> t, id |-> i]]
       \/ \E i \in DOMAIN table[t], o \in Offset, v \in Value :
            call' = [call EXCEPT ![c] = [op |-> "cam", type |-> t, id |-> i, offset |-> o, data |-> v]]
  /\ UNCHANGED table

answer(c, t, i) ==
  call' = [call EXCEPT ![c] = [op |-> "answer", type |-> t, id |-> i, value |-> table'[t][i]]]

Insert(c) ==
  /\ call[c].op = "insert"
  /\ LET t == call[c].type  v == call[c].value IN
       IF v \in Range(table[t])
       THEN /\ answer(c, t, CHOOSE i \in DOMAIN table[t] : table[t][i] = v)
            /\ UNCHANGED table
       ELSE /\ table' = [table EXCEPT ![t] = Append(@, v)]
            /\ answer(c, t, Len(table[t]) + 1)

Find(c) ==
  /\ call[c].op = "find"
  /\ answer(c, call[c].type, call[c].id)
  /\ UNCHANGED table

(* Copy and modify: the copy is inserted. *)
Cam(c) ==
  /\ call[c].op = "cam"
  /\ \E copy \in Modified(table[call[c].type][call[c].id], call[c].offset, call[c].data) :
       call' = [call EXCEPT ![c] = [op |-> "insert", type |-> call[c].type, value |-> copy]]
  /\ UNCHANGED table

Next == \E c \in Client : Request(c) \/ Insert(c) \/ Find(c) \/ Cam(c)

Spec == Init /\ [][Next]_vars
=============================================================================
