---------------------------- MODULE SSGenST_proofs ----------------------------
(***************************************************************************)
(* The breadth-first search of one thread, for any state space whose       *)
(* states have a bounded number of transitions.                            *)
(***************************************************************************)
EXTENDS SSGenST, FiniteSetTheorems, TLAPS

(* Sequences without repetitions, and what the queues' operations do.      *)
distinct(q) == \A i, j \in 1..Len(q) : q[i] = q[j] => i = j

LEMMA BoundedTail ==
  ASSUME NEW q \in BoundedSeq(State, MaxTransitions)
  PROVE  /\ q \in Seq(State)
         /\ q # <<>> => Tail(q) \in BoundedSeq(State, MaxTransitions)
<1>1. PICK m \in 0..MaxTransitions : q \in [1..m -> State]
  BY DEF BoundedSeq, SeqOf
<1>2. q \in Seq(State) /\ Len(q) = m
  BY <1>1, SSGenSTAssumption
<1>3. ASSUME q # <<>>
      PROVE  Tail(q) \in BoundedSeq(State, MaxTransitions)
  <2>1. Tail(q) \in Seq(State) /\ Len(Tail(q)) = m - 1 /\ m > 0
    BY <1>2, <1>3
  <2>2. m - 1 \in 0..MaxTransitions
    BY <2>1, SSGenSTAssumption
  <2>3. \A r \in Seq(State) : r \in [1..Len(r) -> State]
    OBVIOUS
  <2>4. Tail(q) \in [1..m - 1 -> State]
    BY <2>1, <2>3
  <2> QED
    BY <2>2, <2>4 DEF BoundedSeq, SeqOf
<1> QED
  BY <1>2, <1>3

LEMMA TailRange ==
  ASSUME NEW q \in Seq(State), q # <<>>
  PROVE  /\ Head(q) \in State /\ Tail(q) \in Seq(State)
         /\ Range(q) = {Head(q)} \cup Range(Tail(q))
         /\ distinct(q) => distinct(Tail(q)) /\ Head(q) \notin Range(Tail(q))
<1>1. /\ Len(q) \in Nat \ {0} /\ Head(q) = q[1] /\ Tail(q) \in Seq(State)
      /\ Len(Tail(q)) = Len(q) - 1 /\ \A i \in 1..Len(q) - 1 : Tail(q)[i] = q[i + 1]
      /\ q[1] \in State
  OBVIOUS
<1>2. /\ DOMAIN q = 1..Len(q) /\ DOMAIN Tail(q) = 1..Len(q) - 1
  BY <1>1
<1>3. Range(q) \subseteq {Head(q)} \cup Range(Tail(q))
  <2> SUFFICES ASSUME NEW i \in 1..Len(q), i # 1 PROVE q[i] \in Range(Tail(q))
    BY <1>1, <1>2 DEF Range
  <2>1. i - 1 \in 1..Len(q) - 1 /\ Tail(q)[i - 1] = q[i]
    BY <1>1
  <2> QED
    BY <1>2, <2>1 DEF Range
<1>4. {Head(q)} \cup Range(Tail(q)) \subseteq Range(q)
  <2>1. 1 \in 1..Len(q)
    BY <1>1
  <2>2. \A i \in 1..Len(q) - 1 : i + 1 \in 1..Len(q) /\ Tail(q)[i] = q[i + 1]
    BY <1>1
  <2> QED
    BY <1>1, <1>2, <2>1, <2>2 DEF Range
<1>5. ASSUME distinct(q)
      PROVE  distinct(Tail(q)) /\ Head(q) \notin Range(Tail(q))
  <2>1. \A i \in 1..Len(q) - 1 : i + 1 \in 1..Len(q) /\ i + 1 # 1 /\ Tail(q)[i] = q[i + 1]
    BY <1>1
  <2>2. \A i, j \in 1..Len(q) - 1 : i + 1 = j + 1 => i = j
    BY <1>1
  <2>3. 1 \in 1..Len(q)
    BY <1>1
  <2>4. distinct(Tail(q))
    BY <1>1, <1>5, <2>1, <2>2 DEF distinct
  <2>5. Head(q) \notin Range(Tail(q))
    BY <1>1, <1>2, <1>5, <2>1, <2>3 DEF distinct, Range
  <2> QED
    BY <2>4, <2>5
<1> QED
  BY <1>1, <1>3, <1>4, <1>5

LEMMA AppendRange ==
  ASSUME NEW q \in Seq(State), NEW t \in State
  PROVE  /\ Append(q, t) \in Seq(State)
         /\ Range(Append(q, t)) = Range(q) \cup {t}
         /\ distinct(q) /\ t \notin Range(q) => distinct(Append(q, t))
<1>1. /\ Append(q, t) \in Seq(State) /\ Len(Append(q, t)) = Len(q) + 1 /\ Len(q) \in Nat
      /\ DOMAIN q = 1..Len(q) /\ DOMAIN Append(q, t) = 1..Len(q) + 1
      /\ \A i \in 1..Len(q) : Append(q, t)[i] = q[i]
      /\ Append(q, t)[Len(q) + 1] = t
  OBVIOUS
<1>2. \A i \in 1..Len(q) + 1 : i \in 1..Len(q) \/ i = Len(q) + 1
  BY <1>1
<1>3. \A i \in 1..Len(q) : i \in 1..Len(q) + 1
  BY <1>1
<1>4. Len(q) + 1 \in 1..Len(q) + 1
  BY <1>1
<1>5. Range(Append(q, t)) = Range(q) \cup {t}
  BY <1>1, <1>2, <1>3, <1>4 DEF Range
<1>6. distinct(q) /\ t \notin Range(q) => distinct(Append(q, t))
  BY <1>1, <1>2 DEF Range, distinct
<1> QED
  BY <1>1, <1>5, <1>6

-----------------------------------------------------------------------------
(* The states whose next states were asked for.                            *)
taken == treeStore \ queued

(* Each stored state waits in one place of one queue or was taken, and the *)
(* next states of a taken state are stored or still to be reported.        *)
Queues ==
  /\ queued \subseteq treeStore
  /\ distinct(stateQueue) /\ distinct(stateQueueNew)
  /\ Range(stateQueue) \cap Range(stateQueueNew) = {}

Reported ==
  /\ \A t \in Range(reports) : \E s \in taken : t \in Range(getNextAll[s])
  /\ \A s \in taken : Range(getNextAll[s]) \subseteq treeStore \cup Range(reports)

(* What left the queues was popped once.                                    *)
PoppedOnce == expansions = [s \in State |-> IF s \in taken THEN 1 ELSE 0]

SearchInv == TypeOK /\ Initial \in treeStore /\ Queues /\ Reported /\ PoppedOnce

LEMMA EmptyRange == Range(<<>>) = {}
  BY DEF Range

LEMMA RangeBounded ==
  ASSUME NEW q \in BoundedSeq(State, MaxTransitions)
  PROVE  Range(q) \subseteq State
<1>1. q \in Seq(State)
  BY BoundedTail
<1> QED
  BY <1>1 DEF Range

LEMMA SearchStarts == Init => SearchInv
<1> SUFFICES ASSUME Init PROVE SearchInv
  OBVIOUS
<1>1. <<>> \in BoundedSeq(State, MaxTransitions)
  <2>1. <<>> \in [1..0 -> State] /\ 0 \in 0..MaxTransitions
    BY SSGenSTAssumption
  <2> QED
    BY <2>1 DEF BoundedSeq, SeqOf
<1>2. TypeOK
  BY <1>1, SSGenSTAssumption DEF Init, TypeOK
<1>3. Range(stateQueue) = {Initial} /\ distinct(stateQueue) /\ distinct(stateQueueNew)
  BY DEF Init, Range, distinct
<1>4. Range(stateQueueNew) = {} /\ Range(reports) = {}
  BY EmptyRange DEF Init
<1> QED
  BY <1>2, <1>3, <1>4 DEF Init, SearchInv, Queues, Reported, PoppedOnce, queued, taken

LEMMA PopKeeps == SearchInv /\ pop => SearchInv'
<1> SUFFICES ASSUME SearchInv, pop PROVE SearchInv'
  OBVIOUS
<1>1. /\ stateQueue # <<>> /\ stateQueue' = Tail(stateQueue) /\ reports = <<>>
      /\ reports' = getNextAll[Head(stateQueue)]
      /\ expansions' = [expansions EXCEPT ![Head(stateQueue)] = @ + 1]
      /\ UNCHANGED <<getNextAll, treeStore, stateQueueNew, level, transitions>>
  BY DEF pop
<1>2. TypeOK /\ Queues /\ Reported /\ PoppedOnce /\ Initial \in treeStore
  BY DEF SearchInv
<1>3. /\ Head(stateQueue) \in State /\ Tail(stateQueue) \in Seq(State)
      /\ Range(stateQueue) = {Head(stateQueue)} \cup Range(Tail(stateQueue))
      /\ distinct(Tail(stateQueue)) /\ Head(stateQueue) \notin Range(Tail(stateQueue))
  BY <1>1, <1>2, TailRange DEF TypeOK, Queues
<1>4. TypeOK'
  BY <1>1, <1>2, <1>3 DEF TypeOK
<1>5. Queues'
  BY <1>1, <1>2, <1>3 DEF Queues, queued
<1>6. taken' = taken \cup {Head(stateQueue)}
  BY <1>1, <1>2, <1>3 DEF Queues, queued, taken
<1>7. Range(reports) = {} /\ Range(reports') = Range(getNextAll[Head(stateQueue)])
  BY <1>1, EmptyRange
<1>8. Reported'
  BY <1>1, <1>2, <1>6, <1>7 DEF Reported
<1>9. PoppedOnce'
  <2>1. Head(stateQueue) \notin taken
    BY <1>3 DEF taken, queued
  <2> QED
    BY <1>1, <1>2, <1>3, <1>6, <2>1 DEF PoppedOnce
<1> QED
  BY <1>1, <1>2, <1>4, <1>5, <1>8, <1>9 DEF SearchInv

LEMMA NextLevelKeeps == SearchInv /\ nextLevel => SearchInv'
<1> SUFFICES ASSUME SearchInv, nextLevel PROVE SearchInv'
  OBVIOUS
<1>1. /\ stateQueue' = stateQueueNew /\ stateQueueNew' = stateQueue /\ level' = level + 1
      /\ UNCHANGED <<getNextAll, treeStore, reports, transitions, expansions>>
  BY DEF nextLevel
<1>2. queued' = queued /\ taken' = taken
  BY <1>1 DEF queued, taken
<1>3. TypeOK'
  BY <1>1 DEF SearchInv, TypeOK
<1>4. Queues'
  BY <1>1, <1>2 DEF SearchInv, Queues
<1>5. Reported'
  BY <1>1, <1>2 DEF SearchInv, Reported
<1>6. PoppedOnce'
  BY <1>1, <1>2 DEF SearchInv, PoppedOnce
<1> QED
  BY <1>1, <1>3, <1>4, <1>5, <1>6 DEF SearchInv

LEMMA ReportKeeps == SearchInv /\ reportTransition => SearchInv'
<1> SUFFICES ASSUME SearchInv, reportTransition PROVE SearchInv'
  OBVIOUS
<1> DEFINE t == Head(reports)
<1>1. /\ reports # <<>> /\ reports' = Tail(reports) /\ transitions' = transitions + 1
      /\ UNCHANGED <<getNextAll, stateQueue, level, expansions>>
  BY DEF reportTransition
<1>2. TypeOK /\ Queues /\ Reported /\ PoppedOnce /\ Initial \in treeStore
  BY DEF SearchInv
<1>3. /\ reports \in Seq(State) /\ reports' \in BoundedSeq(State, MaxTransitions)
      /\ t \in State /\ Range(reports) = {t} \cup Range(reports')
  BY <1>1, <1>2, BoundedTail, TailRange DEF TypeOK
<1>4. CASE t \in treeStore
  <2>1. UNCHANGED <<treeStore, stateQueueNew>>
    BY <1>4 DEF reportTransition
  <2>2. taken' = taken /\ queued' = queued
    BY <1>1, <2>1 DEF taken, queued
  <2>3. TypeOK'
    BY <1>1, <1>2, <1>3, <2>1 DEF TypeOK
  <2>4. Queues'
    BY <1>1, <1>2, <2>1, <2>2 DEF Queues
  <2>5. Reported'
    BY <1>1, <1>2, <1>3, <1>4, <2>1, <2>2 DEF Reported
  <2> QED
    BY <1>1, <1>2, <2>1, <2>2, <2>3, <2>4, <2>5 DEF SearchInv, PoppedOnce
<1>5. CASE t \notin treeStore
  <2>1. treeStore' = treeStore \cup {t} /\ stateQueueNew' = Append(stateQueueNew, t)
    BY <1>5 DEF reportTransition
  <2>2. /\ stateQueueNew' \in Seq(State) /\ Range(stateQueueNew') = Range(stateQueueNew) \cup {t}
        /\ distinct(stateQueueNew')
    BY <1>2, <1>3, <1>5, <2>1, AppendRange DEF TypeOK, Queues, queued
  <2>3. taken' = taken
    BY <1>1, <1>2, <1>5, <2>1, <2>2 DEF taken, queued, Queues
  <2>4. TypeOK'
    BY <1>1, <1>2, <1>3, <2>1, <2>2 DEF TypeOK
  <2>5. Queues'
    BY <1>1, <1>2, <1>5, <2>1, <2>2 DEF Queues, queued
  <2>6. Reported'
    BY <1>1, <1>2, <1>3, <2>1, <2>3 DEF Reported
  <2> QED
    BY <1>1, <1>2, <2>1, <2>3, <2>4, <2>5, <2>6 DEF SearchInv, PoppedOnce
<1> QED
  BY <1>4, <1>5

LEMMA SearchStep == SearchInv /\ [Next]_vars => SearchInv'
<1>1. SearchInv /\ UNCHANGED vars => SearchInv'
  BY DEF vars, SearchInv, TypeOK, Queues, Reported, PoppedOnce, queued, taken
<1> QED
  BY <1>1, PopKeeps, NextLevelKeeps, ReportKeeps DEF Next, Stopped

LEMMA SearchInvariant == Spec => []SearchInv
  BY SearchStarts, SearchStep, PTL DEF Spec

(* The variables of the search keep their types.                           *)
THEOREM FrontierTypeCorrect == Spec => []TypeOK
<1>1. SearchInv => TypeOK
  BY DEF SearchInv
<1> QED
  BY <1>1, SearchInvariant, PTL

-----------------------------------------------------------------------------
LEMMA RefinesInit == Init => Abstract!Init
<1> SUFFICES ASSUME Init PROVE Abstract!Init
  OBVIOUS
<1>1. Range(stateQueue) = {Initial} /\ treeStore = {Initial}
  BY DEF Init, Range
<1>2. \A s \in State : Range(getNextAll[s]) \in SUBSET State
  BY RangeBounded DEF Init
<1> QED
  BY <1>1, <1>2 DEF Init, Abstract!Init

LEMMA RefinesStep == SearchInv /\ [Next]_vars => [Abstract!Next]_(Abstract!vars)
<1> SUFFICES ASSUME SearchInv, [Next]_vars
             PROVE  Abstract!Next \/ UNCHANGED Abstract!vars
  OBVIOUS
<1>1. TypeOK /\ Queues /\ Reported /\ PoppedOnce
  BY DEF SearchInv
<1>2. CASE pop
  <2>1. /\ Head(stateQueue) \in State
        /\ Range(stateQueue) = {Head(stateQueue)} \cup Range(Tail(stateQueue))
        /\ Head(stateQueue) \notin Range(Tail(stateQueue))
    BY <1>1, <1>2, TailRange DEF TypeOK, Queues, pop
  <2>2. Head(stateQueue) \in treeStore /\ expansions[Head(stateQueue)] = 0
    BY <1>1, <2>1 DEF taken, queued, Queues, PoppedOnce
  <2>3. Abstract!Take(Head(stateQueue))
    BY <1>2, <2>2 DEF pop, Abstract!Take
  <2> QED
    BY <2>1, <2>3 DEF Abstract!Next
<1>3. CASE nextLevel
  BY <1>3 DEF nextLevel, Abstract!vars
<1>4. CASE reportTransition
  <2> DEFINE t == Head(reports)
  <2>1. t \in State /\ t \in Range(reports)
    <3>1. reports \in Seq(State) /\ reports # <<>>
      BY <1>1, <1>4, BoundedTail DEF TypeOK, reportTransition
    <3> QED
      BY <3>1, TailRange
  <2>2. CASE t \in treeStore
    BY <1>4, <2>2 DEF reportTransition, Abstract!vars
  <2>3. CASE t \notin treeStore
    <3>1. /\ treeStore' = treeStore \cup {t} /\ stateQueueNew' = Append(stateQueueNew, t)
          /\ UNCHANGED <<getNextAll, stateQueue>>
      BY <1>4, <2>3 DEF reportTransition
    <3>2. Range(stateQueueNew') = Range(stateQueueNew) \cup {t}
      BY <1>1, <2>1, <3>1, AppendRange DEF TypeOK
    <3>3. expansions' = expansions
      BY <1>4 DEF reportTransition
    <3>4. PICK s \in taken : t \in Range(getNextAll[s])
      BY <1>1, <2>1 DEF Reported
    <3>5. s \in State /\ expansions[s] = 1
      BY <1>1 DEF TypeOK, taken, PoppedOnce
    <3>6. Abstract!Find(t)
      BY <2>3, <3>1, <3>3, <3>4, <3>5 DEF Abstract!Find
    <3> QED
      BY <2>1, <3>6 DEF Abstract!Next
  <2> QED
    BY <2>2, <2>3
<1>5. CASE Stopped \/ UNCHANGED vars
  BY <1>5 DEF Stopped, vars, Abstract!vars
<1> QED
  BY <1>2, <1>3, <1>4, <1>5 DEF Next

(* A queue of states and a level at a time store only reachable states and *)
(* expand none of them twice, whatever the state space (the safety part of *)
(* ImplementsExploration; its fairness is left to the run).                *)
THEOREM SearchExplores == Spec => Abstract!SafeSpec
<1>1. Init => Abstract!Init
  BY RefinesInit
<1>2. SearchInv /\ [Next]_vars => [Abstract!Next]_(Abstract!vars)
  BY RefinesStep
<1> QED
  BY <1>1, <1>2, SearchInvariant, PTL DEF Spec, Abstract!SafeSpec

(* When go() returns, every stored state was expanded and every next state *)
(* of a stored state is stored: the whole reachable state space was found. *)
THEOREM SearchIsExhaustive == Spec => [](stopped => Abstract!Searched)
<1>1. SearchInv => (stopped => Abstract!Searched)
  <2> SUFFICES ASSUME SearchInv, stopped PROVE Abstract!Searched
    OBVIOUS
  <2>1. queued = {} /\ Range(reports) = {} /\ taken = treeStore
    BY EmptyRange DEF stopped, queued, taken
  <2>2. \A s \in treeStore : Range(getNextAll[s]) \subseteq treeStore /\ s \in State
    BY <2>1 DEF SearchInv, Reported, TypeOK
  <2> QED
    BY <2>1, <2>2 DEF SearchInv, PoppedOnce, Abstract!Searched, Abstract!Closed
<1> QED
  BY <1>1, SearchInvariant, PTL

-----------------------------------------------------------------------------
(* within[d] is defined by recursion; the states at the end of paths of d  *)
(* steps, each of which may stay, are a function that satisfies it.        *)
paths(d) ==
  {p \in [0..d -> State] :
     /\ p[0] = Initial
     /\ \A i \in 0..d - 1 : p[i + 1] \in {p[i]} \cup Range(getNextAll[p[i]])}

ends == [d \in Nat |-> {p[d] : p \in paths(d)}]

LEMMA PathsStart == ends[0] = {Initial}
<1> DEFINE p == [i \in 0..0 |-> Initial]
<1>1. p \in [0..0 -> State] /\ p[0] = Initial /\ 0..0 - 1 = {}
  BY SSGenSTAssumption
<1>2. p \in paths(0)
  BY <1>1 DEF paths
<1>3. \A q \in paths(0) : q[0] = Initial
  BY DEF paths
<1>4. ends[0] = {q[0] : q \in paths(0)}
  BY DEF ends
<1> QED
  BY <1>1, <1>2, <1>3, <1>4

LEMMA PathsGrow ==
  ASSUME TypeOK, NEW d \in Nat \ {0}
  PROVE  ends[d] = ends[d - 1] \cup UNION {Range(getNextAll[s]) : s \in ends[d - 1]}
<1>1. /\ d - 1 \in Nat /\ d - 1 \in 0..d - 1 /\ (d - 1) + 1 = d /\ d \in 0..d /\ 0 \in 0..d
      /\ d - 1 \in 0..d /\ 0 \in 0..d - 1
  OBVIOUS
<1>2. ends[d] = {p[d] : p \in paths(d)} /\ ends[d - 1] = {p[d - 1] : p \in paths(d - 1)}
  BY <1>1 DEF ends
<1>3. ASSUME NEW p \in paths(d)
      PROVE  p[d] \in {p[d - 1]} \cup Range(getNextAll[p[d - 1]]) /\ p[d - 1] \in ends[d - 1]
  <2> DEFINE q == [i \in 0..d - 1 |-> p[i]]
  <2>1. /\ p \in [0..d -> State] /\ p[0] = Initial
        /\ \A i \in 0..d - 1 : p[i + 1] \in {p[i]} \cup Range(getNextAll[p[i]])
    BY DEF paths
  <2>2. p[(d - 1) + 1] \in {p[d - 1]} \cup Range(getNextAll[p[d - 1]])
    BY <1>1, <2>1
  <2>3. \A i \in 0..d - 1 : i \in 0..d
    OBVIOUS
  <2>4. q \in [0..d - 1 -> State] /\ q[0] = Initial /\ q[d - 1] = p[d - 1]
    BY <1>1, <2>1, <2>3
  <2>5. \A i \in 0..(d - 1) - 1 : i \in 0..d - 1 /\ i + 1 \in 0..d - 1
    OBVIOUS
  <2>6. \A i \in 0..(d - 1) - 1 : q[i + 1] \in {q[i]} \cup Range(getNextAll[q[i]])
    BY <2>1, <2>5
  <2>7. q \in paths(d - 1)
    BY <2>4, <2>6 DEF paths
  <2> QED
    BY <1>1, <1>2, <2>2, <2>4, <2>7
<1>4. ASSUME NEW q \in paths(d - 1), NEW t \in {q[d - 1]} \cup Range(getNextAll[q[d - 1]])
      PROVE  t \in ends[d]
  <2> DEFINE p == [i \in 0..d |-> IF i = d THEN t ELSE q[i]]
  <2>1. /\ q \in [0..d - 1 -> State] /\ q[0] = Initial
        /\ \A i \in 0..(d - 1) - 1 : q[i + 1] \in {q[i]} \cup Range(getNextAll[q[i]])
    BY DEF paths
  <2>2. q[d - 1] \in State
    BY <1>1, <2>1
  <2>3. t \in State
    BY <2>2, RangeBounded DEF TypeOK
  <2>4. \A i \in 0..d : i = d \/ i \in 0..d - 1
    OBVIOUS
  <2>5. p \in [0..d -> State] /\ p[0] = Initial /\ p[d] = t
    BY <1>1, <2>1, <2>3, <2>4
  <2>6. ASSUME NEW i \in 0..d - 1
        PROVE  p[i + 1] \in {p[i]} \cup Range(getNextAll[p[i]])
    <3>1. i \in 0..d /\ i + 1 \in 0..d /\ i # d
      OBVIOUS
    <3>2. CASE i = d - 1
      BY <3>1, <3>2
    <3>3. CASE i # d - 1
      <4>1. i \in 0..(d - 1) - 1 /\ i + 1 # d
        BY <3>3
      <4> QED
        BY <2>1, <3>1, <4>1
    <3> QED
      BY <3>2, <3>3
  <2>7. p \in paths(d)
    BY <2>5, <2>6 DEF paths
  <2> QED
    BY <1>2, <2>5, <2>7
<1>5. ends[d] \subseteq ends[d - 1] \cup UNION {Range(getNextAll[s]) : s \in ends[d - 1]}
  BY <1>2, <1>3
<1>6. \A s \in ends[d - 1] : {s} \cup Range(getNextAll[s]) \subseteq ends[d]
  BY <1>2, <1>4
<1> QED
  BY <1>5, <1>6

LEMMA WithinGrows ==
  ASSUME TypeOK
  PROVE  /\ within[0] = {Initial}
         /\ \A d \in Nat : within[d + 1] = within[d] \cup UNION {Range(getNextAll[s]) : s \in within[d]}
<1> DEFINE isWithin(f) ==
      f = [d \in Nat |-> IF d = 0 THEN {Initial}
                         ELSE f[d - 1] \cup UNION {Range(getNextAll[s]) : s \in f[d - 1]}]
<1>1. isWithin(ends)
  <2>1. ends = [d \in Nat |-> ends[d]]
    BY DEF ends
  <2>2. \A d \in Nat : ends[d] = IF d = 0 THEN {Initial}
                         ELSE ends[d - 1] \cup UNION {Range(getNextAll[s]) : s \in ends[d - 1]}
    BY PathsStart, PathsGrow
  <2> QED
    BY <2>1, <2>2
<1>2. within = CHOOSE f : isWithin(f)
  BY DEF within
<1>3. isWithin(within)
  BY <1>1, <1>2
<1>4. /\ within[0] = {Initial}
      /\ \A d \in Nat \ {0} : within[d] = within[d - 1] \cup UNION {Range(getNextAll[s]) : s \in within[d - 1]}
  BY <1>3
<1>5. \A d \in Nat : d + 1 \in Nat \ {0} /\ (d + 1) - 1 = d
  OBVIOUS
<1> QED
  BY <1>4, <1>5

(* The stored states are those within the level, and beyond them those     *)
(* queued for the next level, which are one step further.                  *)
LevelInv ==
  /\ treeStore = within[level] \cup Range(stateQueueNew)
  /\ Range(stateQueue) \subseteq distance[level]
  /\ Range(stateQueueNew) \subseteq within[level + 1] \ within[level]

LEMMA Distances ==
  ASSUME NEW d \in Nat
  PROVE  distance[d + 1] = within[d + 1] \ within[d]
<1>1. d + 1 \in Nat /\ d + 1 # 0 /\ (d + 1) - 1 = d
  OBVIOUS
<1> QED
  BY <1>1 DEF distance

LEMMA SameWithin == UNCHANGED getNextAll => within' = within /\ distance' = distance
<1>1. UNCHANGED getNextAll => within' = within
  BY DEF within
<1> QED
  BY <1>1 DEF distance

LEMMA LevelStarts == Init => LevelInv
<1> SUFFICES ASSUME Init PROVE LevelInv
  OBVIOUS
<1>1. level = 0 /\ treeStore = {Initial} /\ Range(stateQueue) = {Initial}
  BY DEF Init, Range
<1>2. Range(stateQueueNew) = {}
  BY EmptyRange DEF Init
<1>3. within[0] = {Initial}
  BY SearchStarts, WithinGrows DEF SearchInv
<1>4. distance[0] = {Initial}
  BY DEF distance
<1> QED
  BY <1>1, <1>2, <1>3, <1>4 DEF LevelInv

LEMMA LevelStep == SearchInv /\ LevelInv /\ [Next]_vars => LevelInv'
<1> SUFFICES ASSUME SearchInv, LevelInv, [Next]_vars PROVE LevelInv'
  OBVIOUS
<1>1. TypeOK /\ Queues /\ Reported /\ level \in Nat /\ level + 1 \in Nat
  BY DEF SearchInv, TypeOK
<1>2. UNCHANGED getNextAll /\ within' = within /\ distance' = distance
  BY SameWithin DEF Next, pop, nextLevel, reportTransition, Stopped, vars
<1>3. within[level + 1] = within[level] \cup UNION {Range(getNextAll[s]) : s \in within[level]}
  BY <1>1, WithinGrows
<1>4. distance[level + 1] = within[level + 1] \ within[level]
  BY <1>1, Distances
<1>5. CASE pop
  <2>1. UNCHANGED <<treeStore, stateQueueNew, level>> /\ Range(stateQueue') \subseteq Range(stateQueue)
    BY <1>1, <1>5, TailRange DEF pop, TypeOK
  <2> QED
    BY <1>2, <2>1 DEF LevelInv
<1>6. CASE nextLevel
  <2>1. /\ reports = <<>> /\ stateQueue = <<>> /\ stateQueue' = stateQueueNew
        /\ stateQueueNew' = <<>> /\ level' = level + 1 /\ UNCHANGED treeStore
    BY <1>6 DEF nextLevel
  <2>2. taken = within[level]
    BY <2>1, EmptyRange DEF LevelInv, taken, queued
  <2>3. treeStore = within[level + 1]
    BY <1>1, <1>3, <2>1, <2>2, EmptyRange DEF LevelInv, Reported
  <2> QED
    BY <1>2, <1>4, <2>1, <2>3, EmptyRange DEF LevelInv
<1>7. CASE reportTransition
  <2> DEFINE t == Head(reports)
  <2>1. t \in State /\ t \in Range(reports)
    <3>1. reports \in Seq(State) /\ reports # <<>>
      BY <1>1, <1>7, BoundedTail DEF TypeOK, reportTransition
    <3> QED
      BY <3>1, TailRange
  <2>2. UNCHANGED <<stateQueue, level>>
    BY <1>7 DEF reportTransition
  <2>3. CASE t \in treeStore
    <3>1. UNCHANGED <<treeStore, stateQueueNew>>
      BY <1>7, <2>3 DEF reportTransition
    <3> QED
      BY <1>2, <2>2, <3>1 DEF LevelInv
  <2>4. CASE t \notin treeStore
    <3>1. treeStore' = treeStore \cup {t} /\ stateQueueNew' = Append(stateQueueNew, t)
      BY <1>7, <2>4 DEF reportTransition
    <3>2. Range(stateQueueNew') = Range(stateQueueNew) \cup {t}
      BY <1>1, <2>1, <3>1, AppendRange DEF TypeOK
    <3>3. PICK s \in taken : t \in Range(getNextAll[s])
      BY <1>1, <2>1 DEF Reported
    <3>4. s \in within[level]
      BY <3>3 DEF LevelInv, taken, queued
    <3>5. t \in within[level + 1] \ within[level]
      BY <1>3, <2>4, <3>3, <3>4 DEF LevelInv
    <3> QED
      BY <1>2, <2>2, <3>1, <3>2, <3>5 DEF LevelInv
  <2> QED
    BY <2>3, <2>4
<1>8. CASE Stopped \/ UNCHANGED vars
  BY <1>2, <1>8 DEF Stopped, vars, LevelInv
<1> QED
  BY <1>5, <1>6, <1>7, <1>8 DEF Next

(* The states are visited in the order of their distance from the initial  *)
(* state, however many levels there are and however the transitions run:   *)
(* a queue never holds a state that a shorter path reaches.                *)
THEOREM SearchGoesByDistance == Spec => []BreadthFirst
<1>1. SearchInv /\ LevelInv => BreadthFirst
  BY Distances DEF SearchInv, TypeOK, LevelInv, BreadthFirst
<1>2. Spec => []LevelInv
  BY LevelStarts, LevelStep, SearchInvariant, PTL DEF Spec
<1> QED
  BY <1>1, <1>2, SearchInvariant, PTL

-----------------------------------------------------------------------------
(* The transitions counted and those about to be are all of the states     *)
(* taken, each once.                                                       *)
CountInv ==
  /\ IsFiniteSet(transitionsOf(taken))
  /\ transitions + Len(reports) = Cardinality(transitionsOf(taken))

LEMMA TransitionsOfOne ==
  ASSUME TypeOK, NEW s \in State
  PROVE  /\ IsFiniteSet({s} \X DOMAIN getNextAll[s])
         /\ Cardinality({s} \X DOMAIN getNextAll[s]) = Len(getNextAll[s])
<1>1. getNextAll[s] \in Seq(State)
  BY BoundedTail DEF TypeOK
<1>2. DOMAIN getNextAll[s] = 1..Len(getNextAll[s]) /\ Len(getNextAll[s]) \in Nat
  BY <1>1
<1>3. /\ IsFiniteSet(1..Len(getNextAll[s]))
      /\ Cardinality(1..Len(getNextAll[s])) = Len(getNextAll[s])
  BY <1>2, FS_Interval
<1>4. IsFiniteSet({s}) /\ Cardinality({s}) = 1
  BY FS_Singleton
<1> DEFINE positions == DOMAIN getNextAll[s]
<1>5. IsFiniteSet(positions) /\ Cardinality(positions) = Len(getNextAll[s])
  BY <1>2, <1>3
<1>6. 1 * Len(getNextAll[s]) = Len(getNextAll[s])
  BY <1>2
<1> HIDE DEF positions
<1> DEFINE one == {s}
<1>7. IsFiniteSet(one) /\ Cardinality(one) = 1
  BY <1>4
<1> HIDE DEF one
<1>8. /\ IsFiniteSet(one \X positions)
      /\ Cardinality(one \X positions) = Cardinality(one) * Cardinality(positions)
  BY <1>5, <1>7, FS_Product
<1> QED
  BY <1>5, <1>6, <1>7, <1>8 DEF positions, one

LEMMA CountStarts == Init => CountInv
<1> SUFFICES ASSUME Init PROVE CountInv
  OBVIOUS
<1>1. treeStore = {Initial} /\ Range(stateQueue) = {Initial}
  BY DEF Init, Range
<1>2. transitionsOf(taken) = {}
  BY <1>1 DEF transitionsOf, taken, queued
<1>3. IsFiniteSet({}) /\ Cardinality({}) = 0
  BY FS_EmptySet
<1>4. transitions = 0 /\ Len(reports) = 0
  BY DEF Init
<1> QED
  BY <1>2, <1>3, <1>4 DEF CountInv

LEMMA CountStep == SearchInv /\ CountInv /\ [Next]_vars => CountInv'
<1> SUFFICES ASSUME SearchInv, CountInv, [Next]_vars PROVE CountInv'
  OBVIOUS
<1>1. TypeOK /\ Queues /\ Reported /\ transitions \in Nat /\ reports \in Seq(State)
  BY BoundedTail DEF SearchInv, TypeOK
<1>2. CASE pop
  <2> DEFINE s == Head(stateQueue)
             new == {s} \X DOMAIN getNextAll[s]
  <2>1. /\ stateQueue' = Tail(stateQueue) /\ reports = <<>> /\ reports' = getNextAll[s]
        /\ UNCHANGED <<getNextAll, treeStore, stateQueueNew, transitions>>
    BY <1>2 DEF pop
  <2>2. /\ s \in State /\ Range(stateQueue) = {s} \cup Range(Tail(stateQueue))
        /\ s \notin Range(Tail(stateQueue))
    BY <1>1, <1>2, TailRange DEF TypeOK, Queues, pop
  <2>3. taken' = taken \cup {s} /\ s \notin taken
    BY <1>1, <2>1, <2>2 DEF taken, queued, Queues
  <2>4. transitionsOf(taken)' = transitionsOf(taken) \cup new /\ transitionsOf(taken) \cap new = {}
    BY <2>1, <2>3 DEF transitionsOf
  <2>5. IsFiniteSet(new) /\ Cardinality(new) = Len(reports')
    BY <1>1, <2>1, <2>2, TransitionsOfOne
  <2>6. getNextAll[s] \in Seq(State)
    BY <1>1, <2>2, BoundedTail DEF TypeOK
  <2>7. Len(reports') \in Nat /\ Len(reports) = 0
    BY <2>1, <2>6
  <2>8. Cardinality(transitionsOf(taken)) = transitions
    BY <1>1, <2>7 DEF CountInv
  <2> HIDE DEF new, s
  <2>9. /\ IsFiniteSet(transitionsOf(taken) \cup new)
        /\ Cardinality(transitionsOf(taken) \cup new)
             = Cardinality(transitionsOf(taken)) + Cardinality(new) - Cardinality({})
    BY <2>4, <2>5, FS_Union DEF CountInv
  <2>10. Cardinality({}) = 0
    BY FS_EmptySet
  <2> QED
    BY <1>1, <2>1, <2>4, <2>5, <2>7, <2>8, <2>9, <2>10 DEF CountInv
<1>3. CASE nextLevel
  <2>1. taken' = taken /\ UNCHANGED <<getNextAll, treeStore, transitions, reports>>
    BY <1>3 DEF nextLevel, taken, queued
  <2> QED
    BY <2>1 DEF CountInv, transitionsOf
<1>4. CASE reportTransition
  <2> DEFINE t == Head(reports)
  <2>1. /\ reports # <<>> /\ reports' = Tail(reports) /\ transitions' = transitions + 1
        /\ UNCHANGED <<getNextAll, stateQueue>>
    BY <1>4 DEF reportTransition
  <2>2. Len(reports') = Len(reports) - 1 /\ Len(reports) \in Nat
    BY <1>1, <2>1
  <2>3. transitions' + Len(reports') = transitions + Len(reports)
    BY <1>1, <2>1, <2>2
  <2>4. t \in State
    BY <1>1, <2>1, TailRange
  <2>5. taken' = taken
    <3>1. CASE t \in treeStore
      BY <1>4, <3>1 DEF reportTransition, taken, queued
    <3>2. CASE t \notin treeStore
      <4>1. treeStore' = treeStore \cup {t} /\ stateQueueNew' = Append(stateQueueNew, t)
        BY <1>4, <3>2 DEF reportTransition
      <4>2. Range(stateQueueNew') = Range(stateQueueNew) \cup {t}
        BY <1>1, <2>4, <4>1, AppendRange DEF TypeOK
      <4> QED
        BY <1>1, <2>1, <3>2, <4>1, <4>2 DEF taken, queued, Queues
    <3> QED
      BY <3>1, <3>2
  <2>6. transitionsOf(taken)' = transitionsOf(taken)
    BY <2>1, <2>5 DEF transitionsOf
  <2> QED
    BY <2>3, <2>5, <2>6 DEF CountInv
<1>5. CASE Stopped \/ UNCHANGED vars
  BY <1>5 DEF Stopped, vars, CountInv, transitionsOf, taken, queued
<1> QED
  BY <1>2, <1>3, <1>4, <1>5 DEF Next

(* The number of transitions printed when go() returns is the number of    *)
(* transitions of the stored states, none missed and none counted twice.   *)
THEOREM PrintedCountIsExact == Spec => []TransitionsCounted
<1>1. SearchInv /\ CountInv => TransitionsCounted
  <2> SUFFICES ASSUME SearchInv, CountInv, stopped
               PROVE  transitions = Cardinality(transitionsOf(treeStore))
    BY DEF TransitionsCounted
  <2>1. taken = treeStore /\ Len(reports) = 0 /\ transitions \in Nat
    BY EmptyRange DEF stopped, taken, queued, SearchInv, TypeOK
  <2> QED
    BY <2>1 DEF CountInv
<1>2. Spec => []CountInv
  BY CountStarts, CountStep, SearchInvariant, PTL DEF Spec
<1> QED
  BY <1>1, <1>2, SearchInvariant, PTL
=============================================================================
