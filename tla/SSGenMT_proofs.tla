---------------------------- MODULE SSGenMT_proofs ----------------------------
(***************************************************************************)
(* The search by several threads, for any number of them, any state space  *)
(* and every interleaving of the appends to the queue.                     *)
(***************************************************************************)
EXTENDS SSGenMT, TLAPS

(* The worker has a new state that is not in the queue yet. *)
holds(w) == pc[w] \in {"readEnd", "writeCell"}

(* The cell is still to be taken from. *)
ahead(c) == c >= start /\ cell[c] # Garbage

isNext(t) == \E s \in expanded : t \in Range(getNextAll[s])

LEMMA SameExpanded == UNCHANGED expansions => UNCHANGED expanded
  BY DEF expanded

(* The inductive invariant: a stored state is held by one worker or lies   *)
(* in one cell, or was overwritten, wherever the end of the queue is; it   *)
(* is not expanded as long as it is held or its cell is ahead; what a      *)
(* worker reports are next states of expanded ones.                        *)
HeldOnce ==
  /\ \A w \in Worker : holds(w) => new[w] \in treeStore \ expanded
  /\ \A v, w \in Worker : holds(v) /\ holds(w) /\ new[v] = new[w] => v = w

QueuedOnce ==
  /\ \A c \in Cells : cell[c] \in treeStore \cup {Garbage}
  /\ \A c \in Cells : ahead(c) => cell[c] \notin expanded
  /\ \A c, d \in Cells : cell[c] # Garbage /\ cell[c] = cell[d] => c = d
  /\ \A c \in Cells, w \in Worker : holds(w) => cell[c] # new[w]

ReportsNext == \A w \in Worker : \A k \in 1..Len(reports[w]) : isNext(reports[w][k])

SearchInv ==
  /\ TypeOK
  /\ expanded \subseteq treeStore
  /\ HeldOnce /\ QueuedOnce /\ ReportsNext

(* The initial states. *)
LEMMA SearchInit == Init => SearchInv
<1> SUFFICES ASSUME Init PROVE SearchInv
  OBVIOUS
<1>1. TypeOK
  <2>1. treeStore \in SUBSET State /\ expansions \in [State -> Nat]
    BY SSGenMTAssumption DEF Init
  <2>2. cell \in [Cells -> State \cup {Garbage}]
    BY SSGenMTAssumption DEF Init
  <2>3. reports \in [Worker -> Seq(State)] /\ new \in [Worker -> State \cup {Garbage}]
    BY DEF Init
  <2> QED
    BY <2>1, <2>2, <2>3 DEF Init, TypeOK
<1>2. HeldOnce
  BY DEF Init, HeldOnce, holds
<1>3. expanded = {}
  BY DEF Init, expanded
<1>4. QueuedOnce
  BY <1>3 DEF Init, QueuedOnce, holds, ahead, Cells
<1>5. ReportsNext
  BY DEF Init, ReportsNext
<1> QED
  BY <1>1, <1>2, <1>3, <1>4, <1>5 DEF SearchInv

(* The steps that store, queue and expand nothing only move workers        *)
(* between places where they hold nothing, or keep what they hold.         *)
LEMMA Moves ==
  ASSUME SearchInv, NEW w \in Worker,
         UNCHANGED <<getNextAll, treeStore, cell, reports, new, expansions>>,
         TypeOK',
         \A c \in Cells : ahead(c)' => ahead(c),
         \A v \in Worker : holds(v)' => holds(v)
  PROVE  SearchInv'
<1>0. expanded' = expanded
  BY SameExpanded
<1>1. HeldOnce'
  BY <1>0 DEF SearchInv, HeldOnce
<1>2. QueuedOnce'
  BY <1>0 DEF SearchInv, QueuedOnce
<1>3. ReportsNext'
  BY <1>0 DEF SearchInv, ReportsNext, isNext
<1> QED
  BY <1>0, <1>1, <1>2, <1>3 DEF SearchInv

(* A stored state that nobody is about to queue and that is in no cell     *)
(* still to come is expanded, be it for the first time or again.           *)
LEMMA ExpandStep ==
  ASSUME SearchInv, NEW w \in Worker, NEW s \in treeStore, expands(w, s),
         start \in Cells,
         \A c \in Cells : c > start => cell[c] # s,
         \A v \in Worker : holds(v) => new[v] # s
  PROVE  SearchInv' /\ s \in State /\ expanded' = expanded \cup {s}
<1>1. s \in State /\ start \in Nat /\ start' = start + 1
  BY DEF expands, SearchInv, TypeOK
<1>2. /\ expansions' = [expansions EXCEPT ![s] = @ + 1]
      /\ UNCHANGED <<getNextAll, treeStore, cell, new>>
  BY DEF expands
<1>3. expanded' = expanded \cup {s}
  BY <1>1, <1>2 DEF expanded, SearchInv, TypeOK
<1>4. getNextAll[s] \in Seq(State)
  BY <1>1, SSGenMTAssumption DEF SearchInv, TypeOK
<1>5. TypeOK'
  BY <1>1, <1>2, <1>4 DEF expands, goto, SearchInv, TypeOK
<1>6. \A v \in Worker : holds(v)' => holds(v)
  BY DEF expands, goto, holds, SearchInv, TypeOK
<1>7. \A c \in Cells : ahead(c)' => ahead(c) /\ c > start
  BY <1>1, <1>2 DEF ahead, Cells
<1>8. HeldOnce'
  BY <1>2, <1>3, <1>6 DEF SearchInv, HeldOnce
<1>9. QueuedOnce'
  BY <1>2, <1>3, <1>6, <1>7 DEF SearchInv, QueuedOnce
<1>10. ReportsNext'
  <2> SUFFICES ASSUME NEW v \in Worker, NEW k \in 1..Len(reports'[v])
               PROVE  \E u \in expanded' : reports'[v][k] \in Range(getNextAll[u])
    BY <1>2 DEF ReportsNext, isNext
  <2>1. CASE v = w
    <3>1. reports'[v] = getNextAll[s]
      BY <2>1 DEF expands, SearchInv, TypeOK
    <3>2. reports'[v][k] \in Range(getNextAll[s])
      BY <1>4, <3>1 DEF Range
    <3> QED
      BY <1>3, <3>2
  <2>2. CASE v # w
    <3>1. reports'[v] = reports[v]
      BY <2>2 DEF expands, SearchInv, TypeOK
    <3>2. isNext(reports[v][k])
      BY <3>1 DEF SearchInv, ReportsNext
    <3> QED
      BY <1>3, <3>1, <3>2 DEF isNext
  <2> QED
    BY <2>1, <2>2
<1> QED
  BY <1>1, <1>2, <1>3, <1>5, <1>8, <1>9, <1>10 DEF SearchInv

(* What is popped from a cell somebody wrote was never expanded.            *)
LEMMA TakeStep ==
  ASSUME SearchInv, NEW w \in Worker, take(w)
  PROVE  /\ SearchInv'
         /\ front \in treeStore \ expanded /\ front \in State
         /\ expanded' = expanded \cup {front}
<1>1. start \in Cells /\ start \in Nat /\ cell[start] = front /\ front # Garbage /\ ahead(start)
  BY DEF take, front, SearchInv, TypeOK, ahead
<1>2. front \in treeStore \ expanded
  BY <1>1 DEF SearchInv, QueuedOnce
<1>3. \A c \in Cells : c > start => cell[c] # front
  BY <1>1 DEF SearchInv, QueuedOnce, Cells
<1>4. \A v \in Worker : holds(v) => new[v] # front
  BY <1>1 DEF SearchInv, QueuedOnce
<1>5. expands(w, front)
  BY DEF take
<1> QED
  BY <1>1, <1>2, <1>3, <1>4, <1>5, ExpandStep

(* What is found in a cell nobody wrote may have been, but nobody is about *)
(* to queue it, and it is in no cell still to come.                        *)
LEMMA StaleStep ==
  ASSUME SearchInv, NEW w \in Worker, NEW s \in stale, popsGarbage(w), start \in Cells,
         expands(w, s)
  PROVE  /\ SearchInv' /\ front = Garbage
         /\ s \in treeStore /\ s \in State /\ expanded' = expanded \cup {s}
<1>1. PICK d \in Cells : d < start /\ s = cell[d] /\ s # Garbage
  BY DEF stale
<1>2. s \in treeStore
  BY <1>1 DEF SearchInv, QueuedOnce
<1>3. \A c \in Cells : c > start => cell[c] # s
  BY <1>1 DEF SearchInv, QueuedOnce, Cells
<1>4. \A v \in Worker : holds(v) => new[v] # s
  BY <1>1 DEF SearchInv, QueuedOnce
<1> QED
  BY <1>2, <1>3, <1>4, ExpandStep DEF popsGarbage

(* What is reported is a next state of an expanded one; what is held after *)
(* it is new to the store, so nobody else has it.                          *)
LEMMA ReportStep ==
  ASSUME SearchInv, NEW w \in Worker, reportTransition(w)
  PROVE  /\ SearchInv'
         /\ Head(reports[w]) \in State /\ isNext(Head(reports[w]))
<1> DEFINE t == Head(reports[w])
<1>1. /\ reports[w] \in Seq(State) /\ reports[w] # <<>> /\ t = reports[w][1]
      /\ 1 \in 1..Len(reports[w])
  BY DEF reportTransition, SearchInv, TypeOK
<1>2. t \in State /\ isNext(t)
  BY <1>1 DEF SearchInv, ReportsNext
<1>3. /\ treeStore' = treeStore \cup {t}
      /\ UNCHANGED <<getNextAll, cell, start, finish, at, expansions, raced>>
      /\ expanded' = expanded
      /\ reports' = [reports EXCEPT ![w] = Tail(@)]
  BY SameExpanded DEF reportTransition, queue
<1>4. \/ t \in treeStore /\ pc' = pc /\ new' = new
      \/ t \notin treeStore /\ pc' = [pc EXCEPT ![w] = "readEnd"] /\ new' = [new EXCEPT ![w] = t]
  BY DEF reportTransition, goto
<1>5. ~holds(w)
  BY DEF reportTransition, runs, holds
<1>6. TypeOK'
  <2>1. Tail(reports[w]) \in Seq(State)
    BY <1>1
  <2> QED
    BY <1>2, <1>3, <1>4, <2>1 DEF SearchInv, TypeOK
<1>7. \A v \in Worker : v # w => (holds(v)' <=> holds(v)) /\ new'[v] = new[v]
  BY <1>4 DEF holds, SearchInv, TypeOK
<1>8. holds(w)' => t \notin treeStore /\ new'[w] = t
  BY <1>4, <1>5 DEF holds, SearchInv, TypeOK
<1>9. HeldOnce'
  <2>1. \A v \in Worker : holds(v)' => new'[v] \in treeStore' \ expanded'
    BY <1>3, <1>7, <1>8 DEF SearchInv, HeldOnce
  <2>2. \A v \in Worker : v # w /\ holds(v)' /\ holds(w)' => new'[v] # new'[w]
    BY <1>7, <1>8 DEF SearchInv, HeldOnce
  <2>3. \A u, v \in Worker : holds(u)' /\ holds(v)' /\ new'[u] = new'[v] => u = v
    BY <1>7, <2>2 DEF SearchInv, HeldOnce
  <2> QED
    BY <2>1, <2>3 DEF HeldOnce
<1>10. QueuedOnce'
  <2>1. \A c \in Cells : (ahead(c)' <=> ahead(c)) /\ cell'[c] = cell[c]
    BY <1>3 DEF ahead
  <2>2. \A c \in Cells, v \in Worker : holds(v)' => cell[c] # new'[v]
    BY <1>2, <1>7, <1>8, SSGenMTAssumption DEF SearchInv, QueuedOnce
  <2> QED
    BY <1>3, <2>1, <2>2 DEF SearchInv, QueuedOnce
<1>11. ReportsNext'
  <2> SUFFICES ASSUME NEW v \in Worker, NEW k \in 1..Len(reports'[v])
               PROVE  isNext(reports'[v][k])
    BY <1>3 DEF ReportsNext, isNext
  <2>1. CASE v = w
    <3>1. reports'[v] = Tail(reports[w])
      BY <1>3, <2>1 DEF SearchInv, TypeOK
    <3>2. reports'[v][k] = reports[w][k + 1] /\ k + 1 \in 1..Len(reports[w])
      BY <1>1, <3>1
    <3> QED
      BY <3>2 DEF SearchInv, ReportsNext
  <2>2. CASE v # w
    <3>1. reports'[v] = reports[v]
      BY <1>3, <2>2 DEF SearchInv, TypeOK
    <3> QED
      BY <3>1 DEF SearchInv, ReportsNext
  <2> QED
    BY <2>1, <2>2
<1> QED
  BY <1>2, <1>3, <1>6, <1>9, <1>10, <1>11 DEF SearchInv

(* The write of an emplace_back, wherever the end it read is by now. *)
LEMMA WriteStep ==
  ASSUME SearchInv, NEW w \in Worker, writeCell(w)
  PROVE  SearchInv'
<1>1. /\ holds(w) /\ cell' = [cell EXCEPT ![at[w]] = new[w]]
      /\ pc' = [pc EXCEPT ![w] = "moveEnd"]
      /\ UNCHANGED <<getNextAll, treeStore, start, finish, reports, new, at, expansions, raced>>
      /\ expanded' = expanded
  BY SameExpanded DEF writeCell, runs, holds, goto
<1>2. new[w] \in treeStore \ expanded /\ new[w] \in State
  BY <1>1 DEF SearchInv, HeldOnce, TypeOK
<1>3. TypeOK'
  BY <1>1, <1>2 DEF SearchInv, TypeOK
<1>4. \A v \in Worker : holds(v)' => holds(v) /\ v # w
  BY <1>1 DEF holds, SearchInv, TypeOK
<1>5. \A c \in Cells : IF c = at[w] THEN cell'[c] = new[w] ELSE cell'[c] = cell[c]
  BY <1>1 DEF SearchInv, TypeOK
<1>6. \A c \in Cells : c # at[w] => (ahead(c)' => ahead(c)) /\ cell[c] # new[w]
  BY <1>1, <1>5 DEF ahead, SearchInv, QueuedOnce
<1>7. HeldOnce'
  BY <1>1, <1>4 DEF SearchInv, HeldOnce
<1>8. QueuedOnce'
  <2>1. \A c \in Cells : cell'[c] \in treeStore' \cup {Garbage}
    BY <1>1, <1>2, <1>5 DEF SearchInv, QueuedOnce
  <2>2. \A c \in Cells : ahead(c)' => cell'[c] \notin expanded'
    BY <1>1, <1>2, <1>5, <1>6 DEF SearchInv, QueuedOnce
  <2>3. \A c, d \in Cells : cell'[c] # Garbage /\ cell'[c] = cell'[d] => c = d
    BY <1>5, <1>6 DEF SearchInv, QueuedOnce
  <2>4. \A c \in Cells, v \in Worker : holds(v)' => cell'[c] # new'[v]
    BY <1>1, <1>4, <1>5, <1>6 DEF SearchInv, QueuedOnce, HeldOnce
  <2> QED
    BY <2>1, <2>2, <2>3, <2>4 DEF QueuedOnce
<1>9. ReportsNext'
  BY <1>1 DEF SearchInv, ReportsNext, isNext
<1> QED
  BY <1>1, <1>3, <1>7, <1>8, <1>9 DEF SearchInv

(* The other steps of a worker. *)
LEMMA OtherStep ==
  ASSUME SearchInv, NEW w \in Worker,
         takeNull(w) \/ takeWild(w) \/ end(w) \/ return(w) \/ readEnd(w) \/ moveEnd(w)
  PROVE  SearchInv' /\ UNCHANGED <<getNextAll, treeStore, expansions, expanded>>
<1>1. /\ UNCHANGED <<getNextAll, treeStore, cell, reports, new, expansions>>
      /\ start' = start \/ start' = start + 1
  BY DEF takeNull, takeWild, end, return, readEnd, moveEnd, queue
<1>2. TypeOK'
  <2>1. CASE takeNull(w)
    BY <2>1 DEF takeNull, goto, SearchInv, TypeOK
  <2>2. CASE takeWild(w) \/ end(w) \/ return(w)
    BY <2>2 DEF takeWild, end, return, goto, queue, SearchInv, TypeOK
  <2>3. CASE readEnd(w)
    BY <2>3 DEF readEnd, goto, queue, SearchInv, TypeOK
  <2>4. CASE moveEnd(w)
    BY <2>4 DEF moveEnd, goto, SearchInv, TypeOK
  <2> QED
    BY <2>1, <2>2, <2>3, <2>4
<1>3. \A c \in Cells : ahead(c)' => ahead(c)
  BY <1>1 DEF ahead, Cells, SearchInv, TypeOK
<1>4. \A v \in Worker : holds(v)' => holds(v)
  <2>1. CASE takeNull(w) \/ takeWild(w) \/ end(w)
    BY <2>1 DEF takeNull, takeWild, end, goto, holds, SearchInv, TypeOK
  <2>2. CASE return(w) \/ moveEnd(w)
    BY <2>2 DEF return, moveEnd, goto, holds, SearchInv, TypeOK
  <2>3. CASE readEnd(w)
    BY <2>3 DEF readEnd, runs, goto, holds, SearchInv, TypeOK
  <2> QED
    BY <2>1, <2>2, <2>3
<1> QED
  BY <1>1, <1>2, <1>3, <1>4, Moves, SameExpanded

LEMMA SearchStep == SearchInv /\ [Next]_vars => SearchInv'
<1> SUFFICES ASSUME SearchInv, [Next]_vars PROVE SearchInv'
  OBVIOUS
<1>1. CASE UNCHANGED vars
  <2>1. TypeOK'
    BY <1>1 DEF vars, queue, SearchInv, TypeOK
  <2> QED
    BY <1>1, <2>1, Moves, SSGenMTAssumption DEF vars, queue, holds, ahead
<1>2. ASSUME NEW w \in Worker, step(w) PROVE SearchInv'
  <2>1. CASE take(w) \/ reportTransition(w) \/ writeCell(w)
    BY <2>1, TakeStep, ReportStep, WriteStep
  <2>2. CASE takeStale(w)
    BY <2>2, StaleStep DEF takeStale
  <2>3. CASE takeNull(w) \/ takeWild(w) \/ end(w) \/ return(w) \/ readEnd(w) \/ moveEnd(w)
    BY <2>3, OtherStep
  <2> QED
    BY <1>2, <2>1, <2>2, <2>3 DEF step
<1> QED
  BY <1>1, <1>2 DEF Next, Stopped

LEMMA SearchInvariant == Spec => []SearchInv
<1> QED
  BY SearchInit, SearchStep, PTL DEF Spec

(* The search stores only reachable states, however the appends to the     *)
(* queue (line 450) overlap, and hands a state out (line 461) a second     *)
(* time only when it pops a cell that nobody wrote: apart from that it     *)
(* implements the abstract search, its completeness left aside.            *)
THEOREM SearchIsImplemented == Spec => ImplementsSearch
<1>1. Init => Abstract!Init
  <2> SUFFICES ASSUME Init PROVE Abstract!Init
    OBVIOUS
  <2>1. \A s \in State : Range(getNextAll[s]) \subseteq State
    BY SSGenMTAssumption DEF Init, Range
  <2> QED
    BY <2>1 DEF Init, Abstract!Init
<1>2. SearchInv /\ [Next]_vars =>
        [Abstract!Next \/ (front = Garbage /\ TakeAgain)]_(Abstract!vars)
  <2> SUFFICES ASSUME SearchInv, [Next]_vars
               PROVE  Abstract!Next \/ (front = Garbage /\ TakeAgain) \/ UNCHANGED Abstract!vars
    OBVIOUS
  <2>1. CASE UNCHANGED vars
    BY <2>1 DEF vars, queue, Abstract!vars
  <2>2. ASSUME NEW w \in Worker, NEW s \in treeStore, expands(w, s), s \notin expanded
        PROVE  Abstract!Next
    <3>1. s \in State /\ expansions[s] = 0
      BY <2>2 DEF SearchInv, TypeOK, expanded
    <3>2. Abstract!Take(s)
      BY <2>2, <3>1 DEF expands, Abstract!Take
    <3> QED
      BY <3>1, <3>2 DEF Abstract!Next
  <2>3. ASSUME NEW w \in Worker, take(w)
        PROVE  Abstract!Next
    BY <2>2, <2>3, TakeStep DEF take
  <2>4. ASSUME NEW w \in Worker, takeStale(w)
        PROVE  Abstract!Next \/ (front = Garbage /\ TakeAgain)
    <3>1. PICK s \in stale : expands(w, s)
      BY <2>4 DEF takeStale
    <3>2. s \in treeStore /\ s \in State /\ front = Garbage
      BY <2>4, <3>1, StaleStep DEF takeStale
    <3>3. CASE s \notin expanded
      BY <2>2, <3>1, <3>2, <3>3
    <3>4. CASE s \in expanded
      BY <3>1, <3>2, <3>4 DEF TakeAgain, expands
    <3> QED
      BY <3>3, <3>4
  <2>5. ASSUME NEW w \in Worker, reportTransition(w)
        PROVE  Abstract!Next \/ UNCHANGED Abstract!vars
    <3> DEFINE t == Head(reports[w])
    <3>1. t \in State /\ isNext(t) /\ treeStore' = treeStore \cup {t}
          /\ UNCHANGED <<getNextAll, expansions>>
      BY <2>5, ReportStep DEF reportTransition
    <3>2. CASE t \in treeStore
      BY <3>1, <3>2 DEF Abstract!vars
    <3>3. CASE t \notin treeStore
      <4>1. \E s \in State : expansions[s] > 0 /\ t \in [u \in State |-> Range(getNextAll[u])][s]
        BY <3>1 DEF isNext, expanded
      <4>2. Abstract!Find(t)
        BY <3>1, <3>3, <4>1 DEF Abstract!Find
      <4> QED
        BY <3>1, <4>2 DEF Abstract!Next
    <3> QED
      BY <3>2, <3>3
  <2>6. ASSUME NEW w \in Worker, writeCell(w)
        PROVE  UNCHANGED Abstract!vars
    BY <2>6 DEF writeCell, Abstract!vars
  <2>7. ASSUME NEW w \in Worker,
               takeNull(w) \/ takeWild(w) \/ end(w) \/ return(w) \/ readEnd(w) \/ moveEnd(w)
        PROVE  UNCHANGED Abstract!vars
    BY <2>7, OtherStep DEF Abstract!vars
  <2> QED
    BY <2>1, <2>3, <2>4, <2>5, <2>6, <2>7 DEF Next, step, Stopped
<1> QED
  BY <1>1, <1>2, SearchInvariant, PTL DEF Spec, ImplementsSearch

(* Everything the type invariant says holds on every path, for any number  *)
(* of workers (go and getNextQueuedState).                                 *)
THEOREM SearchTypeCorrect == Spec => []TypeOK
<1>1. SearchInv => TypeOK
  BY DEF SearchInv
<1> QED
  BY <1>1, SearchInvariant, PTL

-----------------------------------------------------------------------------
(* What is still to come of a state that was stored: it was popped, lies   *)
(* in the queue, or is about to be queued by a worker.  When the bound on  *)
(* the cells was exceeded the queue never runs empty.  What lies between   *)
(* the start and the end was written.                                      *)
inQueue(t) == \E c \in Cells : start <= c /\ c < finish /\ cell[c] = t

carries(w, t) == pc[w] \in {"readEnd", "writeCell", "moveEnd"} /\ new[w] = t

accounted(t) == t \in expanded \/ inQueue(t) \/ (\E w \in Worker : carries(w, t)) \/ overfull

(* A next state of an expanded state is stored or will be reported.        *)
reported(t) == t \in treeStore \/ \E w \in Worker : \E k \in 1..Len(reports[w]) : reports[w][k] = t

(* A worker in the middle of an emplace_back works at the end of the queue; *)
(* in the last step the cell there is written.                             *)
EmplacesAtEnd ==
  /\ \A w \in Worker : emplacing(w) => at[w] = finish
  /\ \A v, w \in Worker : emplacing(v) /\ emplacing(w) => v = w
  /\ \A w \in Worker : pc[w] = "moveEnd" /\ at[w] \in Cells
                          => cell[at[w]] = new[w] /\ new[w] # Garbage

NothingLost ==
  /\ start <= finish /\ start <= Capacity + 1
  /\ EmplacesAtEnd
  /\ \A t \in treeStore : accounted(t)
  /\ \A c \in Cells : start <= c /\ c < finish => cell[c] # Garbage
  /\ \A s \in State : expansions[s] <= 1
  /\ overfull \/ ~crashed

(* The completeness of the search, as long as no appends overlapped, and   *)
(* what makes every expansion the first one.                               *)
CompleteInv ==
  /\ SearchInv
  /\ Initial \in treeStore
  /\ \A s \in expanded : \A t \in Range(getNextAll[s]) : reported(t)
  /\ \A w \in Worker : pc[w] \in {"getNextQueuedState", "ended"} => reports[w] = <<>>
  /\ ~raced => NothingLost
  /\ ~raced /\ allEnded => start = finish

LEMMA CompleteInit == Init => CompleteInv
<1> SUFFICES ASSUME Init PROVE CompleteInv
  OBVIOUS
<1>1. SearchInv
  BY SearchInit
<1>2. Initial \in treeStore /\ expanded = {} /\ start = 0 /\ finish = 1
  BY DEF Init, expanded
<1>3. ~allEnded
  BY SSGenMTAssumption DEF Init, allEnded
<1>4. NothingLost
  <2>1. EmplacesAtEnd
    BY DEF Init, EmplacesAtEnd, emplacing
  <2>2. 0 \in Cells /\ cell[0] = Initial
    BY SSGenMTAssumption DEF Init, Cells
  <2>3. inQueue(Initial)
    BY <1>2, <2>2 DEF inQueue
  <2>4. \A c \in Cells : start <= c /\ c < finish => cell[c] # Garbage
    BY <1>2, <2>2, SSGenMTAssumption DEF Init, Cells
  <2>5. ~crashed /\ \A s \in State : expansions[s] <= 1
    BY DEF Init, crashed
  <2> QED
    BY <1>2, <2>1, <2>3, <2>4, <2>5, SSGenMTAssumption DEF Init, NothingLost, accounted
<1> QED
  BY <1>1, <1>2, <1>3, <1>4 DEF CompleteInv, Init

(* A state that is known stays known when the store and what workers have  *)
(* to report change by no more than w taking note of a transition.         *)
LEMMA StaysReported ==
  ASSUME SearchInv, NEW w \in Worker, NEW t, reported(t),
         treeStore \subseteq treeStore',
         \/ UNCHANGED reports
         \/ reports[w] = <<>> /\ \A v \in Worker : v # w => reports'[v] = reports[v]
  PROVE  reported(t)'
<1>1. CASE t \in treeStore
  BY <1>1 DEF reported
<1>2. CASE t \notin treeStore
  <2>1. PICK v \in Worker : \E k \in 1..Len(reports[v]) : reports[v][k] = t
    BY <1>2 DEF reported
  <2>2. reports'[v] = reports[v]
    <3>1. CASE v = w
      BY <2>1, <3>1
    <3> QED
      BY <3>1
  <2> QED
    BY <2>1, <2>2 DEF reported
<1> QED
  BY <1>1, <1>2

(* A state is expanded: its next states are to be reported.                *)
LEMMA KnownWhenExpanded ==
  ASSUME CompleteInv, NEW w \in Worker, pc[w] = "getNextQueuedState",
         NEW s \in State, expands(w, s), expanded' = expanded \cup {s}
  PROVE  /\ Initial \in treeStore'
         /\ \A u \in expanded' : \A t \in Range(getNextAll'[u]) : reported(t)'
         /\ \A v \in Worker : pc'[v] \in {"getNextQueuedState", "ended"} => reports'[v] = <<>>
         /\ ~allEnded'
<1>0. SearchInv /\ TypeOK
  BY DEF CompleteInv, SearchInv
<1>1. /\ pc' = [pc EXCEPT ![w] = "getNextAll"]
      /\ reports' = [reports EXCEPT ![w] = getNextAll[s]]
      /\ UNCHANGED <<getNextAll, treeStore>>
  BY DEF expands, goto
<1>2. \A u \in expanded' : \A t \in Range(getNextAll'[u]) : reported(t)'
  <2> SUFFICES ASSUME NEW u \in expanded', NEW t \in Range(getNextAll[u])
               PROVE  reported(t)'
    BY <1>1
  <2>1. CASE u = s
    <3>1. reports'[w] = getNextAll[s] /\ getNextAll[s] \in Seq(State)
      BY <1>0, <1>1, SSGenMTAssumption DEF TypeOK
    <3>2. \E k \in 1..Len(getNextAll[s]) : getNextAll[s][k] = t
      BY <2>1, <3>1 DEF Range
    <3> QED
      BY <3>1, <3>2 DEF reported
  <2>2. CASE u # s
    <3>1. reported(t)
      BY <2>2 DEF CompleteInv
    <3>2. reports[w] = <<>> /\ \A v \in Worker : v # w => reports'[v] = reports[v]
      BY <1>0, <1>1 DEF CompleteInv, TypeOK
    <3> QED
      BY <1>0, <1>1, <3>1, <3>2, StaysReported
  <2> QED
    BY <2>1, <2>2
<1>3. \A v \in Worker : pc'[v] \in {"getNextQueuedState", "ended"} => reports'[v] = <<>>
  BY <1>0, <1>1 DEF CompleteInv, TypeOK
<1>4. ~allEnded'
  BY <1>0, <1>1 DEF allEnded, TypeOK
<1> QED
  BY <1>1, <1>2, <1>3, <1>4 DEF CompleteInv

(* A state is taken: it leaves the queue and is expanded. *)
LEMMA CompleteTake ==
  ASSUME CompleteInv, NEW w \in Worker, take(w)
  PROVE  CompleteInv'
<1>0. SearchInv /\ TypeOK
  BY DEF CompleteInv, SearchInv
<1>1. SearchInv' /\ front \in treeStore \ expanded /\ front \in State
      /\ expanded' = expanded \cup {front}
  BY <1>0, TakeStep
<1>2. /\ pc[w] = "getNextQueuedState" /\ ~crashed /\ start # finish
      /\ start \in Cells /\ front = cell[start]
      /\ pc' = [pc EXCEPT ![w] = "getNextAll"] /\ start' = start + 1
      /\ expansions' = [expansions EXCEPT ![front] = @ + 1]
      /\ UNCHANGED <<getNextAll, treeStore, cell, finish, new, at, raced>>
  BY DEF take, expands, runs, goto, front
<1>3. expands(w, front)
  BY DEF take
<1>4. ~raced' => NothingLost'
  <2> SUFFICES ASSUME ~raced, NothingLost PROVE NothingLost'
    BY <1>2 DEF CompleteInv
  <2>1. start' <= finish' /\ start' <= Capacity + 1
    BY <1>0, <1>2, SSGenMTAssumption DEF NothingLost, TypeOK, Cells
  <2>2. \A v \in Worker : (emplacing(v)' <=> emplacing(v)) /\ (pc'[v] = "moveEnd" <=> pc[v] = "moveEnd")
    BY <1>0, <1>2 DEF emplacing, TypeOK
  <2>3. EmplacesAtEnd'
    BY <1>2, <2>2 DEF NothingLost, EmplacesAtEnd
  <2>4. ASSUME NEW t \in treeStore PROVE accounted(t)'
    <3>1. CASE t \in expanded \/ overfull
      BY <1>1, <1>2, <3>1 DEF accounted, overfull
    <3>2. CASE inQueue(t)
      <4>1. PICK c \in Cells : start <= c /\ c < finish /\ cell[c] = t
        BY <3>2 DEF inQueue
      <4>2. CASE c = start
        BY <1>1, <1>2, <4>1, <4>2 DEF accounted
      <4>3. CASE c # start
        <5>1. start + 1 <= c
          BY <1>0, <4>1, <4>3 DEF Cells, TypeOK
        <5> QED
          BY <1>2, <4>1, <5>1 DEF accounted, inQueue
      <4> QED
        BY <4>2, <4>3
    <3>3. CASE \E v \in Worker : carries(v, t)
      BY <1>0, <1>2, <3>3 DEF accounted, carries, TypeOK
    <3> QED
      BY <3>1, <3>2, <3>3 DEF NothingLost, accounted
  <2>5. \A c \in Cells : start' <= c /\ c < finish' => cell'[c] # Garbage
    BY <1>0, <1>2 DEF NothingLost, TypeOK, Cells
  <2>6. \A s \in State : expansions'[s] <= 1
    BY <1>0, <1>1, <1>2 DEF NothingLost, TypeOK, expanded
  <2>7. ~crashed'
    BY <1>0, <1>2 DEF crashed, TypeOK
  <2> QED
    BY <1>2, <2>1, <2>3, <2>4, <2>5, <2>6, <2>7 DEF NothingLost
<1> QED
  BY <1>1, <1>2, <1>3, <1>4, KnownWhenExpanded DEF CompleteInv

(* As long as no appends overlapped, the only cells nobody wrote that can  *)
(* be popped are those behind the bound.                                   *)
LEMMA NoGarbage ==
  ASSUME CompleteInv, NEW w \in Worker, popsGarbage(w), ~raced
  PROVE  start \notin Cells /\ overfull
<1>1. NothingLost /\ TypeOK
  BY DEF CompleteInv, SearchInv
<1>2. start # finish /\ front = Garbage
  BY DEF popsGarbage
<1>3. start \notin Cells
  BY <1>1, <1>2 DEF front, NothingLost, TypeOK
<1> QED
  BY <1>1, <1>2, <1>3, SSGenMTAssumption DEF NothingLost, TypeOK, Cells, overfull

LEMMA CompleteStale ==
  ASSUME CompleteInv, NEW w \in Worker, takeStale(w)
  PROVE  CompleteInv'
<1>1. PICK s \in stale : expands(w, s)
  BY DEF takeStale
<1>2. popsGarbage(w) /\ start \in Cells /\ pc[w] = "getNextQueuedState"
  BY DEF takeStale, popsGarbage, runs
<1>3. SearchInv' /\ s \in State /\ expanded' = expanded \cup {s}
  BY <1>1, <1>2, StaleStep DEF CompleteInv
<1>4. raced /\ raced'
  BY <1>1, <1>2, NoGarbage DEF expands
<1> QED
  BY <1>1, <1>2, <1>3, <1>4, KnownWhenExpanded DEF CompleteInv

(* A transition is reported: its state is stored, and when it is new the   *)
(* worker has it.                                                          *)
LEMMA CompleteReport ==
  ASSUME CompleteInv, NEW w \in Worker, reportTransition(w)
  PROVE  CompleteInv'
<1> DEFINE h == Head(reports[w])
<1>0. SearchInv /\ TypeOK
  BY DEF CompleteInv, SearchInv
<1>1. SearchInv'
  BY <1>0, ReportStep
<1>2. /\ pc[w] = "getNextAll" /\ reports[w] # <<>> /\ reports[w] \in Seq(State)
      /\ treeStore' = treeStore \cup {h}
      /\ reports' = [reports EXCEPT ![w] = Tail(reports[w])]
      /\ UNCHANGED <<getNextAll, cell, start, finish, at, expansions, expanded, raced>>
      /\ ~crashed
  BY <1>0, SameExpanded DEF reportTransition, runs, queue, TypeOK
<1>3. \/ h \in treeStore /\ pc' = pc /\ new' = new
      \/ h \notin treeStore /\ pc' = [pc EXCEPT ![w] = "readEnd"] /\ new' = [new EXCEPT ![w] = h]
  BY DEF reportTransition, goto
<1>4. \A s \in expanded' : \A t \in Range(getNextAll'[s]) : reported(t)'
  <2> SUFFICES ASSUME NEW s \in expanded, NEW t \in Range(getNextAll[s])
               PROVE  reported(t)'
    BY <1>2
  <2>1. reported(t)
    BY DEF CompleteInv
  <2>2. CASE t \in treeStore
    BY <1>2, <2>2 DEF reported
  <2>3. ASSUME NEW v \in Worker, NEW k \in 1..Len(reports[v]), reports[v][k] = t
        PROVE  reported(t)'
    <3>1. CASE v # w
      <4>1. reports'[v] = reports[v]
        BY <1>0, <1>2, <3>1 DEF TypeOK
      <4> QED
        BY <2>3, <4>1 DEF reported
    <3>2. CASE v = w /\ k = 1
      BY <1>2, <2>3, <3>2 DEF reported
    <3>3. CASE v = w /\ k # 1
      <4>1. reports'[w] = Tail(reports[w])
        BY <1>0, <1>2 DEF TypeOK
      <4>2. k \in 1..Len(reports[w]) /\ k # 1
        BY <3>3
      <4>3. \A q \in Seq(State), i \in Int : q # <<>> /\ i \in 1..Len(q) /\ i # 1
              => i - 1 \in 1..Len(Tail(q)) /\ Tail(q)[i - 1] = q[i]
        OBVIOUS
      <4>4. k - 1 \in 1..Len(reports'[w]) /\ reports'[w][k - 1] = reports[w][k]
        <5>1. reports[w] \in Seq(State) /\ reports[w] # <<>> /\ k \in Int
          BY <1>2, <4>2
        <5>2. k - 1 \in 1..Len(Tail(reports[w])) /\ Tail(reports[w])[k - 1] = reports[w][k]
          BY <4>2, <4>3, <5>1
        <5> QED
          BY <4>1, <5>2
      <4> QED
        BY <2>3, <3>3, <4>4 DEF reported
    <3> QED
      BY <3>1, <3>2, <3>3
  <2> QED
    BY <2>1, <2>2, <2>3 DEF reported
<1>5. \A v \in Worker : pc'[v] \in {"getNextQueuedState", "ended"} => reports'[v] = <<>>
  BY <1>0, <1>2, <1>3 DEF CompleteInv, TypeOK
<1>6. \A v \in Worker : (emplacing(v)' <=> emplacing(v)) /\ (pc'[v] = "moveEnd" <=> pc[v] = "moveEnd")
                        /\ (v # w => new'[v] = new[v] /\ pc'[v] = pc[v])
  BY <1>0, <1>2, <1>3 DEF emplacing, TypeOK
<1>7. ~raced' => NothingLost'
  <2> SUFFICES ASSUME ~raced, NothingLost PROVE NothingLost'
    BY <1>2 DEF CompleteInv
  <2>1. EmplacesAtEnd'
    BY <1>2, <1>6 DEF NothingLost, EmplacesAtEnd, emplacing
  <2>2. ASSUME NEW t \in treeStore' PROVE accounted(t)'
    <3>1. CASE t \notin treeStore
      <4>1. t = h /\ pc'[w] = "readEnd" /\ new'[w] = h
        BY <1>0, <1>2, <1>3, <3>1 DEF TypeOK
      <4> QED
        BY <4>1 DEF accounted, carries
    <3>2. CASE t \in treeStore
      <4>1. accounted(t)
        BY <3>2 DEF NothingLost
      <4>2. ASSUME NEW v \in Worker, carries(v, t) PROVE carries(v, t)'
        BY <1>2, <1>6, <4>2 DEF carries
      <4> QED
        BY <1>2, <4>1, <4>2 DEF accounted, inQueue, overfull
    <3> QED
      BY <3>1, <3>2
  <2>3. ~crashed'
    BY <1>0, <1>2, <1>3 DEF crashed, TypeOK
  <2> QED
    BY <1>2, <2>1, <2>2, <2>3 DEF NothingLost
<1>8. ~allEnded'
  BY <1>0, <1>2, <1>3 DEF allEnded, TypeOK
<1> QED
  BY <1>1, <1>2, <1>4, <1>5, <1>7, <1>8 DEF CompleteInv

(* The three steps of an emplace_back.  When nobody else is in one, the    *)
(* state moves from the worker to the end of the queue.                    *)
LEMMA CompleteReadEnd ==
  ASSUME CompleteInv, NEW w \in Worker, readEnd(w)
  PROVE  CompleteInv'
<1>0. SearchInv /\ TypeOK
  BY DEF CompleteInv, SearchInv
<1>1. SearchInv'
  BY <1>0, OtherStep
<1>2. /\ pc[w] = "readEnd" /\ pc' = [pc EXCEPT ![w] = "writeCell"]
      /\ at' = [at EXCEPT ![w] = finish]
      /\ raced' = (raced \/ \E v \in Worker : emplacing(v))
      /\ UNCHANGED <<getNextAll, treeStore, cell, start, finish, reports, new, expansions, expanded>>
      /\ ~crashed
  BY SameExpanded DEF readEnd, runs, goto, queue
<1>3. \A s \in expanded' : \A t \in Range(getNextAll'[s]) : reported(t)'
  BY <1>2 DEF CompleteInv, reported
<1>4. \A v \in Worker : pc'[v] \in {"getNextQueuedState", "ended"} => reports'[v] = <<>>
  BY <1>0, <1>2 DEF CompleteInv, TypeOK
<1>5. ~raced' => NothingLost'
  <2> SUFFICES ASSUME ~raced, \A v \in Worker : ~emplacing(v), NothingLost
               PROVE  NothingLost'
    BY <1>2 DEF CompleteInv
  <2>1. \A v \in Worker : emplacing(v)' => v = w
    BY <1>0, <1>2 DEF emplacing, TypeOK
  <2>2. at'[w] = finish' /\ pc'[w] # "moveEnd"
    BY <1>0, <1>2 DEF TypeOK
  <2>3. EmplacesAtEnd'
    BY <2>1, <2>2 DEF EmplacesAtEnd, emplacing
  <2>4. \A t, v : v \in Worker /\ carries(v, t) => carries(v, t)'
    BY <1>0, <1>2 DEF carries, TypeOK
  <2>5. \A t \in treeStore' : accounted(t)'
    BY <1>2, <2>4 DEF NothingLost, accounted, inQueue, overfull
  <2>6. ~crashed'
    BY <1>0, <1>2 DEF crashed, TypeOK
  <2> QED
    BY <1>2, <2>3, <2>5, <2>6 DEF NothingLost
<1>6. ~allEnded'
  BY <1>0, <1>2 DEF allEnded, TypeOK
<1> QED
  BY <1>1, <1>2, <1>3, <1>4, <1>5, <1>6 DEF CompleteInv

LEMMA CompleteWrite ==
  ASSUME CompleteInv, NEW w \in Worker, writeCell(w)
  PROVE  CompleteInv'
<1>0. SearchInv /\ TypeOK
  BY DEF CompleteInv, SearchInv
<1>1. SearchInv'
  BY <1>0, WriteStep
<1>2. /\ pc[w] = "writeCell" /\ pc' = [pc EXCEPT ![w] = "moveEnd"]
      /\ cell' = [cell EXCEPT ![at[w]] = new[w]]
      /\ UNCHANGED <<getNextAll, treeStore, start, finish, reports, new, at, expansions, expanded,
                     raced>>
      /\ ~crashed
  BY SameExpanded DEF writeCell, runs, goto
<1>3. \A s \in expanded' : \A t \in Range(getNextAll'[s]) : reported(t)'
  BY <1>2 DEF CompleteInv, reported
<1>4. \A v \in Worker : pc'[v] \in {"getNextQueuedState", "ended"} => reports'[v] = <<>>
  BY <1>0, <1>2 DEF CompleteInv, TypeOK
<1>5. ~raced' => NothingLost'
  <2> SUFFICES ASSUME ~raced, NothingLost PROVE NothingLost'
    BY <1>2 DEF CompleteInv
  <2>1. emplacing(w) /\ at[w] = finish
    BY <1>2 DEF NothingLost, EmplacesAtEnd, emplacing
  <2>2. \A v \in Worker : emplacing(v)' => emplacing(v)
    BY <1>0, <1>2 DEF emplacing, TypeOK
  <2>3. \A v \in Worker : emplacing(v) => v = w
    BY <2>1 DEF NothingLost, EmplacesAtEnd
  <2>4. at'[w] \in Cells => cell'[at'[w]] = new'[w] /\ new'[w] # Garbage
    <3>1. new[w] \in State
      BY <1>0, <1>2 DEF SearchInv, HeldOnce, holds, TypeOK
    <3> QED
      BY <1>0, <1>2, <3>1, SSGenMTAssumption DEF TypeOK
  <2>5. EmplacesAtEnd'
    <3>1. \A v \in Worker : pc'[v] = "moveEnd" => v = w
      BY <2>2, <2>3 DEF emplacing
    <3> QED
      BY <1>2, <2>1, <2>2, <2>3, <2>4, <3>1 DEF EmplacesAtEnd
  <2>6. \A t : inQueue(t) => inQueue(t)'
    BY <1>0, <1>2, <2>1 DEF inQueue, TypeOK, Cells
  <2>7. \A t, v : v \in Worker /\ carries(v, t) => carries(v, t)'
    BY <1>0, <1>2 DEF carries, TypeOK
  <2>8. \A t \in treeStore' : accounted(t)'
    BY <1>2, <2>6, <2>7 DEF NothingLost, accounted, overfull
  <2>9. \A c \in Cells : start' <= c /\ c < finish' => cell'[c] # Garbage
    BY <1>0, <1>2, <2>1 DEF NothingLost, TypeOK, Cells
  <2>10. ~crashed'
    BY <1>0, <1>2 DEF crashed, TypeOK
  <2> QED
    BY <1>2, <2>5, <2>8, <2>9, <2>10 DEF NothingLost
<1>6. ~allEnded'
  BY <1>0, <1>2 DEF allEnded, TypeOK
<1> QED
  BY <1>1, <1>2, <1>3, <1>4, <1>5, <1>6 DEF CompleteInv

LEMMA CompleteMoveEnd ==
  ASSUME CompleteInv, NEW w \in Worker, moveEnd(w)
  PROVE  CompleteInv'
<1>0. SearchInv /\ TypeOK
  BY DEF CompleteInv, SearchInv
<1>1. SearchInv'
  BY <1>0, OtherStep
<1>2. /\ pc[w] = "moveEnd" /\ pc' = [pc EXCEPT ![w] = "getNextAll"]
      /\ finish' = at[w] + 1
      /\ UNCHANGED <<getNextAll, treeStore, cell, start, reports, new, at, expansions, expanded, raced>>
      /\ ~crashed
  BY SameExpanded DEF moveEnd, runs, goto
<1>3. \A s \in expanded' : \A t \in Range(getNextAll'[s]) : reported(t)'
  BY <1>2 DEF CompleteInv, reported
<1>4. \A v \in Worker : pc'[v] \in {"getNextQueuedState", "ended"} => reports'[v] = <<>>
  BY <1>0, <1>2 DEF CompleteInv, TypeOK
<1>5. ~raced' => NothingLost'
  <2> SUFFICES ASSUME ~raced, NothingLost PROVE NothingLost'
    BY <1>2 DEF CompleteInv
  <2>1. emplacing(w) /\ at[w] = finish /\ finish' = finish + 1
    BY <1>2 DEF NothingLost, EmplacesAtEnd, emplacing
  <2>2. \A v \in Worker : ~emplacing(v)'
    BY <1>0, <1>2, <2>1 DEF emplacing, NothingLost, EmplacesAtEnd, TypeOK
  <2>3. EmplacesAtEnd'
    BY <2>2 DEF EmplacesAtEnd, emplacing
  <2>4. start' <= finish' /\ start' <= Capacity + 1
    BY <1>0, <1>2, <2>1 DEF NothingLost, TypeOK
  <2>5. ASSUME NEW t \in treeStore' PROVE accounted(t)'
    <3>1. CASE carries(w, t)
      <4>1. CASE finish \in Cells
        <5>1. cell[finish] = t /\ start <= finish
          BY <1>2, <2>1, <3>1, <4>1 DEF carries, NothingLost, EmplacesAtEnd
        <5> QED
          BY <1>0, <1>2, <2>1, <4>1, <5>1 DEF accounted, inQueue, TypeOK
      <4>2. CASE finish \notin Cells
        BY <1>0, <2>1, <4>2, SSGenMTAssumption DEF accounted, overfull, Cells, TypeOK
      <4> QED
        BY <4>1, <4>2
    <3>2. CASE inQueue(t) \/ overfull \/ t \in expanded
      BY <1>0, <1>2, <2>1, <3>2, SSGenMTAssumption DEF accounted, inQueue, overfull, TypeOK, Cells
    <3>3. CASE \E v \in Worker : v # w /\ carries(v, t)
      BY <1>0, <1>2, <3>3 DEF accounted, carries, TypeOK
    <3> QED
      BY <1>2, <3>1, <3>2, <3>3 DEF NothingLost, accounted
  <2>6. \A c \in Cells : start' <= c /\ c < finish' => cell'[c] # Garbage
    <3>1. finish \in Cells => cell[finish] # Garbage
      BY <1>2, <2>1 DEF NothingLost, EmplacesAtEnd
    <3> QED
      BY <1>0, <1>2, <2>1, <3>1 DEF NothingLost, TypeOK, Cells
  <2>7. ~crashed'
    BY <1>0, <1>2 DEF crashed, TypeOK
  <2> QED
    BY <1>2, <2>3, <2>4, <2>5, <2>6, <2>7 DEF NothingLost
<1>6. ~allEnded'
  BY <1>0, <1>2 DEF allEnded, TypeOK
<1> QED
  BY <1>1, <1>2, <1>3, <1>4, <1>5, <1>6 DEF CompleteInv

(* Steps on which a worker only goes on, or ends: that it does when the    *)
(* queue is empty, or when a race left it a cell that nobody wrote.        *)
LEMMA CompleteGoOn ==
  ASSUME CompleteInv, NEW w \in Worker, takeNull(w) \/ takeWild(w) \/ end(w) \/ return(w)
  PROVE  CompleteInv'
<1>0. SearchInv /\ TypeOK
  BY DEF CompleteInv, SearchInv
<1>1. SearchInv'
  BY <1>0, OtherStep
<1>2. /\ UNCHANGED <<getNextAll, treeStore, cell, finish, reports, new, at, expansions, expanded,
                     raced>>
      /\ pc[w] \in {"getNextQueuedState", "getNextAll"} /\ \E label : pc' = [pc EXCEPT ![w] = label]
      /\ pc'[w] \in {"crashed", "ended", "getNextQueuedState"}
      /\ pc'[w] \in {"ended", "getNextQueuedState"} => reports[w] = <<>>
      /\ ~crashed
  BY <1>0, SameExpanded
     DEF takeNull, takeWild, end, return, runs, popsGarbage, goto, queue, TypeOK, CompleteInv
<1>3. \A v \in Worker : v # w => pc'[v] = pc[v]
  BY <1>0, <1>2 DEF TypeOK
<1>4. \A s \in expanded' : \A t \in Range(getNextAll'[s]) : reported(t)'
  BY <1>2 DEF CompleteInv, reported
<1>5. \A v \in Worker : pc'[v] \in {"getNextQueuedState", "ended"} => reports'[v] = <<>>
  BY <1>2, <1>3 DEF CompleteInv
<1>6. ~raced => /\ start' = start
                /\ pc'[w] = "ended" => start = finish
                /\ pc'[w] = "crashed" => overfull
  <2>1. CASE takeNull(w)
    BY <2>1, NoGarbage DEF takeNull
  <2>2. CASE takeWild(w)
    BY <1>0, <2>2, NoGarbage DEF takeWild, goto, queue, TypeOK
  <2>3. CASE end(w) \/ return(w)
    BY <1>0, <2>3 DEF end, return, goto, queue, TypeOK
  <2> QED
    BY <2>1, <2>2, <2>3
<1>7. ~raced' => NothingLost'
  <2> SUFFICES ASSUME ~raced, NothingLost PROVE NothingLost'
    BY <1>2 DEF CompleteInv
  <2>1. \A v \in Worker : (emplacing(v)' <=> emplacing(v)) /\ (pc'[v] = "moveEnd" <=> pc[v] = "moveEnd")
    BY <1>2, <1>3 DEF emplacing
  <2>2. EmplacesAtEnd'
    BY <1>2, <2>1 DEF NothingLost, EmplacesAtEnd
  <2>3. \A t, v : v \in Worker /\ carries(v, t) => carries(v, t)'
    BY <1>2, <1>3 DEF carries
  <2>4. \A t \in treeStore' : accounted(t)'
    BY <1>2, <1>6, <2>3 DEF NothingLost, accounted, inQueue, overfull
  <2>5. overfull' \/ ~crashed'
    BY <1>2, <1>3, <1>6 DEF crashed, overfull
  <2> QED
    BY <1>2, <1>6, <2>2, <2>4, <2>5 DEF NothingLost
<1>8. ~raced' /\ allEnded' => start' = finish'
  BY <1>2, <1>6 DEF allEnded
<1> QED
  BY <1>1, <1>2, <1>4, <1>5, <1>7, <1>8 DEF CompleteInv

LEMMA CompleteStep == CompleteInv /\ [Next]_vars => CompleteInv'
<1> SUFFICES ASSUME CompleteInv, [Next]_vars PROVE CompleteInv'
  OBVIOUS
<1>1. CASE UNCHANGED vars
  <2>1. SearchInv'
    BY <1>1, SearchStep DEF CompleteInv
  <2>2. expanded' = expanded
    BY <1>1, SameExpanded DEF vars
  <2>3. NothingLost => NothingLost'
    BY <1>1, <2>2 DEF vars, queue, NothingLost, EmplacesAtEnd, emplacing, accounted, inQueue,
                      carries, overfull, crashed
  <2> QED
    BY <1>1, <2>1, <2>2, <2>3 DEF vars, queue, CompleteInv, reported, allEnded
<1>2. ASSUME NEW w \in Worker, step(w) PROVE CompleteInv'
  BY <1>2, CompleteTake, CompleteStale, CompleteReport, CompleteReadEnd, CompleteWrite,
     CompleteMoveEnd, CompleteGoOn DEF step
<1> QED
  BY <1>1, <1>2 DEF Next, Stopped

LEMMA CompleteInvariant == Spec => []CompleteInv
<1> QED
  BY CompleteInit, CompleteStep, PTL DEF Spec

(* When the last worker of go has ended, every reachable state is stored   *)
(* and expanded, although workers end as soon as they see an empty queue   *)
(* (line 422), for any number of workers and any state space, unless two   *)
(* of them were in emplace_back (line 450) at once.                        *)
THEOREM SearchIsComplete == Spec => []NothingLostWithoutRace
<1>1. CompleteInv => NothingLostWithoutRace
  <2> SUFFICES ASSUME CompleteInv, allEnded, ~raced
               PROVE  Abstract!Searched
    BY DEF NothingLostWithoutRace
  <2>1. SearchInv /\ TypeOK /\ NothingLost /\ start = finish /\ Initial \in treeStore
    BY DEF CompleteInv, SearchInv
  <2>2. \A t \in treeStore : t \in expanded
    <3> SUFFICES ASSUME NEW t \in treeStore PROVE t \in expanded
      OBVIOUS
    <3>1. ~inQueue(t) /\ ~overfull
      BY <2>1, SSGenMTAssumption DEF inQueue, overfull, NothingLost, TypeOK, Cells
    <3>2. \A w \in Worker : ~carries(w, t)
      BY DEF allEnded, carries
    <3> QED
      BY <2>1, <3>1, <3>2 DEF NothingLost, accounted
  <2>3. expanded = treeStore
    BY <2>1, <2>2 DEF SearchInv
  <2>4. \A s \in treeStore : Range(getNextAll[s]) \subseteq treeStore
    <3> SUFFICES ASSUME NEW s \in treeStore, NEW t \in Range(getNextAll[s])
                 PROVE  t \in treeStore
      OBVIOUS
    <3>1. reported(t)
      BY <2>3 DEF CompleteInv
    <3>2. \A w \in Worker : reports[w] = <<>>
      BY DEF allEnded, CompleteInv
    <3> QED
      BY <3>1, <3>2 DEF reported
  <2>5. treeStore \subseteq State
    BY <2>1 DEF TypeOK
  <2>6. \A s \in State : expansions[s] = IF s \in treeStore THEN 1 ELSE 0
    BY <2>1, <2>3 DEF expanded, NothingLost, TypeOK
  <2> QED
    BY <2>1, <2>4, <2>5, <2>6 DEF Abstract!Searched, Abstract!Closed
<1> QED
  BY <1>1, CompleteInvariant, PTL

(* As long as no two workers were in emplace_back (line 450) at once, no   *)
(* state is handed to a worker twice (line 461) and none of them follows a *)
(* pointer that was never written, however the calls of                    *)
(* getNextQueuedState fall between the steps of an emplace_back.           *)
THEOREM StatesAreTakenOnce == Spec => []TakenOnceWithoutRace
<1>1. CompleteInv => TakenOnceWithoutRace
  BY DEF CompleteInv, NothingLost, TakenOnceWithoutRace
<1> QED
  BY <1>1, CompleteInvariant, PTL
=============================================================================
