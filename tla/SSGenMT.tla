------------------------------- MODULE SSGenMT -------------------------------
(***************************************************************************)
(* ssgen_mt: several workers search one state space.  A worker takes a     *)
(* state from the shared queue under the mutex; next states are stored     *)
(* under the lock of the store, but queued by an emplace_back that takes   *)
(* no lock.  An emplace_back of a deque reads the end, writes the element  *)
(* there and moves the end: three steps here, and two workers may be in    *)
(* the middle of theirs at once.  That can move the end past a cell nobody *)
(* wrote, or back behind the start; what a worker then pops is whatever    *)
(* the memory of the cell holds.  A worker that gets no state ends.        *)
(***************************************************************************)
EXTENDS Sequences, Integers, SequencesExt

CONSTANTS State, Initial,
          Worker,       \* the threads of go()
          Garbage,      \* a cell of the deque that nobody wrote
          Capacity,     \* bound: last cell of the deque
          Models        \* state spaces: functions State -> Seq(State)

ASSUME SSGenMTAssumption ==
  /\ Initial \in State /\ Garbage \notin State /\ Capacity \in Nat /\ Worker # {}
  /\ Models \subseteq [State -> Seq(State)]

VARIABLES getNextAll,      \* the loaded model
          treeStore,       \* _treeStore.typeDB(0)
          cell, start, finish,   \* stateQueueNew, a deque
          pc,              \* what a worker does next
          reports,         \* transitions of its state not reported yet
          new,             \* the state it is about to queue
          at,              \* the end it read
          expansions,      \* history: how often a state was popped
          raced            \* history: two emplace_backs overlapped

queue == <<cell, start, finish>>
vars == <<getNextAll, treeStore, queue, pc, reports, new, at, expansions, raced>>

Cells == 0..Capacity

TypeOK ==
  /\ getNextAll \in Models
  /\ treeStore \in SUBSET State /\ expansions \in [State -> Nat]
  /\ cell \in [Cells -> State \cup {Garbage}]
  /\ start \in Nat /\ finish \in Nat
  /\ pc \in [Worker -> {"getNextQueuedState", "getNextAll", "readEnd", "writeCell",
                        "moveEnd", "ended", "crashed"}]
  /\ reports \in [Worker -> Seq(State)]
  /\ new \in [Worker -> State \cup {Garbage}]
  /\ at \in [Worker -> Nat]
  /\ raced \in BOOLEAN

(* go() up to the start of the workers. *)
Init ==
  /\ getNextAll \in Models
  /\ treeStore = {Initial}
  /\ cell = [c \in Cells |-> IF c = 0 THEN Initial ELSE Garbage]
  /\ start = 0 /\ finish = 1
  /\ pc = [w \in Worker |-> "getNextQueuedState"]
  /\ reports = [w \in Worker |-> <<>>]
  /\ new = [w \in Worker |-> Garbage]
  /\ at = [w \in Worker |-> 0]
  /\ expansions = [s \in State |-> 0] /\ raced = FALSE

goto(w, label) == pc' = [pc EXCEPT ![w] = label]

crashed == \E w \in Worker : pc[w] = "crashed"

(* A crash of one worker stops them all. *)
runs(w, label) == pc[w] = label /\ ~crashed

front == IF start \in Cells THEN cell[start] ELSE Garbage

(* The memory of a cell nobody wrote may be that of cells popped before:   *)
(* a deque gives the blocks it has left back, and may get them again.      *)
stale == {cell[c] : c \in {d \in Cells : d < start}} \ {Garbage}

expands(w, s) ==
  /\ start' = start + 1
  /\ reports' = [reports EXCEPT ![w] = getNextAll[s]]
  /\ expansions' = [expansions EXCEPT ![s] = @ + 1]
  /\ goto(w, "getNextAll")
  /\ UNCHANGED <<getNextAll, treeStore, cell, finish, new, at, raced>>

(* Mutated form: pop_front is forgotten when the queue has one element.    *)
takeMutated(w) ==
  /\ runs(w, "getNextQueuedState") /\ start # finish
  /\ front # Garbage
  /\ start' = IF finish = start + 1 THEN start ELSE start + 1
  /\ reports' = [reports EXCEPT ![w] = getNextAll[front]]
  /\ expansions' = [expansions EXCEPT ![front] = 1]
  /\ goto(w, "getNextAll")
  /\ UNCHANGED <<getNextAll, treeStore, cell, finish, new, at, raced>>

(* Under the mutex: a state is taken from the queue ...                    *)
take(w) ==
  /\ runs(w, "getNextQueuedState") /\ start # finish
  /\ front # Garbage
  /\ expands(w, front)

popsGarbage(w) ==
  /\ runs(w, "getNextQueuedState") /\ start # finish
  /\ front = Garbage

(* ... or what a cell nobody wrote holds: the pointer to a state that was  *)
(* popped before, ...                                                      *)
takeStale(w) ==
  /\ popsGarbage(w) /\ start \in Cells
  /\ \E s \in stale : expands(w, s)

(* Mutated form: null is not noticed, and followed as if it were a state. *)
takeNullMutated(w) ==
  /\ popsGarbage(w) /\ start \in Cells
  /\ start' = start + 1
  /\ expansions' = [s \in State \cup {front} |-> IF s = front THEN 1 ELSE expansions[s]]
  /\ UNCHANGED <<getNextAll, treeStore, cell, finish, pc, reports, new, at, raced>>

(* ... null, which the worker takes for the end of the search, ...          *)
takeNull(w) ==
  /\ popsGarbage(w) /\ start \in Cells
  /\ start' = start + 1
  /\ goto(w, "ended")
  /\ UNCHANGED <<getNextAll, treeStore, cell, finish, reports, new, at, expansions, raced>>

(* ... or anything else, and following it is fatal.  Behind the last cell  *)
(* nothing else happens: there the memory of the deque ends.               *)
takeWild(w) ==
  /\ popsGarbage(w)
  /\ goto(w, "crashed")
  /\ UNCHANGED <<getNextAll, treeStore, queue, reports, new, at, expansions, raced>>

(* Mutated form: a worker also ends with one state left in the queue. *)
endMutated(w) ==
  /\ runs(w, "getNextQueuedState") /\ finish <= start + 1 /\ start > 0
  /\ goto(w, "ended")
  /\ UNCHANGED <<getNextAll, treeStore, queue, reports, new, at, expansions, raced>>

end(w) ==
  /\ runs(w, "getNextQueuedState") /\ start = finish
  /\ goto(w, "ended")
  /\ UNCHANGED <<getNextAll, treeStore, queue, reports, new, at, expansions, raced>>

(* Mutated form: find and insert with the store unlocked in between, so    *)
(* that a state another worker is about to queue is queued again.          *)
reportTransitionMutated(w) ==
  /\ runs(w, "getNextAll") /\ reports[w] # <<>>
  /\ LET t == Head(reports[w]) IN
       /\ treeStore' = treeStore \cup {t}
       /\ new' = [new EXCEPT ![w] = t]
       /\ IF t \in treeStore /\ ~\E v \in Worker : new[v] = t /\ pc[v] = "readEnd"
          THEN UNCHANGED pc ELSE goto(w, "readEnd")
  /\ reports' = [reports EXCEPT ![w] = Tail(@)]
  /\ UNCHANGED <<getNextAll, queue, at, expansions, raced>>

reportTransition(w) ==
  /\ runs(w, "getNextAll") /\ reports[w] # <<>>
  /\ LET t == Head(reports[w]) IN
       /\ treeStore' = treeStore \cup {t}
       /\ IF t \in treeStore
          THEN UNCHANGED <<pc, new>>
          ELSE goto(w, "readEnd") /\ new' = [new EXCEPT ![w] = t]
  /\ reports' = [reports EXCEPT ![w] = Tail(@)]
  /\ UNCHANGED <<getNextAll, queue, at, expansions, raced>>

emplacing(w) == pc[w] \in {"writeCell", "moveEnd"}

(* Mutated form: the end is moved before the cell is written. *)
readEndMutated(w) ==
  /\ runs(w, "readEnd")
  /\ at' = [at EXCEPT ![w] = finish]
  /\ finish' = finish + 1
  /\ raced' = (raced \/ \E v \in Worker : emplacing(v))
  /\ goto(w, "writeCell")
  /\ UNCHANGED <<getNextAll, treeStore, cell, start, reports, new, expansions>>

readEnd(w) ==
  /\ runs(w, "readEnd")
  /\ at' = [at EXCEPT ![w] = finish]
  /\ raced' = (raced \/ \E v \in Worker : emplacing(v))
  /\ goto(w, "writeCell")
  /\ UNCHANGED <<getNextAll, treeStore, queue, reports, new, expansions>>

writeCell(w) ==
  /\ runs(w, "writeCell")
  /\ cell' = [cell EXCEPT ![at[w]] = new[w]]
  /\ goto(w, "moveEnd")
  /\ UNCHANGED <<getNextAll, treeStore, start, finish, reports, new, at, expansions, raced>>

moveEnd(w) ==
  /\ runs(w, "moveEnd")
  /\ finish' = at[w] + 1
  /\ goto(w, "getNextAll")
  /\ UNCHANGED <<getNextAll, treeStore, cell, start, reports, new, at, expansions, raced>>

return(w) ==
  /\ runs(w, "getNextAll") /\ reports[w] = <<>>
  /\ goto(w, "getNextQueuedState")
  /\ UNCHANGED <<getNextAll, treeStore, queue, reports, new, at, expansions, raced>>

step(w) ==
  \/ take(w) \/ takeStale(w) \/ takeNull(w) \/ takeWild(w) \/ end(w) \/ return(w)
  \/ reportTransition(w) \/ readEnd(w) \/ writeCell(w) \/ moveEnd(w)

(* go() returns when the last worker ended. *)
allEnded == \A w \in Worker : pc[w] = "ended"

Stopped == (allEnded \/ crashed) /\ UNCHANGED vars

Next == (\E w \in Worker : step(w)) \/ Stopped

(* The operating system runs every thread now and then. *)
Spec == Init /\ [][Next]_vars /\ \A w \in Worker : WF_vars(step(w))

-----------------------------------------------------------------------------
expanded == {s \in State : expansions[s] > 0}

Abstract == INSTANCE Exploration
            WITH successors <- [s \in State |-> Range(getNextAll[s])],
                 found <- treeStore

TakeAgain == \E s \in expanded : /\ expansions' = [expansions EXCEPT ![s] = @ + 1]
                                 /\ UNCHANGED <<getNextAll, treeStore>>

(* Whatever the races, only reachable states are stored, and a state is     *)
(* handed to a worker a second time (line 461) only by popping a cell that  *)
(* nobody wrote: reportTransition queues no state twice, and a cell that    *)
(* two workers wrote holds the state of one of them.                       *)
ImplementsSearch ==
  Abstract!Init /\ [][Abstract!Next \/ (front = Garbage /\ TakeAgain)]_(Abstract!vars)

overfull == finish > Capacity + 1

(* An emplace_back that no other one overlaps may overlap any number of     *)
(* calls of getNextQueuedState, which looks at the end (line 460) while the *)
(* cell is written and the end is moved: no state is expanded twice, and   *)
(* no pointer that was not written is followed.  (When the bound on the    *)
(* cells was exceeded the model has lost the states behind it.)             *)
TakenOnceWithoutRace ==
  ~raced /\ ~overfull => ~crashed /\ \A s \in State : expansions[s] <= 1

(* Workers end as soon as they see an empty queue, while others may still   *)
(* produce; that loses nothing.  Unless two emplace_backs overlap, all     *)
(* reachable states are stored and expanded when the last worker ends.     *)
NothingLostWithoutRace == allEnded /\ ~raced => Abstract!Searched

(* The search ends: go() returns or the process crashes. *)
Terminates == <>(allEnded \/ crashed)
=============================================================================
