------------------------------- MODULE SSGenST -------------------------------
(***************************************************************************)
(* ssgen_st: breadth-first search by one thread.  go() swaps two queues,   *)
(* pops a state, and asks the model for its next states; the model calls   *)
(* reportTransition once per transition, which stores the next state and   *)
(* queues it for the next level when it is new.                            *)
(***************************************************************************)
EXTENDS Sequences, FiniteSets, Integers, SequencesExt

CONSTANTS State, Initial,
          MaxTransitions    \* bound: transitions of one state

ASSUME SSGenSTAssumption == Initial \in State /\ MaxTransitions \in Nat

VARIABLES getNextAll,      \* the loaded model: state -> next states in order
          treeStore,       \* _treeStore.typeDB(0)
          stateQueue, stateQueueNew,
          reports,         \* transitions of the popped state not reported yet
          level,
          transitions,     \* _transitions
          expansions       \* history: how often a state was popped

vars == <<getNextAll, treeStore, stateQueue, stateQueueNew, reports, level, transitions,
          expansions>>

TypeOK ==
  /\ getNextAll \in [State -> BoundedSeq(State, MaxTransitions)]
  /\ treeStore \in SUBSET State
  /\ stateQueue \in Seq(State) /\ stateQueueNew \in Seq(State)
  /\ reports \in BoundedSeq(State, MaxTransitions)
  /\ level \in Nat /\ transitions \in Nat /\ expansions \in [State -> Nat]

(* go() up to the first swap: the initial state is stored and queued. *)
Init ==
  /\ getNextAll \in [State -> BoundedSeq(State, MaxTransitions)]
  /\ treeStore = {Initial}
  /\ stateQueue = <<Initial>> /\ stateQueueNew = <<>>
  /\ reports = <<>>
  /\ level = 0 /\ transitions = 0 /\ expansions = [s \in State |-> 0]

(* Mutated form: a state is popped while another is being reported. *)
popNested ==
  /\ stateQueue # <<>>
  /\ stateQueue' = Tail(stateQueue)
  /\ reports' = reports \o getNextAll[Head(stateQueue)]
  /\ expansions' = [expansions EXCEPT ![Head(stateQueue)] = @ + 1]
  /\ UNCHANGED <<getNextAll, treeStore, stateQueueNew, level, transitions>>

pop ==
  /\ reports = <<>> /\ stateQueue # <<>>
  /\ stateQueue' = Tail(stateQueue)
  /\ reports' = getNextAll[Head(stateQueue)]
  /\ expansions' = [expansions EXCEPT ![Head(stateQueue)] = @ + 1]
  /\ UNCHANGED <<getNextAll, treeStore, stateQueueNew, level, transitions>>

nextLevel ==
  /\ reports = <<>> /\ stateQueue = <<>> /\ stateQueueNew # <<>>
  /\ stateQueue' = stateQueueNew /\ stateQueueNew' = stateQueue
  /\ level' = level + 1
  /\ UNCHANGED <<getNextAll, treeStore, reports, transitions, expansions>>

(* Mutated form: a transition to a stored state is not counted. *)
reportTransitionMutated ==
  /\ reports # <<>>
  /\ reports' = Tail(reports)
  /\ IF Head(reports) \in treeStore
     THEN UNCHANGED <<treeStore, stateQueueNew, transitions>>
     ELSE /\ transitions' = transitions + 1
          /\ treeStore' = treeStore \cup {Head(reports)}
          /\ stateQueueNew' = Append(stateQueueNew, Head(reports))
  /\ UNCHANGED <<getNextAll, stateQueue, level, expansions>>

(* Mutated form: every reported state is queued, new or not. *)
reportTransitionAlwaysQueues ==
  /\ reports # <<>>
  /\ reports' = Tail(reports)
  /\ transitions' = transitions + 1
  /\ treeStore' = treeStore \cup {Head(reports)}
  /\ stateQueueNew' = Append(stateQueueNew, Head(reports))
  /\ transitions < Cardinality(State) * MaxTransitions
  /\ UNCHANGED <<getNextAll, stateQueue, level, expansions>>

(* Mutated form: a new state goes to the queue that is being worked off.    *)
reportTransitionSameLevel ==
  /\ reports # <<>>
  /\ reports' = Tail(reports)
  /\ transitions' = transitions + 1
  /\ IF Head(reports) \in treeStore
     THEN UNCHANGED <<treeStore, stateQueue>>
     ELSE /\ treeStore' = treeStore \cup {Head(reports)}
          /\ stateQueue' = Append(stateQueue, Head(reports))
  /\ UNCHANGED <<getNextAll, stateQueueNew, level, expansions>>

reportTransition ==
  /\ reports # <<>>
  /\ reports' = Tail(reports)
  /\ transitions' = transitions + 1
  /\ IF Head(reports) \in treeStore
     THEN UNCHANGED <<treeStore, stateQueueNew>>
     ELSE /\ treeStore' = treeStore \cup {Head(reports)}
          /\ stateQueueNew' = Append(stateQueueNew, Head(reports))
  /\ UNCHANGED <<getNextAll, stateQueue, level, expansions>>

stopped == reports = <<>> /\ stateQueue = <<>> /\ stateQueueNew = <<>>

Stopped == stopped /\ UNCHANGED vars

Next == pop \/ nextLevel \/ reportTransition \/ Stopped

(* One thread runs go() until it returns. *)
Spec == Init /\ [][Next]_vars /\ WF_vars(Next)

-----------------------------------------------------------------------------
queued == Range(stateQueue) \cup Range(stateQueueNew)

(* ssgen_st implements the exploration, its completeness included: no       *)
(* reachable state is missed or expanded twice, whatever the graph.        *)
Abstract == INSTANCE Exploration
            WITH successors <- [s \in State |-> Range(getNextAll[s])],
                 found <- treeStore

ImplementsExploration == Abstract!Spec

(* distance[d]: the states whose shortest path from the start has d steps. *)
within[d \in Nat] ==
  IF d = 0 THEN {Initial}
  ELSE within[d - 1] \cup UNION {Range(getNextAll[s]) : s \in within[d - 1]}

distance == [d \in Nat |-> IF d = 0 THEN {Initial} ELSE within[d] \ within[d - 1]]

(* go() visits the states in order of their distance: the queue of a level *)
(* holds states at that distance and the new queue states one step further.*)
BreadthFirst ==
  /\ Range(stateQueue) \subseteq distance[level]
  /\ stateQueueNew # <<>> => Range(stateQueueNew) \subseteq distance[level + 1]

(* The printed count (ssgen.h line 211): when go() returns, every           *)
(* transition of every stored state was counted exactly once.              *)
transitionsOf(S) == UNION {{s} \X DOMAIN getNextAll[s] : s \in S}

TransitionsCounted == stopped => transitions = Cardinality(transitionsOf(treeStore))

(* go() returns, and then all reachable states are stored and expanded.    *)
Complete == <>(stopped /\ Abstract!Searched)
=============================================================================
