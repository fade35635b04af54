----------------------------- MODULE Exploration -----------------------------
(***************************************************************************)
(* What every state-space generator promises: only reachable states are    *)
(* stored, no state is expanded twice, and in the end every stored state   *)
(* was expanded, so that all reachable states are stored.                  *)
(***************************************************************************)
EXTENDS Naturals

CONSTANTS State,     \* the states of the loaded model
          Initial    \* its initial state

VARIABLES successors,   \* the loaded model: state -> set of next states
          found,        \* states in the store
          expansions    \* how often the next states of a state were asked for

vars == <<successors, found, expansions>>

TypeOK ==
  /\ successors \in [State -> SUBSET State]
  /\ found \in SUBSET State
  /\ expansions \in [State -> Nat]

Init ==
  /\ successors \in [State -> SUBSET State]
  /\ found = {Initial}
  /\ expansions = [s \in State |-> 0]

Take(s) ==
  /\ s \in found /\ expansions[s] = 0
  /\ expansions' = [expansions EXCEPT ![s] = 1]
  /\ UNCHANGED <<successors, found>>

Find(t) ==
  /\ t \notin found
  /\ \E s \in State : expansions[s] > 0 /\ t \in successors[s]
  /\ found' = found \cup {t}
  /\ UNCHANGED <<successors, expansions>>

Next == \E s \in State : Take(s) \/ Find(s)

SafeSpec == Init /\ [][Next]_vars

Spec == SafeSpec /\ WF_vars(Next)

-----------------------------------------------------------------------------
(* The reachable states are the least set that holds the initial state and *)
(* is closed under the next states.                                        *)
Closed(S) == Initial \in S /\ \A s \in S : successors[s] \subseteq S

Searched ==
  /\ Closed(found)
  /\ \A s \in State : expansions[s] = IF s \in found THEN 1 ELSE 0
=============================================================================
