----------------------------- MODULE PhiStores -----------------------------
(***************************************************************************)
(* generateStoresForPHINodes: on a branch to a block, every PHI node of    *)
(* the block gets the value that belongs to the branch.  The stores are    *)
(* generated, and later run, one after the other; a PHI node that another  *)
(* one still has to read is put off.  The order in which the container     *)
(* (an unordered_map) is walked is left open.  The specification is named  *)
(* PhiSpec, so that a module can extend this one and ByteMemory.           *)
(***************************************************************************)
EXTENDS Naturals, FiniteSets

CONSTANTS Reg,     (* registers; a PHI node is identified with its register *)
          Const    (* a source that is not a register                       *)

ASSUME ConstAssumption == Const \notin Reg

VARIABLES moves,      \* PHI node -> the register or constant it is assigned
          pending,    \* "dependencies": PHI nodes not stored yet
          regs        \* the registers; each starts with its own name as value

phiVars == <<moves, pending, regs>>

Source == Reg \cup {Const}

TypeOK ==
  /\ pending \in SUBSET Reg
  /\ DOMAIN moves \in SUBSET Reg
  /\ moves \in [DOMAIN moves -> Source]
  /\ regs \in [Reg -> Source]

PhiInit ==
  /\ \E phis \in SUBSET Reg : moves \in [phis -> Source] /\ pending = phis
  /\ regs = [k \in Reg |-> k]

valueOf(a) == IF a = Const THEN Const ELSE regs[a]

(* Mutated form: the dependency taken the other way round. *)
hasDependerMutated(phi) == moves[phi] \in pending

(* Mutated form: PHI nodes that are stored still count as readers. *)
hasDependerForever(phi) == \E other \in DOMAIN moves : moves[other] = phi

hasDepender(phi) == \E other \in pending : moves[other] = phi

Store(phi) ==
  /\ phi \in pending
  /\ ~hasDepender(phi)
  /\ regs' = [regs EXCEPT ![phi] = valueOf(moves[phi])]
  /\ pending' = pending \ {phi}
  /\ UNCHANGED moves

(* done = 0: nothing was stored in the last round. *)
finished == \A phi \in pending : hasDepender(phi)

Finished == finished /\ UNCHANGED phiVars

PhiNext == (\E phi \in Reg : Store(phi)) \/ Finished

PhiSpec == PhiInit /\ [][PhiNext]_phiVars

-----------------------------------------------------------------------------
(* When all stores are done, every PHI node has the value its source had   *)
(* before the first store: doing them in this order is doing them at once. *)
AsIfAtOnce ==
  pending = {} => regs = [k \in Reg |-> IF k \in DOMAIN moves THEN moves[k] ELSE k]

(* The stores can be done in some order: no PHI node is read by one that    *)
(* comes after it, or by itself.                                           *)
orderExists ==
  \E place \in [DOMAIN moves -> 1..Cardinality(DOMAIN moves)] :
    \A p, q \in DOMAIN moves : moves[q] = p => place[q] < place[p]

(* The loop asserts "dependencies.size() == 0" behind it (line 3897).  It    *)
(* is right whenever the stores can be ordered at all: in whatever order   *)
(* the container is walked, no choice leads to a dead end.  PHI nodes that *)
(* exchange values, or one that keeps its value, are left over.            *)
AllStoredIfOrdered == finished /\ orderExists => pending = {}

=============================================================================
