------------------------------ MODULE AtomicRMW ------------------------------
(***************************************************************************)
(* What the kinds of atomicrmw compute, as the operator that ByteMemory    *)
(* leaves open: the instructions that the generator's switch emits read    *)
(* bytes as numbers.                                                       *)
(***************************************************************************)
EXTENDS ByteMemory, Bitwise

(* The number that n bytes stand for, and the n bytes of a number.         *)
number(v, n) ==
  LET sum[k \in 0..n] == IF k = 0 THEN 0 ELSE sum[k - 1] + v[k - 1] * Radix^(k - 1)
  IN  sum[n]

bytes(x, n) == [k \in 0..n - 1 |-> (x \div Radix^k) % Radix]

signed(x, n) == IF 2 * x < Radix^n THEN x ELSE x - Radix^n
complement(x, n) == Radix^n - 1 - x

(* Mutated form: min compares unsigned. *)
computeMutated(kind, old, v, n) ==
  CASE kind = "add" -> (old + v) % Radix^n
    [] kind \in {"min", "umin"} -> IF old < v THEN old ELSE v
    [] OTHER -> v

(* The switch over the kinds; slt and ult are signed and unsigned          *)
(* comparison.                                                             *)
compute(kind, old, v, n) ==
  LET slt == signed(old, n) < signed(v, n)
      ult == old < v
      sum == (old + v) % Radix^n
  IN  CASE kind = "xchg" -> v
        [] kind = "add"  -> sum
        [] kind = "sub"  -> (old - v) % Radix^n
        [] kind = "and"  -> old & v
        [] kind = "nand" -> complement(sum, n)
        [] kind = "or"   -> old | v
        [] kind = "xor"  -> old ^^ v
        [] kind = "max"  -> IF slt THEN v ELSE old
        [] kind = "min"  -> IF slt THEN old ELSE v
        [] kind = "umax" -> IF ult THEN v ELSE old
        [] kind = "umin" -> IF ult THEN old ELSE v

newVal(kind, old, v, n) == bytes(compute(kind, number(old, n), number(v, n), n), n)

-----------------------------------------------------------------------------
(* What the comments in front of the kinds of atomicrmw say (2363-2408).   *)
commented(kind, old, v, n) ==
  CASE kind = "xchg" -> v
    [] kind = "add"  -> (old + v) % Radix^n
    [] kind = "sub"  -> (old - v) % Radix^n
    [] kind = "and"  -> old & v
    [] kind = "nand" -> complement(old & v, n)
    [] kind = "or"   -> old | v
    [] kind = "xor"  -> old ^^ v
    [] kind = "max"  -> IF signed(old, n) > signed(v, n) THEN old ELSE v
    [] kind = "min"  -> IF signed(old, n) < signed(v, n) THEN old ELSE v
    [] kind = "umax" -> IF old > v THEN old ELSE v
    [] kind = "umin" -> IF old < v THEN old ELSE v

(* Every kind of atomicrmw but nand makes of what an object holds what its  *)
(* comment says, also when the sum or difference overflows and whatever    *)
(* the sign ("*p = ~(old & v)", line 2382, is the complement of the sum).  *)
RMWAsCommented ==
  \A o \in DOMAIN objects :
    LET n == objects[o].size IN
    \A kind \in Kinds \ {"nand"}, v \in Value(n) :
      number(newVal(kind, load(o), v, n), n) = commented(kind, number(load(o), n), number(v, n), n)

=============================================================================
