------------------------------ MODULE MCLLDMC ------------------------------
(***************************************************************************)
(* LLDMCModel on small LLVM modules, most of them cut down from the        *)
(* programs under tests/correctness.  Parameters of a function are its     *)
(* registers 0 and 1.  PtrBase = 16, so 16 + k points to cell k of process *)
(* 0, where the globals are.                                               *)
(***************************************************************************)
EXTENDS LLDMCModel

N == NoReg

ins(op, d, a, b, fn)  == [op |-> op, d |-> d, a |-> a, b |-> b, fn |-> fn]

set(d, literal)       == ins("const", d, N, literal, 0)
add(d, a, b)          == ins("add", d, a, b, 0)
load(d, a)            == ins("load", d, a, 0, 0)
store(a, b)           == ins("store", N, a, b, 0)
alloca(d, n)          == ins("alloca", d, N, n, 0)
malloc(d, n)          == ins("malloc", d, N, n, 0)
goto(l)               == ins("br", N, N, l, l)
br(a, nonzero, zero)  == ins("br", N, a, zero, nonzero)
unreachable           == ins("unreachable", N, N, 0, 0)
ret(a)                == ins("ret", N, a, 0, 0)
call(d, fn, a, b)     == ins("call", d, a, b, fn)
create(fn, ptr, arg)  == ins("create", N, ptr, arg, fn)
join(t, ptr)          == ins("join", N, t, ptr, 0)
external              == ins("external", N, N, 0, 0)
assertFail            == ins("assert_fail", N, N, 0, 0)

extract(d, a, k)      == ins("extractvalue", d, a, k, 0)
exchange(a, b)        == ins("atomicrmw", N, a, b, 0)
fetchAdd(a, b)        == ins("atomicrmw", N, a, b, 1)
cmpxchg(d, a, b, fn)  == ins("cmpxchg", d, a, b, fn)
atomicLoad(a, ptr)    == ins("atomic_load", N, a, ptr, 0)
atomicStore(a, ptr)   == ins("atomic_store", N, a, ptr, 0)
cas(d, a, e, new)     == ins("atomic_compare_exchange", d, a, e, new)
memcpy(a, b)          == ins("memcpy", N, a, b, 0)

program(main, globals, instructions) ==
  [code |-> instructions, main |-> main, ctor |-> 0, globals |-> globals, phis |-> {}]

phi(from, to, d, a)   == [from |-> from, to |-> to, d |-> d, a |-> a]

(* pthread_simple: two threads increment a global without a lock, main     *)
(* joins both into the globals.                                            *)
Increment == program(1, 4,
  << set(1, 16), set(2, 17), set(5, 18), create(16, 1, 5),      \*  1
     create(16, 2, 5),                                          \*  5
     load(3, 1), load(4, 2),                                    \*  6
     join(3, 1), join(4, 2), load(0, 5), goto(12),              \*  8
     ret(N), ret(N), ret(N), ret(N),                            \* 12
     load(1, 0), set(2, 1), add(1, 1, 2), store(0, 1), ret(1) >>) \* 16

(* pthread_recursive: main creates a thread that creates a thread and      *)
(* joins it.                                                               *)
Recursive == program(1, 2,
  << set(1, 16), set(5, 17), create(7, 1, 5),                   \*  1
     load(2, 1), join(2, 1), ret(N),                            \*  4
     malloc(1, 1), create(12, 1, 0),                            \*  7
     load(2, 1), join(2, 0), ret(2),                            \*  9
     load(3, 0), set(4, 7), add(3, 3, 4), ret(3) >>)            \* 12

(* main ends at once; the thread it created creates another, which takes   *)
(* the slot of main.                                                       *)
Reuse == program(1, 2,
  << set(1, 16), set(2, 17), create(5, 1, 2), ret(N),           \*  1
     alloca(1, 1), create(9, 1, 0),                             \*  5
     load(2, 1), ret(2),                                        \*  7
     malloc(1, 1), store(1, 0), ret(1) >>)                      \*  9

(* More threads than slots: the call of pthread_create is the first        *)
(* instruction of its group in main, the second in the thread.             *)
Full == program(1, 3,
  << set(1, 16), set(2, 17), create(7, 1, 1),                   \*  1
     create(7, 2, 2), create(10, 2, 2), ret(N),                 \*  4
     set(1, 18), create(10, 1, 0), ret(0),                      \*  7
     store(0, 0), ret(0) >>)                                    \* 10

(* The start routine returns nothing: its joiner waits for ever. *)
Void == program(1, 1,
  << set(1, 16), create(6, 1, 1), load(2, 1), join(2, 1), ret(N), \*  1
     external, unreachable >>)                                  \*  6

(* main joins a thread that returns its argument. *)
Joined == program(1, 2,
  << set(1, 16), set(2, 17), create(7, 1, 2), load(2, 1), join(2, 1), ret(N), \*  1
     ret(0) >>)                                                 \*  7

(* main spins on a flag that the thread sets. *)
Spin == program(1, 2,
  << set(1, 16), set(2, 17), create(8, 1, 2), goto(5),          \*  1
     load(3, 2), br(3, 7, 5),                                   \*  5
     ret(N),                                                    \*  7
     set(1, 1), store(0, 1), ret(1) >>)                         \*  8

(* A thread never leaves a loop that looks at nothing. *)
Hang == program(1, 1,
  << set(1, 16), create(5, 1, 1), load(2, 1), ret(N),           \*  1
     store(0, N), goto(7),                                      \*  5
     set(2, 0), br(2, 9, 7),                                    \*  7
     ret(N) >>)                                                 \*  9

(* A thread calls a recursive function that adds its argument, kept in     *)
(* memory on the way, to the result of the call for one less.              *)
Sum(n) == program(1, 2,
  << set(1, 16), set(2, 17), create(6, 1, 1), create(6, 2, 2), ret(N), \* 1
     set(1, n), call(2, 9, 1, N), ret(2),                       \*  6
     br(0, 11, 10),                                             \*  9
     ret(0),                                                    \* 10
     alloca(4, 1), store(4, 0), set(1, -1), add(2, 0, 1),       \* 11
     call(3, 9, 2, N), load(1, 4), add(1, 1, 3), ret(1) >>)     \* 15

(* A loop over Fibonacci numbers: its PHI node for the smaller one reads   *)
(* that for the larger one.                                                *)
Fibonacci(n) ==
  [program(1, 1,
    << set(1, 16), create(4, 1, 1), ret(N),                     \*  1
       set(4, n), set(5, 1), set(3, -1), goto(8),               \*  4
       add(5, 1, 2), add(4, 0, 3), br(4, 8, 11),                \*  8
       ret(1) >>)                                               \* 11
   EXCEPT !.phis = { phi(7, 8, 0, 4), phi(7, 8, 1, N), phi(7, 8, 2, 5),
                     phi(10, 8, 0, 4), phi(10, 8, 1, 2), phi(10, 8, 2, 5) }]

(* The thread leaves something in its memory for main, who asserts it.     *)
Checked == program(1, 2,
  << set(1, 16), set(2, 17), set(3, 1), store(2, 3), create(11, 1, 2), \* 1
     load(4, 2), br(4, 10, 8),                                  \*  6
     assertFail, unreachable,                                   \*  8
     ret(4),                                                    \* 10
     store(0, N), ret(N) >>)                                    \* 11

(* Calls a function that exchanges its two arguments before it returns.    *)
Exchange == program(1, 0,
  << set(0, 1), set(1, 2), call(2, 5, 1, 0), ret(2),            \*  1
     ret(0) >>)                                                 \*  5

(* A static constructor fills a global and leaves main its slot. *)
Constructed == [ctor |-> 7, main |-> 1, globals |-> 2, phis |-> {}, code |->
  << set(1, 16), set(2, 17), load(3, 1), create(6, 2, 3), ret(3), ret(0), \* 1
     alloca(1, 1), set(2, 16), store(2, 1), ret(N) >>]          \*  7

(* main creates two threads, of t0 and of t1, and joins both. *)
Threads2(t0, t1) ==
  << set(1, 18), set(2, 19), create(t0, 1, N), create(t1, 2, N), \*  1
     load(3, 1), load(4, 2), join(3, N), join(4, N), ret(N) >>  \*  5

(* pthread_dekker: each thread sets its flag and returns that of the other. *)
Dekker == program(1, 4, Threads2(10, 16) \o
  << set(1, 16), set(2, 17), set(3, 1), store(1, 3), load(4, 2), ret(4),    \* 10
     set(1, 16), set(2, 17), set(3, 1), store(2, 3), load(4, 1), ret(4) >>) \* 16

(* wrc: the first thread writes x, the second copies x to y, the third      *)
(* reads y and then x.                                                     *)
WriteReadCausality == program(1, 3,
  << set(1, 18), create(6, 1, N), create(10, 1, N), create(14, 1, N), ret(N), \* 1
     set(1, 16), set(2, 1), store(1, 2), ret(1),                \*  6
     set(1, 16), set(2, 17), load(3, 1), goto(19),              \* 10
     set(1, 16), set(2, 17), load(3, 2), load(4, 1), goto(21),  \* 14
     store(2, 3), ret(3),                                       \* 19
     br(4, 22, 23), ret(1), ret(3) >>)                          \* 21

(* Two threads add one to a global, by atomicrmw.                          *)
FetchAdd == program(1, 4, Threads2(10, 10) \o
  << set(1, 16), set(2, 1), fetchAdd(1, 2), ret(2) >>)          \* 10

(* ... in a loop around __atomic_compare_exchange,                         *)
CompareExchange == program(1, 4, Threads2(10, 10) \o
  << set(3, 16), alloca(1, 1), alloca(2, 1), atomicLoad(3, 1), goto(15),     \* 10
     load(4, 1), set(5, 1), add(4, 4, 5), store(2, 4), cas(5, 3, 1, 2), br(5, 21, 15), \* 15
     ret(3) >>)                                                 \* 21

(* ... under a spin lock.                                                  *)
SpinLock == program(1, 4, Threads2(10, 10) \o
  << set(0, 17), set(1, 16), set(2, 1), goto(14),               \* 10
     cmpxchg(3, 0, N, 2), extract(5, 3, 1), br(5, 17, 14),      \* 14
     load(5, 1), add(5, 5, 2), store(1, 5), exchange(0, N), ret(2) >>) \* 17

(* A thread fills a cell and then raises a flag; another waits for the flag *)
(* and copies the cell.                                                    *)
Publish == program(1, 4, Threads2(10, 16) \o
  << set(1, 16), set(2, 17), alloca(3, 1), store(1, 1), store(3, 2), goto(23), \* 10
     set(1, 16), set(2, 17), alloca(3, 1), goto(20),            \* 16
     atomicLoad(2, 3), load(4, 3), br(4, 25, 20),               \* 20
     atomicStore(2, 3), ret(3),                                 \* 23
     memcpy(3, 1), load(4, 3), ret(4) >>)                       \* 25

-----------------------------------------------------------------------------
ThreadModules ==
  {Increment, Recursive, Reuse, Constructed}
    \cup {Sum(n) : n \in 0..3} \cup {Fibonacci(n) : n \in 1..5} \cup {Checked}
    \cup {Dekker, WriteReadCausality, FetchAdd, CompareExchange, SpinLock, Publish}
SmallModules  == {Recursive, Reuse, Full, Void, Joined, Spin, Hang, Constructed, Sum(1),
                  Fibonacci(3)}
CheckedOnly   == {Checked}
ExchangeOnly  == {Exchange}

triangular[n \in Nat] == IF n = 0 THEN 0 ELSE n + triangular[n - 1]
fibonacci[n \in Nat]  == IF n < 2 THEN n ELSE fibonacci[n - 1] + fibonacci[n - 2]

(* The results of the threads are the triangular and Fibonacci numbers:    *)
(* arguments, frames, the callers' registers and memory survive recursion  *)
(* and do not mix with those of the other thread that runs the same        *)
(* function (pushStackFrame, popStackFrame); the PHI nodes of a loop each  *)
(* get the value of the round before (generateStoresForPHINodes).          *)
ResultsCorrect ==
  \A t \in Tid : hasResult(src, t) =>
    /\ \A n \in 0..3 : module = Sum(n) => src.tres[t].value = triangular[n]
    /\ \A n \in 1..5 : module = Fibonacci(n) => src.tres[t].value = fibonacci[n - 1]

result(t) == src.tres[t].value
ended(S)  == \A t \in S : hasResult(src, t)

(* The outcomes that tests/correctness rules out do not occur: in           *)
(* pthread_dekker a thread misses the flag of the other only if that sees  *)
(* its own; in wrc nobody sees the effect without the cause; and what was  *)
(* stored before a flag is there when the flag is seen.                    *)
SequentiallyConsistent ==
  /\ module = Dekker /\ ended({2, 3}) => result(2) = 1 \/ result(3) = 1
  /\ module = WriteReadCausality /\ ended({4}) => result(4) # 1
  /\ module = Publish /\ ended({3}) => result(3) = 16

(* No update of the counter is lost, be it atomic, a loop around a         *)
(* compare-exchange or plain accesses under a spin lock.                   *)
UpdatesNotLost ==
  module \in {FetchAdd, CompareExchange, SpinLock} /\ ended({2, 3}) => src.m[0][0] = 2

=============================================================================
