------------------------------ MODULE PThreads ------------------------------
(***************************************************************************)
(* What the modelled program may rely on: the life of POSIX threads as     *)
(* pthread_create, the end of a start routine and pthread_join show it.    *)
(* An identifier is used once; a thread ends once, at which moment its     *)
(* result is fixed for good or, when it returns nothing, never appears.    *)
(* One visible step of a thread may start one thread and be its last.      *)
(***************************************************************************)
CONSTANT Tid   (* thread identifiers, the initial thread's among them *)

VARIABLES running,    \* identifiers of the threads that run
          used,       \* identifiers handed out
          results     \* <<>>, or <<v>> for a thread that ended with result v

vars == <<running, used, results>>

Init ==
  /\ running = {}
  /\ used = {}
  /\ results = [t \in Tid |-> <<>>]

(* The program starts with one thread. *)
Start(t) ==
  /\ used = {}
  /\ running' = {t}
  /\ used' = {t}
  /\ UNCHANGED results

(* The identifiers a visible step may hand out. *)
Fresh == {{}} \cup {{t} : t \in Tid \ used}

Run(t) ==
  /\ t \in running
  /\ \E new \in Fresh : running' = running \cup new /\ used' = used \cup new
  /\ UNCHANGED results

Finish(t) ==
  /\ t \in running
  /\ \E new \in Fresh : running' = (running \cup new) \ {t} /\ used' = used \cup new
  /\ \/ UNCHANGED results
     \/ /\ results[t] = <<>>
        /\ results' = [results EXCEPT ![t] = results'[t]]

Next == \E t \in Tid : Start(t) \/ Run(t) \/ Finish(t)

Spec == Init /\ [][Next]_vars

=============================================================================
