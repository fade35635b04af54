------------------------------ MODULE MCDriver ------------------------------
(* Any set of the tools may be installed. *)
EXTENDS Driver

AnyTools == SUBSET {"llc", "gcc", "clang", "dot"}
=============================================================================
