----------------------------- MODULE MCTreeStore -----------------------------
(* Two workers on one or two types whose stores exist, and one worker on   *)
(* three types of which two do not: only a vector that nobody else uses    *)
(* grows.                                                                  *)
EXTENDS TreeStore

CONSTANTS w1, w2

Clients == {w1, w2}

TwoWorkers == [workers |-> Clients, types |-> 1, bytes |-> 3, ids |-> 3, present |-> 1]
TwoTypes   == [workers |-> Clients, types |-> 2, bytes |-> 1, ids |-> 2, present |-> 2]
Growing    == [workers |-> {w1}, types |-> 3, bytes |-> 1, ids |-> 2, present |-> 1]

Workloads == {TwoWorkers, TwoTypes, Growing}

ASSUME WorkloadsGrowAlone == GrowsAlone
=============================================================================
