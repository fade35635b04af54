----------------------------- MODULE MCSSGenMT -----------------------------
(* Small state spaces for SSGenMT: a binary tree, a diamond with a cycle,  *)
(* a fan out of the initial state, and a chain.                            *)
EXTENDS SSGenMT, TLC

CONSTANTS s1, s2, s3, s4, s5

States == {s1, s2, s3, s4, s5}

Spaces == {
  s1 :> <<s2, s3>> @@ s2 :> <<s4>> @@ s3 :> <<s5>> @@ s4 :> <<>> @@ s5 :> <<>>,
  s1 :> <<s2, s3>> @@ s2 :> <<s4>> @@ s3 :> <<s4, s1>> @@ s4 :> <<s5, s4>> @@ s5 :> <<s2>>,
  s1 :> <<s2, s3, s4>> @@ s2 :> <<s3, s5>> @@ s3 :> <<s5>> @@ s4 :> <<>> @@ s5 :> <<s1>>,
  s1 :> <<s2>> @@ s2 :> <<s3>> @@ s3 :> <<s4>> @@ s4 :> <<s5>> @@ s5 :> <<>> }
=============================================================================
