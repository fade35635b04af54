---------------------------- MODULE MCBucketSlab ----------------------------
(* Instances of one and two words; data words that look like a length (8), *)
(* like the identifier of an element (0, 1), and like neither.             *)
EXTENDS BucketSlab

Instances == {<<8>>, <<70>>, <<8, 70>>, <<70, 1>>, <<70, 70>>, <<0, 8>>}
=============================================================================
