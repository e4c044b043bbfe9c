---------------------------- MODULE MCBucketCache ----------------------------
(* Windows whose bounds lie on, before and after those of the intervals, one *)
(* of them shorter than a step.                                              *)
EXTENDS BucketCache, TLC
CONSTANTS p1, p2
SomeWindows == {<<2, 6>>, <<3, 7>>, <<2, 8>>, <<7, 8>>}
Symmetry == Permutations({p1, p2})
=============================================================================
