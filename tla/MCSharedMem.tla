---------------------------- MODULE MCSharedMem ----------------------------
(* Names are interchangeable.                                              *)
EXTENDS SharedMem, TLC

NameSymmetry == Permutations(Names)
=============================================================================
