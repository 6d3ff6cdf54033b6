-------------------------- MODULE MCGenerationChain --------------------------
(* Two elements: a version may add or drop either, or exchange them.        *)
EXTENDS GenerationChain, TLC

Interchangeable == Permutations(Elements)
=============================================================================
