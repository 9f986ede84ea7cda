---------------------------- MODULE MCDslrImaging ---------------------------
(* Instances of DslrImaging: tabs and process slots are interchangeable.   *)
EXTENDS DslrImaging, TLC

Symmetry == Permutations(Page) \cup Permutations(Job) \cup Permutations(Loader)
=============================================================================
