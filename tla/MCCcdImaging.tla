---------------------------- MODULE MCCcdImaging ----------------------------
(* Instances of CcdImaging: tabs and process slots are interchangeable.    *)
EXTENDS CcdImaging, TLC

OneFrame  == {[filter |-> 0, frames |-> 1]}
TwoShapes == {[filter |-> 0, frames |-> 2], [filter |-> 23, frames |-> 1]}
Symmetry  == Permutations(Page) \cup Permutations(Job) \cup Permutations(Watcher)
=============================================================================
