---------------------------- MODULE MCCalibration ----------------------------
(* Instances of Calibration: tabs are interchangeable.                     *)
EXTENDS Calibration, TLC

Symmetry == Permutations(Tab)
=============================================================================
