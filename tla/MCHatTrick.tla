----------------------------- MODULE MCHatTrick -----------------------------
(* Instances of HatTrick for TLC.                                          *)
EXTENDS HatTrick, TLC
=============================================================================
