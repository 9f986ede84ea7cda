---------------------------- MODULE MCAutofocus ----------------------------
(* Instances of Autofocus for TLC.                                         *)
EXTENDS Autofocus, TLC
=============================================================================
