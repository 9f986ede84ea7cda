------------------------------ MODULE MCNoVnc ------------------------------
(* Instances of VncSession for TLC.                                        *)
EXTENDS VncSession
=============================================================================
