--------------------------- MODULE MCGuideServer ---------------------------
(* Instances of GuideServer for TLC.                                       *)
EXTENDS GuideServer, TLC
=============================================================================
