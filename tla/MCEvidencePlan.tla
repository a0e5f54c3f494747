--------------------------- MODULE MCEvidencePlan ---------------------------
(***************************************************************************)
(* The instances of MCEngine whose evidence is also planned with, reported *)
(* on and pinned.                                                          *)
(***************************************************************************)
EXTENDS MCEngine, EvidencePlan
=============================================================================
