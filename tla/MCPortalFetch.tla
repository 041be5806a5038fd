---------------------------- MODULE MCPortalFetch ----------------------------
(***************************************************************************)
(* PortalFetch for TLC.  Fetches are interchangeable, and so are chunks: both *)
(* sets are of model values, and no property of the run that uses Symmetry   *)
(* is a liveness property.                                                  *)
(***************************************************************************)
EXTENDS PortalFetch, TLC

Symmetry == Permutations(Request) \cup Permutations(Chunk)
=============================================================================
