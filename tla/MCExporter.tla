------------------------------- MODULE MCExporter -------------------------------
(***************************************************************************)
(* Exporter for TLC.                                                       *)
(***************************************************************************)
EXTENDS Exporter, TLC

\* Requests, and targets, are interchangeable.
Symmetry == Permutations(Handlers) \cup Permutations(Targets)
===============================================================================
