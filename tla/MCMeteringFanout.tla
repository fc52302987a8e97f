---------------------------- MODULE MCMeteringFanout ----------------------------
(***************************************************************************)
(* MeteringFanout for TLC: no concurrency at all, which the clamp turns    *)
(* into one, and one less than there are namespaces.                       *)
(***************************************************************************)
EXTENDS MeteringFanout

ZeroOrTwo == {0, 2}
===============================================================================
