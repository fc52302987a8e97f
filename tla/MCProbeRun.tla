------------------------------- MODULE MCProbeRun -------------------------------
(***************************************************************************)
(* ProbeRun for TLC: the default request and every request of up to three  *)
(* names, two of them not in the Registry and one of these not UTF-8.      *)
(***************************************************************************)
EXTENDS ProbeRun

BadNames == {"notUTF8"}
Names == Known \cup BadNames \cup {"other"}
UpTo(n) == UNION {[1..k -> Names] : k \in 1..n}

AllRequests == {DefaultCollectors} \cup UpTo(3)

\* A request that mixes a collector with an unknown name given twice.
UnknownTwice == {<<"cluster", "other", "other">>}
===============================================================================
