----------------------------- MODULE FanOut_proofs -----------------------------
(***************************************************************************)
(* What every FanOut keeps, for any set of jobs; the components that       *)
(* implement FanOut inherit it.                                            *)
(***************************************************************************)
EXTENDS FanOut, TLAPS

\* A job that is not open has all its items in the sum, which has no others;
\* before the start, and at the end, no job is open.
IInv ==
  /\ open \subseteq Jobs
  /\ gave = [j \in Jobs |-> gave[j]]
  /\ sum \subseteq UNION {{j} \X gave[j] : j \in Jobs}
  /\ \A j \in Jobs \ open : {j} \X gave[j] \subseteq sum
  /\ state # "running" => open = {}
  /\ state = "idle" => gave = [j \in Jobs |-> {}]

LEMMA InitIInv == Init => IInv
  BY DEF Init, IInv

LEMMA WorkIInv ==
  ASSUME IInv, NEW j \in Jobs, Work(j)
  PROVE  IInv'
<1> USE DEF IInv, Work
<1>1. open' \subseteq Jobs /\ gave' = [k \in Jobs |-> gave'[k]] /\ state = "running"
  OBVIOUS
<1>2. \A k \in Jobs : k # j => gave'[k] = gave[k]
  OBVIOUS
<1>3. \A k \in Jobs : gave[k] \subseteq gave'[k]
  BY <1>2
<1>4. (sum \subseteq UNION {{k} \X gave[k] : k \in Jobs})'
  <2> SUFFICES ASSUME NEW x \in sum' PROVE \E k \in Jobs : x \in {k} \X gave'[k]
    OBVIOUS
  <2>1. CASE x \in sum
    BY <2>1, <1>3
  <2>2. CASE x \in {j} \X gave'[j]
    BY <2>2
  <2> QED
    BY <2>1, <2>2
<1>5. (\A k \in Jobs \ open : {k} \X gave[k] \subseteq sum)'
  <2> SUFFICES ASSUME NEW k \in Jobs \ open' PROVE {k} \X gave'[k] \subseteq sum'
    OBVIOUS
  <2>1. CASE k = j
    BY <2>1
  <2>2. CASE k # j
    BY <2>2, <1>2
  <2> QED
    BY <2>1, <2>2
<1> QED
  BY <1>1, <1>4, <1>5

LEMMA IInvariant == Spec => []IInv
<1>1. IInv /\ [Next]_vars => IInv'
  <2> SUFFICES ASSUME IInv, [Next]_vars PROVE IInv'
    OBVIOUS
  <2>1. ASSUME Begin PROVE IInv'
    <3>1. \A j \in Jobs : gave[j] = {}
      BY <2>1 DEF Begin, IInv
    <3> QED
      BY <2>1, <3>1 DEF Begin, IInv
  <2>2. ASSUME GiveUp PROVE IInv'
    BY <2>2 DEF GiveUp, IInv
  <2>3. ASSUME Finish PROVE IInv'
    BY <2>3 DEF Finish, IInv
  <2>4. CASE UNCHANGED vars
    BY <2>4 DEF vars, IInv
  <2> QED
    BY <2>1, <2>2, <2>3, <2>4, WorkIInv DEF Next
<1> QED
  BY <1>1, InitIInv, PTL DEF Spec

\* A fan-out that is over has everything its jobs gave and nothing else.
THEOREM CompleteAtTheEnd == Spec => []Complete
<1>1. IInv => Complete
  <2> SUFFICES ASSUME IInv, state = "over"
               PROVE  UNION {{j} \X gave[j] : j \in Jobs} \subseteq sum
    BY DEF IInv, Complete
  <2>1. \A j \in Jobs : {j} \X gave[j] \subseteq sum
    BY DEF IInv
  <2> QED
    BY <2>1
<1> QED
  BY <1>1, IInvariant, PTL
===============================================================================
