---------------------------- MODULE NodeStats_proofs ----------------------------
(***************************************************************************)
(* What GetAllNodeDTStats keeps whatever the number of nodes, whichever of *)
(* them fail and whatever the order their goroutines end in, and what the  *)
(* node collector publishes of it.                                         *)
(***************************************************************************)
EXTENDS NodeStats, TLAPS

\* The nodes have the indexes of a slice.
Indexed == \E n \in 0..MaxNodes : DOMAIN addrs = 1..n

\* Every result is that of its own node, the slice holds it once the goroutine
\* is over, and wg.Wait returns after all of them.
Placed ==
  /\ waiting \in BOOLEAN
  /\ \A i \in DOMAIN addrs :
       /\ result[i].node = addrs[i]
       /\ pc[i] = "done" => results[i] = result[i]
       /\ ~waiting => pc[i] = "done"

\* What a result says of its requests: a goroutine at one has no answer of it
\* yet and no error, and one that is over has an error or both answers.
Flagged ==
  \A i \in DOMAIN addrs :
    /\ pc[i] = "dt" => ~result[i].dt
    /\ pc[i] # "done" => ~result[i].conns /\ ~result[i].err
    /\ pc[i] = "done" => (result[i].dt /\ result[i].conns <=> ~result[i].err)

\* The metrics are those of the slice as wg.Wait left it.
Published == ~waiting => metrics = MetricsOf(results)

IInv == TypeOK /\ Indexed /\ Placed /\ Flagged /\ Published

LEMMA InitIInv == Init => IInv
<1> SUFFICES ASSUME Init PROVE IInv
  OBVIOUS
<1>1. PICK n \in 0..MaxNodes : addrs \in [1..n -> Addresses]
  BY DEF Init
<1>2. \A i \in DOMAIN addrs : addrs[i] \in Addresses
  BY <1>1
<1>3. TypeOK
  BY <1>2 DEF Init, TypeOK, Results, NotYet
<1> QED
  BY <1>1, <1>2, <1>3 DEF Init, IInv, Indexed, Placed, Flagged, Published

\* A goroutine that ends puts a result with connections or an error down at its
\* own index.
LEMMA DoneIInv ==
  ASSUME IInv, NEW i \in DOMAIN addrs, NEW r \in Results, Done(i, r),
         r.node = addrs[i], r.conns \/ r.err, r.dt /\ r.conns <=> ~r.err,
         waiting, UNCHANGED <<addrs, waiting>>
  PROVE  IInv'
<1> USE DEF Done, IInv
<1>1. r # NotYet
  <2>1. NotYet.conns = FALSE /\ NotYet.err = FALSE
    BY DEF NotYet
  <2> QED
    BY <2>1
<1>2. TypeOK'
  BY <1>1 DEF TypeOK
<1>3. Indexed' /\ Placed' /\ Flagged' /\ Published'
  BY DEF TypeOK, Indexed, Placed, Flagged, Published
<1> QED
  BY <1>2, <1>3

LEMMA StepIInv ==
  ASSUME IInv, NEW i \in DOMAIN addrs, Step(i)
  PROVE  IInv'
<1>1. waiting /\ UNCHANGED <<addrs, waiting>> /\ result[i] \in Results /\ result[i].node = addrs[i]
  BY DEF IInv, TypeOK, Placed, Step, DTAnswers, DTFails, PingAnswers, PingFails
<1>0. ~result[i].conns /\ ~result[i].err /\ (pc[i] = "ping" => result[i].dt)
  BY DEF IInv, TypeOK, Flagged, Step, DTAnswers, DTFails, PingAnswers, PingFails
<1>2. CASE DTAnswers(i)
  <2>1. [result[i] EXCEPT !.dt = TRUE] \in Results
    BY <1>1 DEF Results
  <2>2. TypeOK'
    BY <1>2, <2>1 DEF DTAnswers, IInv, TypeOK
  <2>3. Indexed' /\ Placed'
    BY <1>1, <1>2 DEF DTAnswers, IInv, TypeOK, Indexed, Placed, Results
  <2>4. Flagged' /\ Published'
    BY <1>0, <1>1, <1>2 DEF DTAnswers, IInv, TypeOK, Flagged, Published, Results
  <2> QED
    BY <2>2, <2>3, <2>4 DEF IInv
<1>3. CASE DTFails(i) \/ PingFails(i)
  <2> DEFINE r == [result[i] EXCEPT !.err = TRUE]
  <2>1. r \in Results /\ r.node = addrs[i] /\ r.err /\ ~r.conns
    BY <1>0, <1>1 DEF Results
  <2>2. Done(i, r)
    BY <1>3 DEF DTFails, PingFails
  <2> HIDE DEF r
  <2> QED
    BY <1>1, <2>1, <2>2, DoneIInv
<1>4. CASE PingAnswers(i)
  <2> DEFINE r == [result[i] EXCEPT !.conns = TRUE]
  <2>1. r \in Results /\ r.node = addrs[i] /\ r.conns /\ r.dt /\ ~r.err
    BY <1>0, <1>1, <1>4 DEF Results, PingAnswers
  <2>2. Done(i, r)
    BY <1>4 DEF PingAnswers
  <2> HIDE DEF r
  <2> QED
    BY <1>1, <2>1, <2>2, DoneIInv
<1> QED
  BY <1>2, <1>3, <1>4 DEF Step

LEMMA IInvariant == Spec => []IInv
<1>1. IInv /\ [Next]_vars => IInv'
  <2> SUFFICES ASSUME IInv, [Next]_vars PROVE IInv'
    OBVIOUS
  <2>1. CASE UNCHANGED vars
    BY <2>1 DEF vars, IInv, TypeOK, Indexed, Placed, Flagged, Published, MetricsOf
  <2>2. CASE Wait
    BY <2>2 DEF Wait, IInv, TypeOK, Indexed, Placed, Flagged, Published, MetricsOf
  <2> QED
    BY <2>1, <2>2, StepIInv DEF Next
<1> QED
  BY <1>1, InitIInv, PTL DEF Spec

-------------------------------------------------------------------------------
\* Every state has values the code can give.
THEOREM TypeCorrect == Spec => []TypeOK
  BY IInvariant, PTL DEF IInv

\* One result per node, each at its node's place.
THEOREM InOrder == Spec => []ResultsInOrder
<1>1. IInv => ResultsInOrder
  <2> SUFFICES ASSUME IInv, ~waiting PROVE ResultsInOrder
    BY DEF ResultsInOrder
  <2>1. PICK n \in 0..MaxNodes : DOMAIN addrs = 1..n
    BY DEF IInv, Indexed
  <2>2. n \in Nat /\ DOMAIN results = 1..n
    BY <2>1, NodeAssumption DEF IInv, TypeOK
  <2>3. Len(addrs) = n /\ Len(results) = n
    BY <2>1, <2>2
  <2> QED
    BY <2>3 DEF IInv, Placed, ResultsInOrder
<1> QED
  BY <1>1, IInvariant, PTL

\* What is published is exactly the nodes whose endpoints both answered, each
\* under its own address and with its own values.
THEOREM Isolated == Spec => []FailedNodeIsolated
<1>1. IInv => FailedNodeIsolated
  <2> SUFFICES ASSUME IInv, ~waiting PROVE FailedNodeIsolated
    BY DEF FailedNodeIsolated
  <2>1. DOMAIN results = DOMAIN addrs /\ metrics = MetricsOf(results)
    BY DEF IInv, TypeOK, Published
  <2>2. \A i \in DOMAIN addrs :
          /\ results[i] = result[i] /\ results[i].node = addrs[i]
          /\ result[i].dt /\ result[i].conns <=> ~results[i].err
    BY DEF IInv, Placed, Flagged
  <2> QED
    BY <2>1, <2>2 DEF MetricsOf, FailedNodeIsolated
<1> QED
  BY <1>1, IInvariant, PTL

-------------------------------------------------------------------------------
\* The nodes probed and what has been put down, as FanOut has them.
Open == {i \in DOMAIN addrs : pc[i] # "done"}
Gave == [i \in 1..MaxNodes |->
           IF i \in DOMAIN addrs /\ pc[i] = "done" THEN {result[i]} ELSE {}]
Sum == {<<i, results[i]>> : i \in {k \in DOMAIN addrs : results[k] # NotYet}}

\* A goroutine that ends gives its result and puts it into the sum.
LEMMA DoneWorks ==
  ASSUME IInv, IInv', NEW i \in DOMAIN addrs, NEW r, Done(i, r), pc[i] # "done",
         waiting, UNCHANGED <<addrs, waiting>>
  PROVE  FO!Work(i)
<1> USE DEF IInv, TypeOK, Done
<1>1. i \in 1..MaxNodes
  <2>1. PICK n \in 0..MaxNodes : DOMAIN addrs = 1..n
    BY DEF Indexed
  <2> QED
    BY <2>1, NodeAssumption
<1>2. results'[i] = r /\ r # NotYet /\ result'[i] = r /\ pc'[i] = "done" /\ results[i] = NotYet
  OBVIOUS
<1>3. \A k \in DOMAIN addrs : k # i =>
        results'[k] = results[k] /\ result'[k] = result[k] /\ pc'[k] = pc[k]
  OBVIOUS
<1>4. Gave[i] = {} /\ Gave' = [Gave EXCEPT ![i] = {r}]
  <2>1. Gave[i] = {} /\ Gave'[i] = {r}
    BY <1>1, <1>2 DEF Gave
  <2>2. \A k \in 1..MaxNodes : k # i => Gave'[k] = Gave[k]
    BY <1>3 DEF Gave
  <2>3. /\ Gave = [k \in 1..MaxNodes |-> Gave[k]]
        /\ Gave' = [k \in 1..MaxNodes |-> Gave'[k]]
    BY DEF Gave
  <2> QED
    BY <1>1, <2>1, <2>2, <2>3
<1>5. Sum' = Sum \cup {<<i, r>>}
  BY <1>2, <1>3 DEF Sum
<1>6. Open' = Open \ {i} /\ i \in Open
  BY <1>2, <1>3 DEF Open
<1>7. Gave'[i] = {r} /\ {i} \X {r} = {<<i, r>>}
  BY <1>1, <1>4 DEF Gave
<1>8. /\ waiting /\ waiting' /\ i \in Open
      /\ Gave[i] \subseteq Gave'[i] /\ Gave' = [Gave EXCEPT ![i] = Gave'[i]]
      /\ Sum \subseteq Sum' /\ Sum' \subseteq Sum \cup ({i} \X Gave'[i])
      /\ Open' = Open \ {i} /\ {i} \X Gave'[i] \subseteq Sum'
  BY <1>4, <1>5, <1>6, <1>7
<1> QED
  BY <1>8 DEF FO!Work, Open, Gave, Sum

LEMMA StepWorks ==
  ASSUME IInv, IInv', NEW i \in DOMAIN addrs, Step(i)
  PROVE  FO!Work(i) \/ UNCHANGED <<Open, Gave, Sum, waiting>>
<1>1. waiting /\ UNCHANGED <<addrs, waiting>> /\ pc[i] # "done"
  BY DEF IInv, Placed, Step, DTAnswers, DTFails, PingAnswers, PingFails
<1>2. CASE DTAnswers(i)
  <2>1. \A k \in DOMAIN addrs : pc'[k] = "done" <=> pc[k] = "done"
    BY <1>2 DEF DTAnswers, IInv, TypeOK
  <2>2. \A k \in DOMAIN addrs : pc[k] = "done" => result'[k] = result[k]
    BY <1>2 DEF DTAnswers, IInv, TypeOK
  <2> QED
    BY <1>1, <1>2, <2>1, <2>2 DEF DTAnswers, Open, Gave, Sum
<1>3. CASE DTFails(i) \/ PingFails(i) \/ PingAnswers(i)
  <2>1. \E r : Done(i, r)
    BY <1>3 DEF DTFails, PingFails, PingAnswers
  <2> QED
    BY <1>1, <2>1, DoneWorks
<1> QED
  BY <1>2, <1>3 DEF Step

\* The node collector is a FanOut over the indexes of its nodes: no result
\* takes another's place, and the metrics are made after all of them.
THEOREM Implements == Spec => ImplementsFanOut
<1>1. Init => FO!Init
  <2> SUFFICES ASSUME Init PROVE FO!Init
    OBVIOUS
  <2>1. PICK n \in 0..MaxNodes : addrs \in [1..n -> Addresses]
    BY DEF Init
  <2>2. DOMAIN addrs \subseteq 1..MaxNodes
    BY <2>1, NodeAssumption
  <2>3. Open \subseteq 1..MaxNodes /\ Gave = [i \in 1..MaxNodes |-> {}] /\ Sum = {}
    BY <2>2 DEF Init, Open, Gave, Sum
  <2> QED
    BY <2>3 DEF Init, FO!Init, Open, Gave, Sum
<1>2. ASSUME IInv, IInv', [Next]_vars PROVE [FO!Next]_FO!vars
  <2>1. CASE UNCHANGED vars
    BY <2>1 DEF vars, FO!vars
  <2>2. CASE Wait
    <3>1. Open = {}
      BY <2>2 DEF Wait, Open
    <3> QED
      BY <2>2, <3>1 DEF Wait, FO!Next, FO!Finish, Open
  <2>3. ASSUME NEW i \in DOMAIN addrs, Step(i) PROVE [FO!Next]_FO!vars
    <3>1. i \in 1..MaxNodes
      BY <1>2, NodeAssumption DEF IInv, Indexed
    <3>2. CASE FO!Work(i)
      BY <3>1, <3>2 DEF FO!Next
    <3>3. CASE UNCHANGED <<Open, Gave, Sum, waiting>>
      BY <3>3 DEF FO!vars, Open, Gave, Sum
    <3> QED
      BY <1>2, <2>3, <3>2, <3>3, StepWorks
  <2> QED
    BY <1>2, <2>1, <2>2, <2>3 DEF Next
<1> QED
  BY <1>1, <1>2, IInvariant, PTL DEF Spec, ImplementsFanOut, FO!Spec

\* The FanOut of the nodes, with what is proved of every FanOut.
FOP == INSTANCE FanOut_proofs WITH
  Jobs <- 1..MaxNodes,
  open <- {i \in DOMAIN addrs : pc[i] # "done"},
  gave <- [i \in 1..MaxNodes |->
             IF i \in DOMAIN addrs /\ pc[i] = "done" THEN {result[i]} ELSE {}],
  sum <- {<<i, results[i]>> : i \in {k \in DOMAIN addrs : results[k] # NotYet}},
  state <- IF waiting THEN "running" ELSE "over"

\* So the slice wg.Wait leaves has every node's result and nothing else, by what
\* holds of any fan-out (dtstats.go:55-71).
THEOREM EndsComplete == Spec => []FO!Complete
<1>1. Spec => FO!Spec
  BY Implements DEF ImplementsFanOut
<1>2. FOP!Spec => []FOP!Complete
  BY FOP!CompleteAtTheEnd
<1>3. FO!Init => FOP!Init
  BY DEF FO!Init, FOP!Init
<1>4. [FO!Next]_(FO!vars) => [FOP!Next]_(FOP!vars)
  BY DEF FO!Next, FO!Begin, FO!GiveUp, FO!Work, FO!Finish, FO!vars,
         FOP!Next, FOP!Begin, FOP!GiveUp, FOP!Work, FOP!Finish, FOP!vars
<1>5. FOP!Complete => FO!Complete
  BY DEF FO!Complete, FOP!Complete
<1> QED
  BY <1>1, <1>2, <1>3, <1>4, <1>5, PTL DEF FO!Spec, FOP!Spec
===============================================================================
