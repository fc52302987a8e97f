-------------------------------- MODULE NodeStats --------------------------------
(***************************************************************************)
(* The node collector: GetAllNodeDTStats probes every node in a goroutine  *)
(* of its own (internal/obsclient/dtstats.go), and nodeDTMetrics turns the *)
(* results into metrics (internal/collector/node.go).                      *)
(***************************************************************************)
EXTENDS Naturals, Sequences

CONSTANTS Addresses,  \* management IPs
          MaxNodes    \* bound: nodes of the cluster

ASSUME NodeAssumption == MaxNodes \in Nat

\* A result: its node, whether the DT counters and the connections have been
\* filled in, and Err.
Results == [node : Addresses, dt : BOOLEAN, conns : BOOLEAN, err : BOOLEAN]
NotYet == [node |-> "", dt |-> FALSE, conns |-> FALSE, err |-> FALSE]

VARIABLES
  addrs,    \* what GetNodes listed, in order
  pc,       \* where the goroutine of each index is
  result,   \* its result so far
  results,  \* the slice the goroutines fill
  waiting,  \* wg.Wait has not returned
  metrics   \* the results whose four metrics are registered, by index

vars == <<addrs, pc, result, results, waiting, metrics>>

Init ==
  /\ addrs \in UNION {[1..n -> Addresses] : n \in 0..MaxNodes}
  /\ pc = [i \in DOMAIN addrs |-> "dt"]
  /\ result = [i \in DOMAIN addrs |->
                 [node |-> addrs[i], dt |-> FALSE, conns |-> FALSE, err |-> FALSE]]
  /\ results = [i \in DOMAIN addrs |-> NotYet]
  /\ waiting = TRUE
  /\ metrics = {}

\* The bug of a goroutine that has not its own copy of the loop index.
DoneAtLast(i, r) ==
  /\ results' = [results EXCEPT ![Len(addrs)] = r]
  /\ result' = [result EXCEPT ![i] = r]
  /\ pc' = [pc EXCEPT ![i] = "done"]

\* results[i] = r, wg.Done.
Done(i, r) ==
  /\ results' = [results EXCEPT ![i] = r]
  /\ result' = [result EXCEPT ![i] = r]
  /\ pc' = [pc EXCEPT ![i] = "done"]

-------------------------------------------------------------------------------
\* getDTInitStat: the counters, or an error that ends the node's probe.
DTAnswers(i) ==
  /\ pc[i] = "dt"
  /\ result' = [result EXCEPT ![i].dt = TRUE]
  /\ pc' = [pc EXCEPT ![i] = "ping"]
  /\ UNCHANGED <<addrs, results, waiting, metrics>>

DTFails(i) ==
  /\ pc[i] = "dt"
  /\ Done(i, [result[i] EXCEPT !.err = TRUE])
  /\ UNCHANGED <<addrs, waiting, metrics>>

\* getPing.
PingAnswers(i) ==
  /\ pc[i] = "ping"
  /\ Done(i, [result[i] EXCEPT !.conns = TRUE])
  /\ UNCHANGED <<addrs, waiting, metrics>>

\* The bug of an error that is not kept.
PingFailsQuietly(i) ==
  /\ pc[i] = "ping"
  /\ Done(i, result[i])
  /\ UNCHANGED <<addrs, waiting, metrics>>

PingFails(i) ==
  /\ pc[i] = "ping"
  /\ Done(i, [result[i] EXCEPT !.err = TRUE])
  /\ UNCHANGED <<addrs, waiting, metrics>>

\* nodeDTMetrics: the results without an error.
MetricsOf(rs) == {i \in DOMAIN rs : ~rs[i].err}

\* wg.Wait, and the metrics are registered.
Wait ==
  /\ waiting
  /\ \A i \in DOMAIN addrs : pc[i] = "done"
  /\ waiting' = FALSE
  /\ metrics' = MetricsOf(results)
  /\ UNCHANGED <<addrs, pc, result, results>>

Step(i) == DTAnswers(i) \/ DTFails(i) \/ PingAnswers(i) \/ PingFails(i)

Next == Wait \/ \E i \in DOMAIN addrs : Step(i)

Spec == Init /\ [][Next]_vars

-------------------------------------------------------------------------------
\* The values the code can give each variable; a goroutine past its first
\* request has the counters, and one that has ended has put its result down.
TypeOK ==
  /\ pc \in [DOMAIN addrs -> {"dt", "ping", "done"}]
  /\ result \in [DOMAIN addrs -> Results]
  /\ results \in [DOMAIN addrs -> Results \cup {NotYet}]
  /\ \A i \in DOMAIN addrs :
       /\ pc[i] = "ping" => result[i].dt
       /\ pc[i] = "done" <=> results[i] # NotYet
       /\ pc[i] = "done" => result[i].conns \/ result[i].err

\* The nodes are the jobs of a FanOut: each writes its own place in the slice,
\* once, and the metrics are made after all of them (dtstats.go:59-71).
FO == INSTANCE FanOut WITH
  Jobs <- 1..MaxNodes,
  open <- {i \in DOMAIN addrs : pc[i] # "done"},
  gave <- [i \in 1..MaxNodes |->
             IF i \in DOMAIN addrs /\ pc[i] = "done" THEN {result[i]} ELSE {}],
  sum <- {<<i, results[i]>> : i \in {k \in DOMAIN addrs : results[k] # NotYet}},
  state <- IF waiting THEN "running" ELSE "over"
ImplementsFanOut == FO!Spec

\* One result per node, in the order of the input, whatever the order the
\* goroutines end in (dtstats.go:55-57).
ResultsInOrder ==
  ~waiting =>
    /\ Len(results) = Len(addrs)
    /\ \A i \in DOMAIN addrs :
         results[i].node = addrs[i] /\ results[i] = result[i]

\* A node has its metrics exactly when both its endpoints answered, and they are
\* its own: one that fails takes no other with it, and is never published half
\* filled in or under another node's address (node.go:92-93, dtstats.go:16-17).
FailedNodeIsolated ==
  ~waiting =>
    /\ metrics = {i \in DOMAIN addrs : result[i].dt /\ result[i].conns}
    /\ \A i \in metrics : results[i] = result[i] /\ results[i].node = addrs[i]
===============================================================================
