------------------------------- MODULE PerfFanout -------------------------------
(***************************************************************************)
(* collectPerf (internal/collector/perf.go): Flux queries in goroutines    *)
(* that share, under one mutex, the slice of metrics and the first error.  *)
(* Which rows of an answer make metrics is ItemsOf of FluxRows.            *)
(***************************************************************************)
EXTENDS FluxRows

CONSTANTS Queries,     \* the queries, one goroutine each
          Answers,     \* what Client.Query can give for each query: sequences of results
          Nobody       \* the holder of a free mutex, and no error

ASSUME PerfAssumption ==
  /\ Queries \subseteq PerfQueries /\ Nobody \notin Queries
  /\ \A q \in Queries : \A a \in Answers[q] : DOMAIN a \subseteq Nat

VARIABLES
  pc,        \* where each query's goroutine is
  answer,    \* the results it got
  added,     \* the items it has appended
  mu,        \* who holds the mutex
  seen,      \* the slice a goroutine read before appending to it
  metrics,   \* the shared slice: <<q, i>> for item i of query q
  firstErr,  \* the query whose error is kept
  failed,    \* the queries that failed
  outcome    \* running, registered or failed

shared == <<metrics, firstErr>>
answers == <<answer, failed>>
vars == <<pc, added, mu, seen, shared, answers, outcome>>

\* The items query q gives, none without rows, and those it has yet to append.
Gives(q) == ItemsOf(q, answer[q])
Left(q) == Gives(q) \ added[q]

Init ==
  /\ pc = [q \in Queries |-> "query"]
  /\ answer = [q \in Queries |-> <<>>]
  /\ added = [q \in Queries |-> {}]
  /\ mu = Nobody
  /\ seen = [q \in Queries |-> {}]
  /\ metrics = {} /\ firstErr = Nobody
  /\ failed = {}
  /\ outcome = "running"

Goto(q, l) == pc' = [pc EXCEPT ![q] = l]

-------------------------------------------------------------------------------
\* runQuery: results, or an error.
QueryAnswers(q) ==
  /\ pc[q] = "query"
  /\ \E a \in Answers[q] :
       /\ answer' = [answer EXCEPT ![q] = a]
       /\ Goto(q, IF ItemsOf(q, a) = {} THEN "done" ELSE "add")
  /\ UNCHANGED <<added, mu, seen, shared, failed, outcome>>

QueryFails(q) ==
  /\ pc[q] = "query"
  /\ failed' = failed \cup {q}
  /\ Goto(q, "error")
  /\ UNCHANGED <<added, mu, seen, shared, answer, outcome>>

\* The first error is kept: the critical section is one step.
KeepError(q) ==
  /\ pc[q] = "error" /\ mu = Nobody
  /\ firstErr' = IF firstErr = Nobody THEN q ELSE firstErr
  /\ Goto(q, "done")
  /\ UNCHANGED <<added, mu, seen, metrics, answers, outcome>>

\* The bug of appending without the mutex.
AddUnlocked(q) ==
  /\ pc[q] = "add"
  /\ mu' = q
  /\ seen' = [seen EXCEPT ![q] = metrics]
  /\ Goto(q, "write")
  /\ UNCHANGED <<added, shared, answers, outcome>>

\* addMetrics, once per metric: the slice is read and written under the mutex.
AddRead(q) ==
  /\ pc[q] = "add" /\ mu = Nobody
  /\ mu' = q
  /\ seen' = [seen EXCEPT ![q] = metrics]
  /\ Goto(q, "write")
  /\ UNCHANGED <<added, shared, answers, outcome>>

AddWrite(q) ==
  /\ pc[q] = "write"
  /\ \E i \in Left(q) :
       /\ \A j \in Left(q) : i <= j
       /\ metrics' = seen[q] \cup {<<q, i>>}
       /\ added' = [added EXCEPT ![q] = @ \cup {i}]
       /\ Goto(q, IF Left(q) = {i} THEN "done" ELSE "add")
  /\ mu' = Nobody
  /\ UNCHANGED <<seen, firstErr, answers, outcome>>

\* The bug of failing as soon as one query has.
WaitStrict ==
  /\ outcome = "running"
  /\ \A q \in Queries : pc[q] = "done"
  /\ outcome' = IF firstErr # Nobody THEN "failed" ELSE "registered"
  /\ UNCHANGED <<pc, added, mu, seen, shared, answers>>

\* wg.Wait: an error only when nothing at all was collected.
Wait ==
  /\ outcome = "running"
  /\ \A q \in Queries : pc[q] = "done"
  /\ outcome' = IF metrics = {} /\ firstErr # Nobody THEN "failed" ELSE "registered"
  /\ UNCHANGED <<pc, added, mu, seen, shared, answers>>

Step(q) ==
  \/ QueryAnswers(q) \/ QueryFails(q) \/ KeepError(q) \/ AddRead(q) \/ AddWrite(q)

Next == Wait \/ \E q \in Queries : Step(q)

Spec == Init /\ [][Next]_vars

-------------------------------------------------------------------------------
\* The values the code can give each variable; a goroutine is between Lock and
\* Unlock of addMetrics exactly when it holds the mutex.
TypeOK ==
  /\ pc \in [Queries -> {"query", "error", "add", "write", "done"}]
  /\ \A q \in Queries : answer[q] \in Answers[q] \cup {<<>>}
  /\ added \in [Queries -> SUBSET Nat]
  /\ mu \in Queries \cup {Nobody}
  /\ seen \in [Queries -> SUBSET (Queries \X Nat)]
  /\ metrics \subseteq Queries \X Nat
  /\ firstErr \in Queries \cup {Nobody}
  /\ failed \subseteq Queries
  /\ outcome \in {"running", "registered", "failed"}
  /\ \A q \in Queries : pc[q] = "write" <=> mu = q

\* A failed query takes no other query's metrics with it: the collector
\* registers everything the others gave (perf.go:225-227).
FailureIsolated ==
  outcome = "registered" => metrics = UNION {{q} \X Gives(q) : q \in Queries}

\* The collector fails when, and only when, no query gave anything and one
\* failed, with the error of one that did (perf.go:222-225, 326-328).
FailsWithNothing ==
  /\ outcome = "failed" =>
       /\ \A q \in Queries : Gives(q) = {}
       /\ firstErr \in failed
  /\ outcome = "registered" =>
       failed = {} \/ \E q \in Queries : Gives(q) # {}

\* The queries are the jobs of a FanOut: no addMetrics takes back what another
\* one appended, and collectPerf ends after all of them (perf.go:262-274, 324).
FO == INSTANCE FanOut WITH
  Jobs <- Queries,
  open <- {q \in Queries : pc[q] # "done"},
  gave <- [q \in Queries |-> Gives(q)],
  sum <- metrics,
  state <- IF outcome = "running" THEN "running" ELSE "over"
ImplementsFanOut == FO!Spec

SeriesAt(item) == SeriesOfItem(item[1], answer[item[1]], item[2])

\* The registry refuses a scrape in which a series comes twice.  No two queries
\* give the same series, and the transaction rates and latencies give theirs
\* once however many rows come back; only a throughput or error answer with two
\* rows of one field (and head) brings a series twice (perf.go:276-322).
CollisionNeedsRepeatedRow ==
  \A a, b \in metrics :
    a # b /\ SeriesAt(a) = SeriesAt(b) =>
      /\ a[1] = b[1] /\ a[1] \in {"throughput", "errors"}
      /\ \E i, j \in DOMAIN answer[a[1]] :
           /\ i # j
           /\ answer[a[1]][i].field = answer[a[1]][j].field
           /\ a[1] = "errors" => HeadOf(answer[a[1]][i]) = HeadOf(answer[a[1]][j])
===============================================================================
