----------------------------- MODULE MeteringFanout -----------------------------
(***************************************************************************)
(* One collectMetering (internal/collector/metering.go): a goroutine per   *)
(* namespace, a channel as semaphore, a mutex around the shared slice, and *)
(* a WaitGroup.                                                            *)
(***************************************************************************)
EXTENDS Integers, FiniteSets

CONSTANTS Namespaces,     \* namespaces the cluster can list
          Concurrencies,  \* values --collector.metering.concurrency can have
          Nobody          \* the holder of a free mutex

ASSUME MeteringAssumption ==
  Concurrencies \subseteq Int /\ Nobody \notin Namespaces /\ IsFiniteSet(Namespaces)

\* The metric families of a namespace, by the request they come from.
Quota == {"block", "notification"}
Billing == {"used", "objects"}
Families == Quota \cup Billing

VARIABLES
  concurrency,  \* Settings.MeteringConcurrency
  listed,       \* what ListNamespaces returned
  pc,           \* where the goroutine of each namespace is
  local,        \* what it has collected
  sem,          \* values in the channel
  mu,           \* who holds the mutex
  seen,         \* the slice a goroutine read before appending to it
  metrics,      \* the shared slice: <<namespace, family>> pairs
  state         \* of the collector: listing, waiting, done, failed

worker == <<concurrency, listed, state>>
vars == <<worker, pc, local, sem, mu, seen, metrics>>

\* The bug of a channel without the clamp: a send on a channel of capacity
\* zero waits for a receiver, and none comes before it.
CapacityUnclamped == concurrency

\* make(chan struct{}, concurrency), after the clamp.
Capacity == IF concurrency < 1 THEN 1 ELSE concurrency

InSem == {"quota", "billing", "append", "write", "release"}

Init ==
  /\ concurrency \in Concurrencies
  /\ listed = {}
  /\ pc = [n \in Namespaces |-> "none"]
  /\ local = [n \in Namespaces |-> {}]
  /\ sem = 0
  /\ mu = Nobody
  /\ seen = [n \in Namespaces |-> {}]
  /\ metrics = {}
  /\ state = "listing"

Goto(n, l) == pc' = [pc EXCEPT ![n] = l]

-------------------------------------------------------------------------------
\* ListNamespaces fails, or starts a goroutine per namespace.
ListFails ==
  /\ state = "listing"
  /\ state' = "failed"
  /\ UNCHANGED <<concurrency, listed, pc, local, sem, mu, seen, metrics>>

ListSucceeds ==
  /\ state = "listing"
  /\ \E ns \in SUBSET Namespaces :
       /\ listed' = ns
       /\ pc' = [n \in Namespaces |-> IF n \in ns THEN "enter" ELSE "none"]
  /\ state' = "waiting"
  /\ UNCHANGED <<concurrency, local, sem, mu, seen, metrics>>

\* The bug of calling the API before the semaphore is taken.
EnterUnbounded(n) ==
  /\ pc[n] = "enter"
  /\ sem' = sem + 1
  /\ Goto(n, "quota")
  /\ UNCHANGED <<worker, local, mu, seen, metrics>>

\* sem <- struct{}{}
Enter(n) ==
  /\ pc[n] = "enter" /\ sem < Capacity
  /\ sem' = sem + 1
  /\ Goto(n, "quota")
  /\ UNCHANGED <<worker, local, mu, seen, metrics>>

\* GetNamespaceQuota fails, or gives no quota, or a block size with or without
\* a notification size.
QuotaAnswer(n) ==
  /\ pc[n] = "quota"
  /\ \E got \in {{}, {"block"}, Quota} :
       local' = [local EXCEPT ![n] = @ \cup got]
  /\ Goto(n, "billing")
  /\ UNCHANGED <<worker, sem, mu, seen, metrics>>

\* GetNamespaceBilling fails, or gives any of its two fields.
BillingAnswer(n) ==
  /\ pc[n] = "billing"
  /\ \E got \in SUBSET Billing : local' = [local EXCEPT ![n] = @ \cup got]
  /\ Goto(n, "append")
  /\ UNCHANGED <<worker, sem, mu, seen, metrics>>

\* The bug of appending without the mutex.
AppendUnlocked(n) ==
  /\ pc[n] = "append"
  /\ mu' = n
  /\ seen' = [seen EXCEPT ![n] = metrics]
  /\ Goto(n, "write")
  /\ UNCHANGED <<worker, local, sem, metrics>>

\* metrics = append(metrics, local...): read under the mutex, then written.
AppendRead(n) ==
  /\ pc[n] = "append" /\ mu = Nobody
  /\ mu' = n
  /\ seen' = [seen EXCEPT ![n] = metrics]
  /\ Goto(n, "write")
  /\ UNCHANGED <<worker, local, sem, metrics>>

AppendWrite(n) ==
  /\ pc[n] = "write"
  /\ metrics' = seen[n] \cup ({n} \X local[n])
  /\ mu' = Nobody
  /\ Goto(n, "release")
  /\ UNCHANGED <<worker, local, sem, seen>>

\* The deferred <-sem, then wg.Done.
Release(n) ==
  /\ pc[n] = "release"
  /\ sem' = sem - 1
  /\ Goto(n, "done")
  /\ UNCHANGED <<worker, local, mu, seen, metrics>>

\* The bug of registering without waiting.
NoWait ==
  /\ state = "waiting"
  /\ state' = "done"
  /\ UNCHANGED <<concurrency, listed, pc, local, sem, mu, seen, metrics>>

\* wg.Wait, and the metrics are registered.
Wait ==
  /\ state = "waiting"
  /\ \A n \in listed : pc[n] = "done"
  /\ state' = "done"
  /\ UNCHANGED <<concurrency, listed, pc, local, sem, mu, seen, metrics>>

Step(n) ==
  \/ Enter(n) \/ QuotaAnswer(n) \/ BillingAnswer(n)
  \/ AppendRead(n) \/ AppendWrite(n) \/ Release(n)

Next ==
  \/ ListFails \/ ListSucceeds \/ Wait
  \/ \E n \in Namespaces : Step(n)

Spec == Init /\ [][Next]_vars

\* Every request ends within the client's timeout; the runtime serves waiters
\* on a channel and on a mutex in order of arrival.
Fairness ==
  /\ WF_vars(ListFails \/ ListSucceeds) /\ WF_vars(Wait)
  /\ \A n \in Namespaces : SF_vars(Step(n))

FairSpec == Spec /\ Fairness

-------------------------------------------------------------------------------
\* The values the code can give each variable; a goroutine is between Lock and
\* Unlock exactly when it holds the mutex.
TypeOK ==
  /\ concurrency \in Concurrencies
  /\ listed \subseteq Namespaces
  /\ pc \in [Namespaces -> {"none", "enter", "done"} \cup InSem]
  /\ local \in [Namespaces -> SUBSET Families]
  /\ sem \in Nat
  /\ mu \in Namespaces \cup {Nobody}
  /\ seen \in [Namespaces -> SUBSET (Namespaces \X Families)]
  /\ metrics \subseteq Namespaces \X Families
  /\ state \in {"listing", "waiting", "done", "failed"}
  /\ \A n \in Namespaces : pc[n] = "write" <=> mu = n

\* The namespaces that are queried, or past it and still inside the semaphore,
\* are as many as the channel holds values, and never more than the configured
\* concurrency, one at least (probe.go:35-37, metering.go:58-62).
BoundedFanout ==
  /\ sem = Cardinality({n \in Namespaces : pc[n] \in InSem})
  /\ sem <= Capacity

\* What the collector registers is everything its goroutines collected and
\* nothing else: no append is lost to another one (metering.go:79-86).
NothingLost ==
  state = "done" => metrics = UNION {{n} \X local[n] : n \in listed}

\* The goroutines of the namespaces are the jobs of a FanOut: an append takes
\* nothing back, and the collector is over only after all of them
\* (metering.go:64-84).
FO == INSTANCE FanOut WITH
  Jobs <- Namespaces,
  open <- {n \in Namespaces : pc[n] \notin {"none", "done"}},
  gave <- local,
  sum <- metrics,
  state <- IF state = "listing" THEN "idle"
           ELSE IF state = "waiting" THEN "running" ELSE "over"
ImplementsFanOut == FO!Spec

\* The collector ends, with metrics or an error, whatever the concurrency
\* configured and however its goroutines queue (metering.go:59-61, 84).
CollectorEnds == <>(state \in {"done", "failed"})
===============================================================================
