--------------------------- MODULE PerfFanout_proofs ---------------------------
(***************************************************************************)
(* What collectPerf keeps whatever the queries answer, whichever of them   *)
(* fail and whatever the order their goroutines run in.                    *)
(***************************************************************************)
EXTENDS PerfFanout, TLAPS

\* A goroutine that has read the slice still has the slice as it is, for it
\* alone can write it.
SliceFresh == \A q \in Queries : pc[q] = "write" => seen[q] = metrics

\* The slice holds the metrics the goroutines have appended, and no others.
SliceExact ==
  \A q \in Queries, i \in Nat : <<q, i>> \in metrics <=> i \in added[q]

\* How far each goroutine is: nothing is appended before an answer, and one
\* that is over has appended all it has.
Progress ==
  \A q \in Queries :
    /\ pc[q] \in {"query", "error"} => answer[q] = <<>> /\ added[q] = {}
    /\ added[q] \subseteq Gives(q)
    /\ pc[q] \in {"add", "write"} => added[q] # Gives(q)
    /\ pc[q] = "done" => added[q] = Gives(q)

\* The queries that failed have no answer; once the first of them has left its
\* critical section its error, or an earlier one, is kept.
Errors ==
  /\ \A q \in failed : answer[q] = <<>> /\ pc[q] \in {"error", "done"}
  /\ \A q \in Queries : pc[q] = "error" => q \in failed
  /\ \A q \in failed : pc[q] = "done" => firstErr # Nobody
  /\ firstErr # Nobody => firstErr \in failed

\* collectPerf ends after all its goroutines, one way or the other.
Ended ==
  outcome # "running" =>
    /\ \A q \in Queries : pc[q] = "done"
    /\ outcome = "failed" <=> metrics = {} /\ firstErr # Nobody

IInv ==
  /\ TypeOK /\ answer = [q \in Queries |-> answer[q]]
  /\ SliceFresh /\ SliceExact /\ Progress /\ Errors /\ Ended

\* A query without rows gives nothing.
LEMMA NothingOfNothing == \A q : ItemsOf(q, <<>>) = {}
  BY DEF ItemsOf, RowsOf

\* The items of a query are numbers, those of a sum or a percentile one at most.
LEMMA ItemsType ==
  ASSUME NEW q \in Queries, NEW a \in Answers[q] \cup {<<>>}
  PROVE  ItemsOf(q, a) \subseteq Nat
<1>1. DOMAIN a \subseteq Nat
  BY PerfAssumption
<1> QED
  BY <1>1 DEF ItemsOf, RowsOf

LEMMA GivesType == ASSUME TypeOK, NEW q \in Queries PROVE Gives(q) \subseteq Nat
  BY ItemsType DEF TypeOK, Gives

LEMMA InitIInv == Init => IInv
<1> SUFFICES ASSUME Init PROVE IInv
  OBVIOUS
<1>1. \A q \in Queries : Gives(q) = {}
  BY NothingOfNothing DEF Init, Gives
<1> QED
  BY <1>1, PerfAssumption DEF Init, IInv, TypeOK, SliceFresh, SliceExact, Progress, Errors, Ended

LEMMA AnswersIInv ==
  ASSUME IInv, NEW q \in Queries, QueryAnswers(q)
  PROVE  IInv'
<1> USE DEF IInv, TypeOK
<1>1. PICK a \in Answers[q] :
        /\ answer' = [answer EXCEPT ![q] = a]
        /\ Goto(q, IF ItemsOf(q, a) = {} THEN "done" ELSE "add")
  BY DEF QueryAnswers
<1>2. pc[q] = "query" /\ added[q] = {} /\ UNCHANGED <<added, mu, seen, shared, failed, outcome>>
  BY DEF QueryAnswers, Progress
<1>3. /\ Gives(q)' = ItemsOf(q, a)
      /\ \A k \in Queries : k # q => Gives(k)' = Gives(k)
  BY <1>1 DEF Gives
<1>4. TypeOK' /\ answer' = [k \in Queries |-> answer'[k]]
  BY <1>1, <1>2, PerfAssumption DEF Goto, shared
<1>5. SliceFresh' /\ SliceExact'
  BY <1>1, <1>2 DEF Goto, shared, SliceFresh, SliceExact
<1>6. Progress'
  BY <1>1, <1>2, <1>3 DEF Goto, Progress
<1>7. Errors' /\ Ended'
  BY <1>1, <1>2 DEF Goto, shared, Errors, Ended
<1> QED
  BY <1>4, <1>5, <1>6, <1>7

\* Every other step leaves the answers as they are.
LEMMA GivesSame ==
  ASSUME UNCHANGED answer, NEW q
  PROVE  Gives(q)' = Gives(q)
  BY DEF Gives

LEMMA ErrorIInv ==
  ASSUME IInv, NEW q \in Queries, QueryFails(q) \/ KeepError(q)
  PROVE  IInv'
<1> USE DEF IInv, TypeOK, QueryFails, KeepError, Goto, shared, answers
<1>1. UNCHANGED <<answer, added, metrics, seen, outcome>> /\ pc[q] \in {"query", "error"}
  OBVIOUS
<1>2. TypeOK'
  BY PerfAssumption
<1>3. SliceFresh' /\ SliceExact' /\ Ended'
  BY DEF SliceFresh, SliceExact, Ended
<1>4. Progress'
  <2>1. Gives(q) = {} /\ \A k \in Queries : Gives(k)' = Gives(k)
    BY <1>1, GivesSame, NothingOfNothing DEF Gives, Progress
  <2>2. answer[q] = <<>> /\ added[q] = {} /\ pc'[q] \in {"error", "done"}
    BY <1>1 DEF Progress
  <2>3. \A k \in Queries : k # q => pc'[k] = pc[k]
    OBVIOUS
  <2> HIDE DEF IInv, TypeOK, QueryFails, KeepError, Goto
  <2>4. Progress
    BY DEF IInv
  <2> QED
    BY <1>1, <2>1, <2>2, <2>3, <2>4 DEF Progress
<1>5. Errors'
  <2>1. CASE QueryFails(q)
    BY <2>1 DEF Errors, Progress
  <2>2. CASE KeepError(q)
    BY <2>2, PerfAssumption DEF Errors, Progress
  <2> QED
    BY <2>1, <2>2
<1> QED
  BY <1>1, <1>2, <1>3, <1>4, <1>5

LEMMA AddReadIInv ==
  ASSUME IInv, NEW q \in Queries, AddRead(q)
  PROVE  IInv'
<1> USE DEF IInv, TypeOK, AddRead, Goto, shared, answers
<1>1. TypeOK'
  BY PerfAssumption
<1>2. SliceFresh' /\ SliceExact' /\ Errors' /\ Ended'
  BY DEF SliceFresh, SliceExact, Errors, Ended
<1>3. Progress'
  BY GivesSame DEF Progress
<1> QED
  BY <1>1, <1>2, <1>3

LEMMA AddWriteIInv ==
  ASSUME IInv, NEW q \in Queries, AddWrite(q)
  PROVE  IInv'
<1> USE DEF IInv, TypeOK, Goto, answers
<1>1. PICK i \in Left(q) :
        /\ metrics' = seen[q] \cup {<<q, i>>}
        /\ added' = [added EXCEPT ![q] = @ \cup {i}]
        /\ Goto(q, IF Left(q) = {i} THEN "done" ELSE "add")
  BY DEF AddWrite
<1>2. /\ pc[q] = "write" /\ mu' = Nobody
      /\ UNCHANGED <<seen, firstErr, answers, outcome>>
      /\ metrics' = metrics \cup {<<q, i>>}
  BY <1>1 DEF AddWrite, SliceFresh
<1>3. i \in Nat /\ i \in Gives(q) /\ i \notin added[q]
  BY GivesType DEF Left
<1>4. TypeOK'
  BY <1>1, <1>2, <1>3, PerfAssumption
<1>5. SliceFresh' /\ Ended' /\ Errors'
  BY <1>1, <1>2 DEF SliceFresh, Ended, Errors
<1>6. SliceExact'
  BY <1>1, <1>2 DEF SliceExact
<1>7. Progress'
  <2>1. \A k \in Queries : Gives(k)' = Gives(k)
    BY <1>2, GivesSame
  <2>2. added[q] \cup {i} = Gives(q) <=> Left(q) = {i}
    BY <1>3 DEF Left, Progress
  <2> QED
    BY <1>1, <1>2, <1>3, <2>1, <2>2 DEF Progress
<1> QED
  BY <1>2, <1>4, <1>5, <1>6, <1>7

LEMMA WaitIInv ==
  ASSUME IInv, Wait
  PROVE  IInv'
<1> USE DEF IInv, TypeOK, Wait, shared, answers
<1>1. Progress'
  BY GivesSame DEF Progress
<1> QED
  BY <1>1 DEF SliceFresh, SliceExact, Errors, Ended

LEMMA IInvariant == Spec => []IInv
<1>1. IInv /\ [Next]_vars => IInv'
  <2> SUFFICES ASSUME IInv, [Next]_vars PROVE IInv'
    OBVIOUS
  <2>1. CASE UNCHANGED vars
    BY <2>1 DEF vars, shared, answers, IInv, TypeOK, SliceFresh, SliceExact, Progress,
                Errors, Ended, Gives
  <2>2. CASE \E q \in Queries : Step(q)
    BY <2>2, AnswersIInv, ErrorIInv, AddReadIInv, AddWriteIInv DEF Step
  <2> QED
    BY <2>1, <2>2, WaitIInv DEF Next
<1> QED
  BY <1>1, InitIInv, PTL DEF Spec

-------------------------------------------------------------------------------
\* Every state has values the code can give, and the mutex is held exactly
\* between a goroutine's Lock and its Unlock.
THEOREM TypeCorrect == Spec => []TypeOK
  BY IInvariant, PTL DEF IInv

\* What is registered is everything the queries that answered gave.
THEOREM Isolated == Spec => []FailureIsolated
<1>1. IInv => FailureIsolated
  <2> SUFFICES ASSUME IInv, outcome = "registered"
               PROVE  metrics = UNION {{q} \X Gives(q) : q \in Queries}
    BY DEF FailureIsolated
  <2>1. \A q \in Queries : added[q] = Gives(q) /\ Gives(q) \subseteq Nat
    BY GivesType DEF IInv, Ended, Progress
  <2>2. \A q \in Queries, i \in Nat : <<q, i>> \in metrics <=> i \in Gives(q)
    BY <2>1 DEF IInv, SliceExact
  <2> QED
    BY <2>1, <2>2 DEF IInv, TypeOK
<1> QED
  BY <1>1, IInvariant, PTL

\* The collector fails exactly when a query failed and none gave anything.
THEOREM FailsOnlyEmpty == Spec => []FailsWithNothing
<1>1. IInv => FailsWithNothing
  <2> SUFFICES ASSUME IInv, outcome # "running" PROVE FailsWithNothing
    BY DEF FailsWithNothing
  <2>1. \A q \in Queries : added[q] = Gives(q) /\ Gives(q) \subseteq Nat
    BY GivesType DEF IInv, Ended, Progress
  <2>2. metrics = {} <=> \A q \in Queries : Gives(q) = {}
    <3>1. ASSUME NEW q \in Queries, NEW i \in Gives(q) PROVE <<q, i>> \in metrics
      BY <2>1 DEF IInv, SliceExact
    <3>2. ASSUME NEW m \in metrics PROVE \E q \in Queries : Gives(q) # {}
      BY <2>1 DEF IInv, TypeOK, SliceExact
    <3> QED
      BY <3>1, <3>2
  <2>3. firstErr # Nobody <=> failed # {}
    BY DEF IInv, TypeOK, Errors, Ended
  <2> QED
    BY <2>2, <2>3 DEF IInv, TypeOK, Errors, Ended, FailsWithNothing
<1> QED
  BY <1>1, IInvariant, PTL

-------------------------------------------------------------------------------
\* A series names its query's family, so two queries never share one; and of one
\* query two items have one series only if their rows have one field and head.
LEMMA SeriesDistinct ==
  ASSUME NEW p \in PerfQueries, NEW q \in PerfQueries, NEW a, NEW b,
         NEW i \in ItemsOf(p, a), NEW j \in ItemsOf(q, b),
         SeriesOfItem(p, a, i) = SeriesOfItem(q, b, j)
  PROVE  /\ p = q
         /\ p \in {"throughput", "errors"} =>
              /\ i \in DOMAIN a /\ j \in DOMAIN b /\ a[i].field = b[j].field
              /\ p = "errors" => HeadOf(a[i]) = HeadOf(b[j])
         /\ p \notin {"throughput", "errors"} => i = j
<1>1. p = q
  <2>1. \A r, c, k : SeriesOfItem(r, c, k)[1] = IF r = "throughput" THEN "bytes" ELSE r
    BY DEF SeriesOfItem
  <2>2. (IF p = "throughput" THEN "bytes" ELSE p) = IF q = "throughput" THEN "bytes" ELSE q
    BY <2>1
  <2> QED
    BY <2>2 DEF PerfQueries
<1>2. CASE p = "throughput"
  <2>1. i \in DOMAIN a /\ j \in DOMAIN b /\ a[i].field \in DOMAIN Direction /\ b[j].field \in DOMAIN Direction
    BY <1>1, <1>2 DEF ItemsOf, RowsOf, FieldsFor
  <2>2. Direction[a[i].field] = Direction[b[j].field]
    BY <1>1, <1>2 DEF SeriesOfItem
  <2> QED
    BY <1>1, <1>2, <2>1, <2>2 DEF Direction
<1>3. CASE p = "errors"
  <2>1. i \in DOMAIN a /\ j \in DOMAIN b /\ a[i].field \in DOMAIN Category /\ b[j].field \in DOMAIN Category
    BY <1>1, <1>3 DEF ItemsOf, RowsOf, FieldsFor
  <2>2. Category[a[i].field] = Category[b[j].field] /\ HeadOf(a[i]) = HeadOf(b[j])
    BY <1>1, <1>3 DEF SeriesOfItem
  <2> QED
    BY <1>1, <1>3, <2>1, <2>2 DEF Category
<1>4. CASE p \notin {"throughput", "errors"}
  BY <1>1, <1>4 DEF ItemsOf
<1> QED
  BY <1>1, <1>2, <1>3, <1>4

\* Of all the metrics of a scrape only rows of one query, field and head can
\* bring one series twice.
THEOREM CollisionsOnlyOfRows == Spec => []CollisionNeedsRepeatedRow
<1>1. IInv => CollisionNeedsRepeatedRow
  <2> SUFFICES ASSUME IInv, NEW a \in metrics, NEW b \in metrics,
                      a # b, SeriesAt(a) = SeriesAt(b)
               PROVE  /\ a[1] = b[1] /\ a[1] \in {"throughput", "errors"}
                      /\ \E i, j \in DOMAIN answer[a[1]] :
                           /\ i # j
                           /\ answer[a[1]][i].field = answer[a[1]][j].field
                           /\ a[1] = "errors" => HeadOf(answer[a[1]][i]) = HeadOf(answer[a[1]][j])
    BY DEF CollisionNeedsRepeatedRow
  <2>1. PICK p \in Queries, i \in Nat : a = <<p, i>>
    BY DEF IInv, TypeOK
  <2>2. PICK q \in Queries, j \in Nat : b = <<q, j>>
    BY DEF IInv, TypeOK
  <2>3. i \in ItemsOf(p, answer[p]) /\ j \in ItemsOf(q, answer[q])
    BY <2>1, <2>2 DEF IInv, SliceExact, Progress, Gives
  <2>4. SeriesOfItem(p, answer[p], i) = SeriesOfItem(q, answer[q], j)
    BY <2>1, <2>2 DEF SeriesAt
  <2>5. p \in PerfQueries /\ q \in PerfQueries
    BY PerfAssumption
  <2> QED
    BY <2>1, <2>2, <2>3, <2>4, <2>5, SeriesDistinct
<1> QED
  BY <1>1, IInvariant, PTL

-------------------------------------------------------------------------------
\* The goroutines that are not over, as FanOut has them.
Open == {q \in Queries : pc[q] # "done"}
Gave == [q \in Queries |-> Gives(q)]

\* A step inside a goroutine is a step of its job.
LEMMA StepWorks ==
  ASSUME IInv, IInv', NEW q \in Queries, Step(q)
  PROVE  FO!Work(q)
<1> DEFINE Body ==
      /\ Gave[q] \subseteq Gave'[q] /\ Gave' = [Gave EXCEPT ![q] = Gave'[q]]
      /\ metrics \subseteq metrics' /\ metrics' \subseteq metrics \cup ({q} \X Gave'[q])
      /\ \/ Open' = Open
         \/ Open' = Open \ {q} /\ {q} \X Gave'[q] \subseteq metrics'
<1>1. outcome = "running" /\ outcome' = "running" /\ q \in Open
  BY DEF IInv, Ended, TypeOK, Step, Open, shared, answers,
         QueryAnswers, QueryFails, KeepError, AddRead, AddWrite
<1>2. Body
  <2>1. CASE QueryAnswers(q)
    <3>1. Gives(q) = {} /\ Gave[q] = {} /\ \A k \in Queries : k # q => Gives(k)' = Gives(k)
      BY <2>1, NothingOfNothing DEF QueryAnswers, IInv, Progress, Gives, Gave
    <3>2. metrics' = metrics /\ \/ Open' = Open
                                \/ Open' = Open \ {q} /\ pc'[q] = "done"
      BY <2>1 DEF QueryAnswers, Goto, shared, Open, IInv, TypeOK
    <3>3. pc'[q] = "done" => Gave'[q] = {}
      <4>1. added'[q] = {}
        BY <2>1 DEF QueryAnswers, IInv, Progress
      <4> QED
        BY <4>1 DEF IInv, Progress, Gave
    <3> QED
      BY <3>1, <3>2, <3>3 DEF Gave
  <2>2. CASE ~QueryAnswers(q)
    <3>1. UNCHANGED answer
      BY <2>2 DEF Step, QueryFails, KeepError, AddRead, AddWrite, answers
    <3>2. Gave' = Gave /\ \A k \in Queries : Gives(k)' = Gives(k)
      BY <3>1, GivesSame DEF Gave
    <3>3. CASE QueryFails(q) \/ AddRead(q)
      BY <3>2, <3>3 DEF QueryFails, AddRead, Goto, shared, Open, Gave, IInv, TypeOK
    <3>4. CASE KeepError(q)
      <4>1. Gave[q] = {}
        BY <3>4, NothingOfNothing DEF KeepError, IInv, Progress, Gives, Gave
      <4> QED
        BY <3>2, <3>4, <4>1 DEF KeepError, Goto, Open, Gave, IInv, TypeOK
    <3>5. CASE AddWrite(q)
      <4>1. \E i \in Gave[q] : metrics' = metrics \cup {<<q, i>>}
        BY <3>5 DEF AddWrite, IInv, SliceFresh, Left, Gave
      <4>2. pc'[q] = "done" => {q} \X Gave'[q] \subseteq metrics'
        BY DEF IInv, TypeOK, Progress, SliceExact, Gave
      <4>3. \/ Open' = Open
            \/ Open' = Open \ {q} /\ pc'[q] = "done"
        BY <3>5 DEF AddWrite, Goto, Open, IInv, TypeOK
      <4> QED
        BY <3>2, <4>1, <4>2, <4>3 DEF Gave
    <3> QED
      BY <2>2, <3>3, <3>4, <3>5 DEF Step
  <2> QED
    BY <2>1, <2>2
<1> QED
  BY <1>1, <1>2 DEF FO!Work, Open, Gave

\* collectPerf is a FanOut over its queries: no append takes anything back, and
\* it ends only after all of them.
THEOREM Implements == Spec => ImplementsFanOut
<1>1. Init => FO!Init
  <2> SUFFICES ASSUME Init PROVE FO!Init
    OBVIOUS
  <2>1. \A q \in Queries : Gives(q) = {}
    BY NothingOfNothing DEF Init, Gives
  <2> QED
    BY <2>1 DEF Init, FO!Init
<1>2. ASSUME IInv, IInv', [Next]_vars PROVE [FO!Next]_FO!vars
  <2>1. CASE UNCHANGED vars
    BY <2>1 DEF vars, shared, answers, FO!vars, Gives
  <2>2. CASE Wait
    <3>1. UNCHANGED <<pc, answer, metrics>> /\ Open = {} /\ outcome = "running" /\ outcome' # "running"
      BY <2>2 DEF Wait, answers, shared, Open
    <3>2. Gave' = Gave
      BY <3>1, GivesSame DEF Gave
    <3> QED
      BY <3>1, <3>2 DEF FO!Next, FO!Finish, Open, Gave
  <2>3. CASE \E q \in Queries : Step(q)
    BY <1>2, <2>3, StepWorks DEF FO!Next
  <2> QED
    BY <1>2, <2>1, <2>2, <2>3 DEF Next
<1> QED
  BY <1>1, <1>2, IInvariant, PTL DEF Spec, ImplementsFanOut, FO!Spec

\* The FanOut of the queries, with what is proved of every FanOut.
FOP == INSTANCE FanOut_proofs WITH
  Jobs <- Queries,
  open <- {q \in Queries : pc[q] # "done"},
  gave <- [q \in Queries |-> Gives(q)],
  sum <- metrics,
  state <- IF outcome = "running" THEN "running" ELSE "over"

\* So however collectPerf ends, registering or failing, its slice has every item
\* the queries gave and no other, by what holds of any fan-out (perf.go:324-331).
THEOREM EndsComplete == Spec => []FO!Complete
<1>1. Spec => FO!Spec
  BY Implements DEF ImplementsFanOut
<1>2. FOP!Spec => []FOP!Complete
  BY FOP!CompleteAtTheEnd
<1>3. FO!Init => FOP!Init
  BY DEF FO!Init, FOP!Init
<1>4. [FO!Next]_(FO!vars) => [FOP!Next]_(FOP!vars)
  BY DEF FO!Next, FO!Begin, FO!GiveUp, FO!Work, FO!Finish, FO!vars,
         FOP!Next, FOP!Begin, FOP!GiveUp, FOP!Work, FOP!Finish, FOP!vars
<1>5. FOP!Complete => FO!Complete
  BY DEF FO!Complete, FOP!Complete
<1> QED
  BY <1>1, <1>2, <1>3, <1>4, <1>5, PTL DEF FO!Spec, FOP!Spec
===============================================================================
