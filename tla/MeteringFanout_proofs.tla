------------------------- MODULE MeteringFanout_proofs -------------------------
(***************************************************************************)
(* What a metering collection keeps whatever the namespaces, the           *)
(* concurrency configured and the order the goroutines run in.             *)
(***************************************************************************)
EXTENDS MeteringFanout, FiniteSetTheorems, TLAPS

Inside == {n \in Namespaces : pc[n] \in InSem}

\* A goroutine that has read the slice still has the slice as it is, for it
\* alone can write it.
SliceFresh == \A n \in Namespaces : pc[n] = "write" => seen[n] = metrics

\* The slice holds what the goroutines past their append collected, and one
\* that has not started has collected nothing.
SliceExact ==
  /\ \A n \in Namespaces, f \in Families :
       <<n, f>> \in metrics <=> f \in local[n] /\ pc[n] \in {"release", "done"}
  /\ \A n \in Namespaces : pc[n] \in {"none", "enter", "quota"} => local[n] = {}

\* The goroutines are those of the namespaces listed, and are all over before
\* the collector is.
Phases ==
  /\ state \in {"listing", "failed"} => \A n \in Namespaces : pc[n] = "none"
  /\ state \in {"waiting", "done"} => \A n \in Namespaces : n \in listed <=> pc[n] # "none"
  /\ state = "done" => \A n \in listed : pc[n] = "done"

IInv == TypeOK /\ BoundedFanout /\ SliceFresh /\ SliceExact /\ Phases

LEMMA InsideFinite == IsFiniteSet(Inside) /\ Cardinality(Inside) \in Nat
  BY FS_Subset, FS_CardinalityType, MeteringAssumption DEF Inside

LEMMA CapacityType == ASSUME TypeOK PROVE Capacity \in Nat
  BY MeteringAssumption DEF TypeOK, Capacity

LEMMA InitIInv == Init => IInv
<1> SUFFICES ASSUME Init PROVE IInv
  OBVIOUS
<1>1. {n \in Namespaces : pc[n] \in InSem} = {}
  BY DEF Init, InSem
<1>2. TypeOK
  BY MeteringAssumption DEF Init, TypeOK
<1>3. BoundedFanout
  BY <1>1, <1>2, CapacityType, FS_EmptySet DEF Init, BoundedFanout
<1> QED
  BY <1>2, <1>3 DEF Init, IInv, SliceFresh, SliceExact, Phases

\* Which namespaces are inside changes only with a step into and one out of the
\* semaphore.
LEMMA SameInside ==
  ASSUME IInv, TypeOK', UNCHANGED <<concurrency, sem>>,
         \A n \in Namespaces : pc'[n] \in InSem <=> pc[n] \in InSem
  PROVE  BoundedFanout'
<1>1. {n \in Namespaces : pc'[n] \in InSem} = {n \in Namespaces : pc[n] \in InSem}
  OBVIOUS
<1> QED
  BY <1>1 DEF IInv, BoundedFanout, Capacity

LEMMA ListIInv ==
  ASSUME IInv, ListFails \/ ListSucceeds
  PROVE  IInv'
<1> USE DEF IInv, TypeOK
<1>1. CASE ListFails
  BY <1>1 DEF ListFails, BoundedFanout, Capacity, SliceFresh, SliceExact, Phases
<1>2. CASE ListSucceeds
  <2>1. TypeOK'
    BY <1>2, MeteringAssumption DEF ListSucceeds, Phases
  <2>2. BoundedFanout'
    BY <1>2, <2>1, SameInside DEF ListSucceeds, Phases, InSem
  <2>3. SliceFresh' /\ SliceExact'
    BY <1>2 DEF ListSucceeds, Phases, SliceFresh, SliceExact
  <2>4. Phases'
    BY <1>2 DEF ListSucceeds, Phases
  <2> QED
    BY <2>1, <2>2, <2>3, <2>4
<1> QED
  BY <1>1, <1>2

LEMMA EnterIInv ==
  ASSUME IInv, NEW n \in Namespaces, Enter(n)
  PROVE  IInv'
<1> USE DEF IInv, TypeOK, Enter, Goto, worker
<1>1. TypeOK'
  BY MeteringAssumption DEF InSem
<1>2. BoundedFanout'
  <2>1. Inside' = Inside \cup {n} /\ n \notin Inside
    BY DEF Inside, InSem
  <2>2. Cardinality(Inside') = Cardinality(Inside) + 1
    BY <2>1, InsideFinite, FS_AddElement
  <2>3. sem + 1 <= Capacity
    BY CapacityType
  <2> QED
    BY <2>2, <2>3 DEF BoundedFanout, Inside, Capacity
<1>3. SliceFresh' /\ SliceExact' /\ Phases'
  BY DEF SliceFresh, SliceExact, Phases
<1> QED
  BY <1>1, <1>2, <1>3

LEMMA ReleaseIInv ==
  ASSUME IInv, NEW n \in Namespaces, Release(n)
  PROVE  IInv'
<1> USE DEF IInv, TypeOK, Release, Goto, worker
<1>1. Inside' = Inside \ {n} /\ n \in Inside
  BY DEF Inside, InSem
<1>2. Cardinality(Inside') = Cardinality(Inside) - 1 /\ Cardinality(Inside') \in Nat
  BY <1>1, InsideFinite, FS_RemoveElement, FS_CardinalityType
<1>3. TypeOK'
  BY <1>2, MeteringAssumption DEF InSem, BoundedFanout, Inside
<1>4. BoundedFanout'
  <2>1. sem - 1 <= Capacity
    BY CapacityType DEF BoundedFanout
  <2> QED
    BY <1>2, <2>1 DEF BoundedFanout, Inside, Capacity
<1>5. SliceFresh' /\ SliceExact' /\ Phases'
  BY DEF SliceFresh, SliceExact, Phases
<1> QED
  BY <1>3, <1>4, <1>5

LEMMA AnswerIInv ==
  ASSUME IInv, NEW n \in Namespaces, QuotaAnswer(n) \/ BillingAnswer(n)
  PROVE  IInv'
<1> USE DEF IInv, TypeOK, Goto, worker, QuotaAnswer, BillingAnswer
<1>1. PICK got \in SUBSET Families : local' = [local EXCEPT ![n] = @ \cup got]
  BY DEF Families, Quota
<1>2. TypeOK'
  BY <1>1, MeteringAssumption DEF InSem
<1>3. BoundedFanout'
  BY <1>2, SameInside DEF InSem
<1>4. SliceFresh' /\ Phases'
  BY DEF SliceFresh, Phases
<1>5. SliceExact'
  BY <1>1 DEF SliceExact
<1> QED
  BY <1>2, <1>3, <1>4, <1>5

LEMMA AppendReadIInv ==
  ASSUME IInv, NEW n \in Namespaces, AppendRead(n)
  PROVE  IInv'
<1> USE DEF IInv, TypeOK, Goto, worker, AppendRead
<1>1. TypeOK'
  BY MeteringAssumption DEF InSem
<1>2. BoundedFanout'
  BY <1>1, SameInside DEF InSem
<1>3. SliceFresh' /\ SliceExact' /\ Phases'
  BY DEF SliceFresh, SliceExact, Phases
<1> QED
  BY <1>1, <1>2, <1>3

LEMMA AppendWriteIInv ==
  ASSUME IInv, NEW n \in Namespaces, AppendWrite(n)
  PROVE  IInv'
<1> USE DEF IInv, TypeOK, Goto, worker, AppendWrite
<1>0. metrics' = metrics \cup ({n} \X local[n])
  BY DEF SliceFresh
<1>1. TypeOK'
  BY <1>0, MeteringAssumption DEF InSem
<1>2. BoundedFanout'
  BY <1>1, SameInside DEF InSem
<1>3. SliceFresh' /\ Phases'
  BY DEF SliceFresh, Phases
<1>4. SliceExact'
  BY <1>0 DEF SliceExact
<1> QED
  BY <1>1, <1>2, <1>3, <1>4

LEMMA WaitIInv ==
  ASSUME IInv, Wait
  PROVE  IInv'
  BY DEF IInv, TypeOK, Wait, BoundedFanout, Capacity, SliceFresh, SliceExact, Phases

LEMMA IInvariant == Spec => []IInv
<1>1. IInv /\ [Next]_vars => IInv'
  <2> SUFFICES ASSUME IInv, [Next]_vars PROVE IInv'
    OBVIOUS
  <2>1. CASE UNCHANGED vars
    BY <2>1 DEF vars, worker, IInv, TypeOK, BoundedFanout, Capacity, SliceFresh, SliceExact, Phases
  <2>2. CASE \E n \in Namespaces : Step(n)
    BY <2>2, EnterIInv, AnswerIInv, AppendReadIInv, AppendWriteIInv, ReleaseIInv DEF Step
  <2> QED
    BY <2>1, <2>2, ListIInv, WaitIInv DEF Next
<1> QED
  BY <1>1, InitIInv, PTL DEF Spec

-------------------------------------------------------------------------------
\* Every state has values the code can give, and the mutex is held exactly
\* between a goroutine's Lock and its Unlock.
THEOREM TypeCorrect == Spec => []TypeOK
  BY IInvariant, PTL DEF IInv

\* No more namespaces are queried at once than the configured concurrency, one
\* at least, whatever value is configured.
THEOREM Bounded == Spec => []BoundedFanout
  BY IInvariant, PTL DEF IInv

\* What is registered is what the goroutines collected: no append is lost.
THEOREM AppendsKept == Spec => []NothingLost
<1>1. IInv => NothingLost
  <2> SUFFICES ASSUME IInv, state = "done"
               PROVE  metrics = UNION {{n} \X local[n] : n \in listed}
    BY DEF NothingLost
  <2>1. \A n \in listed : n \in Namespaces /\ pc[n] = "done" /\ local[n] \subseteq Families
    BY DEF IInv, TypeOK, Phases
  <2>2. \A n \in listed : {n} \X local[n] \subseteq metrics
    BY <2>1 DEF IInv, SliceExact
  <2>3. ASSUME NEW x \in metrics PROVE \E n \in listed : x \in {n} \X local[n]
    <3>1. PICK n \in Namespaces, f \in Families : x = <<n, f>>
      BY DEF IInv, TypeOK
    <3>2. f \in local[n] /\ pc[n] \in {"release", "done"}
      BY <3>1 DEF IInv, SliceExact
    <3> QED
      BY <3>1, <3>2 DEF IInv, Phases
  <2> QED
    BY <2>2, <2>3
<1> QED
  BY <1>1, IInvariant, PTL

-------------------------------------------------------------------------------
\* The goroutines that are not over, as FanOut has them.
Open == {n \in Namespaces : pc[n] \notin {"none", "done"}}

\* A step inside a goroutine is a step of its job.
LEMMA StepWorks ==
  ASSUME IInv, IInv', NEW n \in Namespaces, Step(n)
  PROVE  FO!Work(n)
<1> DEFINE Body ==
      /\ local[n] \subseteq local'[n] /\ local' = [local EXCEPT ![n] = local'[n]]
      /\ metrics \subseteq metrics' /\ metrics' \subseteq metrics \cup ({n} \X local'[n])
      /\ \/ Open' = Open
         \/ Open' = Open \ {n} /\ {n} \X local'[n] \subseteq metrics'
<1>1. state = "waiting" /\ state' = "waiting" /\ n \in Open
  BY DEF IInv, Phases, TypeOK, Step, Open, worker, InSem,
         Enter, QuotaAnswer, BillingAnswer, AppendRead, AppendWrite, Release
<1>2. Body
  <2>1. CASE Enter(n) \/ AppendRead(n)
    BY <2>1 DEF Enter, AppendRead, Goto, worker, Open, IInv, TypeOK
  <2>2. CASE QuotaAnswer(n) \/ BillingAnswer(n)
    BY <2>2 DEF QuotaAnswer, BillingAnswer, Goto, worker, Open, IInv, TypeOK
  <2>3. CASE AppendWrite(n)
    BY <2>3 DEF AppendWrite, Goto, worker, Open, IInv, TypeOK, SliceFresh
  <2>4. CASE Release(n)
    <3>1. {n} \X local[n] \subseteq metrics
      BY <2>4 DEF Release, IInv, TypeOK, SliceExact
    <3> QED
      BY <2>4, <3>1 DEF Release, Goto, worker, Open, IInv, TypeOK
  <2> QED
    BY <2>1, <2>2, <2>3, <2>4 DEF Step
<1> QED
  BY <1>1, <1>2 DEF FO!Work, Open

\* A collection is a FanOut over its namespaces: an append takes nothing back,
\* and the collector is over only after all its goroutines.
THEOREM Implements == Spec => ImplementsFanOut
<1>1. Init => FO!Init
  BY DEF Init, FO!Init
<1>2. ASSUME IInv, IInv', [Next]_vars PROVE [FO!Next]_FO!vars
  <2>1. CASE UNCHANGED vars
    BY <2>1 DEF vars, worker, FO!vars
  <2>2. CASE ListFails
    BY <1>2, <2>2 DEF ListFails, FO!Next, FO!GiveUp, IInv, Phases
  <2>3. CASE ListSucceeds
    BY <2>3 DEF ListSucceeds, FO!Next, FO!Begin
  <2>4. CASE Wait
    BY <1>2, <2>4 DEF Wait, FO!Next, FO!Finish, IInv, Phases
  <2>5. CASE \E n \in Namespaces : Step(n)
    BY <1>2, <2>5, StepWorks DEF FO!Next
  <2> QED
    BY <1>2, <2>1, <2>2, <2>3, <2>4, <2>5 DEF Next
<1> QED
  BY <1>1, <1>2, IInvariant, PTL DEF Spec, ImplementsFanOut, FO!Spec

\* The FanOut of the namespaces, with what is proved of every FanOut.
FOP == INSTANCE FanOut_proofs WITH
  Jobs <- Namespaces,
  open <- {n \in Namespaces : pc[n] \notin {"none", "done"}},
  gave <- local,
  sum <- metrics,
  state <- IF state = "listing" THEN "idle"
           ELSE IF state = "waiting" THEN "running" ELSE "over"

\* So what is registered is every metric the namespaces' goroutines made and no
\* other, by what holds of any fan-out (metering.go:64-88).
THEOREM EndsComplete == Spec => []FO!Complete
<1>1. Spec => FO!Spec
  BY Implements DEF ImplementsFanOut
<1>2. FOP!Spec => []FOP!Complete
  BY FOP!CompleteAtTheEnd
<1>3. FO!Init => FOP!Init
  BY DEF FO!Init, FOP!Init
<1>4. [FO!Next]_(FO!vars) => [FOP!Next]_(FOP!vars)
  BY DEF FO!Next, FO!Begin, FO!GiveUp, FO!Work, FO!Finish, FO!vars,
         FOP!Next, FOP!Begin, FOP!GiveUp, FOP!Work, FOP!Finish, FOP!vars
<1>5. FOP!Complete => FO!Complete
  BY DEF FO!Complete, FOP!Complete
<1> QED
  BY <1>1, <1>2, <1>3, <1>4, <1>5, PTL DEF FO!Spec, FOP!Spec
===============================================================================
