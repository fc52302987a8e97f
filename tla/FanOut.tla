--------------------------------- MODULE FanOut ---------------------------------
(***************************************************************************)
(* What the collectors promise of their goroutines: each of a set of jobs  *)
(* gives some items, which come into the sum under the job's own name, and *)
(* nothing once in the sum is lost; the collector is over only when every  *)
(* job is, and a job is over only with all its items in the sum.           *)
(***************************************************************************)
CONSTANT Jobs

VARIABLES
  open,   \* jobs that are not over
  gave,   \* the items each job has given
  sum,    \* <<job, item>> pairs
  state   \* of the collector: idle, running or over

vars == <<open, gave, sum, state>>

Init ==
  /\ gave = [j \in Jobs |-> {}] /\ sum = {}
  /\ \/ state = "idle" /\ open = {}
     \/ state = "running" /\ open \in SUBSET Jobs

Begin ==
  /\ state = "idle" /\ state' = "running"
  /\ open' \in SUBSET Jobs
  /\ UNCHANGED <<gave, sum>>

GiveUp ==
  /\ state = "idle" /\ state' = "over"
  /\ UNCHANGED <<open, gave, sum>>

\* A job gives items, some of its items come into the sum, and it may be over.
Work(j) ==
  /\ state = "running" /\ j \in open
  /\ gave[j] \subseteq gave'[j] /\ gave' = [gave EXCEPT ![j] = gave'[j]]
  /\ sum \subseteq sum' /\ sum' \subseteq sum \cup ({j} \X gave'[j])
  /\ \/ open' = open
     \/ open' = open \ {j} /\ {j} \X gave'[j] \subseteq sum'
  /\ UNCHANGED state

Finish ==
  /\ state = "running" /\ open = {}
  /\ state' = "over"
  /\ UNCHANGED <<open, gave, sum>>

Next == Begin \/ GiveUp \/ Finish \/ \E j \in Jobs : Work(j)

Spec == Init /\ [][Next]_vars

-------------------------------------------------------------------------------
\* A collector that is over has every item its jobs gave, and no other.
Complete == state = "over" => sum = UNION {{j} \X gave[j] : j \in Jobs}
===============================================================================
