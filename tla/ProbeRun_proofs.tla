---------------------------- MODULE ProbeRun_proofs ----------------------------
(***************************************************************************)
(* What a scrape keeps for any list of requested names, whatever the API   *)
(* answers.                                                                *)
(***************************************************************************)
EXTENDS ProbeRun, TLAPS

\* An API has been called once if its memo is set, else not at all.
Memoized ==
  /\ memo \in [APIs -> {"unset"} \cup Results] /\ calls \in [APIs -> Nat]
  /\ \A a \in APIs : calls[a] = IF memo[a] = "unset" THEN 0 ELSE 1

\* The label of a registered metric is what the memo of the local zone says.
Labelled ==
  /\ vdcs \subseteq {"zone", "unknown"}
  /\ "zone" \in vdcs => memo["localZone"] = "ok"
  /\ "unknown" \in vdcs => memo["localZone"] = "err"

LoopTypes ==
  /\ dtStats \in BOOLEAN /\ request \in Requests
  /\ next \in 1..Len(request) + 1
  /\ report \in Seq(STRING \X BOOLEAN) /\ Len(report) = next - 1
  /\ registered \subseteq Known \X Descs
  /\ doubled \subseteq {r[1] : r \in registered}
  /\ outcome \in {"running", "200", "500", "aborted"}

\* The reports are those of the names passed, in order; what is registered is of
\* those names, and of a name that failed only if it was asked for again.  The
\* loop passes no name that cannot be a label value.
Reported ==
  /\ \A i \in 1..next - 1 : report[i][1] = request[i]
  /\ \A x \in registered : \E j \in 1..next - 1 : request[j] = x[1]
  /\ \A i \in 1..next - 1 :
       \/ report[i][2]
       \/ \A d \in Descs : <<request[i], d>> \notin registered
       \/ \E j \in 1..next - 1 : j # i /\ request[j] = request[i]
  /\ \A i \in 1..next - 1 : request[i] \notin NotUTF8

\* How the scrape is answered.
Answered ==
  /\ outcome = "200" => next > Len(request) /\ ~Repeated(report) /\ doubled = {}
  /\ outcome = "500" => next > Len(request) /\ (Repeated(report) \/ doubled # {})
  /\ outcome = "aborted" =>
       /\ next <= Len(request)
       /\ \/ request[next] \in NotUTF8
          \/ \E d \in Descs : <<request[next], d>> \in registered

Loop == LoopTypes /\ Reported /\ Answered

IInv == Memoized /\ Labelled /\ Loop

LEMMA RequestType ==
  ASSUME LoopTypes
  PROVE  request \in Seq(STRING) /\ Len(request) \in Nat
  BY RequestsAssumption DEF LoopTypes

\* The names of the Registry are valid label values.
LEMMA KnownLabels == \A name \in Known : name \notin NotUTF8
  BY RequestsAssumption

LEMMA InitIInv == Init => IInv
<1> SUFFICES ASSUME Init PROVE IInv
  OBVIOUS
<1>1. request \in Seq(STRING) /\ Len(request) \in Nat
  BY RequestsAssumption DEF Init
<1>2. LoopTypes
  BY <1>1 DEF Init, LoopTypes
<1>3. Memoized /\ Labelled /\ Reported /\ Answered
  BY DEF Init, Memoized, Labelled, Reported, Answered
<1> QED
  BY <1>2, <1>3 DEF IInv, Loop

\* A use of the memo sets it at most, and gives what it says.
LEMMA FetchKeeps ==
  ASSUME Memoized, Labelled, NEW S \in SUBSET APIs, NEW r \in [S -> Results], Fetch(r)
  PROVE  /\ Memoized'
         /\ \A a \in S : memo'[a] = r[a]
         /\ \A a \in APIs : memo[a] # "unset" => memo'[a] = memo[a]
  BY DEF Memoized, Fetch, Results

\* A report is appended, and the loop goes on to the next name.
LEMMA ReportAppends ==
  ASSUME LoopTypes, next <= Len(request), NEW success \in BOOLEAN, Report(success)
  PROVE  /\ UNCHANGED <<dtStats, request>> /\ next' = next + 1
         /\ report' \in Seq(STRING \X BOOLEAN) /\ Len(report') = next
         /\ \A i \in 1..next - 1 : report'[i] = report[i]
         /\ report'[next][1] = request[next]
         /\ success => report'[next][2]
         /\ (1..next - 1)' = (1..next - 1) \cup {next}
<1>1. /\ request \in Seq(STRING) /\ Len(request) \in Nat /\ next \in Nat \ {0}
      /\ report \in Seq(STRING \X BOOLEAN) /\ Len(report) = next - 1
  BY RequestType DEF LoopTypes
<1>2. /\ UNCHANGED <<dtStats, request>> /\ next' = next + 1
      /\ report' = Append(report, <<request[next], success>>)
  BY DEF Report, settings
<1>3. <<request[next], success>> \in STRING \X BOOLEAN
  BY <1>1
<1>4. report' \in Seq(STRING \X BOOLEAN) /\ Len(report') = next
  BY <1>1, <1>2, <1>3
<1>5. /\ \A i \in 1..next - 1 : report'[i] = report[i]
      /\ report'[next] = <<request[next], success>>
  BY <1>1, <1>2, <1>3
<1>6. (1..next - 1)' = (1..next - 1) \cup {next}
  BY <1>1, <1>2
<1> QED
  BY <1>2, <1>4, <1>5, <1>6

\* The loop passes a name without registering anything.
LEMMA ReportKeeps ==
  ASSUME Loop, outcome = "running", next <= Len(request), request[next] \notin NotUTF8,
         NEW success \in BOOLEAN, Report(success), UNCHANGED <<registry, outcome>>
  PROVE  Loop' /\ UNCHANGED vdcs
<1> USE DEF registry
<1>1. request \in Seq(STRING) /\ Len(request) \in Nat /\ next \in Nat \ {0}
  BY RequestType DEF Loop, LoopTypes
<1>2. /\ UNCHANGED <<dtStats, request>> /\ next' = next + 1
      /\ report' \in Seq(STRING \X BOOLEAN) /\ Len(report') = next
  BY ReportAppends DEF Loop
<1>3. LoopTypes'
  BY <1>1, <1>2 DEF Loop, LoopTypes
<1>4. /\ \A i \in 1..next - 1 : report'[i] = report[i]
      /\ report'[next][1] = request[next]
      /\ success => report'[next][2]
  BY ReportAppends DEF Loop
<1>5. (1..next - 1)' = (1..next - 1) \cup {next} /\ UNCHANGED <<request, registered>>
  BY <1>2, ReportAppends DEF Loop
<1>6. Reported'
  <2>1. (\A i \in 1..next - 1 : report[i][1] = request[i])'
    <3> SUFFICES ASSUME NEW i \in (1..next - 1) \cup {next} PROVE report'[i][1] = request[i]
      BY <1>5
    <3> QED
      BY <1>4 DEF Loop, Reported
  <2>2. (\A x \in registered : \E j \in 1..next - 1 : request[j] = x[1])'
    BY <1>5 DEF Loop, Reported
  <2>3. ASSUME NEW i \in 1..next - 1
        PROVE  \/ report'[i][2]
               \/ \A d \in Descs : <<request'[i], d>> \notin registered'
               \/ \E j \in (1..next - 1)' : j # i /\ request'[j] = request'[i]
    BY <1>4, <1>5 DEF Loop, Reported
  <2>4. \/ \A d \in Descs : <<request[next], d>> \notin registered
        \/ \E j \in 1..next - 1 : j # next /\ request[j] = request[next]
    <3> SUFFICES ASSUME NEW d \in Descs, <<request[next], d>> \in registered
                 PROVE  \E j \in 1..next - 1 : j # next /\ request[j] = request[next]
      OBVIOUS
    <3>1. PICK j \in 1..next - 1 : request[j] = <<request[next], d>>[1]
      BY DEF Loop, Reported
    <3> QED
      BY <1>1, <3>1
  <2>5. (\A i \in 1..next - 1 : request[i] \notin NotUTF8)'
    BY <1>5 DEF Loop, Reported
  <2> QED
    BY <1>5, <2>1, <2>2, <2>3, <2>4, <2>5 DEF Reported
<1>7. Answered'
  BY DEF Answered
<1> QED
  BY <1>3, <1>6, <1>7 DEF Loop

\* The loop passes a name whose metrics are registered, or stops at a panic.
LEMMA RegisterKeeps ==
  ASSUME Loop, outcome = "running", next <= Len(request), request[next] \in Known,
         NEW ds \in SUBSET Descs, NEW labels, NEW twice \in BOOLEAN,
         Register(ds, labels, twice)
  PROVE  Loop' /\ vdcs' \subseteq vdcs \cup labels
<1> DEFINE mine == {request[next]} \X ds
<1>1. request \in Seq(STRING) /\ Len(request) \in Nat /\ next \in Nat \ {0}
  BY RequestType DEF Loop, LoopTypes
<1>2. CASE mine \cap registered # {}
  <2>1. outcome' = "aborted" /\ UNCHANGED <<settings, next, report, registry>>
    BY <1>2 DEF Register
  <2>2. PICK d \in Descs : <<request[next], d>> \in registered
    BY <1>2
  <2> QED
    BY <2>1, <2>2 DEF Loop, LoopTypes, Reported, Answered, settings, registry
<1>3. CASE mine \cap registered = {}
  <2>1. /\ registered' = registered \cup mine
        /\ doubled' = IF twice /\ ds # {} THEN doubled \cup {request[next]} ELSE doubled
        /\ vdcs' \subseteq vdcs \cup labels
        /\ Report(TRUE) /\ UNCHANGED outcome
    BY <1>3 DEF Register
  <2>2. /\ UNCHANGED <<dtStats, request>> /\ next' = next + 1
        /\ report' \in Seq(STRING \X BOOLEAN) /\ Len(report') = next
        /\ \A i \in 1..next - 1 : report'[i] = report[i]
        /\ report'[next][1] = request[next]
        /\ (1..next - 1)' = (1..next - 1) \cup {next}
    BY <2>1, ReportAppends DEF Loop
  <2>3. report'[next][2]
    BY <2>1, ReportAppends DEF Loop
  <2> HIDE DEF mine
  <2>4. mine \subseteq Known \X Descs /\ \A x \in mine : x[1] = request[next]
    BY DEF mine
  <2>5. LoopTypes'
    <3>1. registered' \subseteq Known \X Descs /\ outcome' = outcome
      BY <2>1, <2>4 DEF Loop, LoopTypes
    <3>2. dtStats' \in BOOLEAN /\ request' \in Requests /\ next' \in 1..Len(request') + 1
      BY <1>1, <2>2 DEF Loop, LoopTypes
    <3>3. ASSUME NEW n \in doubled' PROVE \E x \in registered' : n = x[1]
      <4>1. CASE n \in doubled
        BY <2>1, <4>1 DEF Loop, LoopTypes
      <4>2. CASE n = request[next] /\ ds # {}
        <5>1. PICK d \in ds : TRUE
          BY <4>2
        <5>2. <<request[next], d>> \in mine /\ <<request[next], d>>[1] = n
          BY <4>2, <5>1 DEF mine
        <5> QED
          BY <2>1, <5>2
      <4> QED
        BY <2>1, <3>3, <4>1, <4>2
    <3> QED
      BY <1>1, <2>2, <3>1, <3>2, <3>3 DEF Loop, LoopTypes
  <2>6. Reported'
    <3>1. (\A i \in 1..next - 1 : report[i][1] = request[i])'
      <4> SUFFICES ASSUME NEW i \in (1..next - 1) \cup {next} PROVE report'[i][1] = request[i]
        BY <2>2
      <4> QED
        BY <2>2 DEF Loop, Reported
    <3>2. (\A x \in registered : \E j \in 1..next - 1 : request[j] = x[1])'
      BY <2>1, <2>2, <2>4 DEF Loop, Reported
    <3>3. ASSUME NEW i \in 1..next - 1
          PROVE  \/ report'[i][2]
                 \/ \A d \in Descs : <<request'[i], d>> \notin registered'
                 \/ \E j \in (1..next - 1)' : j # i /\ request'[j] = request'[i]
      <4>1. CASE request[i] = request[next]
        BY <1>1, <2>2, <4>1
      <4>2. CASE request[i] # request[next]
        <5>1. \A d \in Descs : <<request[i], d>> \notin mine
          BY <4>2 DEF mine
        <5> QED
          BY <2>1, <2>2, <5>1 DEF Loop, Reported
      <4> QED
        BY <4>1, <4>2
    <3>4. (\A i \in 1..next - 1 : request[i] \notin NotUTF8)'
      BY <2>2, KnownLabels DEF Loop, Reported
    <3> QED
      BY <2>2, <2>3, <3>1, <3>2, <3>3, <3>4 DEF Reported
  <2> QED
    BY <2>1, <2>5, <2>6 DEF Loop, Answered
<1> QED
  BY <1>2, <1>3

\* The labels keep to the memo.
LEMMA LabelsKeep ==
  ASSUME Memoized', Labelled, NEW labels \in SUBSET {"zone", "unknown"},
         vdcs' \subseteq vdcs \cup labels,
         \A a \in APIs : memo[a] # "unset" => memo'[a] = memo[a],
         "zone" \in labels => memo'["localZone"] = "ok",
         "unknown" \in labels => memo'["localZone"] = "err"
  PROVE  Labelled'
  BY DEF Labelled, APIs

LEMMA NoLabelKeeps ==
  ASSUME Memoized', Labelled, vdcs' \subseteq vdcs,
         \A a \in APIs : memo[a] # "unset" => memo'[a] = memo[a]
  PROVE  Labelled'
  BY DEF Labelled, APIs

LEMMA ClusterIInv ==
  ASSUME IInv, ClusterFails \/ ClusterRegisters
  PROVE  IInv'
<1> USE DEF IInv
<1>1. /\ outcome = "running" /\ next <= Len(request) /\ request[next] \in Known
      /\ request[next] \notin NotUTF8
  BY KnownLabels DEF ClusterFails, ClusterRegisters, Running, Known
<1>2. CASE ClusterFails
  <2>1. Memoized' /\ \A a \in APIs : memo[a] # "unset" => memo'[a] = memo[a]
    BY <1>2, FetchKeeps DEF ClusterFails, APIs, Results
  <2>2. Loop' /\ UNCHANGED vdcs
    BY <1>1, <1>2, ReportKeeps DEF ClusterFails, Fail
  <2> QED
    BY <2>1, <2>2, NoLabelKeeps
<1>3. CASE ClusterRegisters
  <2>1. PICK nodes \in Results : Fetch([a \in APIs |-> IF a = "localZone" THEN "ok" ELSE nodes])
    BY <1>3 DEF ClusterRegisters
  <2>2. [a \in APIs |-> IF a = "localZone" THEN "ok" ELSE nodes] \in [APIs -> Results]
    BY DEF Results
  <2>3. /\ Memoized' /\ \A a \in APIs : memo[a] # "unset" => memo'[a] = memo[a]
        /\ memo'["localZone"] = "ok"
    BY <2>1, <2>2, FetchKeeps DEF APIs
  <2>4. PICK rest \in SUBSET {"rest"} : Register({"base"} \cup rest, {"zone"}, FALSE)
    BY <1>3 DEF ClusterRegisters
  <2>5. Loop' /\ vdcs' \subseteq vdcs \cup {"zone"}
    BY <1>1, <2>4, RegisterKeeps DEF Descs
  <2> QED
    BY <2>3, <2>5, LabelsKeep
<1> QED
  BY <1>2, <1>3

LEMMA ListsIInv ==
  ASSUME IInv, Lists
  PROVE  IInv'
<1> USE DEF IInv
<1>1. /\ outcome = "running" /\ next <= Len(request) /\ request[next] \in Known
      /\ request[next] \notin NotUTF8
      /\ UNCHANGED <<memo, calls>>
  BY KnownLabels DEF Lists, Running, Known, NoFetch
<1>2. Loop' /\ vdcs' \subseteq vdcs
  <2>1. CASE Fail
    BY <1>1, <2>1, ReportKeeps DEF Fail
  <2>2. CASE ~Fail
    <3>1. PICK ds \in SUBSET Descs, twice \in BOOLEAN : Register(ds, {}, twice)
      BY <2>2 DEF Lists
    <3>2. Loop' /\ vdcs' \subseteq vdcs \cup {}
      BY <1>1, <3>1, RegisterKeeps
    <3> QED
      BY <3>2
  <2> QED
    BY <2>1, <2>2
<1> QED
  BY <1>1, <1>2 DEF Memoized, Labelled

LEMMA NodeIInv ==
  ASSUME IInv, NodeDisabled \/ NodeFails \/ NodeRegisters
  PROVE  IInv'
<1> USE DEF IInv
<1>1. /\ outcome = "running" /\ next <= Len(request) /\ request[next] \in Known
      /\ request[next] \notin NotUTF8
  BY KnownLabels DEF NodeDisabled, NodeFails, NodeRegisters, Running, Known
<1>2. CASE NodeDisabled
  <2>1. Loop' /\ UNCHANGED <<vdcs, memo, calls>>
    BY <1>1, <1>2, ReportKeeps DEF NodeDisabled, NoFetch
  <2> QED
    BY <2>1 DEF Memoized, Labelled
<1>3. CASE NodeFails
  <2>1. Memoized' /\ \A a \in APIs : memo[a] # "unset" => memo'[a] = memo[a]
    BY <1>3, FetchKeeps DEF NodeFails, APIs, Results
  <2>2. Loop' /\ UNCHANGED vdcs
    BY <1>1, <1>3, ReportKeeps DEF NodeFails, Fail
  <2> QED
    BY <2>1, <2>2, NoLabelKeeps
<1>4. CASE NodeRegisters
  <2>1. Memoized' /\ \A a \in APIs : memo[a] # "unset" => memo'[a] = memo[a]
    BY <1>4, FetchKeeps DEF NodeRegisters, APIs, Results
  <2>2. PICK ds \in {{}, Descs}, twice \in BOOLEAN : Register(ds, {}, twice)
    BY <1>4 DEF NodeRegisters
  <2>3. Loop' /\ vdcs' \subseteq vdcs \cup {}
    BY <1>1, <2>2, RegisterKeeps
  <2> QED
    BY <2>1, <2>3, NoLabelKeeps
<1> QED
  BY <1>2, <1>3, <1>4

LEMMA PerfIInv ==
  ASSUME IInv, Perf
  PROVE  IInv'
<1> USE DEF IInv
<1>1. /\ outcome = "running" /\ next <= Len(request) /\ request[next] \in Known
      /\ request[next] \notin NotUTF8
  BY KnownLabels DEF Perf, Running, Known
<1>2. PICK lz \in Results :
        /\ Fetch([a \in {"localZone"} |-> lz])
        /\ \/ Fail
           \/ \E ds \in SUBSET Descs, twice \in BOOLEAN :
                Register(ds, {IF lz = "ok" THEN "zone" ELSE "unknown"}, twice)
  BY DEF Perf
<1>3. /\ Memoized' /\ \A a \in APIs : memo[a] # "unset" => memo'[a] = memo[a]
      /\ memo'["localZone"] = lz
  <2>1. {"localZone"} \in SUBSET APIs /\ [a \in {"localZone"} |-> lz] \in [{"localZone"} -> Results]
    BY DEF APIs
  <2> QED
    BY <1>2, <2>1, FetchKeeps
<1>4. CASE Fail
  <2>1. Loop' /\ UNCHANGED vdcs
    BY <1>1, <1>4, ReportKeeps DEF Fail
  <2> QED
    BY <1>3, <2>1, NoLabelKeeps
<1>5. CASE ~Fail
  <2> DEFINE label == IF lz = "ok" THEN "zone" ELSE "unknown"
  <2>1. PICK ds \in SUBSET Descs, twice \in BOOLEAN : Register(ds, {label}, twice)
    BY <1>2, <1>5
  <2>2. Loop' /\ vdcs' \subseteq vdcs \cup {label}
    BY <1>1, <2>1, RegisterKeeps
  <2>3. /\ {label} \in SUBSET {"zone", "unknown"}
        /\ "zone" \in {label} => lz = "ok"
        /\ "unknown" \in {label} => lz = "err"
    BY DEF Results
  <2> HIDE DEF label
  <2> QED
    BY <1>3, <2>2, <2>3, LabelsKeep
<1> QED
  BY <1>4, <1>5

LEMMA EndIInv ==
  ASSUME IInv, Unknown \/ UnknownPanics \/ Respond
  PROVE  IInv'
<1> USE DEF IInv
<1>1. CASE Unknown
  <2>1. /\ outcome = "running" /\ next <= Len(request) /\ request[next] \notin NotUTF8
        /\ Fail /\ UNCHANGED <<memo, calls>>
    BY <1>1 DEF Unknown, RunningUnknown, NoFetch
  <2>2. Loop' /\ UNCHANGED vdcs
    BY <2>1, ReportKeeps DEF Fail
  <2> QED
    BY <2>1, <2>2 DEF Memoized, Labelled
<1>2. CASE UnknownPanics
  BY <1>2 DEF UnknownPanics, RunningUnknown, settings, registry, Memoized, Labelled, Loop,
              LoopTypes, Reported, Answered
<1>3. CASE Respond
  BY <1>3 DEF Respond, settings, registry, Memoized, Labelled, Loop, LoopTypes, Reported, Answered
<1> QED
  BY <1>1, <1>2, <1>3

LEMMA IInvariant == Spec => []IInv
<1>1. IInv /\ [Next]_vars => IInv'
  <2> SUFFICES ASSUME IInv, [Next]_vars PROVE IInv'
    OBVIOUS
  <2>1. CASE UNCHANGED vars
    BY <2>1 DEF vars, settings, registry, IInv, Memoized, Labelled, Loop, LoopTypes,
                Reported, Answered, Repeated
  <2> QED
    BY <2>1, ClusterIInv, ListsIInv, NodeIInv, PerfIInv, EndIInv DEF Next
<1> QED
  BY <1>1, InitIInv, PTL DEF Spec

-------------------------------------------------------------------------------
\* Every state has values the code can give, and a report per name passed.
THEOREM TypeCorrect == Spec => []TypeOK
<1>1. IInv => TypeOK
  BY DEF IInv, Memoized, Labelled, Loop, LoopTypes, TypeOK
<1> QED
  BY <1>1, IInvariant, PTL

\* The memoized calls are sent once at most.
THEOREM AtMostOnce == Spec => []FetchedOnce
<1>1. IInv => FetchedOnce
  BY DEF IInv, Memoized, FetchedOnce
<1> QED
  BY <1>1, IInvariant, PTL

\* All the metrics of a scrape have the same vdc label.
THEOREM SameLabel == Spec => []OneVdcLabel
<1>1. IInv => OneVdcLabel
  BY DEF IInv, Labelled, OneVdcLabel
<1> QED
  BY <1>1, IInvariant, PTL

\* The names repeated in the reports are those repeated in the request.
LEMMA RepeatedNames ==
  ASSUME Loop, next > Len(request)
  PROVE  /\ next = Len(request) + 1 /\ Len(report) = Len(request)
         /\ Repeated(report) <=>
              \E i, j \in 1..Len(request) : i # j /\ request[i] = request[j]
<1>1. Len(request) \in Nat /\ next = Len(request) + 1 /\ Len(report) = Len(request)
  BY RequestType DEF Loop, LoopTypes
<1> QED
  BY <1>1 DEF Loop, Reported, Repeated

\* A 200 reports on every name, and has no metrics of a collector that failed.
THEOREM EveryNameReported == Spec => []ReportsEveryName
<1>1. IInv => ReportsEveryName
  <2> SUFFICES ASSUME IInv, outcome = "200" PROVE ReportsEveryName
    BY DEF ReportsEveryName
  <2>1. /\ next - 1 = Len(request) /\ Len(report) = Len(request)
        /\ ~\E i, j \in 1..Len(request) : i # j /\ request[i] = request[j]
    BY RepeatedNames, RequestType DEF IInv, Loop, Answered
  <2> QED
    BY <2>1 DEF IInv, Loop, Reported, ReportsEveryName
<1> QED
  BY <1>1, IInvariant, PTL

\* A scrape is lost only to what client_golang refuses, and always then: a
\* collector asked for twice or a name that is not UTF-8 to a panic, a name
\* asked for twice or a series that comes twice to a 500.
THEOREM LostOnlyToRefusals == Spec => []AnsweredUnlessRefused
<1>1. IInv => AnsweredUnlessRefused
  <2> SUFFICES ASSUME IInv PROVE AnsweredUnlessRefused
    OBVIOUS
  <2>1. /\ Len(request) \in Nat /\ next \in 1..Len(request) + 1
        /\ \A i \in 1..Len(request) : request[i] \in STRING
    BY RequestType DEF IInv, Loop, LoopTypes
  <2>2. ASSUME outcome = "aborted", request[next] \notin NotUTF8
        PROVE  AskedTwice(Known)
    <3>1. PICK d \in Descs : <<request[next], d>> \in registered /\ next <= Len(request)
      BY <2>2 DEF IInv, Loop, Answered
    <3>2. request[next] \in Known
      BY <3>1 DEF IInv, Loop, LoopTypes
    <3>3. PICK j \in 1..next - 1 : request[j] = <<request[next], d>>[1]
      BY <3>1 DEF IInv, Loop, Reported
    <3>4. j \in 1..Len(request) /\ next \in 1..Len(request) /\ j # next /\ request[j] = request[next]
      BY <2>1, <3>1, <3>3
    <3> QED
      BY <3>2, <3>4 DEF AskedTwice
  <2>3. outcome = "aborted" => AskedTwice(Known) \/ Unlabelable
    BY <2>1, <2>2 DEF IInv, Loop, Answered, Unlabelable
  <2>4. ASSUME outcome \in {"500", "200"}
        PROVE  /\ ~Unlabelable
               /\ Repeated(report) <=> AskedTwice(STRING)
    <3>1. next > Len(request) /\ next - 1 = Len(request)
      BY <2>1, <2>4 DEF IInv, Loop, Answered
    <3> QED
      BY <2>1, <3>1, RepeatedNames DEF IInv, Loop, Reported, Unlabelable, AskedTwice
  <2> QED
    BY <2>3, <2>4 DEF IInv, Loop, Answered, AnsweredUnlessRefused
<1> QED
  BY <1>1, IInvariant, PTL
===============================================================================
