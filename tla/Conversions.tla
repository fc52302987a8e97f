------------------------------ MODULE Conversions ------------------------------
(***************************************************************************)
(* The computations between an answer of the API, or a setting, and what   *)
(* the exporter makes of it: each step takes one input and keeps it next   *)
(* to the output, for the properties to relate.                            *)
(***************************************************************************)
EXTENDS Decoding, FluxRows, FiniteSets

CONSTANTS LocalZones,   \* bodies of GetLocalZone
          NodeAnswers,  \* what GetNodes gives: {versions in order}, or {} for an error
          Groups,       \* replication groups
          Quotas,       \* bodies of GetNamespaceQuota
          Billings,     \* bodies of GetNamespaceBilling
          Responses,    \* Flux responses: sequences of series
          Results,      \* results of a Flux query
          Ranges        \* values of --collector.perf.range

\* A JSON value: only a text that parses has a number, and then one.
IsJSON(v) ==
  /\ v.form \in Textless \cup Texts
  /\ v.form \in Textless => v.number = {}
  /\ \A m, n \in v.number : m = n

\* The bodies have the fields the collectors read.
HaveFields(bodies, table) ==
  \A b \in bodies, r \in table : b[r.field] = <<>> \/ IsJSON(b[r.field][1])

\* A Flux series as encoding/json gives it: sequences, and cells of which a
\* number parses as one integer.
IsFluxSeries(s) ==
  /\ s.columns \in Seq(STRING)
  /\ DOMAIN s.values = 1..Len(s.values) /\ Len(s.values) \in Nat
  /\ \A k \in DOMAIN s.values :
       LET row == s.values[k]
       IN  /\ DOMAIN row = 1..Len(row) /\ Len(row) \in Nat
           /\ \A i \in DOMAIN row :
                /\ row[i].number \subseteq Int
                /\ \A m, n \in row[i].number : m = n

ASSUME BodiesAssumption ==
  /\ HaveFields(LocalZones, ClusterTable) /\ HaveFields(Groups, ReplicationTable)
  /\ HaveFields(Quotas, QuotaTable) /\ HaveFields(Billings, BillingTable)
  /\ \A q \in Quotas : \A v \in First(q["blockSize"]) : v \in Int

\* Values are integers, and a counter of requests is not negative.
ASSUME FluxAssumption ==
  /\ \A response \in Responses :
       /\ DOMAIN response = 1..Len(response) /\ Len(response) \in Nat
       /\ \A n \in DOMAIN response : IsFluxSeries(response[n])
  /\ \A results \in Results :
       /\ DOMAIN results = 1..Len(results) /\ Len(results) \in Nat
       /\ \A i \in DOMAIN results :
            /\ results[i].value \in Int
            /\ results[i].field \in Counters => results[i].value \in Nat
  /\ Ranges \subseteq Int

VARIABLES
  input,   \* <<kind, value>>; nothing yet: <<"none">>
  output   \* what came of it

vars == <<input, output>>

Init == input = <<"none">> /\ output = {}

Convert(kind, value, out) ==
  /\ input' = <<kind, value>>
  /\ output' = out

CollectCluster ==
  \E lz \in LocalZones, nodes \in NodeAnswers :
    Convert("cluster", lz, ClusterMetrics(lz, nodes))

\* One iteration of collectReplication.
CollectGroup ==
  \E g \in Groups : Convert("group", g, SeriesOf(ReplicationTable, g))

CollectQuota == \E q \in Quotas : Convert("quota", q, QuotaMetrics(q))

CollectBilling == \E b \in Billings : Convert("billing", b, SeriesOf(BillingTable, b))

RunQuery ==
  \E response \in Responses : Convert("query", response, QueryResults(response))

\* What a goroutine of collectPerf makes of the results.
CollectPerf ==
  \E q \in PerfQueries, results \in Results :
    Convert("perf", <<q, results>>, PerfMetrics(q, results))

\* Startup refuses the range, or every scrape uses its literal.
StartWithRange ==
  \E r \in Ranges :
    Convert("range", r, IF Validate(r) THEN <<FluxDuration(r)>> ELSE <<>>)

Next ==
  /\ input = <<"none">>
  /\ \/ CollectCluster \/ CollectGroup \/ CollectQuota \/ CollectBilling
     \/ RunQuery \/ CollectPerf \/ StartWithRange

Spec == Init /\ [][Next]_vars

-------------------------------------------------------------------------------
\* The metrics the API's values come to are one per series at most; a result has
\* a number; a literal has its three parts at most.
TypeOK ==
  /\ input[1] \in {"cluster", "group", "quota", "billing"} =>
       \A m, n \in output : m[1] = n[1] => m = n
  /\ input[1] = "query" => \A n \in DOMAIN output : output[n].value \in Int
  /\ input[1] = "range" /\ output # <<>> => Len(output[1].parts) \in 1..3

\* What the API sent for a field now, read off the JSON itself.
Sent(samples) ==
  IF samples # <<>> /\ samples[1].form \in Texts
  THEN samples[1].number ELSE {}

\* Every series of table has exactly the value that was sent for its field.
Faithful(table) ==
  \A r \in table :
    {m \in output : m[1] = SeriesOfRow(r)} =
      {<<SeriesOfRow(r), v, r.exp>> : v \in Sent(input[2][r.field])}

\* A field that is missing, null, empty or no number gives no series, never a
\* zero, and costs no other field its series; a number gives its own, bare or
\* quoted (types.go:17-31, and the collectors' `err == nil` guards).
NoFalseValue ==
  /\ input[1] = "cluster" =>
       /\ Faithful(ClusterTable)
       /\ \E info \in output : {m \in output : m[1][1] = "info"} = {info}
  /\ input[1] = "group" => Faithful(ReplicationTable)
  /\ input[1] = "billing" => Faithful(BillingTable)

\* A namespace without a quota has no quota series at all, neither a quota of
\* zero bytes nor a lone notification size (metering.go:99-113).
QuotaOnlyWhenSet ==
  input[1] = "quota" =>
    /\ output # {} <=> \E v \in Sent(input[2]["blockSize"]) : v > 0
    /\ output # {} => Faithful(QuotaTable)

\* The column of a row's value: of equal names the last one counts.
IsValueColumn(columns, i) ==
  /\ i \in DOMAIN columns /\ columns[i] = "_value"
  /\ \A j \in DOMAIN columns : columns[j] = "_value" => j <= i

HasValue(columns, row) ==
  \E i \in DOMAIN row : IsValueColumn(columns, i) /\ row[i].number # {}

\* <<n, k>> for each row k with a number in its _value cell, in each series n.
RowsWithValue(response) ==
  UNION {{n} \X {k \in DOMAIN response[n].values :
                   HasValue(response[n].columns, response[n].values[k])} :
           n \in DOMAIN response}

Before(a, b) == a[1] < b[1] \/ (a[1] = b[1] /\ a[2] < b[2])

\* The result says what stands in the row, each text under its own column.
Describes(result, columns, row) ==
  LET Under(c, t) == \E i \in DOMAIN row \cap DOMAIN columns : columns[i] = c /\ row[i].text = t
  IN  /\ \E i \in DOMAIN row : IsValueColumn(columns, i) /\ row[i].number = {result.value}
      /\ result.field # "" => Under("_field", result.field)
      /\ \A c \in DOMAIN result.tags : c \notin MetaColumns /\ Under(c, result.tags[c])

\* rowOf is the row of each of the results: all of rows, in order.
Traces(rowOf, results, response, rows) ==
  /\ \A g \in rows : \E n \in DOMAIN results : rowOf[n] = g
  /\ \A m, n \in DOMAIN results : m < n => Before(rowOf[m], rowOf[n])
  /\ \A n \in DOMAIN results :
       LET s == response[rowOf[n][1]]
       IN  Describes(results[n], s.columns, s.values[rowOf[n][2]])

\* A row without a number in its _value cell is passed over and costs no other
\* row its result; the results come in the order of the rows, and each describes
\* its own row, however short the rows are (flux.go:66-116).
RowsFaithful ==
  input[1] = "query" =>
    LET rows == RowsWithValue(input[2])
    IN  \E rowOf \in [DOMAIN output -> rows] : Traces(rowOf, output, input[2], rows)

CountersOf(results) == {i \in DOMAIN results : results[i].field \in Counters}

\* The requests a query's counters stand for, one by one.
RequestsOf(results) ==
  UNION {{i} \X (1..results[i].value) : i \in CountersOf(results)}

IsFirstP50(results, i) ==
  /\ results[i].field = "p50"
  /\ \A j \in DOMAIN results : results[j].field = "p50" => i <= j

\* A transaction rate counts the succeeded and the failed requests of all the
\* rows, none twice; a latency is that of the first row that has it; and without
\* such a row there is no metric, not a zero (perf.go:338-360).
OneMetricOfAllRows ==
  input[1] = "perf" =>
    LET q == input[2][1]
        results == input[2][2]
    IN  /\ q \in {"readTPS", "writeTPS"} =>
             output = {<<<<q, "", "">>, Cardinality(RequestsOf(results)), 0>> :
                         i \in CountersOf(results)}
        /\ q \in {"readLatency", "writeLatency"} =>
             output = {<<<<q, "", "">>, results[i].value, -3>> :
                         i \in {j \in DOMAIN results : IsFirstP50(results, j)}}

Unit == [h |-> 3600, m |-> 60, s |-> 1]

\* The seconds a literal of three parts at most denotes.
SecondsAt(parts, i) ==
  IF i \in DOMAIN parts THEN parts[i][1] * Unit[parts[i][2]] ELSE 0

SecondsOf(literal) ==
  LET n == SecondsAt(literal.parts, 1) + SecondsAt(literal.parts, 2) + SecondsAt(literal.parts, 3)
  IN  IF literal.negative THEN -n ELSE n

\* The literal denotes the range to the nearest second, has no part twice or
\* larger than the next unit, and is never empty (perf.go:113-146).
LiteralDenotesRange ==
  input[1] = "range" /\ output # <<>> =>
    LET parts == output[1].parts
    IN  /\ AbsOf(SecondsOf(output[1]) * 1000 - input[2]) <= 500
        /\ Len(parts) \in 1..3
        /\ \A i \in DOMAIN parts :
             /\ parts[i][2] \in {"m", "s"} => parts[i][1] < 60
             /\ \A j \in 1..i - 1 : Unit[parts[j][2]] > Unit[parts[i][2]]

\* No range the startup accepts asks Flux for more than its hour, even rounded
\* up; and the window is empty or lies ahead exactly for the ranges under half a
\* second that the check lets through (config.go:107-112, perf.go:152-156).
WithinFluxLimit ==
  input[1] = "range" =>
    /\ output # <<>> =>
         /\ SecondsOf(output[1]) <= 3600
         /\ SecondsOf(output[1]) <= 0 <=> input[2] < 500
    /\ output = <<>> => input[2] > 3600 * 1000
===============================================================================
