-------------------------------- MODULE FluxRows --------------------------------
(***************************************************************************)
(* From a Flux response to the series of the perf collector: the rows of   *)
(* a response (internal/obsclient/flux.go), what each of the six queries   *)
(* makes of them and the literal of their time range                       *)
(* (internal/collector/perf.go), and the check of that range at startup    *)
(* (internal/config/config.go).  Durations are in milliseconds.            *)
(***************************************************************************)
EXTENDS Integers, Sequences

\* A cell is a text, and the number it parses as, if it does.
Text(t) == [text |-> t, number |-> {}]
Number(v) == [text |-> "number", number |-> {v}]

MetaColumns == {"table", "_start", "_stop", "_time", "_value", "_field", "_measurement"}

\* colIndex: of equal column names the last one counts.
IndexOf(columns, c) ==
  CHOOSE i \in DOMAIN columns :
    columns[i] = c /\ \A j \in DOMAIN columns : columns[j] = c => j <= i

ColumnsOf(columns) == {columns[i] : i \in DOMAIN columns}

\* The bug of reading the last cell of a row that is shorter than the header.
CellUnchecked(columns, row, c) ==
  IF c \in ColumnsOf(columns) /\ row # <<>>
  THEN {row[IF IndexOf(columns, c) <= Len(row) THEN IndexOf(columns, c) ELSE Len(row)]}
  ELSE {}

\* The cell of a row in column c: none if the column is missing or the row short.
Cell(columns, row, c) ==
  IF c \in ColumnsOf(columns) /\ IndexOf(columns, c) <= Len(row)
  THEN {row[IndexOf(columns, c)]}
  ELSE {}

\* ParseFloat of the _value cell: a row has one value or is passed over.
ValuesOf(columns, row) == UNION {cell.number : cell \in Cell(columns, row, "_value")}

\* A string field of a row, empty when there is no cell for it.
TextOf(columns, row, c) ==
  LET cells == Cell(columns, row, c)
  IN  IF cells = {} THEN "" ELSE (CHOOSE cell \in cells : TRUE).text

TagsOf(columns, row) ==
  [c \in {d \in ColumnsOf(columns) \ MetaColumns : Cell(columns, row, d) # {}} |->
     TextOf(columns, row, c)]

\* A FluxResult; Time and Measurement are read by nobody.
ResultOf(columns, row) ==
  [field |-> TextOf(columns, row, "_field"),
   value |-> CHOOSE v \in ValuesOf(columns, row) : TRUE,
   tags |-> TagsOf(columns, row)]

\* flattenFluxSeries, as far as each row; without a _value column no row has a
\* value.
Kept(series) ==
  LET kept[n \in 0..Len(series.values)] ==
        IF n = 0 THEN <<>>
        ELSE IF ValuesOf(series.columns, series.values[n]) = {} THEN kept[n - 1]
        ELSE Append(kept[n - 1], ResultOf(series.columns, series.values[n]))
  IN  kept

FlattenFluxSeries(series) == Kept(series)[Len(series.values)]

\* Client.Query, as far as each series: the results one after the other.
Appended(response) ==
  LET upTo[n \in 0..Len(response)] ==
        IF n = 0 THEN <<>> ELSE upTo[n - 1] \o FlattenFluxSeries(response[n])
  IN  upTo

QueryResults(response) == Appended(response)[Len(response)]

-------------------------------------------------------------------------------
\* The six queries; the server filters by measurement and tag.
PerfQueries ==
  {"throughput", "readTPS", "writeTPS", "readLatency", "writeLatency", "errors"}

\* What the switch over r.Field makes of a field.
Direction == [total_read_requests_size |-> "read", total_write_requests_size |-> "write"]
Counters == {"succeed_request_counter", "failed_request_counter"}
Category == [system_errors |-> "system", user_errors |-> "user"]

\* r.Tags["head"], empty when the row has none.
HeadOf(r) == IF "head" \in DOMAIN r.tags THEN r.tags["head"] ELSE ""

\* The fields a query's goroutine looks for, and the rows that have them.
FieldsFor == [throughput |-> DOMAIN Direction, errors |-> DOMAIN Category,
              readTPS |-> Counters, writeTPS |-> Counters,
              readLatency |-> {"p50"}, writeLatency |-> {"p50"}]
RowsOf(q, results) == {i \in DOMAIN results : results[i].field \in FieldsFor[q]}

\* The bug of a metric for each counter.
ItemsOfUnsummed(q, results) == RowsOf(q, results)

\* The metrics the goroutine adds: item i for the row i; or item 0, for sumTPS
\* and findField make one of all the rows, if there are any.
ItemsOf(q, results) ==
  IF q \in {"throughput", "errors"} THEN RowsOf(q, results)
  ELSE IF RowsOf(q, results) = {} THEN {} ELSE {0}

\* The series of an item: a name and two labels.
SeriesOfItem(q, results, i) ==
  IF q = "throughput" THEN <<"bytes", Direction[results[i].field], "">>
  ELSE IF q = "errors" THEN <<"errors", Category[results[i].field], HeadOf(results[i])>>
  ELSE <<q, "", "">>

\* sumTPS, as far as each row.
Sums(results) ==
  LET sum[n \in 0..Len(results)] ==
        IF n = 0 THEN 0
        ELSE sum[n - 1] + (IF results[n].field \in Counters THEN results[n].value ELSE 0)
  IN  sum

\* The bug of a counter that takes the place of the one before.
SumTPSLast(results) ==
  results[CHOOSE i \in DOMAIN results :
            /\ results[i].field \in Counters
            /\ \A j \in DOMAIN results : results[j].field \in Counters => j <= i].value

SumTPS(results) == Sums(results)[Len(results)]

\* findField: the value of the first row with that field.
FindField(results, field) ==
  results[CHOOSE i \in DOMAIN results :
            /\ results[i].field = field
            /\ \A j \in DOMAIN results : results[j].field = field => i <= j].value

\* A metric is <<series, v, exp>> for the value v * 10^exp; a latency comes in
\* milliseconds.
MetricOfItem(q, results, i) ==
  IF q \in {"throughput", "errors"} THEN <<SeriesOfItem(q, results, i), results[i].value, 0>>
  ELSE IF q \in {"readTPS", "writeTPS"} THEN <<SeriesOfItem(q, results, i), SumTPS(results), 0>>
  ELSE <<SeriesOfItem(q, results, i), FindField(results, "p50"), -3>>

PerfMetrics(q, results) == {MetricOfItem(q, results, i) : i \in ItemsOf(q, results)}

-------------------------------------------------------------------------------
MaxPerfRange == 3600 * 1000

\* The bug of a limit in whole hours.
ValidateHours(range) == range \div MaxPerfRange <= 1

\* app.Validate: only the upper bound of --collector.perf.range is checked.
Validate(range) == range <= MaxPerfRange

AbsOf(n) == IF n < 0 THEN -n ELSE n

\* Duration.Round(time.Second): a half goes away from zero.
RoundToSeconds(range) ==
  LET n == (AbsOf(range) + 500) \div 1000 IN IF range < 0 THEN -n ELSE n

\* The bug of not taking the hours off before the minutes.
MinutesOfAll(n) == n \div 60

\* The m of n seconds, without the hours.
MinutesOf(n) == (n % 3600) \div 60

\* A unit that is zero is left out.
Part(n, unit) == IF n > 0 THEN << <<n, unit>> >> ELSE <<>>

\* The bug of nothing at all for zero.
FluxDurationBlank(range) ==
  LET n == AbsOf(RoundToSeconds(range))
  IN  [negative |-> RoundToSeconds(range) < 0,
       parts |-> Part(n \div 3600, "h") \o Part(MinutesOf(n), "m") \o Part(n % 60, "s")]

\* fluxDuration: a sign, and the units that are not zero.
FluxDuration(range) ==
  LET n == AbsOf(RoundToSeconds(range))
  IN  [negative |-> RoundToSeconds(range) < 0,
       parts |-> IF n = 0 THEN << <<0, "s">> >>
                 ELSE Part(n \div 3600, "h") \o Part(MinutesOf(n), "m") \o Part(n % 60, "s")]
===============================================================================
